CONSTANTS
  MaxPlay <- MCMaxPlay
  MaxCmds <- MCMaxCmds
  ChanCap <- MCChanCap
  DecoderMayFail = FALSE
SPECIFICATION Spec
INVARIANT FramingAgreement
