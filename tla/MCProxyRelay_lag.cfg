CONSTANTS
  MaxPlay <- MCMaxPlay
  MaxCmds <- MCMaxCmds
  ChanCap <- MCChanCap
  DecoderMayFail = TRUE
SPECIFICATION Spec
INVARIANT ServerStreamIntact
