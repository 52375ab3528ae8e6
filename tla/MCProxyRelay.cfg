CONSTANTS
  MaxPlay <- MCMaxPlay
  MaxCmds <- MCMaxCmds
  ChanCap <- MCChanCap
  DecoderMayFail = FALSE
SPECIFICATION Spec
INVARIANT TypeOK
INVARIANT ServerStreamIntact
INVARIANT ServerCodecInSync
PROPERTY CommandsAnswered
