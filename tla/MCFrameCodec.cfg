CONSTANTS
  None = None
  Packets <- MCPackets
  ClientPackets <- MCClientPackets
  ProxyChannel <- MCProxyChannel
  MaxFrames <- MCMaxFrames
  MaxPerState <- MCMaxPerState
  MaxClientFrames <- MCMaxClientFrames
SPECIFICATION Spec
INVARIANT FramesIntact
INVARIANT ForwardedIntact
INVARIANT CommandsDiverted
INVARIANT ClientFramesIntact
