SPECIFICATION FairSpec
CONSTANTS
  QwU = 4
  ByteU = 2
  Fifo = 2
  SlotQw = 2
  Slots = 3
  Peek = 4
  Commands <- MCCommands
  Frames <- MCFrames
  Streams <- MCStreams
  MaxCmds = 2
  MaxStops = 1
  MaxHolds = 1
INVARIANTS
  TypeOK
  StreamExact
  StrTruthful
PROPERTIES
  ResultExact
  Answered
