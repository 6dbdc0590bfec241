SPECIFICATION FairSpec
CONSTANTS
  ByteBits = 2
  Clients <- TwoClients
  Cuts = {2}
  BufferBytes = 7
  Misaligned <- SomeLengths
  Queries <- SomeQueries
  Outputs <- SomeOutputs
INVARIANTS SessionOK RightText PrintsTheAnswer QueueNotRaced
PROPERTY QueryEnds
CHECK_DEADLOCK FALSE
