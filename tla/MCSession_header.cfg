SPECIFICATION Spec
CONSTANTS
  ByteBits = 2
  Clients <- TwoClients
  Cuts = {2}
  BufferBytes = 7
  Misaligned <- SomeLengths
  Queries <- SomeQueries
  Outputs <- SomeOutputs
INVARIANT TrueMeansCompiled
CHECK_DEADLOCK FALSE
