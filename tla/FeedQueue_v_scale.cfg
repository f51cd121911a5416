SPECIFICATION QueueSpec
CONSTANTS
  Half = 8
  Factors <- SomeFactors
  MaxTransforms = 1
  MaxCallbacks = 1
  MaxPackets = 3
  Alloc = 2
  Meanings = {1}
  MaxSubmit = 2
  MaxSamples = 4
CHECK_DEADLOCK FALSE
INVARIANT ScaledOnce
