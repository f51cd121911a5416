SPECIFICATION QueueSpec
CONSTANTS
  Half = 8
  Factors <- SomeFactors
  MaxTransforms = 2
  MaxCallbacks = 2
  MaxPackets = 3
  Alloc = 2
  Meanings = {1, 2}
  MaxSubmit = 2
  MaxSamples = 3
CHECK_DEADLOCK FALSE
INVARIANT SendTransforms
INVARIANT CallbacksInStep
INVARIANT InOrder
INVARIANT MeaningKept
INVARIANT TriggerInPlace
