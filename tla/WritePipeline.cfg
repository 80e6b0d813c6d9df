CONSTANTS
  User = {ann, bob}
  MaxWrites = 3
  kMaxPendingWrites = 2
  MaxTrouble = 3
SPECIFICATION Spec
CHECK_DEADLOCK FALSE
INVARIANTS StreamInStep PipelineInStep NoWriteIsStranded CallbacksInStep PromisedOrder
PROPERTIES KeepsPromise
