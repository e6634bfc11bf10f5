SPECIFICATION Spec
CONSTANTS
  MaxWorkers = 3
  MaxTasks = 6
INVARIANTS ExactlyOnce ParallelismKept IdleMeansQuiet
PROPERTIES SessionEnds ImplementsBatches
