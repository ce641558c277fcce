SPECIFICATION Spec
CONSTANTS
  MaxUpdates = 3
  MaxFaults = 2
  MaxSnapshotFaults = 2
INVARIANT InStep
