SPECIFICATION Spec
CONSTANTS
  MaxUpdates = 3
  MaxFaults = 2
  MaxSnapshotFaults = 1
INVARIANT TypeOK
INVARIANT RecoveryInv
INVARIANT InStep
INVARIANT NoRollback
PROPERTY CatchesUp
