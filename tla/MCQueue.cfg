SPECIFICATION Spec
CONSTANTS
  Capacity = 4
  MaxWrites = 9
INVARIANT TypeOK
INVARIANT InOrder
INVARIANT NoRace
INVARIANT FlushedOnClose
INVARIANT QueueInv
PROPERTY Closes
