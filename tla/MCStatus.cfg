SPECIFICATION Spec
CHECK_DEADLOCK FALSE
CONSTANTS
  Agents = {g1, g2}
  Attempts = 3
  MaxCalls = 2
  MaxWipes = 1
INVARIANT StatusInv
INVARIANT RefusalsPaid
PROPERTY ImplementsStore
