\* Every relation of up to 5 mappings on 4 keys, searched in every order.
SPECIFICATION MCFairSpec
CONSTANTS
  Keys = {k1, k2, k3, k4}
  MaxMappings = 5
INVARIANTS Sound CycleFoundExactly CompleteAwayFromCycles
PROPERTY ClosingTerminates
\* The search is over once.
CHECK_DEADLOCK FALSE
