SPECIFICATION FairSpec
CONSTANTS
  MaxCalls = 2
  MaxStops = 2
  Faults = TRUE
  Privileged = FALSE
INVARIANTS TrueMeansSuccess FalseMeansFailure NoChildLeft CommandIsExecuted
PROPERTIES ExecReturns
