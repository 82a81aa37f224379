SPECIFICATION NetSpec
CONSTANTS
  Attempts = 2
  MaxRuns = 3
INVARIANTS
  ReadyIsLogged
