SPECIFICATION Spec
CONSTANTS
  Procs = {p1}
  Tokens = {t1}
  NoProc = NoProc
  None = None
  MaxGen = 2
INVARIANTS
  LaterOnFindsJob
