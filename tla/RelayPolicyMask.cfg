SPECIFICATION Spec
CONSTANTS
  Procs = {p1, p2}
  Tokens = {t1, t2}
  NoProc = NoProc
  None = None
  EtcUnitWins = FALSE
  OldUnit = FALSE
  DeployAnytime = FALSE
SYMMETRY Symmetry
PROPERTIES
  ReplaceOnlyWhileStopped
  FailStopHolds
