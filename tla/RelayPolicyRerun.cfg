SPECIFICATION Spec
CONSTANTS
  Procs = {p1}
  Tokens = {t1}
  NoProc = NoProc
  None = None
  EtcUnitWins = TRUE
  OldUnit = TRUE
  DeployAnytime = FALSE
INVARIANTS
  RerunCanInstall
