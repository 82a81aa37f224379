SPECIFICATION FairSpec
CONSTANTS
  Procs = {p1, p2}
  Tokens = {t1, t2}
  NoProc = NoProc
  None = None
  EtcUnitWins = TRUE
  OldUnit = TRUE
  DeployAnytime = FALSE
INVARIANTS
  TypeOK
  ServedIsLive
  ReplacementIsInhibited
  RevocationSticks
  DurableSuccess
PROPERTIES
  ReplaceOnlyWhileStopped
  FailStopHolds
  PromiseSpec
  LockReleased
