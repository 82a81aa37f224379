SPECIFICATION SshSpec
CONSTANTS
  Capacity = 2
INVARIANTS
  CtrlCIsClean
CHECK_DEADLOCK FALSE
