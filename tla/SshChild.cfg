SPECIFICATION SshSpec
CONSTANTS
  Capacity = 2
INVARIANTS
  OwnKillIsNoFailure
PROPERTIES
  StopsWhenAsked
CHECK_DEADLOCK FALSE
