SPECIFICATION Spec
CONSTANTS
  Procs = {p1, p2}
  Tasks = {t1}
  MaxCommits = 2
  Activation = TRUE
SYMMETRY Symmetry
INVARIANTS
  LockExclusive
  RecordHasWorktree
  IntegratedStaysMerged
PROPERTIES
  RollbackRestores
