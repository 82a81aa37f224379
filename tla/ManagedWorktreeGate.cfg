SPECIFICATION Spec
CONSTANTS
  Procs = {p1, p2}
  Tasks = {t1}
  MaxCommits = 1
  Activation = FALSE
PROPERTIES
  MergesOnlyReady
