SPECIFICATION Spec
CONSTANTS
  Procs = {p1}
  Tasks = {t1}
  MaxCommits = 1
  Activation = TRUE
PROPERTIES
  FailedValidationUnmerges
