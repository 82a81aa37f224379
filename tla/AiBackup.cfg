SPECIFICATION Spec
CONSTANTS
  macm5 = macm5
  t14 = t14
  bare = bare
  projects = projects
  claude_json = claude_json
  extra = extra
  main_db = main_db
  stable_db = stable_db
  Machines = {macm5, t14, bare}
  Aside = {projects}
  Copied = {claude_json}
  Loose = {extra}
  Extras = {extra}
  Trees = {projects, extra}
  OpenCode = {main_db, stable_db}
  Engram = {}
  Remote = {t14}
  Has <- MCHas
  Written = {projects, main_db}
  Empty <- MCEmpty
  Orig = orig
  Mine = mine
  Damaged = {stable_db}
  None = None
INVARIANTS
  CompleteIsWhole
PROPERTIES
  NothingLost
