SPECIFICATION Spec
CONSTANTS
  session = session
  old_session = old_session
  db = db
  config = config
  rest = rest
  log = log
  skill = skill
  fresh = fresh
  Items = {session, skill}
  Names = {"db", "jsonc", "misc"}
  Home <- MCHome
  Written <- MCWritten
INVARIANTS
  LiveDataStays
