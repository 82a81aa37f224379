SPECIFICATION Spec
CONSTANTS
  session = session
  old_session = old_session
  db = db
  config = config
  rest = rest
  log = log
  skill = skill
  fresh = fresh
  Items = {session, old_session, db, rest, fresh}
  Names = {"db", "jsonc", "misc"}
  Home <- MCHome
  Written <- MCWritten
INVARIANTS
  TypeOK
  ResumeAccepted
  SameResult
PROPERTIES
  NothingLost
