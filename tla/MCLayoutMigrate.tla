---------------------------- MODULE MCLayoutMigrate ----------------------------
(***************************************************************************)
(* A small instance of LayoutMigrate: a file of each kind that may exist   *)
(* at first, and one that OpenCode creates while migrations run.           *)
(***************************************************************************)
EXTENDS LayoutMigrate

CONSTANTS session, old_session, db, config, rest, log, skill, fresh

In(d, n) == [dir |-> d, name |-> n]
MCHome == [i \in Items |->
  CASE i = session     -> In("share", "misc")
    [] i = old_session -> In("data", "misc")
    [] i = db          -> In("lrun", "db")
    [] i = config      -> In("lconf", "jsonc")
    [] i = rest        -> In("lrun", "misc")
    [] i = log         -> In("lenv", "misc")
    [] i = skill       -> In("skills", "misc")
    [] OTHER           -> Absent]
MCWritten == {In("share", "db"), In("lrun", "misc"), In("data", "misc")}
=============================================================================
