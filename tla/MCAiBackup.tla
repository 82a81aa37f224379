------------------------------ MODULE MCAiBackup ------------------------------
(***************************************************************************)
(* A small instance of AiBackup: two machines whose OpenCode uses different*)
(* channels, and one with an empty database; one member of a kind.         *)
(***************************************************************************)
EXTENDS AiBackup

CONSTANTS macm5, t14, bare, projects, claude_json, extra, main_db, stable_db

MCHas == [m \in Machines |->
  CASE m = macm5 -> {projects, claude_json, extra, main_db}
    [] m = t14   -> {projects, extra, stable_db}
    [] OTHER     -> {projects, stable_db}]
MCEmpty == [m \in Machines |-> IF m = bare THEN {stable_db} ELSE {}]
=============================================================================
