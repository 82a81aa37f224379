--------------------------- MODULE PolicyPromotion ---------------------------
(***************************************************************************)
(* What the relay's promotion transaction promises, whatever fails: a live *)
(* policy, a server that enforces it, and a hold.  The policy is replaced  *)
(* only on a held, stopped server; the hold keeps the server down and ends *)
(* only while it is down; a crash may undo a replacement, but then it      *)
(* leaves the hold.                                                        *)
(***************************************************************************)
CONSTANTS Policies, None, Initial

VARIABLES live,     \* the policy a server would load
          running,  \* a server is coming up, up, or going down
          serving,  \* the policy it has loaded, or None
          held      \* the server must not start

pvars == <<live, running, serving, held>>

PInit == live = Initial /\ running = FALSE /\ serving = None /\ held \in BOOLEAN

Hold == held' = TRUE /\ UNCHANGED <<live, running, serving>>

Release ==
  /\ ~running
  /\ held' = FALSE
  /\ UNCHANGED <<live, running, serving>>

Replace ==
  /\ held /\ ~running
  /\ live' \in Policies
  /\ UNCHANGED <<running, serving, held>>

Start ==
  /\ ~held /\ ~running
  /\ running' = TRUE
  /\ UNCHANGED <<live, serving, held>>

Load ==
  /\ running /\ serving = None
  /\ serving' = live
  /\ UNCHANGED <<live, running, held>>

Stop ==
  /\ running
  /\ running' = FALSE /\ serving' = None
  /\ UNCHANGED <<live, held>>

\* A crash stops the server; a replacement it undoes is still held.
Crash ==
  /\ running' = FALSE /\ serving' = None
  /\ live' \in Policies /\ held' \in BOOLEAN
  /\ (live' # live => held')

PNext == Hold \/ Release \/ Replace \/ Start \/ Load \/ Stop \/ Crash

PSpec == PInit /\ [][PNext]_pvars
=============================================================================
