--------------------------- MODULE MCAssetReconcile ---------------------------
(***************************************************************************)
(* A small instance of AssetReconcile: two files, and three generations    *)
(* that change, drop and add one of them; two generations share their      *)
(* revision.  The legacy tree holds one file.                              *)
(***************************************************************************)
EXTENDS AssetReconcile, TLC

CONSTANTS f1, f2, old, new, mine

MCWant == "g1" :> (f1 :> new @@ f2 :> old)
       @@ "g2" :> (f1 :> old @@ f2 :> None)
       @@ "g3" :> (f1 :> None @@ f2 :> new)
MCRev  == "g1" :> "r1" @@ "g2" :> "r2" @@ "g3" :> "r2"
MCLegacy == f1 :> old @@ f2 :> None
=============================================================================
