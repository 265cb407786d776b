----------------------------- MODULE MCDirSync -----------------------------
(* Instances of DirSync for TLC: the changes ask for different directories. *)
EXTENDS DirSync, TLC
CONSTANTS c1, c2, a, b
Target == c1 :> a @@ c2 :> b
TargetOne == c1 :> a
=============================================================================
