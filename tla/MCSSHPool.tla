----------------------------- MODULE MCSSHPool -----------------------------
(* Instances of SSHPool for TLC; the run that looks for a single bad state
   needs no fairness. *)
EXTENDS SSHPool

SafetySpec == Init /\ [][Next]_vars
=============================================================================
