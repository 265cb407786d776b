------------------------------ MODULE MCAISend ------------------------------
(* Instances of AISend for TLC; the run that looks for a lost entry needs no
   fairness. *)
EXTENDS AISend

SafetySpec == Init /\ [][Next]_vars
=============================================================================
