--------------------------- MODULE MCKafkaClients ---------------------------
(* Instances of KafkaClients for TLC: an asset with two configurations and an
   asset with one. *)
EXTENDS KafkaClients

CONSTANTS k1, k2, k3, a1, a2
AssetOf == [k \in Keys |-> IF k = k3 THEN a2 ELSE a1]
=============================================================================
