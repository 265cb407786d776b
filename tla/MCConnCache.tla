---------------------------- MODULE MCConnCache ----------------------------
(* The instance of ConnCache for TLC. *)
EXTENDS ConnCache
=============================================================================
