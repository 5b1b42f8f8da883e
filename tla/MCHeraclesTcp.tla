---------------------------- MODULE MCHeraclesTcp ----------------------------
(* Instances of HeraclesTcp for TLC. *)
EXTENDS HeraclesTcp
=============================================================================
