------------------------------ MODULE MCJsonText ------------------------------
(* Instances of JsonText for TLC. *)
EXTENDS JsonText
=============================================================================
