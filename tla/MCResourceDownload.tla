------------------------- MODULE MCResourceDownload -------------------------
(* Instances of ResourceDownload for TLC. *)
EXTENDS ResourceDownload

CONSTANT r1   (* the resource attached *)
=============================================================================
