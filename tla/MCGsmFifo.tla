------------------------------ MODULE MCGsmFifo ------------------------------
(* Instance of GsmFifo for TLC: 4 cells, 2 byte values, and every size of    *)
(* get from none to one more than the FIFO can hold, so that both indices   *)
(* wrap and a get needs one piece, two pieces, or finds too few bytes.      *)
EXTENDS GsmFifo

MCGetSizes == 0 .. FIFO_SIZE
=============================================================================
