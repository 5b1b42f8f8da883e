---------------------------- MODULE BoundedQueue ----------------------------
(***************************************************************************)
(* What a byte FIFO promises its callers: a first-in first-out queue of at  *)
(* most Capacity bytes.  A put on a full queue is refused and changes       *)
(* nothing; a get hands over the oldest bytes, as many as were asked for    *)
(* or as there are.  GsmFifo implements this specification.                 *)
(***************************************************************************)
EXTENDS Integers, Sequences

CONSTANTS
  Byte,       (* the values a FIFO cell can hold           *)
  Capacity,   (* the greatest number of bytes held         *)
  GetSizes    (* the sizes a caller asks for in one get    *)

VARIABLES
  queue,      (* the bytes held, oldest first              *)
  out,        (* the bytes the last get handed over        *)
  ret         (* the value the last put or get returned    *)

vars == <<queue, out, ret>>

Lesser(i, j) == IF i < j THEN i ELSE j

TypeOK ==
  /\ queue \in Seq(Byte)
  /\ out \in Seq(Byte)
  /\ ret \in Nat

Init ==
  /\ queue = <<>>
  /\ out = <<>>
  /\ ret = 0

Clear ==
  /\ queue' = <<>>
  /\ UNCHANGED <<out, ret>>

PutAccepted(ch) ==
  /\ Len(queue) < Capacity
  /\ queue' = Append(queue, ch)
  /\ ret' = 1
  /\ UNCHANGED out

PutRefused ==
  /\ Len(queue) >= Capacity
  /\ ret' = 0
  /\ UNCHANGED <<queue, out>>

Get(n) ==
  LET k == Lesser(n, Len(queue)) IN
  /\ out' = SubSeq(queue, 1, k)
  /\ queue' = SubSeq(queue, k + 1, Len(queue))
  /\ ret' = k

Next ==
  \/ Clear
  \/ \E ch \in Byte : PutAccepted(ch)
  \/ PutRefused
  \/ \E n \in GetSizes : Get(n)

Spec == Init /\ [][Next]_vars
=============================================================================
