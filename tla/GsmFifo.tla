------------------------------- MODULE GsmFifo -------------------------------
(***************************************************************************)
(* The receive FIFO of a TCP client (heraclesGsm/GsmFifo.c): an array of    *)
(* FIFO_SIZE cells with a write index w and a read index r.  The FIFO is    *)
(* empty when w = r, so it holds at most FIFO_SIZE - 1 bytes.               *)
(*                                                                         *)
(* GsmFifo_Get copies in a loop, one contiguous piece of the array at each  *)
(* turn; a turn is a step here, and w, r and the caller's buffer are as the  *)
(* C variables are between two turns.                                       *)
(***************************************************************************)
EXTENDS Integers, Sequences

CONSTANTS
  Byte,        (* the values of a cell                                      *)
  FIFO_SIZE,   (* the number of cells (64 in the code)                      *)
  GetSizes     (* the sizes callers ask GsmFifo_Get for; none is negative   *)

ASSUME FifoSizeAssumption == FIFO_SIZE \in Nat \ {0}
ASSUME GetSizesAssumption == GetSizes \subseteq Nat

VARIABLES
  b,       (* the cells, obj->_b                                            *)
  w,       (* the next cell to write, obj->_w                               *)
  r,       (* the next cell to read, obj->_r                                *)
  getting, (* is a call of GsmFifo_Get under way?                           *)
  n,       (* its argument n                                                *)
  c,       (* the bytes it still has to copy                                *)
  p,       (* the bytes it has copied so far                                *)
  out,     (* the bytes the last GsmFifo_Get gave its caller                *)
  ret      (* the value the last GsmFifo_Put or GsmFifo_Get returned        *)

vars == <<b, w, r, getting, n, c, p, out, ret>>

Cells == 0 .. (FIFO_SIZE - 1)

(* Mutant: an increment that forgets to wrap. *)
IncWithoutWrap(i, k) == IF k = 1 THEN i + k ELSE (i + k) % FIFO_SIZE

Inc(i, k) == (i + k) % FIFO_SIZE

Size == IF w - r < 0 THEN w - r + FIFO_SIZE ELSE w - r

(* Mutant: a free size that counts the cell which is always left free. *)
FreeSizeOfAllCells == IF r - w <= 0 THEN r - w + FIFO_SIZE ELSE r - w

FreeSize == (IF r - w <= 0 THEN r - w + FIFO_SIZE ELSE r - w) - 1

(* The bytes held, oldest first. *)
Content == [i \in 1 .. Size |-> b[Inc(r, i - 1)]]

Lesser(i, j) == IF i < j THEN i ELSE j

-----------------------------------------------------------------------------
(* The array comes from static or zeroed storage, so no cell is undefined.  *)
Init ==
  /\ b \in {[i \in Cells |-> x] : x \in Byte}
  /\ w = 0
  /\ r = 0
  /\ getting = FALSE
  /\ n = 0
  /\ c = 0
  /\ p = <<>>
  /\ out = <<>>
  /\ ret = 0

Clear ==
  /\ ~getting
  /\ w' = 0
  /\ r' = 0
  /\ UNCHANGED <<b, getting, n, c, p, out, ret>>

PutFull ==
  /\ ~getting
  /\ Inc(w, 1) = r
  /\ ret' = 0
  /\ UNCHANGED <<b, w, r, getting, n, c, p, out>>

(* Mutant: a put without the test for a full FIFO. *)
PutUnchecked(ch) ==
  /\ ~getting
  /\ b' = [b EXCEPT ![w] = ch]
  /\ w' = Inc(w, 1)
  /\ ret' = 1
  /\ UNCHANGED <<r, getting, n, c, p, out>>

PutStored(ch) ==
  /\ ~getting
  /\ Inc(w, 1) # r
  /\ b' = [b EXCEPT ![w] = ch]
  /\ w' = Inc(w, 1)
  /\ ret' = 1
  /\ UNCHANGED <<r, getting, n, c, p, out>>

GetCall(k) ==
  /\ ~getting
  /\ getting' = TRUE
  /\ n' = k
  /\ c' = k
  /\ p' = <<>>
  /\ UNCHANGED <<b, w, r, out, ret>>

(* Mutant: a piece that stops one cell before the end of the array. *)
PieceShortOfEnd == Lesser(Lesser(c, Size), FIFO_SIZE - 1 - r)

(* The bytes one turn of the loop copies: what is still wanted, what the    *)
(* FIFO holds, and never past the end of the array.                         *)
Piece == Lesser(Lesser(c, Size), FIFO_SIZE - r)

GetPiece ==
  /\ getting
  /\ c # 0
  /\ Size # 0
  /\ p' = p \o [i \in 1 .. Piece |-> b[r + i - 1]]
  /\ r' = Inc(r, Piece)
  /\ c' = c - Piece
  /\ UNCHANGED <<b, w, getting, n, out, ret>>

GetReturn ==
  /\ getting
  /\ c = 0 \/ Size = 0
  /\ getting' = FALSE
  /\ out' = p
  /\ ret' = n - c
  /\ n' = 0
  /\ c' = 0
  /\ p' = <<>>
  /\ UNCHANGED <<b, w, r>>

Next ==
  \/ Clear
  \/ PutFull
  \/ \E ch \in Byte : PutStored(ch)
  \/ \E k \in GetSizes : GetCall(k)
  \/ GetPiece
  \/ GetReturn

(* The loop of GsmFifo_Get runs without interruption once it is called.     *)
Spec == Init /\ [][Next]_vars /\ WF_vars(GetPiece) /\ WF_vars(GetReturn)

-----------------------------------------------------------------------------
(* Every variable has its type, and the progress of GsmFifo_Get is          *)
(* accounted for: what it has copied and what it still wants make up what   *)
(* it was asked for.                                                        *)
TypeOK ==
  /\ b \in [Cells -> Byte]
  /\ w \in Cells
  /\ r \in Cells
  /\ getting \in BOOLEAN
  /\ n \in Nat
  /\ c \in Nat
  /\ p \in Seq(Byte)
  /\ out \in Seq(Byte)
  /\ ret \in Nat
  /\ Len(p) + c = n
  /\ getting => n \in GetSizes
  /\ ~getting => p = <<>> /\ n = 0 /\ c = 0

(* GsmFifo_FreeSize is exactly the number of puts that will be accepted,    *)
(* whichever way round the indices are: HeraclesModem__Read asks the modem  *)
(* for that many bytes and ignores what GsmFifo_Put returns.                *)
FreeSizeIsRoomLeft == FreeSize = (FIFO_SIZE - 1) - Len(Content)

(* The FIFO as the queue it implements.  The bytes a running GsmFifo_Get    *)
(* has already copied leave the queue when the call returns.                *)
Queue == INSTANCE BoundedQueue WITH
           Capacity <- FIFO_SIZE - 1,
           queue <- p \o Content

(* GsmFifo_Clear, _Put and _Get, with their wrapping indices and the        *)
(* piecewise copy, behave as a bounded first-in first-out queue: no byte is *)
(* lost, repeated or reordered, a put is refused only when FIFO_SIZE - 1    *)
(* bytes are held, and a get returns what it copied.                        *)
ImplementsQueue == Queue!Spec

(* The copy loop of GsmFifo_Get always ends.                                *)
GetTerminates == getting ~> ~getting
=============================================================================
