---------------------------- MODULE GsmFifoProofs ----------------------------
(***************************************************************************)
(* GsmFifo implements BoundedQueue for every FIFO size, byte set and set of *)
(* get sizes.                                                               *)
(***************************************************************************)
EXTENDS GsmFifo, SequenceTheorems, TLAPS

(* The wrapping increment, without the remainder: an index moved by at most *)
(* FIFO_SIZE cells either stays in the array or comes round once.           *)
LEMMA IncWraps ==
  ASSUME NEW i \in Cells, NEW k \in 0 .. FIFO_SIZE
  PROVE  /\ Inc(i, k) = IF i + k < FIFO_SIZE THEN i + k ELSE i + k - FIFO_SIZE
         /\ Inc(i, k) \in Cells
<1>1. FIFO_SIZE \in Nat /\ FIFO_SIZE > 0
  BY FifoSizeAssumption
<1>2. CASE i + k < FIFO_SIZE
  <2>1. (i + k) % FIFO_SIZE = i + k
    BY <1>1, <1>2 DEF Cells
  <2>2. QED
    BY <1>1, <1>2, <2>1 DEF Cells, Inc
<1>3. CASE i + k >= FIFO_SIZE
  <2>1. (i + k) % FIFO_SIZE = i + k - FIFO_SIZE
    BY <1>1, <1>3 DEF Cells
  <2>2. QED
    BY <1>1, <1>3, <2>1 DEF Cells, Inc
<1>4. QED
  BY <1>1, <1>2, <1>3 DEF Cells

(* The size is that of a queue of at most FIFO_SIZE - 1 bytes, and the free *)
(* size is what it lacks to be full.                                        *)
LEMMA SizeBounds ==
  ASSUME TypeOK
  PROVE  /\ Size \in 0 .. (FIFO_SIZE - 1)
         /\ FreeSize = FIFO_SIZE - 1 - Size
         /\ Size = 0 <=> w = r
         /\ w = Inc(r, Size)
<1>1. /\ FIFO_SIZE \in Nat /\ FIFO_SIZE > 0
      /\ w \in 0 .. (FIFO_SIZE - 1) /\ r \in 0 .. (FIFO_SIZE - 1)
  BY FifoSizeAssumption DEF TypeOK, Cells
<1>2. Size \in 0 .. (FIFO_SIZE - 1)
  BY <1>1 DEF Size
<1>3. Inc(r, Size) = IF r + Size < FIFO_SIZE THEN r + Size ELSE r + Size - FIFO_SIZE
  BY <1>1, <1>2, IncWraps DEF Cells
<1>4. QED
  BY <1>1, <1>2, <1>3 DEF Size, FreeSize

LEMMA ContentIsSequence ==
  TypeOK => Content \in Seq(Byte) /\ Len(Content) = Size
<1> SUFFICES ASSUME TypeOK
             PROVE  Content \in Seq(Byte) /\ Len(Content) = Size
  OBVIOUS
<1>1. Size \in Nat
  BY SizeBounds, FifoSizeAssumption
<1>2. \A i \in 1 .. Size : b[Inc(r, i - 1)] \in Byte
  <2> TAKE i \in 1 .. Size
  <2>1. i - 1 \in 0 .. FIFO_SIZE /\ r \in Cells
    BY SizeBounds, FifoSizeAssumption DEF TypeOK
  <2>2. Inc(r, i - 1) \in Cells
    BY <2>1, IncWraps
  <2>3. QED
    BY <2>2 DEF TypeOK
<1>3. QED
  BY <1>1, <1>2 DEF Content

(* A turn of the copy loop always makes progress, asks for no more than is  *)
(* wanted or held, and stays inside the array.                              *)
LEMMA PieceBounds ==
  ASSUME TypeOK, c # 0, Size # 0
  PROVE  /\ Piece \in 1 .. (FIFO_SIZE - r)
         /\ Piece <= c
         /\ Piece <= Size
         /\ r \in 0 .. (FIFO_SIZE - 1)
         /\ FIFO_SIZE \in Nat /\ FIFO_SIZE > 0
<1>1. /\ FIFO_SIZE \in Nat /\ FIFO_SIZE > 0
      /\ r \in 0 .. (FIFO_SIZE - 1)
      /\ c \in Nat
  BY FifoSizeAssumption DEF TypeOK, Cells
<1>2. Size \in 1 .. (FIFO_SIZE - 1)
  BY SizeBounds, <1>1
<1>3. QED
  BY <1>1, <1>2 DEF Piece, Lesser

LEMMA PieceIsSequence ==
  ASSUME TypeOK, c # 0, Size # 0
  PROVE  /\ [i \in 1 .. Piece |-> b[r + i - 1]] \in Seq(Byte)
         /\ Len([i \in 1 .. Piece |-> b[r + i - 1]]) = Piece
<1>1. /\ Piece \in 1 .. (FIFO_SIZE - r)
      /\ r \in 0 .. (FIFO_SIZE - 1)
      /\ FIFO_SIZE \in Nat /\ FIFO_SIZE > 0
  BY PieceBounds
<1>2. \A i \in 1 .. Piece : b[r + i - 1] \in Byte
  <2> TAKE i \in 1 .. Piece
  <2>1. r + i - 1 \in Cells
    BY <1>1 DEF Cells
  <2>2. QED
    BY <2>1 DEF TypeOK
<1>3. Piece \in Nat
  BY <1>1
<1> HIDE DEF Piece
<1>4. QED
  BY <1>2, <1>3

-----------------------------------------------------------------------------
(* Type correctness of GsmFifo and the accounting of GsmFifo_Get, for every *)
(* value of the constants.                                                  *)
THEOREM TypeCorrect == Spec => []TypeOK
<1>1. Init => TypeOK
  <2> SUFFICES ASSUME Init
               PROVE  TypeOK
    OBVIOUS
  <2>1. b \in [Cells -> Byte]
    BY DEF Init
  <2>2. 0 \in Cells
    BY FifoSizeAssumption DEF Cells
  <2>3. <<>> \in Seq(Byte) /\ Len(<<>>) = 0
    OBVIOUS
  <2>4. QED
    BY <2>1, <2>2, <2>3 DEF Init, TypeOK
<1>2. TypeOK /\ [Next]_vars => TypeOK'
  <2> SUFFICES ASSUME TypeOK, [Next]_vars
               PROVE  TypeOK'
    OBVIOUS
  <2>1. CASE Clear
    BY <2>1, FifoSizeAssumption DEF Clear, TypeOK, Cells
  <2>2. CASE PutFull
    BY <2>2 DEF PutFull, TypeOK
  <2>3. ASSUME NEW ch \in Byte, PutStored(ch)
        PROVE  TypeOK'
    <3>1. Inc(w, 1) \in Cells
      BY IncWraps, FifoSizeAssumption DEF TypeOK
    <3>2. QED
      BY <2>3, <3>1 DEF PutStored, TypeOK
  <2>4. ASSUME NEW k \in GetSizes, GetCall(k)
        PROVE  TypeOK'
    BY <2>4, GetSizesAssumption DEF GetCall, TypeOK
  <2>5. CASE GetPiece
    <3> DEFINE s == [i \in 1 .. Piece |-> b[r + i - 1]]
    <3>1. /\ Piece \in 1 .. (FIFO_SIZE - r)
          /\ Piece <= c
          /\ r \in 0 .. (FIFO_SIZE - 1)
          /\ FIFO_SIZE \in Nat /\ FIFO_SIZE > 0
      BY <2>5, PieceBounds DEF GetPiece
    <3>2. Inc(r, Piece) \in Cells
      BY <3>1, IncWraps DEF Cells
    <3>3. s \in Seq(Byte) /\ Len(s) = Piece
      BY <2>5, PieceIsSequence DEF GetPiece
    <3>4. p' \in Seq(Byte) /\ Len(p') = Len(p) + Piece
      <4> HIDE DEF s
      <4>1. p \in Seq(Byte)
        BY DEF TypeOK
      <4>2. p' = p \o s
        BY <2>5 DEF GetPiece, s
      <4>3. QED
        BY <3>3, <4>1, <4>2
    <3>5. c' \in Nat /\ Len(p') + c' = n'
      <4> HIDE DEF s
      <4>1. /\ c' = c - Piece /\ n' = n /\ c \in Nat /\ n \in Nat
            /\ Len(p) \in Nat /\ Len(p) + c = n
        BY <2>5 DEF GetPiece, TypeOK
      <4>2. QED
        BY <3>1, <3>4, <4>1
    <3>6. QED
      BY <2>5, <3>2, <3>4, <3>5 DEF GetPiece, TypeOK
  <2>6. CASE GetReturn
    <3>1. <<>> \in Seq(Byte) /\ Len(<<>>) = 0
      OBVIOUS
    <3>2. n - c \in Nat
      BY DEF TypeOK
    <3>3. /\ p' = <<>> /\ c' = 0 /\ n' = 0 /\ getting' = FALSE
          /\ out' = p /\ ret' = n - c
          /\ UNCHANGED <<b, w, r>>
      BY <2>6 DEF GetReturn
    <3>4. Len(p') + c' = n'
      BY <3>1, <3>3
    <3>5. getting' \in BOOLEAN /\ (~getting' => p' = <<>> /\ n' = 0 /\ c' = 0)
          /\ (getting' => n' \in GetSizes)
      BY <3>3
    <3>6. b' \in [Cells -> Byte] /\ w' \in Cells /\ r' \in Cells
      BY <3>3 DEF TypeOK
    <3>7. n' \in Nat /\ c' \in Nat /\ ret' \in Nat
      BY <3>2, <3>3
    <3>8. p' \in Seq(Byte)
      BY <3>1, <3>3
    <3>9. out' \in Seq(Byte)
      BY <3>3 DEF TypeOK
    <3>10. QED
      BY <3>4, <3>5, <3>6, <3>7, <3>8, <3>9 DEF TypeOK
  <2>7. CASE UNCHANGED vars
    BY <2>7 DEF vars, TypeOK
  <2>8. QED
    BY <2>1, <2>2, <2>3, <2>4, <2>5, <2>6, <2>7 DEF Next
<1>3. QED
  BY <1>1, <1>2, PTL DEF Spec

-----------------------------------------------------------------------------
(* The cells a FIFO of these indices holds, one by one.                     *)
LEMMA ContentCell ==
  ASSUME TypeOK, NEW i \in 1 .. Size
  PROVE  /\ Content[i] = b[Inc(r, i - 1)]
         /\ Inc(r, i - 1) \in Cells
<1>1. i - 1 \in 0 .. FIFO_SIZE /\ r \in Cells
  BY SizeBounds, FifoSizeAssumption DEF TypeOK
<1>2. QED
  BY <1>1, IncWraps DEF Content

(* An accepted put adds its byte behind the ones already held.              *)
LEMMA PutAppends ==
  ASSUME TypeOK, TypeOK', NEW ch \in Byte, PutStored(ch)
  PROVE  /\ Content' = Append(Content, ch)
         /\ Size' = Size + 1
         /\ Size < FIFO_SIZE - 1
<1>1. /\ FIFO_SIZE \in Nat /\ FIFO_SIZE > 0
      /\ w \in 0 .. (FIFO_SIZE - 1) /\ r \in 0 .. (FIFO_SIZE - 1)
  BY FifoSizeAssumption DEF TypeOK, Cells
<1>2. Inc(w, 1) = IF w + 1 < FIFO_SIZE THEN w + 1 ELSE 0
  BY <1>1, IncWraps DEF Cells
<1>3. Inc(w, 1) # r /\ w' = Inc(w, 1) /\ r' = r /\ b' = [b EXCEPT ![w] = ch]
  BY DEF PutStored
<1>4. Size' = Size + 1
  BY <1>1, <1>2, <1>3 DEF Size
<1>5. Size \in Nat /\ Size < FIFO_SIZE - 1
  BY <1>1, <1>2, <1>3 DEF Size
<1>6. /\ Content \in Seq(Byte) /\ Len(Content) = Size
      /\ Content' \in Seq(Byte) /\ Len(Content') = Size + 1
  <2>1. (Content \in Seq(Byte) /\ Len(Content) = Size)'
    <3>1. TypeOK'
      OBVIOUS
    <3>2. QED
      BY <3>1, ContentIsSequence, PTL
  <2>2. QED
    BY <1>4, <2>1, ContentIsSequence
<1>7. \A i \in 1 .. Size : Content'[i] = Content[i]
  <2> SUFFICES ASSUME NEW i \in 1 .. Size
               PROVE  Content'[i] = Content[i]
    OBVIOUS
  <2>1. Content'[i] = b'[Inc(r, i - 1)]
    BY <1>3, <1>4, <1>5 DEF Content, Inc
  <2>2. Inc(r, i - 1) = IF r + (i - 1) < FIFO_SIZE THEN r + (i - 1) ELSE r + (i - 1) - FIFO_SIZE
    <3>1. i - 1 \in 0 .. FIFO_SIZE /\ r \in Cells
      BY <1>1, <1>5 DEF Cells
    <3>2. QED
      BY <3>1, IncWraps
  <2>3. Inc(r, i - 1) # w
    BY <1>1, <1>5, <2>2 DEF Size
  <2>4. Inc(r, i - 1) \in Cells /\ Content[i] = b[Inc(r, i - 1)]
    BY ContentCell
  <2>5. b \in [Cells -> Byte]
    BY DEF TypeOK
  <2>6. QED
    BY <1>3, <2>1, <2>3, <2>4, <2>5
<1>8. Content'[Size + 1] = ch
  <2>1. Content'[Size + 1] = b'[Inc(r, (Size + 1) - 1)]
    BY <1>3, <1>4, <1>5 DEF Content, Inc
  <2>2. Inc(r, (Size + 1) - 1) = w
    <3>1. (Size + 1) - 1 = Size
      BY <1>5
    <3>2. QED
      BY <3>1, SizeBounds
  <2>3. b \in [Cells -> Byte] /\ w \in Cells
    BY DEF TypeOK
  <2>4. QED
    BY <1>3, <2>1, <2>2, <2>3
<1>9. Content' = Append(Content, ch)
  <2> DEFINE old == Content
             new == Content'
  <2>1. /\ old \in Seq(Byte) /\ new \in Seq(Byte)
        /\ Len(new) = Len(old) + 1
        /\ \A i \in 1 .. Len(old) : new[i] = old[i]
        /\ new[Len(old) + 1] = ch
    BY <1>6, <1>7, <1>8
  <2> HIDE DEF old, new
  <2>2. /\ Append(old, ch) \in Seq(Byte) /\ Len(Append(old, ch)) = Len(old) + 1
        /\ \A i \in 1 .. Len(old) : Append(old, ch)[i] = old[i]
        /\ Append(old, ch)[Len(old) + 1] = ch
    BY <2>1
  <2>3. \A i \in 1 .. Len(new) : new[i] = Append(old, ch)[i]
    BY <2>1, <2>2
  <2>4. new = Append(old, ch)
    BY <2>1, <2>2, <2>3, SeqEqual
  <2>5. QED
    BY <2>4 DEF old, new
<1>10. QED
  BY <1>4, <1>5, <1>9

(* A turn of the copy loop moves bytes from the FIFO to the caller's buffer *)
(* without losing, repeating or reordering any.                             *)
LEMMA PieceMoves ==
  ASSUME TypeOK, TypeOK', GetPiece
  PROVE  p' \o Content' = p \o Content
<1> DEFINE s == [i \in 1 .. Piece |-> b[r + i - 1]]
<1>1. /\ Piece \in 1 .. (FIFO_SIZE - r) /\ Piece <= Size
      /\ FIFO_SIZE \in Nat /\ FIFO_SIZE > 0
      /\ r \in 0 .. (FIFO_SIZE - 1)
      /\ w \in 0 .. (FIFO_SIZE - 1)
  BY PieceBounds DEF GetPiece, TypeOK, Cells
<1>2. p' = p \o s /\ r' = Inc(r, Piece) /\ w' = w /\ b' = b
  BY DEF GetPiece
<1>3. r' = IF r + Piece < FIFO_SIZE THEN r + Piece ELSE 0
  <2>1. Inc(r, Piece) = IF r + Piece < FIFO_SIZE THEN r + Piece ELSE r + Piece - FIFO_SIZE
    BY <1>1, IncWraps DEF Cells
  <2>2. QED
    BY <1>1, <1>2, <2>1
<1> DEFINE k == Piece
<1>4. k \in 1 .. (FIFO_SIZE - r) /\ k <= Size /\ (r' = IF r + k < FIFO_SIZE THEN r + k ELSE 0)
  BY <1>1, <1>3
<1> HIDE DEF k
<1>5. Size \in 0 .. (FIFO_SIZE - 1)
  BY SizeBounds
<1>6. Size' = Size - k
  BY <1>1, <1>2, <1>4, <1>5 DEF Size
<1>7. s \in Seq(Byte) /\ Len(s) = k
  BY PieceIsSequence DEF GetPiece, k
<1>8. /\ Content \in Seq(Byte) /\ Len(Content) = Size
      /\ Content' \in Seq(Byte) /\ Len(Content') = Size - k
  <2>1. (Content \in Seq(Byte) /\ Len(Content) = Size)'
    <3>1. TypeOK'
      OBVIOUS
    <3>2. QED
      BY <3>1, ContentIsSequence, PTL
  <2>2. QED
    BY <1>6, <2>1, ContentIsSequence
<1>9. \A i \in 1 .. k : s[i] = Content[i]
  <2> SUFFICES ASSUME NEW i \in 1 .. k
               PROVE  s[i] = Content[i]
    OBVIOUS
  <2>1. i \in 1 .. Size /\ i - 1 \in 0 .. FIFO_SIZE
    BY <1>1, <1>4, <1>5
  <2>2. Inc(r, i - 1) = r + i - 1
    BY <1>1, <1>4, <2>1, IncWraps DEF Cells
  <2>3. s[i] = b[r + i - 1]
    BY DEF k
  <2>4. QED
    BY <2>1, <2>2, <2>3, ContentCell
<1>10. \A i \in (k + 1) .. Size : Content'[i - k] = Content[i]
  <2> SUFFICES ASSUME NEW i \in (k + 1) .. Size
               PROVE  Content'[i - k] = Content[i]
    OBVIOUS
  <2>1. i \in 1 .. Size /\ i - 1 \in 0 .. FIFO_SIZE
        /\ i - k \in 1 .. Size' /\ (i - k) - 1 \in 0 .. FIFO_SIZE
    BY <1>1, <1>4, <1>5, <1>6
  <2>2. Content'[i - k] = b[Inc(r', (i - k) - 1)]
    BY <1>2, <2>1 DEF Content, Inc
  <2>3. Inc(r, i - 1) = IF r + (i - 1) < FIFO_SIZE THEN r + (i - 1) ELSE r + (i - 1) - FIFO_SIZE
    BY <1>1, <2>1, IncWraps DEF Cells
  <2>4. r' \in Cells
    BY DEF TypeOK
  <2>5. Inc(r', (i - k) - 1) = IF r' + ((i - k) - 1) < FIFO_SIZE
                               THEN r' + ((i - k) - 1)
                               ELSE r' + ((i - k) - 1) - FIFO_SIZE
    BY <2>1, <2>4, IncWraps
  <2>6. Inc(r', (i - k) - 1) = Inc(r, i - 1)
    BY <1>1, <1>4, <1>5, <2>1, <2>3, <2>5
  <2>7. QED
    BY <2>1, <2>2, <2>6, ContentCell
<1>11. s \o Content' = Content
  <2> DEFINE old == Content
             new == Content'
             mv == s
  <2>1. /\ old \in Seq(Byte) /\ new \in Seq(Byte) /\ mv \in Seq(Byte)
        /\ Len(mv) = k /\ Len(old) = Size /\ Len(new) = Size - k
        /\ \A i \in 1 .. k : mv[i] = old[i]
        /\ \A i \in (k + 1) .. Size : new[i - k] = old[i]
    BY <1>7, <1>8, <1>9, <1>10
  <2> HIDE DEF old, new, mv
  <2>2. /\ mv \o new \in Seq(Byte)
        /\ Len(mv \o new) = Len(mv) + Len(new)
        /\ \A i \in 1 .. Len(mv) + Len(new) :
             (mv \o new)[i] = IF i <= Len(mv) THEN mv[i] ELSE new[i - Len(mv)]
    BY <2>1, ConcatProperties
  <2>3. Len(mv \o new) = Size /\ Len(mv) + Len(new) = Size
    BY <1>1, <1>4, <1>5, <2>1, <2>2
  <2>4. \A i \in 1 .. Size : (mv \o new)[i] = old[i]
    BY <1>1, <1>4, <1>5, <2>1, <2>2, <2>3
  <2>5. mv \o new = old
    BY <2>1, <2>2, <2>3, <2>4, SeqEqual
  <2>6. QED
    BY <2>5 DEF old, new, mv
<1>12. p \in Seq(Byte)
  BY DEF TypeOK
<1> HIDE DEF s
<1>13. (p \o s) \o Content' = p \o (s \o Content')
  <2>1. \A x \in Seq(Byte), y \in Seq(Byte), z \in Seq(Byte) : (x \o y) \o z = x \o (y \o z)
    BY ConcatAssociative
  <2> DEFINE new == Content'
  <2>2. new \in Seq(Byte)
    BY <1>8
  <2> HIDE DEF new
  <2>3. (p \o s) \o new = p \o (s \o new)
    BY <1>7, <1>12, <2>1, <2>2
  <2>4. QED
    BY <2>3 DEF new
<1>14. QED
  BY <1>2, <1>11, <1>13

-----------------------------------------------------------------------------
(* GsmFifo_FreeSize returns, in every reachable state, the number of puts   *)
(* that will be accepted.                                                   *)
THEOREM FreeSizeIsExact == Spec => []FreeSizeIsRoomLeft
<1>1. TypeOK => FreeSizeIsRoomLeft
  <2> SUFFICES ASSUME TypeOK
               PROVE  FreeSizeIsRoomLeft
    OBVIOUS
  <2>1. FreeSize = FIFO_SIZE - 1 - Size
    BY SizeBounds
  <2>2. Len(Content) = Size
    BY ContentIsSequence
  <2>3. QED
    BY <2>1, <2>2 DEF FreeSizeIsRoomLeft
<1>2. QED
  BY <1>1, TypeCorrect, PTL

(* What a running GsmFifo_Get has copied together with what is left is the  *)
(* queue of the abstract specification, and the call returns its head.      *)
LEMMA ReturnTakesPrefix ==
  ASSUME TypeOK, GetReturn
  PROVE  LET q == p \o Content
             k == Queue!Lesser(n, Len(q))
         IN  /\ p = SubSeq(q, 1, k)
             /\ Content = SubSeq(q, k + 1, Len(q))
             /\ n - c = k
<1> DEFINE q == p \o Content
           k == Queue!Lesser(n, Len(q))
           rest == Content
<1>1. p \in Seq(Byte) /\ rest \in Seq(Byte) /\ Len(rest) = Size
  BY ContentIsSequence DEF TypeOK
<1>2. n \in Nat /\ c \in Nat /\ Len(p) \in Nat /\ Len(p) + c = n
  BY <1>1 DEF TypeOK
<1>3. c = 0 \/ Len(rest) = 0
  BY <1>1 DEF GetReturn
<1> HIDE DEF rest
<1>4. /\ p \o rest \in Seq(Byte)
      /\ Len(p \o rest) = Len(p) + Len(rest)
      /\ \A i \in 1 .. Len(p) + Len(rest) :
            (p \o rest)[i] = IF i <= Len(p) THEN p[i] ELSE rest[i - Len(p)]
  BY <1>1, ConcatProperties
<1>5. Len(rest) \in Nat
  BY <1>1
<1>6. Queue!Lesser(n, Len(p \o rest)) = Len(p)
  BY <1>2, <1>3, <1>4, <1>5 DEF Queue!Lesser
<1>7. n - c = Len(p)
  BY <1>2
<1> DEFINE all == p \o rest
           m == Len(p)
<1>8. /\ all \in Seq(Byte) /\ Len(all) = m + Len(rest) /\ m \in Nat
      /\ \A i \in 1 .. m : all[i] = p[i]
      /\ \A i \in (m + 1) .. Len(all) : all[i] = rest[i - m]
  BY <1>2, <1>4, <1>5
<1> HIDE DEF all
<1>9. p = SubSeq(all, 1, m)
  <2>1. /\ SubSeq(all, 1, m) \in Seq(Byte)
        /\ Len(SubSeq(all, 1, m)) = m
        /\ \A i \in 1 .. m : SubSeq(all, 1, m)[i] = all[i]
    <3>1. \A i \in 1 .. m : all[i] \in Byte
      BY <1>5, <1>8
    <3>2. /\ SubSeq(all, 1, m) \in Seq(Byte)
          /\ Len(SubSeq(all, 1, m)) = IF 1 <= m THEN m - 1 + 1 ELSE 0
          /\ \A i \in 1 .. m - 1 + 1 : SubSeq(all, 1, m)[i] = all[1 + i - 1]
      BY <1>8, <3>1, SubSeqProperties
    <3>3. QED
      BY <1>8, <3>2
  <2>2. QED
    BY <1>1, <1>8, <2>1, SeqEqual
<1>10. rest = SubSeq(all, m + 1, Len(all))
  <2> DEFINE t == SubSeq(all, m + 1, Len(all))
  <2>1. \A i \in (m + 1) .. Len(all) : all[i] \in Byte
    BY <1>5, <1>8
  <2>2. /\ t \in Seq(Byte)
        /\ Len(t) = IF m + 1 <= Len(all) THEN Len(all) - (m + 1) + 1 ELSE 0
        /\ \A i \in 1 .. Len(all) - (m + 1) + 1 : t[i] = all[(m + 1) + i - 1]
    BY <1>8, <2>1, SubSeqProperties
  <2> HIDE DEF t
  <2>3. Len(t) = Len(rest)
    BY <1>5, <1>8, <2>2
  <2>4. \A i \in 1 .. Len(t) : t[i] = rest[i]
    <3> SUFFICES ASSUME NEW i \in 1 .. Len(t)
                 PROVE  t[i] = rest[i]
      OBVIOUS
    <3>1. (m + 1) + i - 1 = m + i /\ m + i \in (m + 1) .. Len(all) /\ (m + i) - m = i
      BY <1>5, <1>8, <2>3
    <3>2. t[i] = all[m + i]
      BY <1>5, <1>8, <2>2, <2>3, <3>1
    <3>3. QED
      BY <1>8, <3>1, <3>2
  <2>5. t = rest
    BY <1>1, <2>2, <2>3, <2>4, SeqEqual
  <2>6. QED
    BY <2>5 DEF t
<1>11. QED
  BY <1>6, <1>7, <1>9, <1>10 DEF all, rest

(* GsmFifo implements a bounded queue of FIFO_SIZE - 1 bytes: no sequence   *)
(* of clears, puts and gets, with the indices wherever they may be, loses,  *)
(* repeats or reorders a byte, and every value returned is the queue's.     *)
THEOREM Implements == Spec => ImplementsQueue
<1>1. Init => Queue!Init
  <2> SUFFICES ASSUME Init
               PROVE  Queue!Init
    OBVIOUS
  <2>1. Size = 0
    BY DEF Init, Size
  <2>2. Content = <<>>
    BY <2>1 DEF Content
  <2>3. p \o Content = <<>>
    BY <2>2 DEF Init
  <2>4. QED
    BY <2>3 DEF Init, Queue!Init
<1>2. TypeOK /\ TypeOK' /\ [Next]_vars => [Queue!Next]_(Queue!vars)
  <2> SUFFICES ASSUME TypeOK, TypeOK', [Next]_vars
               PROVE  [Queue!Next]_(Queue!vars)
    OBVIOUS
  <2>1. ASSUME UNCHANGED <<b, w, r, p, out, ret>>
        PROVE  UNCHANGED Queue!vars
    BY <2>1 DEF Queue!vars, Content, Size, Inc
  <2>2. Content \in Seq(Byte) /\ Len(Content) = Size /\ Size \in 0 .. (FIFO_SIZE - 1)
    BY ContentIsSequence, SizeBounds
  <2>3. CASE Clear
    <3>1. Size' = 0 /\ p = <<>> /\ p' = <<>>
      BY <2>3 DEF Clear, Size, TypeOK
    <3>2. Content' = <<>>
      BY <3>1 DEF Content
    <3>3. Queue!Clear
      BY <2>3, <3>1, <3>2 DEF Clear, Queue!Clear
    <3>4. QED
      BY <3>3 DEF Queue!Next
  <2>4. CASE PutFull
    <3>1. p = <<>> /\ UNCHANGED <<b, w, r, p, out>> /\ ret' = 0
      BY <2>4 DEF PutFull, TypeOK
    <3>2. Content' = Content
      BY <3>1 DEF Content, Size, Inc
    <3>3. Size = FIFO_SIZE - 1
      <4>1. /\ FIFO_SIZE \in Nat /\ FIFO_SIZE > 0
            /\ w \in 0 .. (FIFO_SIZE - 1) /\ r \in 0 .. (FIFO_SIZE - 1)
        BY FifoSizeAssumption DEF TypeOK, Cells
      <4>2. Inc(w, 1) = IF w + 1 < FIFO_SIZE THEN w + 1 ELSE 0
        BY <4>1, IncWraps DEF Cells
      <4>3. Inc(w, 1) = r
        BY <2>4 DEF PutFull
      <4>4. QED
        BY <4>1, <4>2, <4>3 DEF Size
    <3>4. p \o Content = Content
      BY <2>2, <3>1, ConcatEmptySeq
    <3>5. FIFO_SIZE - 1 \in Nat
      BY FifoSizeAssumption
    <3>6. Queue!PutRefused
      BY <2>2, <3>1, <3>2, <3>3, <3>4, <3>5 DEF Queue!PutRefused
    <3>7. QED
      BY <3>6 DEF Queue!Next
  <2>5. ASSUME NEW ch \in Byte, PutStored(ch)
        PROVE  [Queue!Next]_(Queue!vars)
    <3>1. p = <<>> /\ p' = <<>> /\ UNCHANGED out /\ ret' = 1
      BY <2>5 DEF PutStored, TypeOK
    <3>2. Content' = Append(Content, ch) /\ Size' = Size + 1
      BY <2>5, PutAppends
    <3>3. Size < FIFO_SIZE - 1
      BY <2>5, PutAppends
    <3>4. p \o Content = Content
      BY <2>2, <3>1, ConcatEmptySeq
    <3>5. p' \o Content' = Append(Content, ch)
      <4>1. Append(Content, ch) \in Seq(Byte)
        BY <2>2
      <4>2. QED
        BY <3>1, <3>2, <4>1, ConcatEmptySeq
    <3>6. Len(p \o Content) < FIFO_SIZE - 1
      BY <2>2, <3>3, <3>4
    <3>7. Queue!PutAccepted(ch)
      BY <3>1, <3>4, <3>5, <3>6 DEF Queue!PutAccepted
    <3>8. QED
      BY <3>7 DEF Queue!Next
  <2>6. ASSUME NEW k \in GetSizes, GetCall(k)
        PROVE  [Queue!Next]_(Queue!vars)
    <3>1. UNCHANGED <<b, w, r, p, out, ret>>
      BY <2>6 DEF GetCall, TypeOK
    <3>2. QED
      BY <2>1, <3>1
  <2>7. CASE GetPiece
    <3>1. p' \o Content' = p \o Content
      BY <2>7, PieceMoves
    <3>2. UNCHANGED <<out, ret>>
      BY <2>7 DEF GetPiece
    <3>3. QED
      BY <3>1, <3>2 DEF Queue!vars
  <2>8. CASE GetReturn
    <3> DEFINE q == p \o Content
               k == Queue!Lesser(n, Len(q))
    <3>1. p = SubSeq(q, 1, k) /\ Content = SubSeq(q, k + 1, Len(q)) /\ n - c = k
      BY <2>8, ReturnTakesPrefix
    <3>2. p' = <<>> /\ out' = p /\ ret' = n - c /\ UNCHANGED <<b, w, r>>
      BY <2>8 DEF GetReturn
    <3>3. Content' = Content
      BY <3>2 DEF Content, Size, Inc
    <3>4. p' \o Content' = Content
      BY <2>2, <3>2, <3>3, ConcatEmptySeq
    <3>5. Queue!Get(n)
      BY <3>1, <3>2, <3>4 DEF Queue!Get
    <3>6. n \in GetSizes
      BY <2>8 DEF GetReturn, TypeOK
    <3>7. QED
      BY <3>5, <3>6 DEF Queue!Next
  <2>9. CASE UNCHANGED vars
    BY <2>1, <2>9 DEF vars
  <2>10. QED
    BY <2>3, <2>4, <2>5, <2>6, <2>7, <2>8, <2>9 DEF Next
<1>3. QED
  BY <1>1, <1>2, TypeCorrect, PTL DEF Spec, ImplementsQueue, Queue!Spec
=============================================================================
