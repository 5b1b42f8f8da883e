---------------------------- MODULE JsonTextProofs ----------------------------
(***************************************************************************)
(* Proofs about JsonText: for buffers, packets, messages and values of any    *)
(* size, what is published is one whole JSON object with all that was to be   *)
(* said, and only what is too long is not.                                   *)
(*                                                                         *)
(* The texts and the calls have no bound, so the proofs need induction: a set *)
(* of numbers that is not empty has a least element, since < is well founded. *)
(***************************************************************************)
EXTENDS JsonText, SequenceTheorems, WellFoundedInduction, TLAPS

Below == {p \in Nat \X Nat : p[1] < p[2]}

(* < on the numbers, as a set of pairs, so that the library applies.          *)
LEMMA BelowIsWellFounded == IsWellFoundedOn(Below, Nat)
<1>1. IsWellFoundedOn(OpToRel(<, Nat), Nat)
  BY NatLessThanWellFounded
<1>2. OpToRel(<, Nat) = Below
  BY DEF OpToRel, Below
<1>3. QED
  BY <1>1, <1>2

(* Induction: a set with 0, and with n + 1 whenever it has n, has every number. *)
LEMMA Induction ==
  ASSUME NEW S, 0 \in S, \A n \in Nat : n \in S => n + 1 \in S
  PROVE  \A n \in Nat : n \in S
<1> DEFINE T == Nat \ S
<1>1. SUFFICES ASSUME T # {}
               PROVE  FALSE
  OBVIOUS
<1>2. PICK n \in T : \A m \in T : ~(<<m, n>> \in Below)
  <2>1. T \subseteq Nat
    OBVIOUS
  <2> HIDE DEF T
  <2>2. QED
    BY <1>1, <2>1, WFMin, BelowIsWellFounded
<1>3. n \in Nat /\ n # 0
  OBVIOUS
<1>4. n - 1 \in Nat /\ (n - 1) + 1 = n
  BY <1>3
<1>5. <<n - 1, n>> \in Below
  BY <1>3, <1>4 DEF Below
<1>6. n - 1 \in S
  BY <1>2, <1>4, <1>5
<1>7. QED
  BY <1>4, <1>6
-----------------------------------------------------------------------------
(* The reader. *)

(* r has the states of the reader in the first n symbols of t.                *)
Reads(r, st, t, n) ==
  r = [i \in 0 .. n |-> IF i = 0 THEN st ELSE ReadSymbol(t[i], r[i - 1])]

(* The function that defines Reading exists.                                  *)
LEMMA ReaderExists ==
  ASSUME NEW st, NEW t, Len(t) \in Nat
  PROVE  \E r : Reads(r, st, t, Len(t))
<1> DEFINE S == {n \in Nat : \E r : Reads(r, st, t, n)}
<1>1. 0 \in S
  <2>1. Reads([i \in 0 .. 0 |-> st], st, t, 0)
    BY DEF Reads
  <2>2. QED
    BY <2>1
<1>2. ASSUME NEW n \in Nat, n \in S
      PROVE  n + 1 \in S
  <2>1. PICK r : Reads(r, st, t, n)
    BY <1>2
  <2> DEFINE q == [i \in 0 .. n + 1 |-> IF i = n + 1 THEN ReadSymbol(t[n + 1], r[n]) ELSE r[i]]
  <2>2. ASSUME NEW i \in 0 .. n + 1
        PROVE  q[i] = IF i = 0 THEN st ELSE ReadSymbol(t[i], q[i - 1])
    <3>1. CASE i = 0
      BY <3>1, <2>1 DEF Reads
    <3>2. CASE i = n + 1
      <4>1. q[i - 1] = r[n]
        BY <3>2
      <4>2. QED
        BY <3>2, <4>1
    <3>3. CASE i # 0 /\ i # n + 1
      <4>1. i \in 0 .. n /\ i - 1 \in 0 .. n /\ i - 1 # n + 1
        BY <3>3
      <4>2. q[i] = r[i] /\ q[i - 1] = r[i - 1]
        BY <4>1, <3>3
      <4>3. r[i] = ReadSymbol(t[i], r[i - 1])
        BY <2>1, <4>1, <3>3 DEF Reads
      <4>4. QED
        BY <3>3, <4>2, <4>3
    <3>4. QED
      BY <3>1, <3>2, <3>3
  <2>3. Reads(q, st, t, n + 1)
    BY <2>2 DEF Reads
  <2>4. QED
    BY <2>3
<1>3. Len(t) \in S
  <2> HIDE DEF S
  <2>1. QED
    BY <1>1, <1>2, Induction
<1>4. QED
  BY <1>3

(* ... so that Reading is what its definition says.                           *)
LEMMA ReadingSteps ==
  ASSUME NEW st, NEW t, Len(t) \in Nat
  PROVE  /\ Reading(st, t)[0] = st
         /\ \A i \in 1 .. Len(t) : Reading(st, t)[i] = ReadSymbol(t[i], Reading(st, t)[i - 1])
<1>1. Reading(st, t) = CHOOSE r : Reads(r, st, t, Len(t))
  BY Zenon DEF Reading, Reads
<1>2. PICK r : r = Reading(st, t)
  OBVIOUS
<1>3. Reads(r, st, t, Len(t))
  BY <1>1, <1>2, ReaderExists, Zenon
<1>4. r[0] = st /\ \A i \in 1 .. Len(t) : r[i] = ReadSymbol(t[i], r[i - 1])
  BY <1>3 DEF Reads
<1>5. QED
  BY <1>2, <1>4

(* One text after the other is read on from where the first has ended.        *)
LEMMA AfterConcat ==
  ASSUME NEW st, NEW t \in Seq(Symbols), NEW u \in Seq(Symbols)
  PROVE  After(st, t \o u) = After(After(st, t), u)
<1>1. PICK w : w = t \o u
  OBVIOUS
<1>2. PICK k, m : k = Len(t) /\ m = Len(u)
  OBVIOUS
<1>3. /\ k \in Nat /\ m \in Nat /\ Len(w) = k + m
      /\ \A i \in 1 .. k : w[i] = t[i]
      /\ \A i \in 1 .. m : w[k + i] = u[i]
  BY <1>1, <1>2
<1>4. PICK a, b, c : a = Reading(st, w) /\ b = Reading(st, t) /\ c = Reading(b[k], u)
  OBVIOUS
<1>5. /\ a[0] = st /\ \A i \in 1 .. k + m : a[i] = ReadSymbol(w[i], a[i - 1])
      /\ b[0] = st /\ \A i \in 1 .. k : b[i] = ReadSymbol(t[i], b[i - 1])
      /\ c[0] = b[k] /\ \A i \in 1 .. m : c[i] = ReadSymbol(u[i], c[i - 1])
  <2>1. Len(w) = k + m /\ Len(w) \in Nat /\ Len(t) \in Nat /\ Len(u) \in Nat
    BY <1>2, <1>3
  <2>2. a[0] = st /\ \A i \in 1 .. Len(w) : a[i] = ReadSymbol(w[i], a[i - 1])
    BY <2>1, <1>4, ReadingSteps
  <2>3. b[0] = st /\ \A i \in 1 .. Len(t) : b[i] = ReadSymbol(t[i], b[i - 1])
    BY <2>1, <1>4, ReadingSteps
  <2>4. c[0] = b[k] /\ \A i \in 1 .. Len(u) : c[i] = ReadSymbol(u[i], c[i - 1])
    BY <2>1, <1>4, ReadingSteps
  <2>5. QED
    BY <2>1, <2>2, <2>3, <2>4, <1>2
<1>6. a[k] = b[k]
  <2> DEFINE P == {n \in Nat : n <= k => a[n] = b[n]}
  <2>1. 0 \in P
    BY <1>5
  <2>2. ASSUME NEW n \in Nat, n \in P
        PROVE  n + 1 \in P
    <3>1. SUFFICES ASSUME n + 1 <= k
                   PROVE  a[n + 1] = b[n + 1]
      OBVIOUS
    <3>2. a[n] = b[n] /\ n + 1 \in 1 .. k /\ n + 1 \in 1 .. k + m /\ (n + 1) - 1 = n
      BY <2>2, <3>1, <1>3
    <3>3. QED
      BY <3>2, <1>3, <1>5
  <2>3. k \in P
    <3> HIDE DEF P
    <3>1. QED
      BY <2>1, <2>2, <1>3, Induction
  <2>4. QED
    BY <2>3, <1>3
<1>7. a[k + m] = c[m]
  <2> DEFINE P == {n \in Nat : n <= m => a[k + n] = c[n]}
  <2>1. 0 \in P
    BY <1>3, <1>5, <1>6
  <2>2. ASSUME NEW n \in Nat, n \in P
        PROVE  n + 1 \in P
    <3>1. SUFFICES ASSUME n + 1 <= m
                   PROVE  a[k + (n + 1)] = c[n + 1]
      OBVIOUS
    <3>2. /\ a[k + n] = c[n] /\ n + 1 \in 1 .. m /\ k + (n + 1) \in 1 .. k + m
          /\ (n + 1) - 1 = n /\ (k + (n + 1)) - 1 = k + n
      BY <2>2, <3>1, <1>3
    <3>3. QED
      BY <3>2, <1>3, <1>5
  <2>3. m \in P
    <3> HIDE DEF P
    <3>1. QED
      BY <2>1, <2>2, <1>3, Induction
  <2>4. QED
    BY <2>3, <1>3
<1>8. After(st, w) = a[k + m] /\ After(st, t) = b[k] /\ After(b[k], u) = c[m]
  BY <1>2, <1>3, <1>4 DEF After
<1>9. QED
  BY <1>1, <1>6, <1>7, <1>8

(* One symbol is read by ReadSymbol, and no symbol by nothing.                *)
LEMMA AfterSymbol ==
  ASSUME NEW st, NEW s
  PROVE  After(st, <<s>>) = ReadSymbol(s, st)
<1>1. PICK t : t = <<s>>
  OBVIOUS
<1>2. Len(t) = 1 /\ t[1] = s
  BY <1>1
<1>3. Reading(st, t)[0] = st /\ Reading(st, t)[1] = ReadSymbol(t[1], Reading(st, t)[1 - 1])
  BY <1>2, ReadingSteps
<1>4. QED
  BY <1>1, <1>2, <1>3 DEF After

LEMMA AfterNothing ==
  ASSUME NEW st
  PROVE  After(st, <<>>) = st
<1>1. Reading(st, <<>>)[0] = st
  BY ReadingSteps
<1>2. QED
  BY <1>1 DEF After
-----------------------------------------------------------------------------
(* The reader in texts without an error.                                      *)

State(p, open) == [ok |-> TRUE, prev |-> p, open |-> open]
Braces(d) == [i \in 1 .. d |-> "brace"]
Bracket(d) == Append(Braces(d), "array")
Complete == {"v", "x", "endbrace", "endarray"}

(* What DropComma and the reader see of a sequence that ends with e.          *)
LEMMA FrontAppend ==
  ASSUME NEW S, NEW s \in Seq(S), NEW e \in S
  PROVE  Append(s, e) # <<>> /\ Last(Append(s, e)) = e /\ Front(Append(s, e)) = s
<1>1. PICK t : t = Append(s, e)
  OBVIOUS
<1>2. PICK k : k = Len(s)
  OBVIOUS
<1>3. /\ t \in Seq(S) /\ t # <<>> /\ Len(t) = k + 1 /\ k \in Nat
      /\ \A i \in 1 .. k : t[i] = s[i]
      /\ t[k + 1] = e
  BY <1>1, <1>2, AppendProperties, LenProperties
<1>4. Last(t) = e
  BY <1>3 DEF Last
<1>5. Front(t) = SubSeq(t, 1, k)
  BY <1>3 DEF Front
<1>6. SubSeq(t, 1, k) \in Seq(S) /\ Len(SubSeq(t, 1, k)) = k
      /\ \A i \in 1 .. k : SubSeq(t, 1, k)[i] = t[i]
  BY <1>3
<1>7. SubSeq(t, 1, k) = s
  BY <1>2, <1>3, <1>6, SeqEqual
<1>8. QED
  BY <1>1, <1>3, <1>4, <1>5, <1>7

(* d open braces, and one more.                                               *)
LEMMA BracesAre ==
  ASSUME NEW d \in Nat
  PROVE  /\ Braces(d) \in Seq(Symbols) /\ Len(Braces(d)) = d
         /\ Append(Braces(d), "brace") = Braces(d + 1)
<1>1. \A n \in Nat : /\ Braces(n) \in Seq(Symbols) /\ Len(Braces(n)) = n
                     /\ \A i \in 1 .. n : Braces(n)[i] = "brace"
  BY DEF Braces, Symbols
<1>2. PICK b, c : b = Append(Braces(d), "brace") /\ c = Braces(d + 1)
  OBVIOUS
<1>3. "brace" \in Symbols
  BY DEF Symbols
<1>4. PICK a : a = Braces(d)
  OBVIOUS
<1>5. a \in Seq(Symbols) /\ Len(a) = d /\ \A i \in 1 .. d : a[i] = "brace"
  BY <1>1, <1>4
<1>6. c \in Seq(Symbols) /\ Len(c) = d + 1 /\ \A i \in 1 .. d + 1 : c[i] = "brace"
  <2>1. d + 1 \in Nat
    OBVIOUS
  <2>2. QED
    BY <2>1, <1>1, <1>2
<1>7. b = Append(a, "brace")
  BY <1>2, <1>4
<1>8. /\ b \in Seq(Symbols) /\ Len(b) = d + 1
      /\ \A i \in 1 .. d : b[i] = a[i]
      /\ b[d + 1] = "brace"
  BY <1>3, <1>5, <1>7, AppendProperties
<1>9. \A i \in 1 .. d + 1 : b[i] = c[i]
  <2>1. SUFFICES ASSUME NEW i \in 1 .. d + 1
                 PROVE  b[i] = c[i]
    OBVIOUS
  <2>2. i \in 1 .. d \/ i = d + 1
    OBVIOUS
  <2>3. c[i] = "brace"
    BY <1>6
  <2>4. CASE i \in 1 .. d
    BY <2>3, <2>4, <1>5, <1>8
  <2>5. CASE i = d + 1
    BY <2>3, <2>5, <1>8
  <2>6. QED
    BY <2>2, <2>4, <2>5
<1>10. b = c
  BY <1>6, <1>8, <1>9, SeqEqual
<1>11. QED
  BY <1>1, <1>2, <1>10

(* What the reader finds innermost, and what is left when it is closed.       *)
LEMMA InsideIs ==
  ASSUME NEW d \in Nat
  PROVE  /\ d > 0 => Braces(d) # <<>> /\ Last(Braces(d)) = "brace" /\ Front(Braces(d)) = Braces(d - 1)
         /\ Bracket(d) # <<>> /\ Last(Bracket(d)) = "array" /\ Front(Bracket(d)) = Braces(d)
<1>0. "brace" \in Symbols /\ "array" \in Symbols
  BY DEF Symbols
<1>1. ASSUME d > 0
      PROVE  Braces(d) # <<>> /\ Last(Braces(d)) = "brace" /\ Front(Braces(d)) = Braces(d - 1)
  <2>1. d - 1 \in Nat /\ (d - 1) + 1 = d
    BY <1>1
  <2>2. Braces(d - 1) \in Seq(Symbols) /\ Append(Braces(d - 1), "brace") = Braces(d)
    BY <2>1, BracesAre
  <2>3. PICK e : e = Braces(d - 1)
    OBVIOUS
  <2>4. Append(e, "brace") # <<>> /\ Last(Append(e, "brace")) = "brace" /\ Front(Append(e, "brace")) = e
    BY <1>0, <2>2, <2>3, FrontAppend
  <2>5. QED
    BY <2>2, <2>3, <2>4
<1>2. Bracket(d) # <<>> /\ Last(Bracket(d)) = "array" /\ Front(Bracket(d)) = Braces(d)
  BY <1>0, BracesAre, FrontAppend DEF Bracket
<1>3. QED
  BY <1>1, <1>2

(* An object or array begins, or an element of it.                            *)
LEMMA ReadBegins == ReadSymbol("brace", Beginning) = State("brace", Braces(1))
<1>1. Append(<<>>, "brace") = Braces(1)
  <2>1. Braces(0) = <<>> /\ 0 + 1 = 1
    BY DEF Braces
  <2>2. QED
    BY <2>1, BracesAre
<1>2. QED
  BY <1>1 DEF ReadSymbol, MayFollow, Beginning, State

(* A name is read behind a brace or a comma.                                  *)
LEMMA ReadName ==
  ASSUME NEW d \in Nat \ {0}, NEW p \in {"brace", "comma"}
  PROVE  ReadSymbol("n", State(p, Braces(d))) = State("n", Braces(d))
<1>1. Braces(d) # <<>> /\ Last(Braces(d)) = "brace"
  <2>1. d \in Nat /\ d > 0
    OBVIOUS
  <2>2. QED
    BY <2>1, InsideIs
<1>2. QED
  BY <1>1 DEF ReadSymbol, MayFollow, State

(* ... behind which an object or an array begins,                             *)
LEMMA ReadNested ==
  ASSUME NEW d \in Nat \ {0}
  PROVE  /\ ReadSymbol("brace", State("n", Braces(d))) = State("brace", Braces(d + 1))
         /\ ReadSymbol("array", State("n", Braces(d))) = State("array", Bracket(d))
<1>1. Append(Braces(d), "brace") = Braces(d + 1)
  BY BracesAre
<1>2. QED
  BY <1>1 DEF ReadSymbol, MayFollow, State, Bracket

(* ... or a value,                                                            *)
LEMMA ReadValue ==
  ASSUME NEW o
  PROVE  /\ ReadSymbol("v", State("n", o)) = State("v", o)
         /\ ReadSymbol("v", State("array", o)) = State("v", o)
         /\ \A p \in {"v", "x"} : ReadSymbol("x", State(p, o)) = State("x", o)
  BY DEF ReadSymbol, MayFollow, State

(* ... behind which a comma goes on,                                          *)
LEMMA ReadComma ==
  ASSUME NEW d \in Nat \ {0}, NEW p \in Complete
  PROVE  /\ ReadSymbol("comma", State(p, Braces(d))) = State("comma", Braces(d))
         /\ ReadSymbol("comma", State(p, Bracket(d))) = State("comma", Bracket(d))
         /\ ReadSymbol("v", State("comma", Bracket(d))) = State("v", Bracket(d))
<1>1. PICK b, c : b = Braces(d) /\ c = Bracket(d)
  OBVIOUS
<1>2. /\ b # <<>> /\ Last(b) = "brace" /\ c # <<>> /\ Last(c) = "array"
  <2>1. d \in Nat /\ d > 0
    OBVIOUS
  <2>2. QED
    BY <2>1, <1>1, InsideIs
<1>3. QED
  BY <1>1, <1>2 DEF ReadSymbol, MayFollow, State, Complete

(* ... or a bracket closes.                                                   *)
LEMMA ReadCloses ==
  ASSUME NEW d \in Nat \ {0}, NEW p \in Complete
  PROVE  /\ \A q \in {p, "brace"} : ReadSymbol("endbrace", State(q, Braces(d))) = State("endbrace", Braces(d - 1))
         /\ ReadSymbol("endarray", State(p, Bracket(d))) = State("endarray", Braces(d))
<1>1. PICK b, c : b = Braces(d) /\ c = Bracket(d)
  OBVIOUS
<1>2. /\ b # <<>> /\ Last(b) = "brace" /\ Front(b) = Braces(d - 1)
      /\ c # <<>> /\ Last(c) = "array" /\ Front(c) = Braces(d)
  <2>1. d \in Nat /\ d > 0
    OBVIOUS
  <2>2. QED
    BY <2>1, <1>1, InsideIs
<1>3. QED
  BY <1>1, <1>2 DEF ReadSymbol, MayFollow, State, Complete
-----------------------------------------------------------------------------
(* Values and arrays.                                                         *)

(* Values are texts, each one "x" longer than the one before.                 *)
LEMMA ValueIs ==
  ASSUME NEW w \in Nat \ {0}
  PROVE  /\ Value(w) \in Seq(Symbols) /\ Len(Value(w)) = w
         /\ Value(1) = <<"v">> /\ Value(w + 1) = Value(w) \o <<"x">>
<1>1. ASSUME NEW n \in Nat \ {0}
      PROVE  /\ Value(n) \in Seq(Symbols) /\ Len(Value(n)) = n
             /\ \A i \in 1 .. n : Value(n)[i] = IF i = 1 THEN "v" ELSE "x"
  BY DEF Value, Symbols
<1>2. PICK a, b, c, x : a = Value(w) /\ b = Value(w + 1) /\ c = Value(1) /\ x = <<"x">>
  OBVIOUS
<1>3. w + 1 \in Nat \ {0} /\ 1 \in Nat \ {0} /\ w \in Nat
  OBVIOUS
<1>4. /\ a \in Seq(Symbols) /\ Len(a) = w
      /\ \A i \in 1 .. w : a[i] = IF i = 1 THEN "v" ELSE "x"
  BY <1>1, <1>2
<1>5. /\ b \in Seq(Symbols) /\ Len(b) = w + 1
      /\ \A i \in 1 .. w + 1 : b[i] = IF i = 1 THEN "v" ELSE "x"
  BY <1>1, <1>2, <1>3
<1>6. c \in Seq(Symbols) /\ Len(c) = 1 /\ c[1] = "v"
  BY <1>1, <1>2, <1>3
<1>7. c = <<"v">>
  BY <1>6
<1>8. x \in Seq(Symbols) /\ Len(x) = 1 /\ x[1] = "x"
  BY <1>2 DEF Symbols
<1>9. PICK y : y = Append(a, "x")
  OBVIOUS
<1>10. /\ y \in Seq(Symbols) /\ Len(y) = w + 1
       /\ \A i \in 1 .. w : y[i] = a[i]
       /\ y[w + 1] = "x"
  <2>1. "x" \in Symbols
    BY DEF Symbols
  <2>2. QED
    BY <2>1, <1>4, <1>9, AppendProperties
<1>11. \A i \in 1 .. w + 1 : y[i] = b[i]
  <2>1. SUFFICES ASSUME NEW i \in 1 .. w + 1
                 PROVE  y[i] = b[i]
    OBVIOUS
  <2>2. CASE i \in 1 .. w
    BY <2>2, <1>4, <1>5, <1>10
  <2>3. CASE i = w + 1
    <3>1. i # 1
      BY <2>3, <1>3
    <3>2. b[i] = "x"
      BY <3>1, <1>5
    <3>3. QED
      BY <2>3, <3>2, <1>10
  <2>4. i \in 1 .. w \/ i = w + 1
    OBVIOUS
  <2>5. QED
    BY <2>2, <2>3, <2>4
<1>12. y = b
  BY <1>5, <1>10, <1>11, SeqEqual
<1>13. a \o x = y
  BY <1>2, <1>4, <1>8, <1>9
<1>14. QED
  BY <1>2, <1>4, <1>7, <1>12, <1>13

(* A value is read where one may begin.                                       *)
LEMMA AfterValue ==
  ASSUME NEW a, NEW o, ReadSymbol("v", a) = State("v", o), NEW w \in Nat \ {0}
  PROVE  \E p \in {"v", "x"} : After(a, Value(w)) = State(p, o)
<1> DEFINE S == {n \in Nat : \E p \in {"v", "x"} : After(a, Value(n + 1)) = State(p, o)}
<1>1. 0 \in S
  <2>1. Value(0 + 1) = <<"v">>
    BY ValueIs
  <2>2. QED
    BY <2>1, AfterSymbol
<1>2. ASSUME NEW n \in Nat, n \in S
      PROVE  n + 1 \in S
  <2>1. PICK p \in {"v", "x"} : After(a, Value(n + 1)) = State(p, o)
    BY <1>2
  <2>2. n + 1 \in Nat \ {0}
    OBVIOUS
  <2>3. Value(n + 1) \in Seq(Symbols) /\ Value((n + 1) + 1) = Value(n + 1) \o <<"x">>
    BY <2>2, ValueIs
  <2>4. <<"x">> \in Seq(Symbols)
    BY DEF Symbols
  <2>5. After(a, Value((n + 1) + 1)) = After(State(p, o), <<"x">>)
    <3>1. PICK t, x : t = Value(n + 1) /\ x = <<"x">>
      OBVIOUS
    <3>2. After(a, t \o x) = After(After(a, t), x)
      BY <3>1, <2>3, <2>4, AfterConcat, Zenon
    <3>3. QED
      BY <3>1, <3>2, <2>1, <2>3
  <2>6. After(State(p, o), <<"x">>) = State("x", o)
    BY AfterSymbol, ReadValue
  <2>7. QED
    BY <2>2, <2>5, <2>6
<1>3. w - 1 \in Nat /\ (w - 1) + 1 = w
  OBVIOUS
<1>4. w - 1 \in S
  <2> HIDE DEF S
  <2>1. QED
    BY <1>1, <1>2, <1>3, Induction
<1>5. QED
  BY <1>3, <1>4

(* e has the elements of an array, up to the n-th.                            *)
Builds(e, w, n) ==
  e = [i \in 0 .. n |-> IF i = 0 THEN <<>> ELSE e[i - 1] \o Value(w) \o <<"comma">>]

(* The function that defines Elements exists,                                 *)
LEMMA ElementsExist ==
  ASSUME NEW w, NEW n \in Nat
  PROVE  \E e : Builds(e, w, n)
<1> DEFINE S == {k \in Nat : \E e : Builds(e, w, k)}
<1>1. 0 \in S
  <2>1. Builds([i \in 0 .. 0 |-> <<>>], w, 0)
    BY DEF Builds
  <2>2. QED
    BY <2>1
<1>2. ASSUME NEW k \in Nat, k \in S
      PROVE  k + 1 \in S
  <2>1. PICK e : Builds(e, w, k)
    BY <1>2
  <2>2. PICK more : more = e[k] \o Value(w) \o <<"comma">>
    OBVIOUS
  <2> DEFINE f == [i \in 0 .. k + 1 |-> IF i = k + 1 THEN more ELSE e[i]]
  <2>3. ASSUME NEW i \in 0 .. k + 1
        PROVE  f[i] = IF i = 0 THEN <<>> ELSE f[i - 1] \o Value(w) \o <<"comma">>
    <3>1. CASE i = 0
      BY <3>1, <2>1 DEF Builds
    <3>2. CASE i = k + 1
      <4>1. f[i - 1] = e[k] /\ f[i] = more /\ i # 0
        BY <3>2
      <4>2. QED
        BY <4>1, <2>2
    <3>3. CASE i # 0 /\ i # k + 1
      <4>1. i \in 0 .. k /\ i - 1 \in 0 .. k /\ i - 1 # k + 1
        BY <3>3
      <4>2. f[i] = e[i] /\ f[i - 1] = e[i - 1]
        BY <4>1, <3>3
      <4>3. e[i] = e[i - 1] \o Value(w) \o <<"comma">>
        BY <2>1, <4>1, <3>3 DEF Builds
      <4>4. QED
        BY <3>3, <4>2, <4>3
    <3>4. QED
      BY <3>1, <3>2, <3>3
  <2>4. Builds(f, w, k + 1)
    BY <2>3 DEF Builds
  <2>5. QED
    BY <2>4
<1>3. n \in S
  <2> HIDE DEF S
  <2>1. QED
    BY <1>1, <1>2, Induction
<1>4. QED
  BY <1>3

(* ... so that Elements is what its definition says.                          *)
LEMMA ElementsAre ==
  ASSUME NEW w, NEW n \in Nat
  PROVE  \E e : Builds(e, w, n) /\ Elements(n, w) = e[n]
<1>1. PICK c : c = CHOOSE e : Builds(e, w, n)
  OBVIOUS
<1>2. Builds(c, w, n)
  BY <1>1, ElementsExist, Zenon
<1>3. Elements(n, w) = (CHOOSE e : Builds(e, w, n))[n]
  BY Zenon DEF Elements, Builds
<1>4. QED
  BY <1>1, <1>2, <1>3, Zenon

(* Longer arrays begin as shorter ones do.                                    *)
LEMMA ElementsGrow ==
  ASSUME NEW w, NEW n \in Nat
  PROVE  /\ Elements(0, w) = <<>>
         /\ Elements(n + 1, w) = Elements(n, w) \o Value(w) \o <<"comma">>
<1>1. Elements(0, w) = <<>>
  <2>1. PICK e : Builds(e, w, 0) /\ Elements(0, w) = e[0]
    BY ElementsAre
  <2>2. QED
    BY <2>1 DEF Builds
<1>2. Elements(n + 1, w) = Elements(n, w) \o Value(w) \o <<"comma">>
  <2>0. n + 1 \in Nat
    OBVIOUS
  <2>1. PICK e : Builds(e, w, n) /\ Elements(n, w) = e[n]
    BY ElementsAre
  <2>2. PICK f : Builds(f, w, n + 1) /\ Elements(n + 1, w) = f[n + 1]
    BY <2>0, ElementsAre
  <2> DEFINE More(s) == s \o Value(w) \o <<"comma">>
  <2>3. ASSUME NEW g, NEW m \in Nat, Builds(g, w, m)
        PROVE  g[0] = <<>> /\ \A i \in 1 .. m : g[i] = More(g[i - 1])
    <3>1. g = [i \in 0 .. m |-> IF i = 0 THEN <<>> ELSE More(g[i - 1])]
      BY <2>3, Zenon DEF Builds
    <3> HIDE DEF More
    <3>2. QED
      BY <3>1
  <2>4. /\ e[0] = <<>> /\ f[0] = <<>>
        /\ \A i \in 1 .. n : e[i] = More(e[i - 1])
        /\ \A i \in 1 .. n + 1 : f[i] = More(f[i - 1])
    BY <2>0, <2>1, <2>2, <2>3, Zenon
  <2> DEFINE S == {k \in Nat : k <= n => e[k] = f[k]}
  <2> HIDE DEF More
  <2>5. 0 \in S
    BY <2>4
  <2>6. ASSUME NEW k \in Nat, k \in S
        PROVE  k + 1 \in S
    <3>1. SUFFICES ASSUME k + 1 <= n
                   PROVE  e[k + 1] = f[k + 1]
      OBVIOUS
    <3>2. e[k] = f[k] /\ k + 1 \in 1 .. n /\ k + 1 \in 1 .. n + 1 /\ (k + 1) - 1 = k
      BY <2>6, <3>1
    <3>3. QED
      BY <3>2, <2>4
  <2>7. n \in S
    <3> HIDE DEF S
    <3>1. QED
      BY <2>5, <2>6, Induction
  <2>8. f[n + 1] = More(f[n])
    BY <2>4
  <2>9. f[n + 1] = More(e[n])
    BY <2>7, <2>8
  <2>10. QED
    BY <2>1, <2>2, <2>9 DEF More
<1>3. QED
  BY <1>1, <1>2

(* Elements are a text.                                                       *)
LEMMA ElementsTyped ==
  ASSUME NEW w \in Nat \ {0}, NEW n \in Nat
  PROVE  Elements(n, w) \in Seq(Symbols)
<1> DEFINE S == {k \in Nat : Elements(k, w) \in Seq(Symbols)}
<1>1. 0 \in S
  <2>1. 0 \in Nat /\ <<>> \in Seq(Symbols)
    OBVIOUS
  <2>2. Elements(0, w) = <<>>
    BY <2>1, ElementsGrow, Zenon
  <2>3. QED
    BY <2>1, <2>2
<1>2. ASSUME NEW k \in Nat, k \in S
      PROVE  k + 1 \in S
  <2>1. Value(w) \in Seq(Symbols) /\ <<"comma">> \in Seq(Symbols)
    BY ValueIs DEF Symbols
  <2>2. PICK e, v, c : e = Elements(k, w) /\ v = Value(w) /\ c = <<"comma">>
    OBVIOUS
  <2>3. PICK y : y = e \o v \o c
    OBVIOUS
  <2>4. y \in Seq(Symbols)
    BY <1>2, <2>1, <2>2, <2>3
  <2>5. Elements(k + 1, w) = y
    BY <2>2, <2>3, ElementsGrow, Zenon
  <2>6. k + 1 \in Nat
    OBVIOUS
  <2>7. QED
    BY <2>4, <2>5, <2>6
<1>3. n \in S
  <2> HIDE DEF S
  <2>1. QED
    BY <1>1, <1>2, Induction
<1>4. QED
  BY <1>3

(* The reader comes through the elements of an array, and is in it still.     *)
LEMMA AfterElements ==
  ASSUME NEW w \in Nat \ {0}, NEW n \in Nat, NEW d \in Nat \ {0}
  PROVE  /\ After(State("array", Bracket(d)), Elements(n, w)) =
              State(IF n = 0 THEN "array" ELSE "comma", Bracket(d))
         /\ \E p \in {"v", "x"} : After(State("array", Bracket(d)), Elements(n, w) \o Value(w)) =
                                    State(p, Bracket(d))
<1> DEFINE Before(k) == State(IF k = 0 THEN "array" ELSE "comma", Bracket(d))
           a == State("array", Bracket(d))
           S == {k \in Nat : After(a, Elements(k, w)) = Before(k)}
<1>1. ASSUME NEW k \in Nat, After(a, Elements(k, w)) = Before(k)
      PROVE  \E p \in {"v", "x"} : After(a, Elements(k, w) \o Value(w)) = State(p, Bracket(d))
  <2>1. ReadSymbol("v", Before(k)) = State("v", Bracket(d))
    <3>1. CASE k = 0
      BY <3>1, ReadValue
    <3>2. CASE k # 0
      BY <3>2, ReadComma DEF Complete
    <3>3. QED
      BY <3>1, <3>2
  <2>2. PICK p \in {"v", "x"} : After(Before(k), Value(w)) = State(p, Bracket(d))
    <3> HIDE DEF Before
    <3>1. QED
      BY <2>1, AfterValue
  <2>3. After(a, Elements(k, w) \o Value(w)) = After(After(a, Elements(k, w)), Value(w))
    <3>1. Elements(k, w) \in Seq(Symbols) /\ Value(w) \in Seq(Symbols)
      BY ElementsTyped, ValueIs
    <3>2. QED
      BY <3>1, AfterConcat, Zenon
  <2>4. QED
    BY <1>1, <2>2, <2>3
<1>2. 0 \in S
  BY ElementsGrow, AfterNothing
<1>3. ASSUME NEW k \in Nat, k \in S
      PROVE  k + 1 \in S
  <2>1. PICK p \in {"v", "x"} : After(a, Elements(k, w) \o Value(w)) = State(p, Bracket(d))
    BY <1>1, <1>3
  <2>2. PICK u : u = Elements(k, w) \o Value(w)
    OBVIOUS
  <2>3. u \in Seq(Symbols) /\ <<"comma">> \in Seq(Symbols)
    BY <2>2, ElementsTyped, ValueIs DEF Symbols
  <2>4. Elements(k + 1, w) = u \o <<"comma">>
    BY <2>2, ElementsGrow
  <2>5. After(a, u \o <<"comma">>) = After(State(p, Bracket(d)), <<"comma">>)
    <3>1. PICK c : c = <<"comma">>
      OBVIOUS
    <3>2. After(a, u \o c) = After(After(a, u), c)
      BY <3>1, <2>3, AfterConcat, Zenon
    <3>3. QED
      BY <3>1, <3>2, <2>1, <2>2
  <2>6. After(State(p, Bracket(d)), <<"comma">>) = State("comma", Bracket(d))
    BY AfterSymbol, ReadComma DEF Complete
  <2>7. k + 1 \in Nat /\ k + 1 # 0
    OBVIOUS
  <2>8. QED
    BY <2>4, <2>5, <2>6, <2>7
<1>4. n \in S
  <2> HIDE DEF S
  <2>1. QED
    BY <1>2, <1>3, Induction
<1>5. QED
  BY <1>1, <1>4
-----------------------------------------------------------------------------
(* Short sequences, written out.                                              *)
LEMMA Pair ==
  ASSUME NEW S, NEW s \in S, NEW r \in S
  PROVE  <<s>> \o <<r>> = <<s, r>>
<1>1. PICK x, y : x = <<s>> /\ y = <<s, r>>
  OBVIOUS
<1>2. x \in Seq(S) /\ Len(x) = 1 /\ x[1] = s
  BY <1>1
<1>3. y \in Seq(S) /\ Len(y) = 2 /\ y[1] = s /\ y[2] = r
  BY <1>1
<1>4. PICK z : z = Append(x, r)
  OBVIOUS
<1>5. z \in Seq(S) /\ Len(z) = 2 /\ z[1] = s /\ z[2] = r
  <2>1. x \in Seq(S)
    BY <1>2
  <2>2. /\ z \in Seq(S) /\ Len(z) = Len(x) + 1
        /\ \A i \in 1 .. Len(x) : z[i] = x[i]
        /\ z[Len(x) + 1] = r
    BY <2>1, <1>4, AppendProperties, ZenonT(40)
  <2>3. QED
    BY <1>2, <2>2
<1>6. \A i \in 1 .. 2 : z[i] = y[i]
  <2>1. \A i \in 1 .. 2 : i = 1 \/ i = 2
    OBVIOUS
  <2>2. QED
    BY <2>1, <1>3, <1>5
<1>7. z = y
  BY <1>3, <1>5, <1>6, SeqEqual
<1>8. x \o <<r>> = z
  BY <1>2, <1>4
<1>9. QED
  BY <1>1, <1>7, <1>8

LEMMA Triple ==
  ASSUME NEW S, NEW s \in S, NEW r \in S, NEW q \in S
  PROVE  <<s, r>> \o <<q>> = <<s, r, q>>
<1>1. PICK x, y : x = <<s, r>> /\ y = <<s, r, q>>
  OBVIOUS
<1>2. x \in Seq(S) /\ Len(x) = 2 /\ x[1] = s /\ x[2] = r
  BY <1>1
<1>3. y \in Seq(S) /\ Len(y) = 3 /\ y[1] = s /\ y[2] = r /\ y[3] = q
  BY <1>1
<1>4. PICK z : z = Append(x, q)
  OBVIOUS
<1>5. z \in Seq(S) /\ Len(z) = 3 /\ z[1] = s /\ z[2] = r /\ z[3] = q
  <2>1. x \in Seq(S)
    BY <1>2
  <2>2. /\ z \in Seq(S) /\ Len(z) = Len(x) + 1
        /\ \A i \in 1 .. Len(x) : z[i] = x[i]
        /\ z[Len(x) + 1] = q
    BY <2>1, <1>4, AppendProperties, ZenonT(40)
  <2>3. QED
    BY <1>2, <2>2
<1>6. \A i \in 1 .. 3 : z[i] = y[i]
  <2>1. \A i \in 1 .. 3 : i = 1 \/ i = 2 \/ i = 3
    OBVIOUS
  <2>2. QED
    BY <2>1, <1>3, <1>5
<1>7. z = y
  BY <1>3, <1>5, <1>6, SeqEqual
<1>8. x \o <<q>> = z
  BY <1>2, <1>4
<1>9. QED
  BY <1>1, <1>7, <1>8

(* Two symbols behind a text, one after the other or at once.                 *)
LEMMA TwoBehind ==
  ASSUME NEW S, NEW t \in Seq(S), NEW s \in S, NEW r \in S
  PROVE  (t \o <<s>>) \o <<r>> = t \o <<s, r>>
<1>1. PICK x, y : x = <<s>> /\ y = <<r>>
  OBVIOUS
<1>2. x \in Seq(S) /\ y \in Seq(S)
  BY <1>1
<1>3. (t \o x) \o y = t \o (x \o y)
  BY <1>2, ConcatAssociative
<1>4. QED
  BY <1>1, <1>3, Pair

(* The texts the functions make of the texts before them.                     *)

(* The reader comes through t, from a to b.                                   *)
Brings(a, t, b) == t \in Seq(Symbols) /\ After(a, t) = b

(* Texts that go on from each other can be joined.                            *)
LEMMA BringsOn ==
  ASSUME NEW a, NEW b, NEW c, NEW t, NEW u, Brings(a, t, b), Brings(b, u, c)
  PROVE  Brings(a, t \o u, c)
<1>1. t \in Seq(Symbols) /\ u \in Seq(Symbols) /\ After(a, t) = b /\ After(b, u) = c
  BY DEF Brings
<1>2. t \o u \in Seq(Symbols)
  BY <1>1
<1>3. After(a, t \o u) = After(After(a, t), u)
  BY <1>1, AfterConcat, Zenon
<1>4. QED
  BY <1>1, <1>2, <1>3 DEF Brings

(* ... and are made of symbols.                                               *)
LEMMA BringsSymbol ==
  ASSUME NEW a, NEW b, NEW s \in Symbols, ReadSymbol(s, a) = b
  PROVE  Brings(a, <<s>>, b)
<1>1. <<s>> \in Seq(Symbols)
  OBVIOUS
<1>2. QED
  BY <1>1, AfterSymbol, Zenon DEF Brings

LEMMA BringsPair ==
  ASSUME NEW a, NEW b, NEW c, NEW s \in Symbols, NEW r \in Symbols,
         ReadSymbol(s, a) = b, ReadSymbol(r, b) = c
  PROVE  Brings(a, <<s, r>>, c)
<1>1. Brings(a, <<s>>, b) /\ Brings(b, <<r>>, c)
  BY BringsSymbol
<1>2. Brings(a, <<s>> \o <<r>>, c)
  BY <1>1, BringsOn, Zenon
<1>3. <<s>> \o <<r>> = <<s, r>>
  BY Pair
<1>4. QED
  BY <1>2, <1>3

(* In t an object is open, d levels deep; what comes next is a name, or the   *)
(* end of the innermost level once DropComma has taken the comma away.        *)
Partial(t, d) ==
  /\ \E p \in {"brace", "comma"} : Brings(Beginning, t, State(p, Braces(d)))
  /\ \E p \in Complete \union {"brace"} : Brings(Beginning, DropComma(t), State(p, Braces(d)))
  /\ t # <<>>

(* The symbols, and those behind which something is complete.                 *)
LEMMA SymbolsAre ==
  /\ {"brace", "endbrace", "array", "endarray", "comma", "n", "v", "x"} \subseteq Symbols
  /\ {"v", "x", "endbrace", "endarray"} \subseteq Complete
  BY DEF Symbols, Complete

(* What DropComma makes of a text with s at its end.                          *)
LEMMA DropCommaIs ==
  ASSUME NEW u \in Seq(Symbols), NEW s \in Symbols
  PROVE  /\ u \o <<s>> # <<>>
         /\ DropComma(u \o <<s>>) = IF s = "comma" THEN u ELSE u \o <<s>>
<1>1. PICK t : t = Append(u, s)
  OBVIOUS
<1>2. t # <<>> /\ Last(t) = s /\ Front(t) = u
  BY <1>1, FrontAppend
<1>3. u \o <<s>> = t
  BY <1>1
<1>4. QED
  BY <1>2, <1>3 DEF DropComma

(* What is complete, with a comma behind it, can go on.                       *)
LEMMA PartialComma ==
  ASSUME NEW d \in Nat \ {0}, NEW u, NEW p \in Complete,
         Brings(Beginning, u, State(p, Braces(d)))
  PROVE  Partial(u \o <<"comma">>, d)
<1>1. u \in Seq(Symbols) /\ "comma" \in Symbols
  BY SymbolsAre DEF Brings
<1>2. PICK t : t = u \o <<"comma">>
  OBVIOUS
<1>3. t # <<>> /\ DropComma(t) = u
  BY <1>1, <1>2, DropCommaIs
<1>4. Brings(State(p, Braces(d)), <<"comma">>, State("comma", Braces(d)))
  BY <1>1, ReadComma, BringsSymbol
<1>5. PICK c : c = <<"comma">>
  OBVIOUS
<1>6. Brings(Beginning, u \o c, State("comma", Braces(d)))
  BY <1>4, <1>5, BringsOn, Zenon
<1>7. QED
  BY <1>2, <1>3, <1>5, <1>6 DEF Partial

(* An object that has just begun can go on.                                   *)
LEMMA PartialBrace ==
  ASSUME NEW d \in Nat \ {0}, NEW u, NEW a,
         Brings(Beginning, u, a), ReadSymbol("brace", a) = State("brace", Braces(d))
  PROVE  Partial(u \o <<"brace">>, d)
<1>1. u \in Seq(Symbols) /\ "brace" \in Symbols
  BY SymbolsAre DEF Brings
<1>2. PICK t : t = u \o <<"brace">>
  OBVIOUS
<1>3. t # <<>> /\ DropComma(t) = t
  BY <1>1, <1>2, DropCommaIs
<1>4. Brings(a, <<"brace">>, State("brace", Braces(d)))
  BY <1>1, BringsSymbol
<1>5. PICK c : c = <<"brace">>
  OBVIOUS
<1>6. Brings(Beginning, u \o c, State("brace", Braces(d)))
  BY <1>4, <1>5, BringsOn, Zenon
<1>7. QED
  BY <1>2, <1>3, <1>5, <1>6 DEF Partial

(* json_begin opens one level, json_begin_section two.                        *)
LEMMA BeginTextIs ==
  ASSUME NEW t
  PROVE  Partial(BeginText(t), 1) /\ Partial(BeginSectionText(t), 2)
<1>1. Brings(Beginning, <<>>, Beginning)
  BY AfterNothing DEF Brings
<1>2. Partial(<<>> \o <<"brace">>, 1)
  <2>1. 1 \in Nat \ {0}
    OBVIOUS
  <2>2. PICK u : u = <<>>
    OBVIOUS
  <2>3. Partial(u \o <<"brace">>, 1)
    BY <1>1, <2>1, <2>2, ReadBegins, PartialBrace
  <2>4. QED
    BY <2>2, <2>3
<1>3. <<>> \o <<"brace">> = BeginText(t)
  BY DEF BeginText
<1>4. ReadSymbol("n", State("brace", Braces(1))) = State("n", Braces(1))
  BY ReadName
<1>5. Brings(Beginning, <<"brace", "n">>, State("n", Braces(1)))
  BY <1>4, ReadBegins, BringsPair, SymbolsAre
<1>6. ReadSymbol("brace", State("n", Braces(1))) = State("brace", Braces(2))
  <2>1. 1 \in Nat \ {0} /\ 1 + 1 = 2
    OBVIOUS
  <2>2. QED
    BY <2>1, ReadNested
<1>7. Partial(<<"brace", "n">> \o <<"brace">>, 2)
  <2>1. 2 \in Nat \ {0}
    OBVIOUS
  <2>2. PICK u : u = <<"brace", "n">>
    OBVIOUS
  <2>3. Partial(u \o <<"brace">>, 2)
    BY <1>5, <1>6, <2>1, <2>2, PartialBrace
  <2>4. QED
    BY <2>2, <2>3
<1>8. <<"brace", "n">> \o <<"brace">> = BeginSectionText(t)
  BY Triple, SymbolsAre DEF BeginSectionText
<1>9. QED
  BY <1>2, <1>3, <1>7, <1>8

(* A name goes behind a partial text.                                         *)
LEMMA NameIs ==
  ASSUME NEW d \in Nat \ {0}, NEW t, Partial(t, d)
  PROVE  Brings(Beginning, t \o <<"n">>, State("n", Braces(d)))
<1>1. PICK p \in {"brace", "comma"} : Brings(Beginning, t, State(p, Braces(d)))
  BY DEF Partial
<1>2. Brings(State(p, Braces(d)), <<"n">>, State("n", Braces(d)))
  BY ReadName, BringsSymbol, SymbolsAre
<1>3. QED
  BY <1>1, <1>2, BringsOn, Zenon

(* json_section_start opens another level,                                    *)
LEMMA SectionStartTextIs ==
  ASSUME NEW d \in Nat \ {0}, NEW t, Partial(t, d)
  PROVE  Partial(SectionStartText(t), d + 1)
<1>1. PICK u : u = t \o <<"n">>
  OBVIOUS
<1>2. Brings(Beginning, u, State("n", Braces(d)))
  BY <1>1, NameIs
<1>3. d + 1 \in Nat \ {0} /\ ReadSymbol("brace", State("n", Braces(d))) = State("brace", Braces(d + 1))
  BY ReadNested
<1>4. Partial(u \o <<"brace">>, d + 1)
  BY <1>2, <1>3, PartialBrace
<1>5. t \in Seq(Symbols) /\ "n" \in Symbols /\ "brace" \in Symbols
  BY SymbolsAre DEF Partial, Brings
<1>6. u \o <<"brace">> = SectionStartText(t)
  BY <1>1, <1>5 DEF SectionStartText
<1>7. QED
  BY <1>4, <1>6

(* The innermost level is closed.                                             *)
LEMMA EndBraceIs ==
  ASSUME NEW d \in Nat \ {0}, NEW t, Partial(t, d)
  PROVE  Brings(Beginning, DropComma(t) \o <<"endbrace">>, State("endbrace", Braces(d - 1)))
<1>1. PICK p \in Complete \union {"brace"} : Brings(Beginning, DropComma(t), State(p, Braces(d)))
  BY DEF Partial
<1>2. ReadSymbol("endbrace", State(p, Braces(d))) = State("endbrace", Braces(d - 1))
  <2>1. CASE p \in Complete
    BY <2>1, ReadCloses
  <2>2. CASE p = "brace"
    BY <2>2, ReadCloses, SymbolsAre
  <2>3. QED
    BY <2>1, <2>2
<1>3. Brings(State(p, Braces(d)), <<"endbrace">>, State("endbrace", Braces(d - 1)))
  BY <1>2, BringsSymbol, SymbolsAre
<1>4. QED
  BY <1>1, <1>3, BringsOn, Zenon

(* ... and json_section_end closes it.                                        *)
LEMMA SectionEndTextIs ==
  ASSUME NEW d \in Nat, d > 1, NEW t, Partial(t, d)
  PROVE  Partial(SectionEndText(t), d - 1)
<1>1. d \in Nat \ {0} /\ d - 1 \in Nat \ {0}
  OBVIOUS
<1>2. PICK s : s = DropComma(t)
  OBVIOUS
<1>3. PICK u : u = s \o <<"endbrace">>
  OBVIOUS
<1>4. Brings(Beginning, u, State("endbrace", Braces(d - 1)))
  BY <1>1, <1>2, <1>3, EndBraceIs
<1>5. Partial(u \o <<"comma">>, d - 1)
  BY <1>1, <1>4, PartialComma, SymbolsAre
<1>6. s \in Seq(Symbols) /\ "endbrace" \in Symbols /\ "comma" \in Symbols
  BY <1>2, SymbolsAre DEF Partial, Brings
<1>7. u \o <<"comma">> = s \o <<"endbrace", "comma">>
  BY <1>3, <1>6
<1>8. QED
  BY <1>2, <1>5, <1>7 DEF SectionEndText

(* A text with nothing left open is an object.                                *)
LEMMA ClosedIsWellFormed ==
  ASSUME NEW u \in Seq(Symbols), Brings(Beginning, u \o <<"endbrace">>, State("endbrace", Braces(0)))
  PROVE  WellFormed(u \o <<"endbrace">>)
<1>1. PICK t : t = u \o <<"endbrace">>
  OBVIOUS
<1>2. t # <<>>
  BY <1>1, DropCommaIs, SymbolsAre
<1>3. After(Beginning, t) = State("endbrace", Braces(0))
  BY <1>1 DEF Brings
<1>4. Braces(0) = <<>>
  BY DEF Braces
<1>5. WellFormed(t)
  BY <1>2, <1>3, <1>4 DEF WellFormed, State
<1>6. QED
  BY <1>1, <1>5

(* json_end closes one level, json_end_section two.                           *)
LEMMA EndTextIs ==
  ASSUME NEW t, Partial(t, 1)
  PROVE  WellFormed(EndText(t))
<1>1. Brings(Beginning, DropComma(t) \o <<"endbrace">>, State("endbrace", Braces(0)))
  <2>1. 1 \in Nat \ {0} /\ 1 - 1 = 0
    OBVIOUS
  <2>2. QED
    BY <2>1, EndBraceIs
<1>2. DropComma(t) \in Seq(Symbols)
  BY DEF Partial, Brings
<1>3. QED
  BY <1>1, <1>2, ClosedIsWellFormed DEF EndText

LEMMA EndSectionTextIs ==
  ASSUME NEW t, Partial(t, 2)
  PROVE  WellFormed(EndSectionText(t))
<1>1. PICK s : s = DropComma(t)
  OBVIOUS
<1>2. PICK u : u = s \o <<"endbrace">>
  OBVIOUS
<1>3. Brings(Beginning, u, State("endbrace", Braces(1)))
  <2>1. 2 \in Nat \ {0} /\ 2 - 1 = 1
    OBVIOUS
  <2>2. QED
    BY <2>1, <1>1, <1>2, EndBraceIs
<1>4. Brings(State("endbrace", Braces(1)), <<"endbrace">>, State("endbrace", Braces(0)))
  <2>1. 1 \in Nat \ {0} /\ 1 - 1 = 0
    OBVIOUS
  <2>2. ReadSymbol("endbrace", State("endbrace", Braces(1))) = State("endbrace", Braces(0))
    BY <2>1, ReadCloses, SymbolsAre
  <2>3. QED
    BY <2>2, BringsSymbol, SymbolsAre
<1>5. Brings(Beginning, u \o <<"endbrace">>, State("endbrace", Braces(0)))
  <2>1. PICK c : c = <<"endbrace">>
    OBVIOUS
  <2>2. Brings(Beginning, u \o c, State("endbrace", Braces(0)))
    BY <1>3, <1>4, <2>1, BringsOn, Zenon
  <2>3. QED
    BY <2>1, <2>2
<1>6. u \in Seq(Symbols)
  BY <1>3 DEF Brings
<1>7. WellFormed(u \o <<"endbrace">>)
  BY <1>5, <1>6, ClosedIsWellFormed
<1>8. s \in Seq(Symbols) /\ "endbrace" \in Symbols
  BY <1>1, SymbolsAre DEF Partial, Brings
<1>9. u \o <<"endbrace">> = s \o <<"endbrace", "endbrace">>
  BY <1>2, <1>8
<1>10. QED
  BY <1>1, <1>7, <1>9 DEF EndSectionText

(* A name and a value.                                                        *)
LEMMA NamedValueIs ==
  ASSUME NEW d \in Nat \ {0}, NEW t, Partial(t, d), NEW w \in Nat \ {0}
  PROVE  \E p \in {"v", "x"} : Brings(Beginning, t \o <<"n">> \o Value(w), State(p, Braces(d)))
<1>1. PICK u : u = t \o <<"n">>
  OBVIOUS
<1>2. Brings(Beginning, u, State("n", Braces(d)))
  BY <1>1, NameIs
<1>3. PICK p \in {"v", "x"} : After(State("n", Braces(d)), Value(w)) = State(p, Braces(d))
  BY ReadValue, AfterValue
<1>4. Brings(State("n", Braces(d)), Value(w), State(p, Braces(d)))
  BY <1>3, ValueIs DEF Brings
<1>5. Brings(Beginning, u \o Value(w), State(p, Braces(d)))
  BY <1>2, <1>4, BringsOn, Zenon
<1>6. QED
  BY <1>1, <1>5

(* What json_add_name_str and its likes add leaves the level open,            *)
LEMMA NameValueTextIs ==
  ASSUME NEW d \in Nat \ {0}, NEW t, Partial(t, d), NEW w \in Nat \ {0}
  PROVE  Partial(NameValueText(t, w), d)
<1>1. PICK u : u = t \o <<"n">> \o Value(w)
  OBVIOUS
<1>2. PICK p \in {"v", "x"} : Brings(Beginning, u, State(p, Braces(d)))
  BY <1>1, NamedValueIs
<1>3. p \in Complete
  BY SymbolsAre
<1>4. Partial(u \o <<"comma">>, d)
  BY <1>2, <1>3, PartialComma
<1>5. QED
  BY <1>1, <1>4 DEF NameValueText

(* An array goes behind a name.                                               *)
LEMMA ArrayIs ==
  ASSUME NEW d \in Nat \ {0}, NEW t, Partial(t, d), NEW u, NEW p \in Complete,
         Brings(State("array", Bracket(d)), u, State(p, Bracket(d)))
  PROVE  /\ Partial(t \o <<"n", "array">> \o u \o <<"endarray", "comma">>, d)
         /\ Partial(t \o <<"n">> \o (<<"array">> \o u \o <<"endarray", "comma">>), d)
<1>1. /\ t \in Seq(Symbols) /\ u \in Seq(Symbols)
      /\ "n" \in Symbols /\ "array" \in Symbols /\ "endarray" \in Symbols /\ "comma" \in Symbols
  BY SymbolsAre DEF Partial, Brings
<1>2. PICK n, a, e, c, ec : /\ n = <<"n">> /\ a = <<"array">> /\ e = <<"endarray">> /\ c = <<"comma">>
                            /\ ec = <<"endarray", "comma">>
  OBVIOUS
<1>3. Brings(Beginning, t \o n, State("n", Braces(d)))
  BY <1>2, NameIs
<1>4. Brings(State("n", Braces(d)), a, State("array", Bracket(d)))
  BY <1>1, <1>2, ReadNested, BringsSymbol
<1>5. Brings(State(p, Bracket(d)), e, State("endarray", Braces(d)))
  BY <1>1, <1>2, ReadCloses, BringsSymbol
<1>6. PICK b : b = (t \o n) \o a
  OBVIOUS
<1>7. Brings(Beginning, b, State("array", Bracket(d)))
  BY <1>3, <1>4, <1>6, BringsOn, Zenon
<1>8. PICK f : f = b \o u
  OBVIOUS
<1>9. Brings(Beginning, f, State(p, Bracket(d)))
  BY <1>7, <1>8, BringsOn, Zenon
<1>10. PICK g : g = f \o e
  OBVIOUS
<1>11. Brings(Beginning, g, State("endarray", Braces(d)))
  BY <1>5, <1>9, <1>10, BringsOn, Zenon
<1>12. Partial(g \o c, d)
  BY <1>2, <1>11, PartialComma, SymbolsAre
<1>13. f \in Seq(Symbols) /\ b \in Seq(Symbols)
  BY <1>7, <1>9 DEF Brings
<1>14. g \o c = f \o ec
  <2>1. (f \o <<"endarray">>) \o <<"comma">> = f \o <<"endarray", "comma">>
    BY <1>1, <1>13, TwoBehind, Zenon
  <2>2. QED
    BY <2>1, <1>2, <1>10
<1>15. b = t \o <<"n", "array">>
  BY <1>1, <1>2, <1>6, TwoBehind
<1>16. f \o ec = t \o n \o (a \o u \o ec)
  <2>1. n \in Seq(Symbols) /\ a \in Seq(Symbols) /\ ec \in Seq(Symbols)
    BY <1>1, <1>2
  <2>2. t \o n \in Seq(Symbols) /\ a \o u \in Seq(Symbols)
    BY <2>1, <1>1
  <2>3. PICK x, y : x = t \o n /\ y = a \o u
    OBVIOUS
  <2>4. x \in Seq(Symbols) /\ y \in Seq(Symbols) /\ a \in Seq(Symbols)
        /\ u \in Seq(Symbols) /\ ec \in Seq(Symbols)
    BY <2>1, <2>2, <2>3, <1>1
  <2>5. (x \o a) \o u = x \o (a \o u)
    BY <2>4, ConcatAssociative, SMTT(40)
  <2>6. (x \o y) \o ec = x \o (y \o ec)
    BY <2>4, ConcatAssociative, SMTT(40)
  <2>7. QED
    BY <2>3, <2>5, <2>6, <1>6, <1>8
<1>17. QED
  BY <1>2, <1>8, <1>12, <1>14, <1>15, <1>16

(* ... so does an array of one value,                                         *)
LEMMA NameArrayTextIs ==
  ASSUME NEW d \in Nat \ {0}, NEW t, Partial(t, d), NEW w \in Nat \ {0}
  PROVE  Partial(NameArrayText(t, w), d)
<1>1. PICK p \in {"v", "x"} : After(State("array", Bracket(d)), Value(w)) = State(p, Bracket(d))
  BY ReadValue, AfterValue
<1>2. p \in Complete
  BY SymbolsAre
<1>3. Brings(State("array", Bracket(d)), Value(w), State(p, Bracket(d)))
  BY <1>1, ValueIs DEF Brings
<1>4. QED
  BY <1>2, <1>3, ArrayIs DEF NameArrayText

ParamHead == <<"n", "brace", "n", "v", "comma", "n">>

(* The beginning of a parameter, up to its value.                             *)
LEMMA ParamHeadIs ==
  ASSUME NEW d \in Nat \ {0}, NEW p \in {"brace", "comma"}
  PROVE  Brings(State(p, Braces(d)), ParamHead, State("n", Braces(d + 1)))
<1>1. PICK t : t = ParamHead
  OBVIOUS
<1>2. /\ t \in Seq(Symbols) /\ Len(t) = 6 /\ t[1] = "n" /\ t[2] = "brace" /\ t[3] = "n"
      /\ t[4] = "v" /\ t[5] = "comma" /\ t[6] = "n"
  BY <1>1, SymbolsAre DEF ParamHead
<1>3. PICK a, r : a = State(p, Braces(d)) /\ r = Reading(a, t)
  OBVIOUS
<1>4. r[0] = a /\ \A i \in 1 .. 6 : r[i] = ReadSymbol(t[i], r[i - 1])
  <2>1. Len(t) \in Nat
    BY <1>2
  <2>2. /\ Reading(a, t)[0] = a
        /\ \A i \in 1 .. Len(t) : Reading(a, t)[i] = ReadSymbol(t[i], Reading(a, t)[i - 1])
    BY <2>1, ReadingSteps
  <2>3. QED
    BY <2>2, <1>2, <1>3
<1>5. /\ r[1] = ReadSymbol("n", a) /\ r[2] = ReadSymbol("brace", r[1])
      /\ r[3] = ReadSymbol("n", r[2]) /\ r[4] = ReadSymbol("v", r[3])
      /\ r[5] = ReadSymbol("comma", r[4]) /\ r[6] = ReadSymbol("n", r[5])
  BY <1>2, <1>4
<1>6. d + 1 \in Nat \ {0}
  OBVIOUS
<1>7. r[1] = State("n", Braces(d))
  BY <1>3, <1>5, ReadName
<1>8. r[2] = State("brace", Braces(d + 1))
  BY <1>5, <1>7, ReadNested
<1>9. r[3] = State("n", Braces(d + 1))
  BY <1>5, <1>6, <1>8, ReadName
<1>10. r[4] = State("v", Braces(d + 1))
  BY <1>5, <1>9, ReadValue
<1>11. r[5] = State("comma", Braces(d + 1))
  BY <1>5, <1>6, <1>10, ReadComma, SymbolsAre
<1>12. r[6] = State("n", Braces(d + 1))
  BY <1>5, <1>6, <1>11, ReadName
<1>13. After(a, t) = r[6]
  BY <1>2, <1>3 DEF After
<1>14. QED
  BY <1>1, <1>2, <1>3, <1>12, <1>13 DEF Brings

(* ... a parameter,                                                           *)
LEMMA ParamTextIs ==
  ASSUME NEW d \in Nat \ {0}, NEW t, Partial(t, d), NEW w \in Nat \ {0}
  PROVE  Partial(ParamText(t, w), d)
<1>1. d + 1 \in Nat \ {0} /\ (d + 1) - 1 = d
  OBVIOUS
<1>2. PICK q \in {"brace", "comma"} : Brings(Beginning, t, State(q, Braces(d)))
  BY DEF Partial
<1>3. PICK h, v, e, c, ec : /\ h = ParamHead /\ v = Value(w) /\ e = <<"endbrace">> /\ c = <<"comma">>
                            /\ ec = <<"endbrace", "comma">>
  OBVIOUS
<1>4. Brings(State(q, Braces(d)), h, State("n", Braces(d + 1)))
  BY <1>3, ParamHeadIs
<1>5. PICK p \in {"v", "x"} : After(State("n", Braces(d + 1)), v) = State(p, Braces(d + 1))
  BY <1>3, ReadValue, AfterValue
<1>6. Brings(State("n", Braces(d + 1)), v, State(p, Braces(d + 1)))
  BY <1>3, <1>5, ValueIs DEF Brings
<1>7. Brings(State(p, Braces(d + 1)), e, State("endbrace", Braces(d)))
  <2>1. ReadSymbol("endbrace", State(p, Braces(d + 1))) = State("endbrace", Braces((d + 1) - 1))
    BY <1>1, ReadCloses, SymbolsAre
  <2>2. QED
    BY <2>1, <1>1, <1>3, BringsSymbol, SymbolsAre
<1>8. PICK b, u : b = t \o h /\ u = b \o v
  OBVIOUS
<1>9. Brings(Beginning, b, State("n", Braces(d + 1)))
  BY <1>2, <1>4, <1>8, BringsOn, Zenon
<1>10. Brings(Beginning, u, State(p, Braces(d + 1)))
  <2>1. Brings(Beginning, b \o v, State(p, Braces(d + 1)))
    BY <1>6, <1>9, BringsOn
  <2>2. QED
    BY <2>1, <1>8
<1>11. PICK g : g = u \o e
  OBVIOUS
<1>12. Brings(Beginning, g, State("endbrace", Braces(d)))
  BY <1>7, <1>10, <1>11, BringsOn, Zenon
<1>13. Partial(g \o c, d)
  BY <1>3, <1>12, PartialComma, SymbolsAre
<1>14. u \in Seq(Symbols)
  BY <1>10 DEF Brings
<1>15. g \o c = u \o ec
  BY <1>3, <1>11, <1>14, TwoBehind, SymbolsAre
<1>16. QED
  BY <1>3, <1>8, <1>13, <1>15 DEF ParamText, ParamHead

(* An array without its last comma.                                           *)
LEMMA FrontOfElements ==
  ASSUME NEW w \in Nat \ {0}, NEW n \in Nat
  PROVE  /\ Front(Elements(n + 1, w)) = Elements(n, w) \o Value(w)
         /\ Len(Elements(n + 1, w)) = Len(Front(Elements(n + 1, w))) + 1
<1>1. PICK u : u = Elements(n, w) \o Value(w)
  OBVIOUS
<1>2. Elements(n, w) \in Seq(Symbols) /\ Value(w) \in Seq(Symbols) /\ "comma" \in Symbols
  BY ElementsTyped, ValueIs, SymbolsAre
<1>3. u \in Seq(Symbols)
  BY <1>1, <1>2
<1>4. PICK t : t = Append(u, "comma")
  OBVIOUS
<1>5. Front(t) = u
  BY <1>2, <1>3, <1>4, FrontAppend
<1>6. Len(t) = Len(u) + 1
  BY <1>2, <1>3, <1>4
<1>7. u \o <<"comma">> = t
  BY <1>2, <1>3, <1>4
<1>8. Elements(n + 1, w) = u \o <<"comma">>
  BY <1>1, ElementsGrow
<1>9. QED
  BY <1>1, <1>5, <1>6, <1>7, <1>8

(* ... and a value or an array of any size.                                   *)
LEMMA ItemTextIs ==
  ASSUME NEW d \in Nat \ {0}, NEW t, Partial(t, d), NEW dim \in Nat \ {0}, NEW w \in Nat \ {0}
  PROVE  Partial(ItemText(t, dim, w), d)
<1>1. CASE dim = 1
  <2>1. PICK v, c : v = Value(w) /\ c = <<"comma">>
    OBVIOUS
  <2>2. v \in Seq(Symbols) /\ c \in Seq(Symbols) /\ t \in Seq(Symbols) /\ <<"n">> \in Seq(Symbols)
    BY <2>1, ValueIs, SymbolsAre DEF Partial, Brings
  <2>3. Elements(1, w) = v \o c
    <3>1. 0 \in Nat /\ 0 + 1 = 1
      OBVIOUS
    <3>2. Elements(0, w) = <<>> /\ Elements(1, w) = Elements(0, w) \o v \o c
      BY <3>1, <2>1, ElementsGrow
    <3>3. <<>> \o v = v
      BY <2>2
    <3>4. QED
      BY <3>2, <3>3
  <2>4. PICK u : u = t \o <<"n">>
    OBVIOUS
  <2>5. u \in Seq(Symbols)
    BY <2>2, <2>4
  <2>6. u \o (v \o c) = (u \o v) \o c
    <3>1. v \in Seq(Symbols) /\ c \in Seq(Symbols)
      BY <2>2
    <3>2. QED
      BY <3>1, <2>5, ConcatAssociative
  <2>7. ItemText(t, dim, w) = NameValueText(t, w)
    BY <1>1, <2>1, <2>3, <2>4, <2>6 DEF ItemText, NameValueText
  <2>8. QED
    BY <2>7, NameValueTextIs
<1>2. CASE dim # 1
  <2>1. dim - 1 \in Nat /\ (dim - 1) + 1 = dim
    OBVIOUS
  <2>2. PICK u : u = Elements(dim - 1, w) \o Value(w)
    OBVIOUS
  <2>3. Front(Elements(dim, w)) = u
    BY <2>1, <2>2, FrontOfElements
  <2>4. PICK p \in {"v", "x"} : After(State("array", Bracket(d)), u) = State(p, Bracket(d))
    BY <2>1, <2>2, AfterElements
  <2>5. u \in Seq(Symbols)
    <3>1. Elements(dim - 1, w) \in Seq(Symbols) /\ Value(w) \in Seq(Symbols)
      BY <2>1, ElementsTyped, ValueIs
    <3>2. QED
      BY <3>1, <2>2
  <2>6. Brings(State("array", Bracket(d)), u, State(p, Bracket(d)))
    BY <2>4, <2>5 DEF Brings
  <2>7. Partial(t \o <<"n">> \o (<<"array">> \o u \o <<"endarray", "comma">>), d)
    BY <2>6, ArrayIs, SymbolsAre
  <2>8. QED
    BY <1>2, <2>3, <2>7 DEF ItemText
<1>3. QED
  BY <1>1, <1>2
-----------------------------------------------------------------------------
(* The lengths of the texts, and the end of the buffer.                       *)

Longer(t, u) == u \in Seq(Symbols) /\ Len(u) >= Len(t)

(* The length of two texts.                                                   *)
LEMMA ConcatLength ==
  ASSUME NEW t \in Seq(Symbols), NEW u \in Seq(Symbols)
  PROVE  t \o u \in Seq(Symbols) /\ Len(t \o u) = Len(t) + Len(u)
  BY ConcatProperties

(* A text gets longer by what is put behind it.                               *)
LEMMA ConcatLonger ==
  ASSUME NEW s, NEW t, NEW u, Longer(s, t), s \in Seq(Symbols), u \in Seq(Symbols)
  PROVE  Longer(s, t \o u)
<1>1. t \in Seq(Symbols) /\ Len(t) \in Nat /\ Len(u) \in Nat /\ Len(s) \in Nat /\ Len(t) >= Len(s)
  BY DEF Longer
<1>2. t \o u \in Seq(Symbols) /\ Len(t \o u) = Len(t) + Len(u)
  BY <1>1
<1>3. QED
  BY <1>1, <1>2 DEF Longer

(* DropComma takes one symbol at most,                                        *)
LEMMA DropCommaLength ==
  ASSUME NEW t \in Seq(Symbols), t # <<>>
  PROVE  /\ DropComma(t) \in Seq(Symbols)
         /\ Len(DropComma(t)) >= Len(t) - 1 /\ Len(DropComma(t)) <= Len(t)
<1>1. Len(t) \in Nat \ {0}
  OBVIOUS
<1>2. PICK k : k = Len(t)
  OBVIOUS
<1>3. Front(t) = SubSeq(t, 1, k - 1)
  BY <1>2 DEF Front
<1>4. SubSeq(t, 1, k - 1) \in Seq(Symbols) /\ Len(SubSeq(t, 1, k - 1)) = k - 1
  <2>1. k \in Nat \ {0}
    BY <1>1, <1>2
  <2>2. \A i \in 1 .. k - 1 : t[i] \in Symbols
    BY <2>1, <1>2
  <2>3. QED
    BY <2>1, <2>2, SubSeqProperties
<1>5. QED
  BY <1>1, <1>2, <1>3, <1>4 DEF DropComma

(* ... which what is put behind it makes up for.                              *)
LEMMA DropCommaLonger ==
  ASSUME NEW t \in Seq(Symbols), t # <<>>, NEW s \in Symbols
  PROVE  Longer(t, DropComma(t) \o <<s>>)
<1>1. PICK u : u = DropComma(t)
  OBVIOUS
<1>2. u \in Seq(Symbols) /\ Len(u) >= Len(t) - 1
  BY <1>1, DropCommaLength
<1>3. u \o <<s>> \in Seq(Symbols) /\ Len(u \o <<s>>) = Len(u) + 1
  BY <1>2
<1>4. QED
  BY <1>1, <1>2, <1>3 DEF Longer

(* An array without its last comma is a text.                                 *)
LEMMA FrontTyped ==
  ASSUME NEW w \in Nat \ {0}, NEW n \in Nat
  PROVE  Front(Elements(n + 1, w)) \in Seq(Symbols)
<1>1. Elements(n, w) \in Seq(Symbols) /\ Value(w) \in Seq(Symbols)
  BY ElementsTyped, ValueIs
<1>2. Elements(n, w) \o Value(w) \in Seq(Symbols)
  BY <1>1
<1>3. QED
  BY <1>2, FrontOfElements

(* No call makes a text shorter, so that a full buffer stays full.            *)
LEMMA TextsGrow ==
  ASSUME NEW t \in Seq(Symbols), t # <<>>, NEW dim \in Nat \ {0}, NEW w \in Nat \ {0}
  PROVE  /\ Longer(t, SectionStartText(t)) /\ Longer(t, SectionEndText(t))
         /\ Longer(t, EndSectionText(t)) /\ Longer(t, EndText(t)) /\ Len(EndText(t)) <= Len(t) + 1
         /\ Longer(t, NameValueText(t, w)) /\ Longer(t, NameArrayText(t, w))
         /\ Longer(t, ParamText(t, w)) /\ Longer(t, ItemText(t, dim, w))
<1>1. Longer(t, t)
  BY DEF Longer
<1>2. ASSUME NEW u \in Seq(Symbols)
      PROVE  Longer(t, t \o u)
  BY <1>1, ConcatLonger
<1>3. Value(w) \in Seq(Symbols)
  BY ValueIs
<1>4. Longer(t, SectionStartText(t))
  <2>1. <<"n", "brace">> \in Seq(Symbols)
    BY SymbolsAre
  <2>2. QED
    BY <2>1, <1>2 DEF SectionStartText
<1>5. Longer(t, SectionEndText(t)) /\ Longer(t, EndSectionText(t))
  <2>1. PICK s : s = DropComma(t)
    OBVIOUS
  <2>2. s \in Seq(Symbols) /\ "endbrace" \in Symbols /\ "comma" \in Symbols
    BY <2>1, DropCommaLength, SymbolsAre
  <2>3. PICK u : u = s \o <<"endbrace">>
    OBVIOUS
  <2>4. Longer(t, u)
    BY <2>1, <2>2, <2>3, DropCommaLonger
  <2>5. ASSUME NEW r \in Symbols
        PROVE  Longer(t, s \o <<"endbrace", r>>)
    <3>1. <<r>> \in Seq(Symbols)
      OBVIOUS
    <3>2. Longer(t, u \o <<r>>)
      BY <2>4, <3>1, ConcatLonger
    <3>3. (s \o <<"endbrace">>) \o <<r>> = s \o <<"endbrace", r>>
      BY <2>2, TwoBehind
    <3>4. QED
      BY <2>3, <3>2, <3>3
  <2>6. Longer(t, s \o <<"endbrace", "comma">>) /\ Longer(t, s \o <<"endbrace", "endbrace">>)
    BY <2>2, <2>5
  <2>7. QED
    BY <2>1, <2>6 DEF SectionEndText, EndSectionText
<1>6. Longer(t, EndText(t)) /\ Len(EndText(t)) <= Len(t) + 1
  <2>1. Longer(t, EndText(t))
    BY DropCommaLonger, SymbolsAre DEF EndText
  <2>2. PICK s : s = DropComma(t)
    OBVIOUS
  <2>3. s \in Seq(Symbols) /\ Len(s) <= Len(t)
    BY <2>2, DropCommaLength
  <2>4. Len(s \o <<"endbrace">>) = Len(s) + 1
    BY <2>3, SymbolsAre
  <2>5. QED
    BY <2>1, <2>2, <2>3, <2>4 DEF EndText
<1>7. Longer(t, NameValueText(t, w))
  <2>1. <<"n">> \in Seq(Symbols) /\ <<"comma">> \in Seq(Symbols)
    BY SymbolsAre
  <2>2. Longer(t, t \o <<"n">>)
    BY <2>1, <1>2
  <2>3. Longer(t, t \o <<"n">> \o Value(w))
    BY <2>2, <1>3, ConcatLonger
  <2>4. QED
    BY <2>1, <2>3, ConcatLonger DEF NameValueText
<1>8. Longer(t, NameArrayText(t, w))
  <2>1. <<"n", "array">> \in Seq(Symbols) /\ <<"endarray", "comma">> \in Seq(Symbols)
    BY SymbolsAre
  <2>2. Longer(t, t \o <<"n", "array">>)
    BY <2>1, <1>2
  <2>3. Longer(t, t \o <<"n", "array">> \o Value(w))
    BY <2>2, <1>3, ConcatLonger
  <2>4. QED
    BY <2>1, <2>3, ConcatLonger DEF NameArrayText
<1>9. Longer(t, ParamText(t, w))
  <2>1. ParamHead \in Seq(Symbols) /\ <<"endbrace", "comma">> \in Seq(Symbols)
    BY SymbolsAre DEF ParamHead
  <2>2. Longer(t, t \o ParamHead)
    BY <2>1, <1>2
  <2>3. Longer(t, t \o ParamHead \o Value(w))
    BY <2>2, <1>3, ConcatLonger
  <2>4. Longer(t, t \o ParamHead \o Value(w) \o <<"endbrace", "comma">>)
    BY <2>1, <2>3, ConcatLonger
  <2>5. QED
    BY <2>4 DEF ParamText, ParamHead
<1>10. Longer(t, ItemText(t, dim, w))
  <2>1. <<"n">> \in Seq(Symbols)
    BY SymbolsAre
  <2>2. Longer(t, t \o <<"n">>)
    BY <2>1, <1>2
  <2>3. CASE dim = 1
    <3>1. Elements(1, w) \in Seq(Symbols)
      BY ElementsTyped
    <3>2. QED
      BY <2>2, <2>3, <3>1, ConcatLonger DEF ItemText
  <2>4. CASE dim # 1
    <3>1. dim - 1 \in Nat /\ (dim - 1) + 1 = dim
      OBVIOUS
    <3>2. Front(Elements(dim, w)) \in Seq(Symbols)
      BY <3>1, FrontTyped
    <3>3. PICK u : u = Front(Elements(dim, w))
      OBVIOUS
    <3>4. <<"array">> \o u \o <<"endarray", "comma">> \in Seq(Symbols)
      <4>1. <<"array">> \in Seq(Symbols) /\ <<"endarray", "comma">> \in Seq(Symbols)
        BY SymbolsAre
      <4>2. <<"array">> \o u \in Seq(Symbols)
        BY <4>1, <3>2, <3>3
      <4>3. QED
        BY <4>1, <4>2
    <3>5. Longer(t, t \o <<"n">> \o (<<"array">> \o u \o <<"endarray", "comma">>))
      BY <2>2, <3>4, ConcatLonger
    <3>6. QED
      BY <2>4, <3>3, <3>5 DEF ItemText
  <2>5. QED
    BY <2>3, <2>4
<1>11. QED
  BY <1>4, <1>5, <1>6, <1>7, <1>8, <1>9, <1>10

(* snprintf fills the buffer but for one place, or has room for all.          *)
LEMMA CutIs ==
  ASSUME NEW t \in Seq(Symbols)
  PROVE  /\ Cut(t) \in Seq(Symbols) /\ Len(Cut(t)) < BufSize
         /\ Len(t) < BufSize => Cut(t) = t
         /\ Len(t) >= BufSize - 1 => Len(Cut(t)) >= BufSize - 1
<1>1. BufSize \in Nat \ {0} /\ Len(t) \in Nat
  BY SizesAssumption
<1>2. CASE Len(t) < BufSize
  <2>1. Cut(t) = t
    BY <1>2, SubSeqFull DEF Cut
  <2>2. QED
    BY <2>1, <1>1, <1>2
<1>3. CASE Len(t) >= BufSize
  <2>1. BufSize - 1 \in Nat /\ \A i \in 1 .. BufSize - 1 : t[i] \in Symbols
    BY <1>1, <1>3
  <2>2. SubSeq(t, 1, BufSize - 1) \in Seq(Symbols) /\ Len(SubSeq(t, 1, BufSize - 1)) = BufSize - 1
    BY <2>1, <1>1, SubSeqProperties
  <2>3. Cut(t) = SubSeq(t, 1, BufSize - 1)
    BY <1>1, <1>3 DEF Cut
  <2>4. QED
    BY <2>2, <2>3, <1>1, <1>3
<1>4. QED
  BY <1>1, <1>2, <1>3

(* The buffer holds all that was meant, or it is full.                        *)
Full(t) == Len(t) >= BufSize - 1
Agree(t, m) == t = m \/ (Full(t) /\ Full(m))

(* What is printed in the buffer agrees with what was meant.                  *)
LEMMA PrintAgrees ==
  ASSUME NEW t \in Seq(Symbols), NEW m \in Seq(Symbols), Agree(t, m),
         NEW u, NEW v, t # m => Longer(t, u), t # m => Longer(m, v), t = m => u = v,
         u \in Seq(Symbols), v \in Seq(Symbols)
  PROVE  Agree(Cut(u), v) /\ Cut(u) \in Seq(Symbols) /\ Len(Cut(u)) < BufSize
<1>1. BufSize \in Nat \ {0} /\ Len(t) \in Nat /\ Len(m) \in Nat /\ Len(u) \in Nat /\ Len(v) \in Nat
  BY SizesAssumption
<1>2. PICK c : c = Cut(u)
  OBVIOUS
<1>3. /\ c \in Seq(Symbols) /\ Len(c) < BufSize
      /\ Len(u) < BufSize => c = u
      /\ Len(u) >= BufSize - 1 => Len(c) >= BufSize - 1
  BY <1>2, CutIs
<1>4. CASE t = m
  BY <1>1, <1>3, <1>4, <1>2 DEF Agree, Full
<1>5. CASE t # m
  BY <1>1, <1>3, <1>5, <1>2 DEF Agree, Full, Longer
<1>6. QED
  BY <1>4, <1>5
-----------------------------------------------------------------------------
(* The calls of an encoder open and close their sections in order.            *)

Plain == {"nameValue", "nameArray", "param", "item"}
Ops == {"begin", "beginSection", "sectionStart", "sectionEnd", "end", "endSection"} \union Plain
Calls == [op : Ops, width : Nat \ {0}, dim : Nat \ {0}]

(* What a call makes of the depth of what is open: 0, and 0 again, for        *)
(* nothing.                                                                  *)
Moves(c, d, e) ==
  \/ c.op = "begin" /\ d = 0 /\ e = 1
  \/ c.op = "beginSection" /\ d = 0 /\ e = 2
  \/ c.op = "sectionStart" /\ d > 0 /\ e = d + 1
  \/ c.op = "sectionEnd" /\ d > 1 /\ e = d - 1
  \/ c.op = "end" /\ d = 1 /\ e = 0
  \/ c.op = "endSection" /\ d = 2 /\ e = 0
  \/ c.op \in Plain /\ d > 0 /\ e = d

(* D has the depths before, between and behind the calls cs.                  *)
Depths(D, cs, d, e) ==
  /\ cs \in Seq(Calls)
  /\ D \in [0 .. Len(cs) -> Nat]
  /\ D[0] = d /\ D[Len(cs)] = e
  /\ \A i \in 1 .. Len(cs) : Moves(cs[i], D[i - 1], D[i])

Segment(cs, d, e) == \E D : Depths(D, cs, d, e) /\ \A i \in 1 .. Len(cs) : D[i] > 0
Closes(cs, d) == \E D : Depths(D, cs, d, 0) /\ \A i \in 1 .. Len(cs) : D[i] = 0 => i = Len(cs)

(* The first call moves the depth, and those behind it close what is open     *)
(* then.                                                                      *)
LEMMA CallStep ==
  ASSUME NEW cs, NEW d, Closes(cs, d), cs # <<>>
  PROVE  \E e \in Nat : /\ Head(cs) \in Calls /\ Moves(Head(cs), d, e)
                        /\ Closes(Tail(cs), e) /\ (Tail(cs) = <<>> <=> e = 0)
<1>1. PICK D : Depths(D, cs, d, 0) /\ \A i \in 1 .. Len(cs) : D[i] = 0 => i = Len(cs)
  BY DEF Closes
<1>2. PICK n : n = Len(cs)
  OBVIOUS
<1>3. /\ cs \in Seq(Calls) /\ n \in Nat \ {0} /\ D \in [0 .. n -> Nat] /\ D[0] = d /\ D[n] = 0
      /\ \A i \in 1 .. n : Moves(cs[i], D[i - 1], D[i])
      /\ \A i \in 1 .. n : D[i] = 0 => i = n
  BY <1>1, <1>2 DEF Depths
<1>4. PICK t : t = Tail(cs)
  OBVIOUS
<1>5. Head(cs) = cs[1] /\ cs[1] \in Calls
  BY <1>2, <1>3
<1>6. t \in Seq(Calls) /\ Len(t) = n - 1 /\ \A i \in 1 .. n - 1 : t[i] = cs[i + 1]
  BY <1>2, <1>3, <1>4, HeadTailProperties
<1>7. PICK E : E = [i \in 0 .. n - 1 |-> D[i + 1]]
  OBVIOUS
<1>8. /\ E \in [0 .. n - 1 -> Nat] /\ \A i \in 0 .. n - 1 : E[i] = D[i + 1]
  BY <1>3, <1>7
<1>9. Depths(E, t, D[1], 0)
  <2>1. E[0] = D[1] /\ E[n - 1] = 0
    BY <1>3, <1>8
  <2>2. ASSUME NEW i \in 1 .. n - 1
        PROVE  Moves(t[i], E[i - 1], E[i])
    <3>1. i + 1 \in 1 .. n /\ i - 1 \in 0 .. n - 1 /\ i \in 0 .. n - 1
          /\ (i + 1) - 1 = i /\ (i - 1) + 1 = i
      BY <1>3
    <3>2. Moves(cs[i + 1], D[i], D[i + 1])
      BY <1>3, <3>1
    <3>3. t[i] = cs[i + 1] /\ E[i - 1] = D[i] /\ E[i] = D[i + 1]
      BY <1>6, <1>8, <3>1
    <3>4. QED
      BY <3>2, <3>3
  <2>3. QED
    BY <1>6, <1>8, <2>1, <2>2 DEF Depths
<1>10. \A i \in 1 .. n - 1 : E[i] = 0 => i = n - 1
  BY <1>3, <1>8
<1>11. Closes(t, D[1])
  BY <1>6, <1>9, <1>10 DEF Closes
<1>12. t = <<>> <=> D[1] = 0
  <2>1. t = <<>> <=> n = 1
    BY <1>3, <1>6
  <2>2. D[1] = 0 <=> n = 1
    BY <1>3
  <2>3. QED
    BY <2>1, <2>2
<1>13. Moves(cs[1], d, D[1]) /\ D[1] \in Nat
  <2>1. 1 \in 1 .. n /\ 1 - 1 = 0 /\ 1 \in 0 .. n
    BY <1>3
  <2>2. QED
    BY <2>1, <1>3
<1>14. QED
  BY <1>4, <1>5, <1>11, <1>12, <1>13

(* With no call left nothing is open.                                         *)
LEMMA NoCallLeft ==
  ASSUME NEW cs, NEW d, Closes(cs, d)
  PROVE  cs = <<>> => d = 0
<1>1. PICK D : Depths(D, cs, d, 0)
  BY DEF Closes
<1>2. cs = <<>> => Len(cs) = 0
  OBVIOUS
<1>3. QED
  BY <1>1, <1>2 DEF Depths

(* Calls that go on from each other can be joined.                            *)
LEMMA DepthsConcat ==
  ASSUME NEW D, NEW E, NEW cs, NEW ds, NEW d, NEW e, NEW f,
         Depths(D, cs, d, e), Depths(E, ds, e, f),
         \A i \in 1 .. Len(cs) : D[i] > 0
  PROVE  \E F : /\ Depths(F, cs \o ds, d, f)
                /\ \A i \in 1 .. Len(cs) : F[i] > 0
                /\ \A i \in 1 .. Len(ds) : F[Len(cs) + i] = E[i]
<1>1. PICK m, n, c : m = Len(cs) /\ n = Len(ds) /\ c = cs \o ds
  OBVIOUS
<1>2. /\ cs \in Seq(Calls) /\ m \in Nat /\ D \in [0 .. m -> Nat] /\ D[0] = d /\ D[m] = e
      /\ \A i \in 1 .. m : Moves(cs[i], D[i - 1], D[i])
  BY <1>1 DEF Depths
<1>3. /\ ds \in Seq(Calls) /\ n \in Nat /\ E \in [0 .. n -> Nat] /\ E[0] = e /\ E[n] = f
      /\ \A i \in 1 .. n : Moves(ds[i], E[i - 1], E[i])
  BY <1>1 DEF Depths
<1>4. /\ c \in Seq(Calls) /\ Len(c) = m + n
      /\ \A i \in 1 .. m : c[i] = cs[i]
      /\ \A i \in 1 .. n : c[m + i] = ds[i]
  BY <1>1, <1>2, <1>3
<1>5. PICK F : F = [i \in 0 .. m + n |-> IF i <= m THEN D[i] ELSE E[i - m]]
  OBVIOUS
<1>6. F \in [0 .. m + n -> Nat]
  <2>1. ASSUME NEW i \in 0 .. m + n
        PROVE  (IF i <= m THEN D[i] ELSE E[i - m]) \in Nat
    <3>1. CASE i <= m
      BY <3>1, <1>2
    <3>2. CASE ~(i <= m)
      <4>1. i - m \in 0 .. n
        BY <3>2, <1>2, <1>3
      <4>2. QED
        BY <3>2, <4>1, <1>3
    <3>3. QED
      BY <3>1, <3>2
  <2>2. QED
    BY <1>5, <2>1
<1>7. \A i \in 0 .. m : F[i] = D[i]
  BY <1>2, <1>3, <1>5
<1>8. \A i \in 0 .. n : F[m + i] = E[i]
  <2>1. SUFFICES ASSUME NEW i \in 0 .. n
                 PROVE  F[m + i] = E[i]
    OBVIOUS
  <2>2. m + i \in 0 .. m + n /\ (m + i) - m = i
    BY <1>2, <1>3
  <2>3. CASE i = 0
    BY <2>3, <1>2, <1>3, <1>7
  <2>4. CASE i # 0
    <3>1. ~(m + i <= m)
      BY <2>4, <1>2, <1>3
    <3>2. QED
      BY <2>2, <3>1, <1>5
  <2>5. QED
    BY <2>3, <2>4
<1>9. ASSUME NEW i \in 1 .. m + n
      PROVE  Moves(c[i], F[i - 1], F[i])
  <2>1. CASE i <= m
    <3>1. i \in 1 .. m /\ i \in 0 .. m /\ i - 1 \in 0 .. m
      BY <2>1, <1>2, <1>3
    <3>2. c[i] = cs[i] /\ F[i - 1] = D[i - 1] /\ F[i] = D[i]
      BY <3>1, <1>4, <1>7
    <3>3. QED
      BY <3>1, <3>2, <1>2
  <2>2. CASE ~(i <= m)
    <3>1. PICK j : j = i - m
      OBVIOUS
    <3>2. /\ j \in 1 .. n /\ j \in 0 .. n /\ j - 1 \in 0 .. n
          /\ m + j = i /\ m + (j - 1) = i - 1
      BY <2>2, <3>1, <1>2, <1>3
    <3>3. c[i] = ds[j] /\ F[i - 1] = E[j - 1] /\ F[i] = E[j]
      BY <3>2, <1>4, <1>8
    <3>4. QED
      BY <3>2, <3>3, <1>3
  <2>3. QED
    BY <2>1, <2>2
<1>10. F[0] = d /\ F[m + n] = f
  BY <1>2, <1>3, <1>7, <1>8
<1>11. Depths(F, c, d, f)
  BY <1>4, <1>6, <1>9, <1>10 DEF Depths
<1>12. \A i \in 1 .. m : F[i] > 0
  <2>1. \A i \in 1 .. m : D[i] > 0 /\ i \in 0 .. m
    BY <1>1, <1>2
  <2>2. QED
    BY <1>7, <2>1
<1>13. \A i \in 1 .. n : F[m + i] = E[i]
  BY <1>3, <1>8
<1>14. QED
  BY <1>1, <1>11, <1>12, <1>13

LEMMA SegmentConcat ==
  ASSUME NEW cs, NEW ds, NEW d, NEW e, NEW f, Segment(cs, d, e), Segment(ds, e, f)
  PROVE  Segment(cs \o ds, d, f)
<1>1. PICK D : Depths(D, cs, d, e) /\ \A i \in 1 .. Len(cs) : D[i] > 0
  BY DEF Segment
<1>2. PICK E : Depths(E, ds, e, f) /\ \A i \in 1 .. Len(ds) : E[i] > 0
  BY DEF Segment
<1>3. PICK F : /\ Depths(F, cs \o ds, d, f)
               /\ \A i \in 1 .. Len(cs) : F[i] > 0
               /\ \A i \in 1 .. Len(ds) : F[Len(cs) + i] = E[i]
  BY <1>1, <1>2, DepthsConcat
<1>4. PICK m, n : m = Len(cs) /\ n = Len(ds)
  OBVIOUS
<1>5. m \in Nat /\ n \in Nat /\ Len(cs \o ds) = m + n
  BY <1>1, <1>2, <1>4 DEF Depths
<1>6. ASSUME NEW i \in 1 .. m + n
      PROVE  F[i] > 0
  <2>1. CASE i <= m
    BY <2>1, <1>3, <1>4, <1>5
  <2>2. CASE ~(i <= m)
    <3>1. PICK j : j = i - m
      OBVIOUS
    <3>2. j \in 1 .. n /\ m + j = i
      BY <2>2, <3>1, <1>5
    <3>3. F[m + j] = E[j] /\ E[j] > 0
      BY <1>2, <1>3, <1>4, <3>2
    <3>4. QED
      BY <3>2, <3>3
  <2>3. QED
    BY <2>1, <2>2
<1>7. QED
  BY <1>3, <1>5, <1>6 DEF Segment

LEMMA ClosesConcat ==
  ASSUME NEW cs, NEW ds, NEW d, NEW e, Segment(cs, d, e), Closes(ds, e)
  PROVE  Closes(cs \o ds, d)
<1>1. PICK D : Depths(D, cs, d, e) /\ \A i \in 1 .. Len(cs) : D[i] > 0
  BY DEF Segment
<1>2. PICK E : Depths(E, ds, e, 0) /\ \A i \in 1 .. Len(ds) : E[i] = 0 => i = Len(ds)
  BY DEF Closes
<1>3. PICK F : /\ Depths(F, cs \o ds, d, 0)
               /\ \A i \in 1 .. Len(cs) : F[i] > 0
               /\ \A i \in 1 .. Len(ds) : F[Len(cs) + i] = E[i]
  BY <1>1, <1>2, DepthsConcat
<1>4. PICK m, n : m = Len(cs) /\ n = Len(ds)
  OBVIOUS
<1>5. m \in Nat /\ n \in Nat /\ Len(cs \o ds) = m + n
  BY <1>1, <1>2, <1>4 DEF Depths
<1>6. ASSUME NEW i \in 1 .. m + n, F[i] = 0
      PROVE  i = m + n
  <2>1. ~(i <= m)
    BY <1>6, <1>3, <1>4, <1>5
  <2>2. PICK j : j = i - m
    OBVIOUS
  <2>3. j \in 1 .. n /\ m + j = i
    BY <2>1, <2>2, <1>5
  <2>4. E[j] = 0
    BY <1>3, <1>4, <1>6, <2>3
  <2>5. j = n
    BY <1>2, <1>4, <2>3, <2>4
  <2>6. QED
    BY <2>3, <2>5
<1>7. QED
  BY <1>3, <1>5, <1>6 DEF Closes

(* Something is to do, and when all is done nothing is open.                  *)
Encodes(cs) == cs # <<>> /\ Closes(cs, 0)

LEMMA EncodesConcat ==
  ASSUME NEW cs, NEW ds, NEW e \in Nat, e > 0, Segment(cs, 0, e), Closes(ds, e)
  PROVE  Encodes(cs \o ds)
<1>1. Closes(cs \o ds, 0)
  BY ClosesConcat
<1>2. cs \in Seq(Calls) /\ ds \in Seq(Calls)
  BY DEF Segment, Closes, Depths
<1>3. ds # <<>>
  BY NoCallLeft
<1>4. cs \o ds # <<>>
  BY <1>2, <1>3
<1>5. QED
  BY <1>1, <1>4 DEF Encodes

(* Each single call.                                                          *)
LEMMA OneCall ==
  ASSUME NEW c \in Calls, NEW d \in Nat, NEW e \in Nat, Moves(c, d, e)
  PROVE  /\ e > 0 => Segment(<<c>>, d, e)
         /\ e = 0 => Closes(<<c>>, d)
<1>1. PICK cs, D : cs = <<c>> /\ D = [i \in 0 .. 1 |-> IF i = 0 THEN d ELSE e]
  OBVIOUS
<1>2. cs \in Seq(Calls) /\ Len(cs) = 1 /\ cs[1] = c
  BY <1>1
<1>3. D \in [0 .. 1 -> Nat] /\ D[0] = d /\ D[1] = e
  BY <1>1
<1>4. \A i \in 1 .. 1 : i = 1 /\ i - 1 = 0
  OBVIOUS
<1>5. Depths(D, cs, d, e)
  BY <1>2, <1>3, <1>4 DEF Depths
<1>6. e > 0 => Segment(cs, d, e)
  BY <1>2, <1>3, <1>4, <1>5 DEF Segment
<1>7. e = 0 => Closes(cs, d)
  BY <1>2, <1>4, <1>5 DEF Closes
<1>8. QED
  BY <1>1, <1>6, <1>7

(* The calls the encoders are written with.                                   *)
LEMMA CallIs ==
  ASSUME NEW op \in Ops, NEW w \in Nat \ {0}
  PROVE  /\ Call(op) \in Calls /\ Call(op).op = op
         /\ Wide(op, w) \in Calls /\ Wide(op, w).op = op
  BY DEF Call, Wide, Calls

(* Any number of calls that open and close nothing.                           *)
LEMMA PlainSegment ==
  ASSUME NEW cs \in Seq(Calls), \A i \in 1 .. Len(cs) : cs[i].op \in Plain, NEW d \in Nat, d > 0
  PROVE  Segment(cs, d, d)
<1>1. PICK n : n = Len(cs)
  OBVIOUS
<1>2. PICK D : D = [i \in 0 .. n |-> d]
  OBVIOUS
<1>3. n \in Nat /\ D \in [0 .. n -> Nat] /\ \A i \in 0 .. n : D[i] = d
  BY <1>1, <1>2
<1>4. \A i \in 1 .. n : Moves(cs[i], D[i - 1], D[i]) /\ D[i] > 0
  <2>1. \A i \in 1 .. n : i \in 0 .. n /\ i - 1 \in 0 .. n
    BY <1>3
  <2>2. QED
    BY <2>1, <1>1, <1>3 DEF Moves
<1>5. Depths(D, cs, d, d)
  BY <1>1, <1>3, <1>4 DEF Depths
<1>6. QED
  BY <1>1, <1>4, <1>5 DEF Segment

LEMMA EachSegment ==
  ASSUME NEW op \in Plain, NEW ws \in Seq(Nat \ {0}), NEW d \in Nat, d > 0
  PROVE  Segment(Each(op, ws), d, d)
<1>1. PICK n, cs : n = Len(ws) /\ cs = Each(op, ws)
  OBVIOUS
<1>2. n \in Nat /\ DOMAIN ws = 1 .. n /\ \A i \in 1 .. n : ws[i] \in Nat \ {0}
  BY <1>1
<1>3. op \in Ops
  BY DEF Ops
<1>4. cs = [i \in 1 .. n |-> Wide(op, ws[i])]
  BY <1>1, <1>2 DEF Each
<1>5. \A i \in 1 .. n : Wide(op, ws[i]) \in Calls /\ Wide(op, ws[i]).op = op
  BY <1>2, <1>3, CallIs
<1>6. cs \in Seq(Calls) /\ Len(cs) = n
  <2>1. cs \in [1 .. n -> Calls]
    BY <1>4, <1>5
  <2>2. QED
    BY <2>1, <1>2
<1>7. \A i \in 1 .. Len(cs) : cs[i].op \in Plain
  BY <1>4, <1>5, <1>6
<1>8. QED
  BY <1>1, <1>6, <1>7, PlainSegment

LEMMA ItemsSegment ==
  ASSUME NEW vs \in Seq((Nat \ {0}) \X (Nat \ {0})), NEW d \in Nat, d > 0
  PROVE  Segment(Items(vs), d, d)
<1>1. PICK n, cs : n = Len(vs) /\ cs = Items(vs)
  OBVIOUS
<1>2. n \in Nat /\ DOMAIN vs = 1 .. n /\ \A i \in 1 .. n : vs[i] \in (Nat \ {0}) \X (Nat \ {0})
  BY <1>1
<1>3. cs = [i \in 1 .. n |-> [op |-> "item", width |-> vs[i][2], dim |-> vs[i][1]]]
  BY <1>1, <1>2 DEF Items
<1>4. \A i \in 1 .. n : /\ [op |-> "item", width |-> vs[i][2], dim |-> vs[i][1]] \in Calls
                        /\ [op |-> "item", width |-> vs[i][2], dim |-> vs[i][1]].op \in Plain
  <2>1. "item" \in Ops /\ "item" \in Plain
    BY DEF Ops, Plain
  <2>2. \A i \in 1 .. n : vs[i][1] \in Nat \ {0} /\ vs[i][2] \in Nat \ {0}
    BY <1>2
  <2>3. QED
    BY <2>1, <2>2 DEF Calls
<1>5. cs \in Seq(Calls) /\ Len(cs) = n
  <2>1. cs \in [1 .. n -> Calls]
    BY <1>3, <1>4
  <2>2. QED
    BY <2>1, <1>2
<1>6. \A i \in 1 .. Len(cs) : cs[i].op \in Plain
  BY <1>3, <1>4, <1>5
<1>7. QED
  BY <1>1, <1>5, <1>6, PlainSegment

(* The calls that begin and end.                                              *)
LEMMA Frame ==
  /\ Segment(<<Call("begin")>>, 0, 1) /\ Segment(<<Call("beginSection")>>, 0, 2)
  /\ Segment(<<Call("sectionStart")>>, 1, 2) /\ Segment(<<Call("sectionEnd")>>, 2, 1)
  /\ Segment(<<Call("nameValue")>>, 1, 1)
  /\ Closes(<<Call("end")>>, 1) /\ Closes(<<Call("endSection")>>, 2)
<1>1. \A op \in Ops : Call(op) \in Calls /\ Call(op).op = op
  <2>1. 1 \in Nat \ {0}
    OBVIOUS
  <2>2. QED
    BY <2>1, CallIs
<1>2. /\ {"begin", "beginSection", "sectionStart", "sectionEnd", "end", "endSection", "nameValue"} \subseteq Ops
      /\ "nameValue" \in Plain
  BY DEF Ops, Plain
<1>3. 0 \in Nat /\ 1 \in Nat /\ 2 \in Nat /\ 1 > 0 /\ 2 > 0
  OBVIOUS
<1>4. Moves(Call("begin"), 0, 1) /\ Moves(Call("beginSection"), 0, 2)
  BY <1>1, <1>2 DEF Moves
<1>5. /\ Moves(Call("sectionStart"), 1, 2) /\ Moves(Call("sectionEnd"), 2, 1)
      /\ Moves(Call("nameValue"), 1, 1)
  BY <1>1, <1>2 DEF Moves
<1>6. Moves(Call("end"), 1, 0) /\ Moves(Call("endSection"), 2, 0)
  BY <1>1, <1>2 DEF Moves
<1>7. Segment(<<Call("begin")>>, 0, 1) /\ Segment(<<Call("beginSection")>>, 0, 2)
  BY <1>1, <1>2, <1>3, <1>4, OneCall
<1>8. /\ Segment(<<Call("sectionStart")>>, 1, 2) /\ Segment(<<Call("sectionEnd")>>, 2, 1)
      /\ Segment(<<Call("nameValue")>>, 1, 1)
  BY <1>1, <1>2, <1>3, <1>5, OneCall
<1>9. Closes(<<Call("end")>>, 1) /\ Closes(<<Call("endSection")>>, 2)
  BY <1>1, <1>2, <1>3, <1>6, OneCall
<1>10. QED
  BY <1>7, <1>8, <1>9

(* The five calls of each resource begin and end two levels deep.             *)
LEMMA ResourcesSegment ==
  ASSUME NEW ws \in Seq(Nat \ {0})
  PROVE  Segment([k \in 1 .. 5 * Len(ws) |-> ResourceCalls(ws[(k + 4) \div 5])[((k - 1) % 5) + 1]], 2, 2)
<1>1. PICK n, cs :
        /\ n = Len(ws)
        /\ cs = [k \in 1 .. 5 * n |-> ResourceCalls(ws[(k + 4) \div 5])[((k - 1) % 5) + 1]]
  OBVIOUS
<1>2. n \in Nat /\ 5 * n \in Nat /\ \A i \in 1 .. n : ws[i] \in Nat \ {0}
  BY <1>1
<1>3. PICK D : D = [k \in 0 .. 5 * n |-> IF k % 5 = 0 THEN 2 ELSE IF k % 5 = 3 THEN 4 ELSE 3]
  OBVIOUS
<1>4. ASSUME NEW w \in Nat \ {0}
      PROVE  /\ \A i \in 1 .. 5 : ResourceCalls(w)[i] \in Calls
             /\ ResourceCalls(w)[1].op = "sectionStart" /\ ResourceCalls(w)[2].op \in Plain
             /\ ResourceCalls(w)[3].op = "sectionStart" /\ ResourceCalls(w)[4].op = "sectionEnd"
             /\ ResourceCalls(w)[5].op = "sectionEnd"
  <2>1. {"sectionStart", "sectionEnd", "nameValue"} \subseteq Ops /\ "nameValue" \in Plain /\ 1 \in Nat \ {0}
    BY DEF Ops, Plain
  <2>2. PICK a, b, c : a = Call("sectionStart") /\ b = Wide("nameValue", w) /\ c = Call("sectionEnd")
    OBVIOUS
  <2>3. /\ a \in Calls /\ a.op = "sectionStart" /\ b \in Calls /\ b.op = "nameValue"
        /\ c \in Calls /\ c.op = "sectionEnd"
    BY <2>1, <2>2, CallIs
  <2>4. ResourceCalls(w) = <<a, b, a, c, c>>
    BY <2>2 DEF ResourceCalls
  <2>5. \A i \in 1 .. 5 : i \in {1, 2, 3, 4, 5}
    OBVIOUS
  <2>6. QED
    BY <2>1, <2>3, <2>4, <2>5
<1>5. ASSUME NEW k \in 1 .. 5 * n
      PROVE  /\ cs[k] \in Calls
             /\ Moves(cs[k], D[k - 1], D[k])
             /\ D[k] > 0
  <2>1. PICK q, r : q = (k + 4) \div 5 /\ r = (k - 1) % 5
    OBVIOUS
  <2>2. q \in 1 .. n /\ r \in 0 .. 4 /\ k - 1 = 5 * (q - 1) + r
    BY <2>1, <1>2
  <2>3. ws[q] \in Nat \ {0}
    BY <2>2, <1>2
  <2>4. cs[k] = ResourceCalls(ws[q])[r + 1]
    BY <2>1, <1>1
  <2>5. k \in 0 .. 5 * n /\ k - 1 \in 0 .. 5 * n /\ (k - 1) % 5 = r
    BY <2>1, <1>2
  <2>6. k % 5 = IF r = 4 THEN 0 ELSE r + 1
    BY <2>2, <1>2
  <2>7. /\ D[k] = IF k % 5 = 0 THEN 2 ELSE IF k % 5 = 3 THEN 4 ELSE 3
        /\ D[k - 1] = IF (k - 1) % 5 = 0 THEN 2 ELSE IF (k - 1) % 5 = 3 THEN 4 ELSE 3
    BY <2>5, <1>3
  <2>8. PICK c : c = cs[k]
    OBVIOUS
  <2>9. CASE r = 0
    <3>1. D[k - 1] = 2 /\ D[k] = 3
      BY <2>5, <2>6, <2>7, <2>9
    <3>2. c \in Calls /\ c.op = "sectionStart"
      BY <2>3, <2>4, <2>8, <2>9, <1>4
    <3>3. QED
      BY <3>1, <3>2, <2>8 DEF Moves
  <2>10. CASE r = 1
    <3>1. D[k - 1] = 3 /\ D[k] = 3
      BY <2>5, <2>6, <2>7, <2>10
    <3>2. c \in Calls /\ c.op \in Plain
      BY <2>3, <2>4, <2>8, <2>10, <1>4
    <3>3. QED
      BY <3>1, <3>2, <2>8 DEF Moves
  <2>11. CASE r = 2
    <3>1. D[k - 1] = 3 /\ D[k] = 4
      BY <2>5, <2>6, <2>7, <2>11
    <3>2. c \in Calls /\ c.op = "sectionStart"
      BY <2>3, <2>4, <2>8, <2>11, <1>4
    <3>3. QED
      BY <3>1, <3>2, <2>8 DEF Moves
  <2>12. CASE r = 3
    <3>1. D[k - 1] = 4 /\ D[k] = 3
      BY <2>5, <2>6, <2>7, <2>12
    <3>2. c \in Calls /\ c.op = "sectionEnd"
      BY <2>3, <2>4, <2>8, <2>12, <1>4
    <3>3. QED
      BY <3>1, <3>2, <2>8 DEF Moves
  <2>13. CASE r = 4
    <3>1. D[k - 1] = 3 /\ D[k] = 2
      BY <2>5, <2>6, <2>7, <2>13
    <3>2. c \in Calls /\ c.op = "sectionEnd"
      BY <2>3, <2>4, <2>8, <2>13, <1>4
    <3>3. QED
      BY <3>1, <3>2, <2>8 DEF Moves
  <2>14. QED
    BY <2>2, <2>9, <2>10, <2>11, <2>12, <2>13
<1>6. cs \in Seq(Calls) /\ Len(cs) = 5 * n
  <2>1. cs \in [1 .. 5 * n -> Calls]
    BY <1>1, <1>5
  <2>2. QED
    BY <2>1, <1>2
<1>7. D \in [0 .. 5 * n -> Nat] /\ D[0] = 2 /\ D[5 * n] = 2
  BY <1>2, <1>3
<1>8. Depths(D, cs, 2, 2)
  BY <1>5, <1>6, <1>7 DEF Depths
<1>9. Segment(cs, 2, 2)
  BY <1>5, <1>6, <1>8 DEF Segment
<1>10. QED
  BY <1>1, <1>9

(* The end of an answer, with the number of its request.                      *)
LEMMA WithCidCloses == Closes(CloseWithCid, 2)
<1>1. "sectionEnd" \in Ops /\ "nameValue" \in Ops /\ "end" \in Ops /\ 1 \in Nat \ {0}
  BY DEF Ops, Plain
<1>2. PICK a, b, c : a = Call("sectionEnd") /\ b = Call("nameValue") /\ c = Call("end")
  OBVIOUS
<1>3. a \in Calls /\ b \in Calls /\ c \in Calls
  BY <1>1, <1>2, CallIs
<1>4. Segment(<<a>>, 2, 1) /\ Segment(<<b>>, 1, 1) /\ Closes(<<c>>, 1)
  BY <1>2, Frame
<1>5. Segment(<<a>> \o <<b>>, 2, 1)
  BY <1>4, SegmentConcat
<1>6. <<a>> \o <<b>> = <<a, b>>
  BY <1>3, Pair
<1>7. Closes(<<a, b>> \o <<c>>, 2)
  BY <1>4, <1>5, <1>6, ClosesConcat
<1>8. <<a, b>> \o <<c>> = <<a, b, c>>
  BY <1>3, Triple
<1>9. QED
  BY <1>2, <1>7, <1>8 DEF CloseWithCid

(* A response to a resource: two named values.                                *)
LEMMA TwoValuesClose ==
  ASSUME NEW b \in Calls, NEW c \in Calls, b.op \in Plain, c.op \in Plain
  PROVE  Encodes(<<Call("begin"), b, c, Call("end")>>)
<1>1. "begin" \in Ops /\ "end" \in Ops /\ 1 \in Nat \ {0}
  BY DEF Ops
<1>2. PICK a, d : a = Call("begin") /\ d = Call("end")
  OBVIOUS
<1>3. a \in Calls /\ a.op = "begin" /\ d \in Calls /\ d.op = "end"
  BY <1>1, <1>2, CallIs
<1>4. PICK cs : cs = <<a, b, c, d>>
  OBVIOUS
<1>5. cs \in Seq(Calls) /\ Len(cs) = 4 /\ cs[1] = a /\ cs[2] = b /\ cs[3] = c /\ cs[4] = d
  BY <1>3, <1>4
<1>6. PICK D : D = [i \in 0 .. 4 |-> IF i \in {0, 4} THEN 0 ELSE 1]
  OBVIOUS
<1>7. /\ D \in [0 .. 4 -> Nat] /\ D[0] = 0 /\ D[1] = 1 /\ D[2] = 1 /\ D[3] = 1 /\ D[4] = 0
  BY <1>6
<1>8. ASSUME NEW i \in 1 .. 4
      PROVE  Moves(cs[i], D[i - 1], D[i]) /\ (D[i] = 0 => i = 4)
  <2>1. Moves(a, 0, 1) /\ Moves(b, 1, 1) /\ Moves(c, 1, 1) /\ Moves(d, 1, 0)
    BY <1>3 DEF Moves
  <2>2. i = 1 \/ i = 2 \/ i = 3 \/ i = 4
    OBVIOUS
  <2>3. 1 - 1 = 0 /\ 2 - 1 = 1 /\ 3 - 1 = 2 /\ 4 - 1 = 3
    OBVIOUS
  <2>4. QED
    BY <2>1, <2>2, <2>3, <1>5, <1>7
<1>9. Depths(D, cs, 0, 0)
  BY <1>5, <1>7, <1>8 DEF Depths
<1>10. Closes(cs, 0)
  BY <1>5, <1>8, <1>9 DEF Closes
<1>11. cs # <<>>
  <2>1. Len(cs) = 4
    BY <1>5
  <2>2. QED
    BY <2>1
<1>12. QED
  BY <1>2, <1>4, <1>10, <1>11 DEF Encodes

(* The lists of Init are sequences.                                           *)
LEMMA ListsAre ==
  ASSUME NEW S, NEW T, S \subseteq T, NEW least \in Nat, NEW l \in Lists(S, least)
  PROVE  l \in Seq(T)
<1>1. PICK n \in least .. MaxItems : l \in [1 .. n -> S]
  BY DEF Lists
<1>2. n \in Nat
  BY SizesAssumption
<1>3. l \in [1 .. n -> T]
  BY <1>1
<1>4. QED
  BY <1>2, <1>3

(* The calls of every encoder open and close their sections.                  *)
LEMMA EncodersClose ==
  ASSUME NEW ws \in Seq(Nat \ {0}), NEW ws2 \in Seq(Nat \ {0}), NEW ws3 \in Seq(Nat \ {0}),
         NEW vs \in Seq((Nat \ {0}) \X (Nat \ {0})), NEW w \in Nat \ {0}, NEW b \in BOOLEAN
  PROVE  /\ Encodes(StatusCalls(vs)) /\ Encodes(DataCalls(ws, ws2, vs, ws3))
         /\ Encodes(ResourcesCalls(ws)) /\ Encodes(ParamsAllCalls(ws, b))
         /\ Encodes(ParamsUpdateCalls(ws)) /\ Encodes(CmdRespCalls(vs))
         /\ Encodes(CmdResultCalls(ws)) /\ Encodes(RscResultCalls(w)) /\ Encodes(RscErrorCalls(w))
<1>1. "nameValue" \in Plain /\ "nameArray" \in Plain /\ "param" \in Plain /\ "item" \in Plain
  BY DEF Plain
<1>2. 1 \in Nat /\ 1 > 0 /\ 2 \in Nat /\ 2 > 0 /\ 1 \in Nat \ {0}
  OBVIOUS
<1>3. PICK it, bs : it = Items(vs) /\ bs = <<Call("beginSection")>>
  OBVIOUS
<1>4. Segment(bs, 0, 2) /\ Closes(<<Call("endSection")>>, 2) /\ Closes(CloseWithCid, 2)
  BY <1>3, Frame, WithCidCloses
<1>5. Segment(it, 2, 2)
  BY <1>2, <1>3, ItemsSegment
<1>6. Segment(bs \o it, 0, 2)
  BY <1>4, <1>5, SegmentConcat
<1>7. Encodes(StatusCalls(vs))
  <2>1. Encodes((bs \o it) \o <<Call("endSection")>>)
    BY <1>4, <1>6, EncodesConcat
  <2>2. QED
    BY <2>1, <1>3 DEF StatusCalls
<1>8. Encodes(CmdRespCalls(vs))
  <2>1. Encodes((bs \o it) \o CloseWithCid)
    BY <1>4, <1>6, EncodesConcat
  <2>2. QED
    BY <2>1, <1>3 DEF CmdRespCalls
<1>9. Encodes(ParamsAllCalls(ws, b)) /\ Encodes(ParamsUpdateCalls(ws))
  <2>1. PICK e : e = Each("param", ws)
    OBVIOUS
  <2>2. Segment(e, 2, 2)
    BY <2>1, <1>1, <1>2, EachSegment
  <2>3. Segment(bs \o e, 0, 2)
    BY <2>2, <1>4, SegmentConcat
  <2>4. Encodes((bs \o e) \o <<Call("endSection")>>) /\ Encodes((bs \o e) \o CloseWithCid)
    BY <2>3, <1>4, EncodesConcat
  <2>5. Encodes(ParamsUpdateCalls(ws))
    BY <2>1, <2>4, <1>3 DEF ParamsUpdateCalls
  <2>6. CASE b
    BY <2>1, <2>4, <2>5, <2>6, <1>3 DEF ParamsAllCalls
  <2>7. CASE ~b
    BY <2>1, <2>4, <2>5, <2>7, <1>3 DEF ParamsAllCalls
  <2>8. QED
    BY <2>6, <2>7
<1>10. Encodes(CmdResultCalls(ws))
  <2>1. PICK e : e = Each("nameValue", ws)
    OBVIOUS
  <2>2. Segment(e, 2, 2)
    BY <2>1, <1>1, <1>2, EachSegment
  <2>3. Segment(bs \o e, 0, 2)
    BY <2>2, <1>4, SegmentConcat
  <2>4. Encodes((bs \o e) \o CloseWithCid)
    BY <2>3, <1>4, EncodesConcat
  <2>5. QED
    BY <2>1, <2>4, <1>3 DEF CmdResultCalls
<1>11. Encodes(ResourcesCalls(ws))
  <2>1. PICK r : r = [k \in 1 .. 5 * Len(ws) |-> ResourceCalls(ws[(k + 4) \div 5])[((k - 1) % 5) + 1]]
    OBVIOUS
  <2>2. Segment(r, 2, 2)
    BY <2>1, ResourcesSegment
  <2>3. Segment(bs \o r, 0, 2)
    BY <2>2, <1>4, SegmentConcat
  <2>4. Encodes((bs \o r) \o <<Call("endSection")>>)
    BY <2>3, <1>4, EncodesConcat
  <2>5. QED
    BY <2>1, <2>4, <1>3 DEF ResourcesCalls
<1>12. Encodes(RscResultCalls(w)) /\ Encodes(RscErrorCalls(w))
  <2>1. PICK c, x : c = Call("nameValue") /\ x = Wide("nameValue", w)
    OBVIOUS
  <2>2. c \in Calls /\ c.op \in Plain /\ x \in Calls /\ x.op \in Plain
    BY <2>1, <1>1, <1>2, CallIs DEF Ops
  <2>3. /\ Encodes(<<Call("begin"), x, c, Call("end")>>)
        /\ Encodes(<<Call("begin"), c, x, Call("end")>>)
    BY <2>2, TwoValuesClose
  <2>4. QED
    BY <2>1, <2>3 DEF RscResultCalls, RscErrorCalls
<1>13. Encodes(DataCalls(ws, ws2, vs, ws3))
  <2>1. PICK e, l, t, s, f : /\ e = Each("nameValue", ws) /\ l = Each("nameArray", ws2)
                             /\ t = Each("nameArray", ws3)
                             /\ s = <<Call("sectionStart")>> /\ f = <<Call("sectionEnd")>>
    OBVIOUS
  <2>2. Segment(e, 1, 1) /\ Segment(l, 1, 1) /\ Segment(t, 1, 1)
    BY <2>1, <1>1, <1>2, EachSegment
  <2>3. Segment(s, 1, 2) /\ Segment(f, 2, 1) /\ Closes(<<Call("end")>>, 1)
    BY <2>1, Frame
  <2>4. PICK h : h = <<Call("begin"), Call("nameValue")>>
    OBVIOUS
  <2>5. Segment(h, 0, 1)
    <3>1. PICK a, c : a = Call("begin") /\ c = Call("nameValue")
      OBVIOUS
    <3>2. a \in Calls /\ c \in Calls
      BY <3>1, <1>1, <1>2, CallIs DEF Ops
    <3>3. Segment(<<a>>, 0, 1) /\ Segment(<<c>>, 1, 1)
      BY <3>1, Frame
    <3>4. Segment(<<a>> \o <<c>>, 0, 1)
      BY <3>3, SegmentConcat
    <3>5. <<a>> \o <<c>> = <<a, c>>
      BY <3>2, Pair
    <3>6. QED
      BY <3>1, <3>4, <3>5, <2>4
  <2>6. Segment(h \o e, 0, 1)
    BY <2>2, <2>5, SegmentConcat
  <2>7. Segment((h \o e) \o l, 0, 1)
    BY <2>2, <2>6, SegmentConcat
  <2>8. Segment(((h \o e) \o l) \o s, 0, 2)
    BY <2>3, <2>7, SegmentConcat
  <2>9. Segment((((h \o e) \o l) \o s) \o it, 0, 2)
    BY <2>8, <1>5, SegmentConcat
  <2>10. Segment(((((h \o e) \o l) \o s) \o it) \o f, 0, 1)
    BY <2>3, <2>9, SegmentConcat
  <2>11. Segment((((((h \o e) \o l) \o s) \o it) \o f) \o t, 0, 1)
    BY <2>2, <2>10, SegmentConcat
  <2>12. Encodes(((((((h \o e) \o l) \o s) \o it) \o f) \o t) \o <<Call("end")>>)
    BY <2>3, <2>11, EncodesConcat
  <2>13. QED
    BY <2>1, <2>4, <2>12, <1>3 DEF DataCalls
<1>14. QED
  BY <1>7, <1>8, <1>9, <1>10, <1>11, <1>12, <1>13
-----------------------------------------------------------------------------
(* The invariant. *)

(* What the encoder has yet to do closes what it has opened; nothing is       *)
(* written before the first call, and all is closed after the last.           *)
Underway ==
  \E d \in Nat :
    /\ Closes(calls, d)
    /\ calls # <<>> => past = 0
    /\ calls # <<>> /\ d = 0 => text = <<>> /\ meant = <<>>
    /\ calls # <<>> /\ d > 0 => Partial(meant, d)
    /\ calls = <<>> => WellFormed(meant)

IInv ==
  /\ stage \in {"encoding", "failed", "done", "sent", "refused"}
  /\ text \in Seq(Symbols) /\ meant \in Seq(Symbols)
  /\ past \in 0 .. 1 /\ Len(text) < BufSize + past
  /\ past = 1 => Full(text)
  /\ stage # "failed" => Agree(text, meant)
  /\ stage = "encoding" => Underway
  /\ stage \in {"done", "sent", "refused"} => WellFormed(meant)
  /\ stage = "sent" => Len(text) <= PayloadRoom
  /\ stage = "refused" => Len(text) > PayloadRoom
  /\ stage = "failed" => Len(meant) > PayloadRoom

(* Before its first call every encoder has its calls in order.                *)
LEMMA InitIInv == Init => IInv
<1>1. SUFFICES ASSUME Init
               PROVE  IInv
  OBVIOUS
<1>2. calls # <<>> /\ Closes(calls, 0)
  <2>1. Widths \subseteq Nat \ {0} /\ Values \subseteq (Nat \ {0}) \X (Nat \ {0}) /\ 0 \in Nat /\ 1 \in Nat
    BY SizesAssumption DEF Widths, Values
  <2>2. \A ws \in Lists(Widths, 0) \union Lists(Widths, 1) : ws \in Seq(Nat \ {0})
    BY <2>1, ListsAre
  <2>3. \A vs \in Lists(Values, 0) \union Lists(Values, 1) : vs \in Seq((Nat \ {0}) \X (Nat \ {0}))
    BY <2>1, ListsAre
  <2>4. \A l \in {<<>>, <<1>>} : l \in Seq(Nat \ {0})
    <3>1. <<>> \in Seq(Nat \ {0}) /\ <<1>> \in Seq(Nat \ {0})
      OBVIOUS
    <3>2. QED
      BY <3>1
  <2>5. PICK x : x \in Seq(Nat \ {0})
    BY <2>4
  <2>6. PICK y : y \in Seq((Nat \ {0}) \X (Nat \ {0}))
    <3>1. <<>> \in Seq((Nat \ {0}) \X (Nat \ {0}))
      OBVIOUS
    <3>2. QED
      BY <3>1
  <2>7. 1 \in Nat \ {0} /\ TRUE \in BOOLEAN
    OBVIOUS
  <2>8. \A vs \in Lists(Values, 1) : Encodes(StatusCalls(vs))
    BY <2>3, <2>5, <2>7, EncodersClose
  <2>9. \A vs \in Lists(Values, 0) : Encodes(CmdRespCalls(vs))
    BY <2>3, <2>5, <2>7, EncodersClose
  <2>10. \A ws \in Lists(Widths, 1) :
           /\ Encodes(ResourcesCalls(ws)) /\ Encodes(ParamsUpdateCalls(ws))
           /\ Encodes(CmdResultCalls(ws))
    BY <2>2, <2>6, <2>7, EncodersClose
  <2>11. \A ws \in Lists(Widths, 1) : \A c \in BOOLEAN : Encodes(ParamsAllCalls(ws, c))
    BY <2>2, <2>6, <2>7, EncodersClose
  <2>12. \A w \in Widths : Encodes(RscResultCalls(w)) /\ Encodes(RscErrorCalls(w))
    BY <2>1, <2>5, <2>6, <2>7, EncodersClose
  <2>13. \A named \in Lists(Widths, 0) : \A loc \in {<<>>, <<1>>} : \A vs \in Lists(Values, 1) :
           \A tags \in {<<>>, <<1>>} : Encodes(DataCalls(named, loc, vs, tags))
    <3>1. TAKE named \in Lists(Widths, 0)
    <3>2. TAKE loc \in {<<>>, <<1>>}
    <3>3. TAKE vs \in Lists(Values, 1)
    <3>4. TAKE tags \in {<<>>, <<1>>}
    <3>5. named \in Seq(Nat \ {0}) /\ loc \in Seq(Nat \ {0}) /\ tags \in Seq(Nat \ {0})
          /\ vs \in Seq((Nat \ {0}) \X (Nat \ {0}))
      BY <2>2, <2>3, <2>4
    <3>6. QED
      BY <3>5, <2>7, EncodersClose
  <2>14. \/ \E vs \in Lists(Values, 1) : calls = StatusCalls(vs)
         \/ \E named \in Lists(Widths, 0), loc \in {<<>>, <<1>>},
               vs \in Lists(Values, 1), tags \in {<<>>, <<1>>} : calls = DataCalls(named, loc, vs, tags)
         \/ \E ws \in Lists(Widths, 1) : calls = ResourcesCalls(ws)
         \/ \E ws \in Lists(Widths, 1), c \in BOOLEAN : calls = ParamsAllCalls(ws, c)
         \/ \E ws \in Lists(Widths, 1) : calls = ParamsUpdateCalls(ws)
         \/ \E vs \in Lists(Values, 0) : calls = CmdRespCalls(vs)
         \/ \E ws \in Lists(Widths, 1) : calls = CmdResultCalls(ws)
         \/ \E w \in Widths : calls = RscResultCalls(w)
         \/ \E w \in Widths : calls = RscErrorCalls(w)
    BY <1>1, SMT DEF Init
  <2>15. Encodes(calls)
    BY <2>8, <2>9, <2>10, <2>11, <2>12, <2>13, <2>14
  <2>16. QED
    BY <2>15 DEF Encodes
<1>3. text = <<>> /\ meant = <<>> /\ past = 0 /\ stage = "encoding"
  BY <1>1 DEF Init
<1>4. 0 \in Nat /\ ~(0 > 0)
  OBVIOUS
<1>5. Underway
  BY <1>2, <1>3, <1>4, Zenon DEF Underway
<1>6. BufSize \in Nat \ {0} /\ <<>> \in Seq(Symbols) /\ Len(<<>>) = 0
  BY SizesAssumption
<1>7. QED
  BY <1>3, <1>5, <1>6 DEF IInv, Agree

(* What holds before a call is made.                                          *)
LEMMA BeforeCall ==
  ASSUME IInv, stage = "encoding", calls # <<>>
  PROVE  \E d \in Nat, e \in Nat :
           /\ Moves(Head(calls), d, e) /\ Head(calls) \in Calls
           /\ Closes(Tail(calls), e) /\ (Tail(calls) = <<>> <=> e = 0)
           /\ past = 0
           /\ d = 0 => text = <<>> /\ meant = <<>>
           /\ d > 0 => Partial(meant, d) /\ text # <<>> /\ meant # <<>>
<1>1. Underway /\ text \in Seq(Symbols) /\ Agree(text, meant)
  BY DEF IInv
<1>2. PICK d \in Nat : /\ Closes(calls, d) /\ past = 0
                       /\ d = 0 => text = <<>> /\ meant = <<>>
                       /\ d > 0 => Partial(meant, d)
  BY <1>1 DEF Underway
<1>3. PICK e \in Nat : /\ Head(calls) \in Calls /\ Moves(Head(calls), d, e)
                       /\ Closes(Tail(calls), e) /\ (Tail(calls) = <<>> <=> e = 0)
  BY <1>2, CallStep
<1>4. d > 0 => meant # <<>>
  BY <1>2 DEF Partial
<1>5. d > 0 => text # <<>>
  <2>1. CASE text = meant
    BY <2>1, <1>4
  <2>2. CASE text # meant
    <3>1. Len(text) >= BufSize - 1 /\ BufSize > 1
      BY <2>2, <1>1, SizesAssumption DEF Agree, Full
    <3>2. Len(<<>>) = 0
      OBVIOUS
    <3>3. QED
      BY <3>1, <3>2, SizesAssumption
  <2>3. QED
    BY <2>1, <2>2
<1>6. QED
  BY <1>2, <1>3, <1>4, <1>5

(* A call that prints u, where v was meant.                                   *)
LEMMA PrintStep ==
  ASSUME IInv, stage = "encoding", past = 0, NEW e \in Nat, NEW u, NEW v,
         Closes(Tail(calls), e), Tail(calls) = <<>> <=> e = 0,
         u \in Seq(Symbols), v \in Seq(Symbols), text = meant => u = v,
         text # meant => Longer(text, u), text # meant => Longer(meant, v),
         e > 0 => Partial(v, e), e = 0 => WellFormed(v),
         calls' = Tail(calls), text' = Cut(u), meant' = v, past' = past, stage' = stage
  PROVE  IInv'
<1>1. text \in Seq(Symbols) /\ meant \in Seq(Symbols) /\ Agree(text, meant)
  BY DEF IInv
<1>2. Agree(text', meant') /\ text' \in Seq(Symbols) /\ Len(text') < BufSize
  BY <1>1, PrintAgrees
<1>3. Underway'
  BY DEF Underway
<1>4. past' = 0 /\ stage' = "encoding" /\ BufSize \in Nat /\ Len(text') \in Nat
  BY <1>2, SizesAssumption
<1>5. QED
  BY <1>2, <1>3, <1>4 DEF IInv, Agree, Full

(* Partial texts are texts.                                                   *)
LEMMA WholeTextsAreTyped ==
  ASSUME NEW t
  PROVE  \A d : Partial(t, d) => t \in Seq(Symbols)
  BY DEF Partial, Brings

(* Each call keeps the invariant, and each refusal.                           *)
LEMMA BeginsIInv == IInv /\ (Begin \/ BeginSection) => IInv'
<1>1. SUFFICES ASSUME IInv, Begin \/ BeginSection
               PROVE  IInv'
  OBVIOUS
<1>2. stage = "encoding" /\ calls # <<>> /\ Head(calls).op \in {"begin", "beginSection"}
  BY <1>1 DEF Begin, BeginSection, Takes
<1>3. PICK d \in Nat, e \in Nat :
        /\ Moves(Head(calls), d, e) /\ Closes(Tail(calls), e) /\ (Tail(calls) = <<>> <=> e = 0)
        /\ past = 0
        /\ d = 0 => text = <<>> /\ meant = <<>>
  BY <1>1, <1>2, BeforeCall
<1>4. d = 0 /\ text = meant
  BY <1>2, <1>3 DEF Moves, Plain
<1>5. CASE Begin
  <2>1. e = 1
    BY <1>3, <1>5 DEF Moves, Plain, Begin, Takes
  <2>2. Partial(BeginText(meant), 1) /\ BeginText(meant) \in Seq(Symbols)
    BY BeginTextIs, WholeTextsAreTyped
  <2>3. PICK v : v = BeginText(meant)
    OBVIOUS
  <2>4. /\ calls' = Tail(calls) /\ text' = Cut(v) /\ meant' = v
        /\ past' = past /\ stage' = stage
    BY <2>3, <1>4, <1>5 DEF Begin, Takes, Prints
  <2>5. QED
    BY <2>1, <2>2, <2>3, <2>4, <1>1, <1>2, <1>3, <1>4, PrintStep
<1>6. CASE BeginSection
  <2>1. e = 2
    BY <1>3, <1>6 DEF Moves, Plain, BeginSection, Takes
  <2>2. Partial(BeginSectionText(meant), 2) /\ BeginSectionText(meant) \in Seq(Symbols)
    BY BeginTextIs, WholeTextsAreTyped
  <2>3. PICK v : v = BeginSectionText(meant)
    OBVIOUS
  <2>4. /\ calls' = Tail(calls) /\ text' = Cut(v) /\ meant' = v
        /\ past' = past /\ stage' = stage
    BY <2>3, <1>4, <1>6 DEF BeginSection, Takes, Prints
  <2>5. QED
    BY <2>1, <2>2, <2>3, <2>4, <1>1, <1>2, <1>3, <1>4, PrintStep
<1>7. QED
  BY <1>1, <1>5, <1>6

LEMMA SectionStartIInv == IInv /\ SectionStart => IInv'
<1>1. SUFFICES ASSUME IInv, SectionStart
               PROVE  IInv'
  OBVIOUS
<1>2. stage = "encoding" /\ calls # <<>> /\ Head(calls).op = "sectionStart"
  BY <1>1 DEF SectionStart, Takes
<1>3. PICK d \in Nat, e \in Nat :
        /\ Moves(Head(calls), d, e) /\ Head(calls) \in Calls
        /\ Closes(Tail(calls), e) /\ (Tail(calls) = <<>> <=> e = 0)
        /\ past = 0
        /\ d > 0 => Partial(meant, d) /\ text # <<>> /\ meant # <<>>
  BY <1>1, <1>2, BeforeCall
<1>4. d \in Nat \ {0} /\ d > 0 /\ e = d + 1 /\ e > 0
  BY <1>2, <1>3 DEF Moves, Plain
<1>5. PICK w, dim : w = Head(calls).width /\ dim = Head(calls).dim
  OBVIOUS
<1>6. w \in Nat \ {0} /\ dim \in Nat \ {0}
  BY <1>3, <1>5 DEF Calls
<1>7. PICK u, v : u = SectionStartText(text) /\ v = SectionStartText(meant)
  OBVIOUS
<1>8. Longer(text, u) /\ Longer(meant, v)
  <2>1. text \in Seq(Symbols) /\ meant \in Seq(Symbols) /\ text # <<>> /\ meant # <<>>
    BY <1>1, <1>3, <1>4 DEF IInv
  <2>2. QED
    BY <2>1, <1>6, <1>7, TextsGrow
<1>9. Partial(v, e)
  BY <1>3, <1>4, <1>6, <1>7, SectionStartTextIs
<1>10. u \in Seq(Symbols) /\ v \in Seq(Symbols) /\ (text = meant => u = v)
  BY <1>7, <1>8 DEF Longer
<1>11. /\ calls' = Tail(calls) /\ text' = Cut(u) /\ meant' = v
       /\ past' = past /\ stage' = stage
  BY <1>1, <1>5, <1>7 DEF SectionStart, Takes, Prints
<1>12. QED
  BY <1>1, <1>2, <1>3, <1>4, <1>8, <1>9, <1>10, <1>11, PrintStep

LEMMA SectionEndIInv == IInv /\ SectionEnd => IInv'
<1>1. SUFFICES ASSUME IInv, SectionEnd
               PROVE  IInv'
  OBVIOUS
<1>2. stage = "encoding" /\ calls # <<>> /\ Head(calls).op = "sectionEnd"
  BY <1>1 DEF SectionEnd, Takes
<1>3. PICK d \in Nat, e \in Nat :
        /\ Moves(Head(calls), d, e) /\ Head(calls) \in Calls
        /\ Closes(Tail(calls), e) /\ (Tail(calls) = <<>> <=> e = 0)
        /\ past = 0
        /\ d > 0 => Partial(meant, d) /\ text # <<>> /\ meant # <<>>
  BY <1>1, <1>2, BeforeCall
<1>4. d > 1 /\ d > 0 /\ e = d - 1 /\ e > 0
  BY <1>2, <1>3 DEF Moves, Plain
<1>5. PICK w, dim : w = Head(calls).width /\ dim = Head(calls).dim
  OBVIOUS
<1>6. w \in Nat \ {0} /\ dim \in Nat \ {0}
  BY <1>3, <1>5 DEF Calls
<1>7. PICK u, v : u = SectionEndText(text) /\ v = SectionEndText(meant)
  OBVIOUS
<1>8. Longer(text, u) /\ Longer(meant, v)
  <2>1. text \in Seq(Symbols) /\ meant \in Seq(Symbols) /\ text # <<>> /\ meant # <<>>
    BY <1>1, <1>3, <1>4 DEF IInv
  <2>2. QED
    BY <2>1, <1>6, <1>7, TextsGrow
<1>9. Partial(v, e)
  BY <1>3, <1>4, <1>6, <1>7, SectionEndTextIs
<1>10. u \in Seq(Symbols) /\ v \in Seq(Symbols) /\ (text = meant => u = v)
  BY <1>7, <1>8 DEF Longer
<1>11. /\ calls' = Tail(calls) /\ text' = Cut(u) /\ meant' = v
       /\ past' = past /\ stage' = stage
  BY <1>1, <1>5, <1>7 DEF SectionEnd, Takes, Prints
<1>12. QED
  BY <1>1, <1>2, <1>3, <1>4, <1>8, <1>9, <1>10, <1>11, PrintStep

LEMMA EndSectionIInv == IInv /\ EndSection => IInv'
<1>1. SUFFICES ASSUME IInv, EndSection
               PROVE  IInv'
  OBVIOUS
<1>2. stage = "encoding" /\ calls # <<>> /\ Head(calls).op = "endSection"
  BY <1>1 DEF EndSection, Takes
<1>3. PICK d \in Nat, e \in Nat :
        /\ Moves(Head(calls), d, e) /\ Head(calls) \in Calls
        /\ Closes(Tail(calls), e) /\ (Tail(calls) = <<>> <=> e = 0)
        /\ past = 0
        /\ d > 0 => Partial(meant, d) /\ text # <<>> /\ meant # <<>>
  BY <1>1, <1>2, BeforeCall
<1>4. d = 2 /\ d > 0 /\ e = 0 /\ ~(e > 0)
  BY <1>2, <1>3 DEF Moves, Plain
<1>5. PICK w, dim : w = Head(calls).width /\ dim = Head(calls).dim
  OBVIOUS
<1>6. w \in Nat \ {0} /\ dim \in Nat \ {0}
  BY <1>3, <1>5 DEF Calls
<1>7. PICK u, v : u = EndSectionText(text) /\ v = EndSectionText(meant)
  OBVIOUS
<1>8. Longer(text, u) /\ Longer(meant, v)
  <2>1. text \in Seq(Symbols) /\ meant \in Seq(Symbols) /\ text # <<>> /\ meant # <<>>
    BY <1>1, <1>3, <1>4 DEF IInv
  <2>2. QED
    BY <2>1, <1>6, <1>7, TextsGrow
<1>9. WellFormed(v)
  BY <1>3, <1>4, <1>7, EndSectionTextIs
<1>10. u \in Seq(Symbols) /\ v \in Seq(Symbols) /\ (text = meant => u = v)
  BY <1>7, <1>8 DEF Longer
<1>11. /\ calls' = Tail(calls) /\ text' = Cut(u) /\ meant' = v
       /\ past' = past /\ stage' = stage
  BY <1>1, <1>5, <1>7 DEF EndSection, Takes, Prints
<1>12. QED
  BY <1>1, <1>2, <1>3, <1>4, <1>8, <1>9, <1>10, <1>11, PrintStep

LEMMA NameValueIInv == IInv /\ NameValue => IInv'
<1>1. SUFFICES ASSUME IInv, NameValue
               PROVE  IInv'
  OBVIOUS
<1>2. stage = "encoding" /\ calls # <<>> /\ Head(calls).op = "nameValue"
  BY <1>1 DEF NameValue, Takes
<1>3. PICK d \in Nat, e \in Nat :
        /\ Moves(Head(calls), d, e) /\ Head(calls) \in Calls
        /\ Closes(Tail(calls), e) /\ (Tail(calls) = <<>> <=> e = 0)
        /\ past = 0
        /\ d > 0 => Partial(meant, d) /\ text # <<>> /\ meant # <<>>
  BY <1>1, <1>2, BeforeCall
<1>4. d \in Nat \ {0} /\ d > 0 /\ e = d /\ e > 0
  BY <1>2, <1>3 DEF Moves, Plain
<1>5. PICK w, dim : w = Head(calls).width /\ dim = Head(calls).dim
  OBVIOUS
<1>6. w \in Nat \ {0} /\ dim \in Nat \ {0}
  BY <1>3, <1>5 DEF Calls
<1>7. PICK u, v : u = NameValueText(text, w) /\ v = NameValueText(meant, w)
  OBVIOUS
<1>8. Longer(text, u) /\ Longer(meant, v)
  <2>1. text \in Seq(Symbols) /\ meant \in Seq(Symbols) /\ text # <<>> /\ meant # <<>>
    BY <1>1, <1>3, <1>4 DEF IInv
  <2>2. QED
    BY <2>1, <1>6, <1>7, TextsGrow
<1>9. Partial(v, e)
  BY <1>3, <1>4, <1>6, <1>7, NameValueTextIs
<1>10. u \in Seq(Symbols) /\ v \in Seq(Symbols) /\ (text = meant => u = v)
  BY <1>7, <1>8 DEF Longer
<1>11. /\ calls' = Tail(calls) /\ text' = Cut(u) /\ meant' = v
       /\ past' = past /\ stage' = stage
  BY <1>1, <1>5, <1>7 DEF NameValue, Takes, Prints
<1>12. QED
  BY <1>1, <1>2, <1>3, <1>4, <1>8, <1>9, <1>10, <1>11, PrintStep

LEMMA NameArrayIInv == IInv /\ NameArray => IInv'
<1>1. SUFFICES ASSUME IInv, NameArray
               PROVE  IInv'
  OBVIOUS
<1>2. stage = "encoding" /\ calls # <<>> /\ Head(calls).op = "nameArray"
  BY <1>1 DEF NameArray, Takes
<1>3. PICK d \in Nat, e \in Nat :
        /\ Moves(Head(calls), d, e) /\ Head(calls) \in Calls
        /\ Closes(Tail(calls), e) /\ (Tail(calls) = <<>> <=> e = 0)
        /\ past = 0
        /\ d > 0 => Partial(meant, d) /\ text # <<>> /\ meant # <<>>
  BY <1>1, <1>2, BeforeCall
<1>4. d \in Nat \ {0} /\ d > 0 /\ e = d /\ e > 0
  BY <1>2, <1>3 DEF Moves, Plain
<1>5. PICK w, dim : w = Head(calls).width /\ dim = Head(calls).dim
  OBVIOUS
<1>6. w \in Nat \ {0} /\ dim \in Nat \ {0}
  BY <1>3, <1>5 DEF Calls
<1>7. PICK u, v : u = NameArrayText(text, w) /\ v = NameArrayText(meant, w)
  OBVIOUS
<1>8. Longer(text, u) /\ Longer(meant, v)
  <2>1. text \in Seq(Symbols) /\ meant \in Seq(Symbols) /\ text # <<>> /\ meant # <<>>
    BY <1>1, <1>3, <1>4 DEF IInv
  <2>2. QED
    BY <2>1, <1>6, <1>7, TextsGrow
<1>9. Partial(v, e)
  BY <1>3, <1>4, <1>6, <1>7, NameArrayTextIs
<1>10. u \in Seq(Symbols) /\ v \in Seq(Symbols) /\ (text = meant => u = v)
  BY <1>7, <1>8 DEF Longer
<1>11. /\ calls' = Tail(calls) /\ text' = Cut(u) /\ meant' = v
       /\ past' = past /\ stage' = stage
  BY <1>1, <1>5, <1>7 DEF NameArray, Takes, Prints
<1>12. QED
  BY <1>1, <1>2, <1>3, <1>4, <1>8, <1>9, <1>10, <1>11, PrintStep

LEMMA ParamIInv == IInv /\ Param => IInv'
<1>1. SUFFICES ASSUME IInv, Param
               PROVE  IInv'
  OBVIOUS
<1>2. stage = "encoding" /\ calls # <<>> /\ Head(calls).op = "param"
  BY <1>1 DEF Param, Takes
<1>3. PICK d \in Nat, e \in Nat :
        /\ Moves(Head(calls), d, e) /\ Head(calls) \in Calls
        /\ Closes(Tail(calls), e) /\ (Tail(calls) = <<>> <=> e = 0)
        /\ past = 0
        /\ d > 0 => Partial(meant, d) /\ text # <<>> /\ meant # <<>>
  BY <1>1, <1>2, BeforeCall
<1>4. d \in Nat \ {0} /\ d > 0 /\ e = d /\ e > 0
  BY <1>2, <1>3 DEF Moves, Plain
<1>5. PICK w, dim : w = Head(calls).width /\ dim = Head(calls).dim
  OBVIOUS
<1>6. w \in Nat \ {0} /\ dim \in Nat \ {0}
  BY <1>3, <1>5 DEF Calls
<1>7. PICK u, v : u = ParamText(text, w) /\ v = ParamText(meant, w)
  OBVIOUS
<1>8. Longer(text, u) /\ Longer(meant, v)
  <2>1. text \in Seq(Symbols) /\ meant \in Seq(Symbols) /\ text # <<>> /\ meant # <<>>
    BY <1>1, <1>3, <1>4 DEF IInv
  <2>2. QED
    BY <2>1, <1>6, <1>7, TextsGrow
<1>9. Partial(v, e)
  BY <1>3, <1>4, <1>6, <1>7, ParamTextIs
<1>10. u \in Seq(Symbols) /\ v \in Seq(Symbols) /\ (text = meant => u = v)
  BY <1>7, <1>8 DEF Longer
<1>11. /\ calls' = Tail(calls) /\ text' = Cut(u) /\ meant' = v
       /\ past' = past /\ stage' = stage
  BY <1>1, <1>5, <1>7 DEF Param, Takes, Prints
<1>12. QED
  BY <1>1, <1>2, <1>3, <1>4, <1>8, <1>9, <1>10, <1>11, PrintStep

LEMMA ItemIInv == IInv /\ Item => IInv'
<1>1. SUFFICES ASSUME IInv, Item
               PROVE  IInv'
  OBVIOUS
<1>2. stage = "encoding" /\ calls # <<>> /\ Head(calls).op = "item"
  BY <1>1 DEF Item, Takes
<1>3. PICK d \in Nat, e \in Nat :
        /\ Moves(Head(calls), d, e) /\ Head(calls) \in Calls
        /\ Closes(Tail(calls), e) /\ (Tail(calls) = <<>> <=> e = 0)
        /\ past = 0
        /\ d > 0 => Partial(meant, d) /\ text # <<>> /\ meant # <<>>
  BY <1>1, <1>2, BeforeCall
<1>4. d \in Nat \ {0} /\ d > 0 /\ e = d /\ e > 0
  BY <1>2, <1>3 DEF Moves, Plain
<1>5. PICK w, dim : w = Head(calls).width /\ dim = Head(calls).dim
  OBVIOUS
<1>6. w \in Nat \ {0} /\ dim \in Nat \ {0}
  BY <1>3, <1>5 DEF Calls
<1>7. PICK u, v : u = ItemText(text, dim, w) /\ v = ItemText(meant, dim, w)
  OBVIOUS
<1>8. Longer(text, u) /\ Longer(meant, v)
  <2>1. text \in Seq(Symbols) /\ meant \in Seq(Symbols) /\ text # <<>> /\ meant # <<>>
    BY <1>1, <1>3, <1>4 DEF IInv
  <2>2. QED
    BY <2>1, <1>6, <1>7, TextsGrow
<1>9. Partial(v, e)
  BY <1>3, <1>4, <1>6, <1>7, ItemTextIs
<1>10. u \in Seq(Symbols) /\ v \in Seq(Symbols) /\ (text = meant => u = v)
  BY <1>7, <1>8 DEF Longer
<1>11. /\ calls' = Tail(calls) /\ text' = Cut(u) /\ meant' = v
       /\ past' = past /\ stage' = stage
  BY <1>1, <1>5, <1>7 DEF Item, Takes, Prints
<1>12. QED
  BY <1>1, <1>2, <1>3, <1>4, <1>8, <1>9, <1>10, <1>11, PrintStep

(* json_end may write one character past the buffer, only after all calls.    *)
LEMMA EndIInv == IInv /\ End => IInv'
<1>1. SUFFICES ASSUME IInv, End
               PROVE  IInv'
  OBVIOUS
<1>2. stage = "encoding" /\ calls # <<>> /\ Head(calls).op = "end"
  BY <1>1 DEF End, Takes
<1>3. PICK d \in Nat, e \in Nat :
        /\ Moves(Head(calls), d, e)
        /\ Closes(Tail(calls), e) /\ (Tail(calls) = <<>> <=> e = 0)
        /\ past = 0
        /\ d > 0 => Partial(meant, d) /\ text # <<>> /\ meant # <<>>
  BY <1>1, <1>2, BeforeCall
<1>4. d = 1 /\ d > 0 /\ e = 0
  BY <1>2, <1>3 DEF Moves, Plain
<1>5. PICK u, v : u = EndText(text) /\ v = EndText(meant)
  OBVIOUS
<1>6. text \in Seq(Symbols) /\ meant \in Seq(Symbols) /\ text # <<>> /\ meant # <<>>
  BY <1>1, <1>3, <1>4 DEF IInv
<1>7. Longer(text, u) /\ Longer(meant, v) /\ Len(u) <= Len(text) + 1
  <2>1. 1 \in Nat \ {0}
    OBVIOUS
  <2>2. QED
    BY <2>1, <1>5, <1>6, TextsGrow
<1>8. WellFormed(v)
  BY <1>3, <1>4, <1>5, EndTextIs
<1>9. /\ calls' = Tail(calls) /\ text' = u /\ meant' = v /\ stage' = "encoding"
      /\ past' = IF Len(u) < BufSize THEN 0 ELSE Len(u) + 1 - BufSize
  BY <1>1, <1>2, <1>5 DEF End, Takes
<1>10. BufSize \in Nat \ {0} /\ Len(text) \in Nat /\ Len(u) \in Nat /\ Len(meant) \in Nat /\ Len(v) \in Nat
  BY <1>6, <1>7, SizesAssumption DEF Longer
<1>11. Len(text) < BufSize
  BY <1>1, <1>3, <1>10 DEF IInv
<1>12. past' \in 0 .. 1 /\ Len(u) < BufSize + past' /\ (past' = 1 => Len(u) >= BufSize - 1)
  BY <1>7, <1>9, <1>10, <1>11
<1>13. Agree(u, v)
  <2>1. CASE text = meant
    BY <2>1, <1>5 DEF Agree
  <2>2. CASE text # meant
    <3>1. Len(text) >= BufSize - 1 /\ Len(meant) >= BufSize - 1
      BY <2>2, <1>1, <1>2 DEF IInv, Agree, Full
    <3>2. QED
      BY <3>1, <1>7, <1>10 DEF Agree, Full, Longer
  <2>3. QED
    BY <2>1, <2>2
<1>14. Tail(calls) = <<>>
  BY <1>3, <1>4
<1>15. Underway'
  BY <1>3, <1>4, <1>8, <1>9, <1>14 DEF Underway
<1>16. u \in Seq(Symbols) /\ v \in Seq(Symbols)
  BY <1>7 DEF Longer
<1>17. QED
  BY <1>9, <1>12, <1>13, <1>15, <1>16 DEF IInv, Full

(* What makes an encoder give up is longer than a packet.                     *)
LEMMA ItemFailsIsLong ==
  ASSUME NEW t \in Seq(Symbols), NEW dim \in Nat \ {0}, NEW w \in Nat \ {0}, t # <<>>,
         ItemFails(t, dim, w)
  PROVE  Len(ItemText(t, dim, w)) > PayloadRoom
<1>1. BufSize \in Nat /\ PayloadRoom \in Nat /\ PayloadRoom + 3 < BufSize
  BY SizesAssumption
<1>2. PICK s : s = t \o <<"n">>
  OBVIOUS
<1>3. s \in Seq(Symbols) /\ Len(s) = Len(t) + 1 /\ Len(t) \in Nat \ {0}
  BY <1>2, SymbolsAre
<1>4. CASE Room(Cut(s)) < 4
  <2>1. Len(s) > PayloadRoom
    <3>1. CASE Len(s) < BufSize
      <4>1. Cut(s) = s
        BY <1>3, <3>1, CutIs
      <4>2. QED
        BY <1>1, <1>3, <1>4, <4>1 DEF Room
    <3>2. CASE ~(Len(s) < BufSize)
      BY <1>1, <1>3, <3>2
    <3>3. QED
      BY <3>1, <3>2
  <2>2. Longer(s, ItemText(t, dim, w))
    <3>1. Longer(s, s)
      BY <1>3 DEF Longer
    <3>2. PICK u : u \in Seq(Symbols) /\ ItemText(t, dim, w) = s \o u
      <4>1. CASE dim = 1
        <5>1. Elements(1, w) \in Seq(Symbols)
          BY ElementsTyped
        <5>2. QED
          BY <4>1, <5>1, <1>2 DEF ItemText
      <4>2. CASE dim # 1
        <5>1. dim - 1 \in Nat /\ (dim - 1) + 1 = dim
          OBVIOUS
        <5>2. PICK x : x = <<"array">> \o Front(Elements(dim, w)) \o <<"endarray", "comma">>
          OBVIOUS
        <5>3. Front(Elements(dim, w)) \in Seq(Symbols)
          BY <5>1, FrontTyped
        <5>4. PICK f : f = Front(Elements(dim, w))
          OBVIOUS
        <5>5. <<"array">> \in Seq(Symbols) /\ <<"endarray", "comma">> \in Seq(Symbols)
          BY SymbolsAre
        <5>6. <<"array">> \o f \in Seq(Symbols)
          BY <5>3, <5>4, <5>5
        <5>7. (<<"array">> \o f) \o <<"endarray", "comma">> \in Seq(Symbols)
          BY <5>5, <5>6
        <5>8. x \in Seq(Symbols)
          BY <5>2, <5>4, <5>7
        <5>9. ItemText(t, dim, w) = s \o x
          BY <4>2, <5>2, <1>2 DEF ItemText
        <5>10. QED
          BY <5>8, <5>9
      <4>3. QED
        BY <4>1, <4>2
    <3>3. Longer(s, s \o u)
      BY <1>3, <3>1, <3>2, ConcatLonger
    <3>4. QED
      BY <3>2, <3>3
  <2>3. QED
    BY <1>1, <1>3, <2>1, <2>2 DEF Longer
<1>5. CASE dim > 1 /\ Room(t \o <<"n", "array">> \o Elements(dim, w)) < 2
  <2>1. dim - 1 \in Nat /\ (dim - 1) + 1 = dim /\ dim # 1
    BY <1>5
  <2>2. PICK f, e, a, x : f = Front(Elements(dim, w)) /\ e = Elements(dim, w) /\ a = <<"array">> /\ x = <<"endarray", "comma">>
    OBVIOUS
  <2>3. f \in Seq(Symbols) /\ e \in Seq(Symbols) /\ Len(e) = Len(f) + 1
    BY <2>1, <2>2, FrontTyped, ElementsTyped, FrontOfElements
  <2>4. a \in Seq(Symbols) /\ x \in Seq(Symbols) /\ Len(a) = 1 /\ Len(x) = 2
    BY <2>2, SymbolsAre
  <2>5. a \o f \in Seq(Symbols) /\ Len(a \o f) = 1 + Len(f)
    <3>1. a \in Seq(Symbols) /\ f \in Seq(Symbols)
      BY <2>3, <2>4
    <3>2. a \o f \in Seq(Symbols) /\ Len(a \o f) = Len(a) + Len(f)
      BY <3>1, ConcatLength
    <3>3. QED
      BY <3>2, <2>4
  <2>6. PICK g : g = a \o f
    OBVIOUS
  <2>7. g \o x \in Seq(Symbols) /\ Len(g \o x) = Len(f) + 3
    <3>1. g \in Seq(Symbols) /\ Len(g) = 1 + Len(f) /\ Len(f) \in Nat
      BY <2>3, <2>5, <2>6
    <3>2. Len(g \o x) = Len(g) + Len(x) /\ g \o x \in Seq(Symbols)
      BY <3>1, <2>4, ConcatLength
    <3>3. QED
      BY <3>1, <3>2, <2>4
  <2>8. PICK h : h = g \o x
    OBVIOUS
  <2>9. Len(s \o h) = Len(t) + Len(f) + 4
    <3>1. h \in Seq(Symbols) /\ Len(h) = Len(f) + 3 /\ Len(f) \in Nat
      BY <2>3, <2>7, <2>8
    <3>2. Len(s \o h) = Len(s) + Len(h)
      BY <3>1, <1>3, ConcatLength
    <3>3. QED
      BY <3>1, <3>2, <1>3
  <2>10. ItemText(t, dim, w) = s \o h
    BY <2>1, <2>2, <2>6, <2>8, <1>2 DEF ItemText
  <2>11. Len(t \o <<"n", "array">> \o e) = Len(t) + 2 + Len(e)
    <3>1. PICK y : y = t \o <<"n", "array">>
      OBVIOUS
    <3>2. y \in Seq(Symbols) /\ Len(y) = Len(t) + 2
      BY <3>1, SymbolsAre
    <3>3. Len(y \o e) = Len(y) + Len(e)
      BY <2>3, <3>2, ConcatLength
    <3>4. QED
      BY <3>1, <3>2, <3>3
  <2>12. BufSize - (Len(t) + 2 + Len(e)) < 2
    BY <2>2, <2>11, <1>5 DEF Room
  <2>13. Len(f) \in Nat
    BY <2>3
  <2>14. Len(t) + Len(f) + 4 > PayloadRoom
    BY <2>3, <2>12, <2>13, <1>1, <1>3
  <2>15. QED
    BY <2>9, <2>10, <2>14
<1>6. QED
  BY <1>2, <1>4, <1>5 DEF ItemFails

LEMMA ItemRefusedIInv == IInv /\ ItemRefused => IInv'
<1>1. SUFFICES ASSUME IInv, ItemRefused
               PROVE  IInv'
  OBVIOUS
<1>2. stage = "encoding" /\ calls # <<>> /\ Head(calls).op = "item"
  BY <1>1 DEF ItemRefused, Takes
<1>3. PICK d \in Nat, e \in Nat :
        /\ Moves(Head(calls), d, e) /\ Head(calls) \in Calls /\ past = 0
        /\ d > 0 => Partial(meant, d) /\ text # <<>> /\ meant # <<>>
  BY <1>1, <1>2, BeforeCall
<1>4. d > 0
  BY <1>2, <1>3 DEF Moves, Plain
<1>5. PICK w, dim : w = Head(calls).width /\ dim = Head(calls).dim
  OBVIOUS
<1>6. w \in Nat \ {0} /\ dim \in Nat \ {0}
  BY <1>3, <1>5 DEF Calls
<1>7. text \in Seq(Symbols) /\ meant \in Seq(Symbols) /\ text # <<>> /\ meant # <<>>
  BY <1>1, <1>3, <1>4 DEF IInv
<1>8. PICK v : v = ItemText(meant, dim, w)
  OBVIOUS
<1>9. /\ ItemFails(text, dim, w)
      /\ meant' = v /\ stage' = "failed" /\ text' = text /\ past' = past
  BY <1>1, <1>5, <1>8 DEF ItemRefused
<1>10. Longer(meant, v)
  BY <1>6, <1>7, <1>8, TextsGrow
<1>11. BufSize \in Nat /\ PayloadRoom \in Nat /\ PayloadRoom + 3 < BufSize
  BY SizesAssumption
<1>12. Len(v) > PayloadRoom
  <2>1. CASE text = meant
    BY <2>1, <1>6, <1>7, <1>8, <1>9, ItemFailsIsLong
  <2>2. CASE text # meant
    <3>1. Len(text) >= BufSize - 1 /\ Len(meant) >= BufSize - 1
      BY <2>2, <1>1, <1>2 DEF IInv, Agree, Full
    <3>2. Len(v) \in Nat /\ Len(meant) \in Nat /\ Len(v) >= Len(meant)
      BY <1>7, <1>10 DEF Longer
    <3>3. QED
      BY <3>1, <3>2, <1>11
  <2>3. QED
    BY <2>1, <2>2
<1>13. QED
  BY <1>1, <1>3, <1>9, <1>10, <1>12 DEF IInv, Longer

(* Only what fits in a packet is sent.                                        *)
LEMMA PublishIInv == IInv /\ (Encoded \/ Publish \/ UNCHANGED vars) => IInv'
<1>1. SUFFICES ASSUME IInv, Encoded \/ Publish \/ UNCHANGED vars
               PROVE  IInv'
  OBVIOUS
<1>2. CASE Encoded
  <2>1. WellFormed(meant)
    BY <1>1, <1>2 DEF IInv, Underway, Encoded
  <2>2. QED
    BY <1>1, <1>2, <2>1 DEF IInv, Encoded
<1>3. CASE Publish
  <2>1. PayloadRoom \in Nat /\ Len(text) \in Nat
    BY <1>1, SizesAssumption DEF IInv
  <2>2. QED
    BY <1>1, <1>3, <2>1 DEF IInv, Publish, Fits
<1>4. CASE UNCHANGED vars
  BY <1>1, <1>4 DEF IInv, Underway, vars
<1>5. QED
  BY <1>1, <1>2, <1>3, <1>4

LEMMA NextIInv == IInv /\ [Next]_vars => IInv'
  BY BeginsIInv, SectionStartIInv, SectionEndIInv, EndSectionIInv, EndIInv, NameValueIInv,
     NameArrayIInv, ParamIInv, ItemIInv, ItemRefusedIInv, PublishIInv, Zenon
  DEF Next, Stopped

(* For buffers, packets, messages and values of any size: the buffer holds    *)
(* all that was meant or is full, and what is left to call closes what is     *)
(* open.                                                                      *)
THEOREM InvariantHolds == Spec => []IInv
<1>1. Init => IInv
  BY InitIInv
<1>2. IInv /\ [Next]_vars => IInv'
  BY NextIInv
<1>3. QED
  BY <1>1, <1>2, PTL DEF Spec

(* For all sizes: the string ends in the buffer, but for the one character    *)
(* json_end writes too many (JsonText!TypeOK).                               *)
THEOREM TypeCorrect == Spec => []TypeOK
<1>1. IInv => TypeOK
  BY DEF IInv, TypeOK
<1>2. QED
  BY <1>1, InvariantHolds, PTL

(* For messages of any size, what is published is one whole JSON object with  *)
(* all that was to be said, although no function looks whether snprintf cut   *)
(* its text (JsonText!SentIsWhole).                                          *)
THEOREM WhatIsSentIsWhole == Spec => []SentIsWhole
<1>1. IInv => SentIsWhole
  <2>1. SUFFICES ASSUME IInv, stage = "sent"
                 PROVE  text = meant /\ WellFormed(text) /\ past = 0
    BY DEF SentIsWhole
  <2>2. /\ text \in Seq(Symbols) /\ Len(text) <= PayloadRoom /\ Agree(text, meant) /\ WellFormed(meant)
        /\ past \in 0 .. 1 /\ (past = 1 => Full(text))
    BY <2>1 DEF IInv
  <2>3. ~Full(text)
    <3>1. Len(text) \in Nat
      BY <2>2
    <3>2. QED
      BY <2>2, <3>1, SizesAssumption DEF Full
  <2>4. text = meant
    BY <2>2, <2>3 DEF Agree
  <2>5. past = 0
    BY <2>2, <2>3
  <2>6. QED
    BY <2>2, <2>4, <2>5
<1>2. QED
  BY <1>1, InvariantHolds, PTL

(* Whatever the encoders give up, or the packet does not take, is longer than *)
(* a packet can carry (JsonText!RefusedIsTooLong).                           *)
THEOREM OnlyTheTooLongIsRefused == Spec => []RefusedIsTooLong
<1>1. IInv => RefusedIsTooLong
  <2>1. SUFFICES ASSUME IInv, stage = "refused"
                 PROVE  Len(meant) > PayloadRoom
    BY DEF RefusedIsTooLong, IInv
  <2>2. /\ text \in Seq(Symbols) /\ meant \in Seq(Symbols)
        /\ Len(text) > PayloadRoom /\ Agree(text, meant)
    BY <2>1 DEF IInv
  <2>3. CASE text = meant
    BY <2>2, <2>3
  <2>4. CASE text # meant
    <3>1. Len(meant) >= BufSize - 1 /\ Len(meant) \in Nat
      BY <2>2, <2>4 DEF Agree, Full
    <3>2. QED
      BY <3>1, SizesAssumption
  <2>5. QED
    BY <2>3, <2>4
<1>2. QED
  BY <1>1, InvariantHolds, PTL
=============================================================================
