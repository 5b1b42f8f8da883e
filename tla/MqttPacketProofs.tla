---------------------------- MODULE MqttPacketProofs ----------------------------
(***************************************************************************)
(* What one side of the protocol serializes, the other reads: the packets of   *)
(* MqttPacket, for every request of the client and every answer of a server,  *)
(* whatever its strings and its payload.                                     *)
(*                                                                         *)
(* A packet is a frame, a header, the remaining length and the body; the       *)
(* lemmas go from the digits of the length, over frames and strings, to the    *)
(* fields of each type.  Sequences that are put together and taken apart are   *)
(* handled with Joins, which hides how.                                      *)
(***************************************************************************)
EXTENDS MqttPacket, TLAPS, SequenceTheorems

Measurable == {n \in Nat : n < 128 * 128 * 128 * 128}

(* The powers of 128 as products, which the provers calculate with. *)
LEMMA Powers ==
  /\ Power128[1] = 1 /\ Power128[2] = 128 /\ Power128[3] = 128 * 128
  /\ Power128[4] = 128 * 128 * 128 /\ Power128[5] = 128 * 128 * 128 * 128
  BY DEF Power128

Digits(n) == Min({d \in 1 .. 4 : n < Power128[d + 1]})
Digit(n, i) == (n \div Power128[i]) % 128

(* A member of a set of integers that is below all others is its minimum. *)
LEMMA LeastIs ==
  ASSUME NEW S, NEW x \in S, S \subseteq Int, \A y \in S : x <= y
  PROVE  Min(S) = x
<1>1. \A y \in S : (\A z \in S : y <= z) => y = x
  OBVIOUS
<1>2. QED
  BY <1>1, Zenon DEF Min

(* How many digits of seven bits a length has. *)
LEMMA DigitsAre ==
  ASSUME NEW n \in Measurable
  PROVE  \/ n < 128 /\ Digits(n) = 1
         \/ 128 <= n /\ n < 128 * 128 /\ Digits(n) = 2
         \/ 128 * 128 <= n /\ n < 128 * 128 * 128 /\ Digits(n) = 3
         \/ 128 * 128 * 128 <= n /\ n < 128 * 128 * 128 * 128 /\ Digits(n) = 4
<1> DEFINE S == {d \in 1 .. 4 : n < Power128[d + 1]}
<1>0. /\ \A d \in S : d = 1 \/ d = 2 \/ d = 3 \/ d = 4
      /\ 1 \in S <=> n < 128
      /\ 2 \in S <=> n < 128 * 128
      /\ 3 \in S <=> n < 128 * 128 * 128
      /\ 4 \in S <=> n < 128 * 128 * 128 * 128
  BY Powers
<1>1. Digits(n) = Min(S) /\ S \subseteq Int
  BY DEF Digits
<1>2. n \in Nat /\ n < 128 * 128 * 128 * 128
  BY DEF Measurable
<1> HIDE DEF S
<1>3. CASE n < 128
  <2>1. 1 \in S /\ \A y \in S : 1 <= y
    BY <1>0, <1>3
  <2>2. QED
    BY <1>1, <1>3, <2>1, LeastIs
<1>4. CASE 128 <= n /\ n < 128 * 128
  <2>1. 2 \in S /\ \A y \in S : 2 <= y
    BY <1>0, <1>2, <1>4
  <2>2. QED
    BY <1>1, <1>4, <2>1, LeastIs
<1>5. CASE 128 * 128 <= n /\ n < 128 * 128 * 128
  <2>1. 3 \in S /\ \A y \in S : 3 <= y
    BY <1>0, <1>2, <1>5
  <2>2. QED
    BY <1>1, <1>5, <2>1, LeastIs
<1>6. CASE 128 * 128 * 128 <= n
  <2>1. 4 \in S /\ \A y \in S : 4 <= y
    BY <1>0, <1>2, <1>6
  <2>2. QED
    BY <1>1, <1>2, <1>6, <2>1, LeastIs
<1>7. QED
  BY <1>2, <1>3, <1>4, <1>5, <1>6

(* MQTTPacket_encode writes one to four bytes, all but the last with the top bit. *)
LEMMA Encoded ==
  ASSUME NEW n \in Measurable
  PROVE  /\ Digits(n) \in 1 .. 4
         /\ EncodeLength(n) \in Seq(Octet) /\ Len(EncodeLength(n)) = Digits(n)
         /\ \A i \in 1 .. Digits(n) :
              /\ EncodeLength(n)[i] = (IF i < Digits(n) THEN 128 ELSE 0) + Digit(n, i)
              /\ Digit(n, i) \in 0 .. 127
<1>1. Digits(n) \in 1 .. 4
  BY DigitsAre
<1>2. PICK d \in 1 .. 4 : d = Digits(n)
  BY <1>1
<1>3. EncodeLength(n) = [i \in 1 .. d |-> (IF i < d THEN 128 ELSE 0) + Digit(n, i)]
  BY <1>2, Zenon DEF EncodeLength, Digits, Digit
<1>4. ASSUME NEW i \in 1 .. d
      PROVE  Digit(n, i) \in 0 .. 127
  <2>1. i = 1 \/ i = 2 \/ i = 3 \/ i = 4
    OBVIOUS
  <2>2. n \in Nat
    BY DEF Measurable
  <2>3. QED
    BY <2>1, <2>2, Powers DEF Digit
<1>5. \A i \in 1 .. d : (IF i < d THEN 128 ELSE 0) + Digit(n, i) \in Octet
  BY <1>4, SMTT(40) DEF Octet
<1>6. QED
  BY <1>2, <1>3, <1>4, <1>5

(* A number is the sum of its digits: of two, *)
LEMMA Sum2 ==
  ASSUME NEW n \in Nat, n < 128 * 128
  PROVE  (n % 128) + ((n \div 128) % 128) * 128 = n
  OBVIOUS
(* ... of three, *)
LEMMA Sum3 ==
  ASSUME NEW n \in Nat, n < 128 * 128 * 128
  PROVE  (n % 128) + ((n \div 128) % 128) * 128 + ((n \div (128 * 128)) % 128) * 128 * 128 = n
  OBVIOUS
(* ... and of four. *)
LEMMA Sum4 ==
  ASSUME NEW n \in Nat, n < 128 * 128 * 128 * 128
  PROVE  (n % 128) + ((n \div 128) % 128) * 128 + ((n \div (128 * 128)) % 128) * 128 * 128
           + ((n \div (128 * 128 * 128)) % 128) * 128 * 128 * 128 = n
  OBVIOUS

(* The first bytes of b are the remaining length n.                           *)
Starts(b, n) ==
  /\ b \in Seq(Octet) /\ Digits(n) <= Len(b)
  /\ \A i \in 1 .. Digits(n) : b[i] = EncodeLength(n)[i]

(* The top bit of the bytes of a length tells where it ends. *)
LEMMA StartDigits ==
  ASSUME NEW n \in Measurable, NEW b, Starts(b, n), NEW i \in 1 .. Digits(n)
  PROVE  /\ i < Digits(n) => b[i] >= 128
         /\ i = Digits(n) => b[i] < 128
         /\ b[i] % 128 = Digit(n, i)
<1>1. Digits(n) \in 1 .. 4 /\ b[i] = EncodeLength(n)[i]
  BY Encoded DEF Starts
<1>2. PICK k \in 0 .. 127 : k = Digit(n, i)
  BY Encoded
<1>3. b[i] = (IF i < Digits(n) THEN 128 ELSE 0) + k
  BY <1>1, <1>2, Encoded
<1>4. (128 + k) % 128 = k /\ k % 128 = k
  OBVIOUS
<1>5. CASE i < Digits(n)
  <2>1. b[i] = 128 + k
    BY <1>3, <1>5
  <2>2. QED
    BY <1>1, <1>2, <1>4, <1>5, <2>1
<1>6. CASE i = Digits(n)
  <2>1. b[i] = k
    BY <1>1, <1>3, <1>6
  <2>2. QED
    BY <1>1, <1>2, <1>4, <1>6, <2>1
<1>7. QED
  BY <1>1, <1>5, <1>6

Ends(b) == {i \in 1 .. Len(b) : b[i] < 128}
SizeOf(b) == IF Ends(b) = {} THEN Len(b) ELSE Min(Ends(b))
PartOf(b, i) == IF i <= SizeOf(b) THEN (b[i] % 128) * Power128[i] ELSE 0

(* MQTTPacket_decode, with names for its parts. *)
LEMMA DecodeIs ==
  ASSUME NEW b
  PROVE  /\ DecodeLength(b).size = SizeOf(b)
         /\ DecodeLength(b).value = PartOf(b, 1) + PartOf(b, 2) + PartOf(b, 3) + PartOf(b, 4)
<1>1. DecodeLength(b) =
        [size |-> SizeOf(b), value |-> PartOf(b, 1) + PartOf(b, 2) + PartOf(b, 3) + PartOf(b, 4)]
  BY Zenon DEF DecodeLength, SizeOf, PartOf, Ends
<1>2. QED
  BY <1>1

(* It consumes the bytes MQTTPacket_encode has written, and no more, *)
LEMMA SizeTravels ==
  ASSUME NEW n \in Measurable, NEW b, Starts(b, n)
  PROVE  SizeOf(b) = Digits(n)
<1>1. PICK d \in 1 .. 4 : d = Digits(n)
  BY Encoded
<1>2. Len(b) \in Nat /\ d <= Len(b)
  BY <1>1 DEF Starts
<1>3. d \in Ends(b)
  BY <1>1, <1>2, StartDigits DEF Ends
<1>4. \A i \in Ends(b) : d <= i
  <2> SUFFICES ASSUME NEW i \in Ends(b), ~(d <= i)
               PROVE  FALSE
    OBVIOUS
  <2>1. i \in 1 .. d /\ i < d
    BY DEF Ends
  <2>2. b[i] < 128 /\ i \in 1 .. Len(b)
    BY DEF Ends
  <2>3. b[i] \in Octet
    BY <2>2 DEF Starts
  <2>4. b[i] >= 128
    BY <1>1, <2>1, StartDigits
  <2>5. PICK c \in Octet : c = b[i]
    BY <2>3
  <2>6. c < 128 /\ c >= 128 /\ c \in Int
    BY <2>2, <2>4, <2>5 DEF Octet
  <2>7. QED
    BY <2>6
<1>5. Ends(b) \subseteq Int
  BY DEF Ends
<1>6. QED
  BY <1>1, <1>3, <1>4, <1>5, LeastIs DEF SizeOf

(* ... and its value is the length that was encoded. *)
LEMMA LengthTravels ==
  ASSUME NEW n \in Measurable, NEW b, Starts(b, n)
  PROVE  DecodeLength(b).value = n
<1>1. PICK d \in 1 .. 4 : d = Digits(n)
  BY Encoded
<1>2. \A i \in 1 .. 4 : PartOf(b, i) = IF i <= d THEN Digit(n, i) * Power128[i] ELSE 0
  BY <1>1, StartDigits, SizeTravels DEF PartOf
<1>3. /\ PartOf(b, 1) = IF 1 <= d THEN n % 128 ELSE 0
      /\ PartOf(b, 2) = IF 2 <= d THEN ((n \div 128) % 128) * 128 ELSE 0
      /\ PartOf(b, 3) = IF 3 <= d THEN ((n \div (128 * 128)) % 128) * 128 * 128 ELSE 0
      /\ PartOf(b, 4) = IF 4 <= d THEN ((n \div (128 * 128 * 128)) % 128) * 128 * 128 * 128 ELSE 0
  <2>1. n \in Nat
    BY DEF Measurable
  <2>2. /\ Digit(n, 1) = n % 128 /\ Digit(n, 2) = (n \div 128) % 128
        /\ Digit(n, 3) = (n \div (128 * 128)) % 128 /\ Digit(n, 4) = (n \div (128 * 128 * 128)) % 128
    BY <2>1, Powers DEF Digit
  <2>3. QED
    BY <1>2, <2>1, <2>2, Powers
<1>9. \/ n < 128 /\ d = 1
      \/ 128 <= n /\ n < 128 * 128 /\ d = 2
      \/ 128 * 128 <= n /\ n < 128 * 128 * 128 /\ d = 3
      \/ 128 * 128 * 128 <= n /\ n < 128 * 128 * 128 * 128 /\ d = 4
  <2>1. \/ n < 128 /\ Digits(n) = 1
        \/ 128 <= n /\ n < 128 * 128 /\ Digits(n) = 2
        \/ 128 * 128 <= n /\ n < 128 * 128 * 128 /\ Digits(n) = 3
        \/ 128 * 128 * 128 <= n /\ n < 128 * 128 * 128 * 128 /\ Digits(n) = 4
    BY DigitsAre
  <2>2. QED
    BY <1>1, <2>1
<1>4. PartOf(b, 1) + PartOf(b, 2) + PartOf(b, 3) + PartOf(b, 4) = n
  <2>1. n \in Nat
    BY DEF Measurable
  <2>2. CASE d = 1
    <3>1. n < 128
      BY <1>9, <2>2
    <3>2. PartOf(b, 1) = n /\ PartOf(b, 2) = 0 /\ PartOf(b, 3) = 0 /\ PartOf(b, 4) = 0
      BY <1>3, <2>1, <2>2, <3>1
    <3>3. QED
      BY <2>1, <3>2
  <2>3. CASE d = 2
    <3>1. n < 128 * 128
      BY <1>9, <2>3
    <3>2. QED
      BY <1>3, <2>1, <2>3, <3>1, Sum2
  <2>4. CASE d = 3
    <3>1. n < 128 * 128 * 128
      BY <1>9, <2>4
    <3>2. QED
      BY <1>3, <2>1, <2>4, <3>1, Sum3
  <2>5. CASE d = 4
    <3>1. n < 128 * 128 * 128 * 128
      BY <1>9, <2>5
    <3>2. QED
      BY <1>3, <2>1, <2>5, <3>1, Sum4
  <2>6. QED
    BY <2>2, <2>3, <2>4, <2>5
<1>5. QED
  BY <1>4, DecodeIs
-----------------------------------------------------------------------------
(* What is in front of a concatenation, *)
LEMMA FirstOf ==
  ASSUME NEW S, NEW s \in Seq(S), NEW t \in Seq(S)
  PROVE  SubSeq(s \o t, 1, Len(s)) = s
<1>1. /\ Len(s) \in Nat /\ Len(t) \in Nat
      /\ \A i \in 1 .. Len(s) : (s \o t)[i] = s[i]
  BY ConcatProperties, LenProperties
<1>2. \A i \in 1 .. Len(s) : (s \o t)[i] \in S
  BY <1>1, ElementOfSeq
<1>3. /\ SubSeq(s \o t, 1, Len(s)) \in Seq(S)
      /\ Len(SubSeq(s \o t, 1, Len(s))) = Len(s)
      /\ \A i \in 1 .. Len(s) : SubSeq(s \o t, 1, Len(s))[i] = (s \o t)[i]
  BY <1>1, <1>2, SubSeqProperties, SMT
<1>4. QED
  BY <1>1, <1>3, SeqEqual

(* ... and what is behind. *)
LEMMA RestOf ==
  ASSUME NEW S, NEW s \in Seq(S), NEW t \in Seq(S)
  PROVE  From(s \o t, Len(s) + 1) = t
<1>1. /\ Len(s) \in Nat /\ Len(t) \in Nat /\ Len(s \o t) = Len(s) + Len(t)
      /\ \A i \in Len(s) + 1 .. Len(s) + Len(t) : (s \o t)[i] = t[i - Len(s)]
  BY ConcatProperties, LenProperties
<1>2. \A i \in Len(s) + 1 .. Len(s) + Len(t) : (s \o t)[i] \in S
  BY <1>1, ElementOfSeq
<1> DEFINE r == SubSeq(s \o t, Len(s) + 1, Len(s) + Len(t))
<1>3. /\ r \in Seq(S) /\ Len(r) = Len(t)
      /\ \A i \in 1 .. Len(t) : r[i] = (s \o t)[Len(s) + i]
  BY <1>1, <1>2, SubSeqProperties, SMT
<1> HIDE DEF r
<1>4. \A i \in 1 .. Len(t) : r[i] = t[i]
  BY <1>1, <1>3
<1>5. r = t
  BY <1>3, <1>4, SeqEqual
<1>6. QED
  BY <1>1, <1>5 DEF r, From

(* What is taken off the front leaves the rest.                               *)
LEMMA Split ==
  ASSUME NEW S, NEW s \in Seq(S), NEW n \in 0 .. Len(s)
  PROVE  /\ SubSeq(s, 1, n) \in Seq(S) /\ Len(SubSeq(s, 1, n)) = n
         /\ From(s, n + 1) \in Seq(S) /\ Len(From(s, n + 1)) = Len(s) - n
         /\ SubSeq(s, 1, n) \o From(s, n + 1) = s
<1>1. Len(s) \in Nat /\ \A i \in 1 .. Len(s) : s[i] \in S
  BY LenProperties, ElementOfSeq
<1>2. SubSeq(s, 1, n) \in Seq(S) /\ Len(SubSeq(s, 1, n)) = n
  BY <1>1, SubSeqProperties, SMT
<1>3. From(s, n + 1) \in Seq(S) /\ Len(From(s, n + 1)) = Len(s) - n
  BY <1>1, SubSeqProperties, SMT DEF From
<1>4. 1 \in 1 .. Len(s) + 1 /\ n \in 1 - 1 .. Len(s) /\ Len(s) \in n .. Len(s)
  BY <1>1
<1>5. SubSeq(s, 1, n) \o SubSeq(s, n + 1, Len(s)) = SubSeq(s, 1, Len(s))
  BY <1>4, ConcatAdjacentSubSeq
<1>6. QED
  BY <1>2, <1>3, <1>5, SubSeqFull DEF From

(* Sequences of one *)
LEMMA Single ==
  ASSUME NEW S, NEW e \in S
  PROVE  <<e>> \in Seq(S) /\ Len(<<e>>) = 1 /\ <<e>>[1] = e
  OBVIOUS

(* ... and of two. *)
LEMMA Pair ==
  ASSUME NEW S, NEW e \in S, NEW f \in S
  PROVE  /\ <<e, f>> \in Seq(S) /\ Len(<<e, f>>) = 2
         /\ <<e, f>>[1] = e /\ <<e, f>>[2] = f
  OBVIOUS

(* A sequence with s in front, and what is behind it.                          *)
LEMMA Behind ==
  ASSUME NEW S, NEW s \in Seq(S), NEW t \in Seq(S)
  PROVE  /\ s \o t \in Seq(S) /\ Len(s \o t) = Len(s) + Len(t)
         /\ SubSeq(s \o t, 1, Len(s)) = s /\ From(s \o t, Len(s) + 1) = t
         /\ \A i \in 1 .. Len(s) : (s \o t)[i] = s[i]
         /\ \A i \in 1 .. Len(t) : (s \o t)[Len(s) + i] = t[i]
<1>1. Len(s) \in Nat /\ Len(t) \in Nat
  BY LenProperties
<1>2. /\ s \o t \in Seq(S) /\ Len(s \o t) = Len(s) + Len(t)
      /\ \A i \in 1 .. Len(s) + Len(t) : (s \o t)[i] = IF i <= Len(s) THEN s[i] ELSE t[i - Len(s)]
  BY ConcatProperties, Zenon
<1>3. ASSUME NEW i \in 1 .. Len(t)
      PROVE  (s \o t)[Len(s) + i] = t[i]
  <2>1. Len(s) + i \in 1 .. Len(s) + Len(t) /\ ~(Len(s) + i <= Len(s)) /\ (Len(s) + i) - Len(s) = i
    BY <1>1
  <2>2. QED
    BY <1>2, <2>1, Zenon
<1>4. \A i \in 1 .. Len(s) : (s \o t)[i] = s[i]
  BY <1>1, <1>2
<1>5. QED
  BY <1>2, <1>3, <1>4, FirstOf, RestOf, Zenon
-----------------------------------------------------------------------------
(* A packet: the header, the remaining length and as many bytes of body.       *)
Frame(h, body) == <<h>> \o EncodeLength(Len(body)) \o body

(* The parts of a frame and their sizes. *)
LEMMA FrameIs ==
  ASSUME NEW h \in Octet, NEW body \in Seq(Octet), Len(body) \in Measurable
  PROVE  LET e == EncodeLength(Len(body))
             bytes == Frame(h, body)
         IN /\ bytes \in Seq(Octet)
            /\ bytes = (<<h>> \o e) \o body /\ bytes = <<h>> \o (e \o body)
            /\ e \in Seq(Octet) /\ Len(e) = Digits(Len(body)) /\ Len(e) \in 1 .. 4
            /\ Len(bytes) = 1 + Len(e) + Len(body)
            /\ bytes[1] = h
            /\ Tail(bytes) = e \o body
<1> DEFINE e == EncodeLength(Len(body))
           bytes == Frame(h, body)
<1>1. e \in Seq(Octet) /\ Len(e) = Digits(Len(body)) /\ Len(e) \in 1 .. 4
  BY Encoded
<1>2. bytes = (<<h>> \o e) \o body
  BY DEF Frame
<1> HIDE DEF e, bytes
<1>3. <<h>> \in Seq(Octet) /\ Len(<<h>>) = 1 /\ <<h>>[1] = h
  BY Single
<1>4. bytes = <<h>> \o (e \o body)
  BY <1>1, <1>2, <1>3, ConcatAssociative
<1>5. e \o body \in Seq(Octet) /\ Len(e \o body) = Len(e) + Len(body)
  BY <1>1, ConcatProperties
<1>6. /\ bytes \in Seq(Octet) /\ Len(bytes) = 1 + Len(e \o body)
      /\ bytes[1] = h /\ From(bytes, 2) = e \o body
  <2>1. PICK r : r = e \o body
    OBVIOUS
  <2>2. r \in Seq(Octet) /\ bytes = <<h>> \o r
    BY <1>4, <1>5, <2>1
  <2>3. /\ <<h>> \o r \in Seq(Octet) /\ Len(<<h>> \o r) = Len(<<h>>) + Len(r)
        /\ From(<<h>> \o r, Len(<<h>>) + 1) = r
        /\ \A i \in 1 .. Len(<<h>>) : (<<h>> \o r)[i] = <<h>>[i]
    BY <1>3, <2>2, Behind, ZenonT(40)
  <2>4. 1 \in 1 .. Len(<<h>>)
    BY <1>3
  <2>5. bytes[1] = h /\ Len(bytes) = 1 + Len(r) /\ From(bytes, 1 + 1) = r
    BY <1>3, <2>2, <2>3, <2>4, Zenon
  <2>6. 1 + 1 = 2
    OBVIOUS
  <2>7. QED
    BY <2>1, <2>2, <2>3, <2>5, <2>6, Zenon
<1>7. Len(body) \in Nat
  BY LenProperties
<1>8. Tail(bytes) = e \o body
  <2>1. bytes # <<>>
    BY <1>1, <1>5, <1>6, <1>7, EmptySeq
  <2>2. QED
    BY <1>6, <2>1, TailIsSubSeq DEF From
<1>9. Len(bytes) = 1 + Len(e) + Len(body)
  BY <1>1, <1>5, <1>6, <1>7
<1>10. QED
  BY <1>1, <1>2, <1>4, <1>6, <1>8, <1>9 DEF e, bytes

(* What is read of it: MQTTPacket_decodeBuf finds the body.                    *)
LEMMA FrameReads ==
  ASSUME NEW h \in Octet, NEW body \in Seq(Octet), Len(body) \in Measurable
  PROVE  /\ DecodeLength(Tail(Frame(h, body))).size = Digits(Len(body))
         /\ BodyOf(Frame(h, body)) = body
<1>1. PICK e : e = EncodeLength(Len(body))
  OBVIOUS
<1>2. PICK bytes : bytes = Frame(h, body)
  OBVIOUS
<1>3. /\ bytes \in Seq(Octet)
      /\ bytes = (<<h>> \o e) \o body
      /\ e \in Seq(Octet) /\ Len(e) = Digits(Len(body)) /\ Len(e) \in 1 .. 4
      /\ Len(bytes) = 1 + Len(e) + Len(body)
      /\ Tail(bytes) = e \o body
  BY <1>1, <1>2, FrameIs, Zenon
<1>4. /\ e \o body \in Seq(Octet) /\ Len(e \o body) = Len(e) + Len(body)
      /\ \A i \in 1 .. Len(e) : (e \o body)[i] = e[i]
  BY <1>3, Behind, Zenon
<1>5. Len(body) \in Nat
  BY LenProperties
<1>6. Starts(e \o body, Len(body))
  <2>1. Digits(Len(body)) <= Len(e \o body)
    BY <1>3, <1>4, <1>5
  <2>2. \A i \in 1 .. Digits(Len(body)) : (e \o body)[i] = EncodeLength(Len(body))[i]
    BY <1>1, <1>3, <1>4, Zenon
  <2>3. QED
    BY <1>4, <2>1, <2>2, Zenon DEF Starts
<1>7. DecodeLength(Tail(bytes)).size = Len(e) /\ DecodeLength(Tail(bytes)).value = Len(body)
  BY <1>3, <1>6, DecodeIs, SizeTravels, LengthTravels, Zenon
<1>8. <<h>> \o e \in Seq(Octet) /\ Len(<<h>> \o e) = 1 + Len(e)
  BY <1>3, Single, ConcatProperties
<1>9. From(bytes, (1 + Len(e)) + 1) = body
  BY <1>3, <1>8, RestOf, Zenon
<1>10. (1 + Len(e)) + 1 = 2 + Len(e)
  BY <1>3
<1>11. BodyOf(bytes) = body
  BY <1>3, <1>7, <1>9, <1>10, Zenon DEF BodyOf, From
<1>12. QED
  BY <1>2, <1>3, <1>7, <1>11
-----------------------------------------------------------------------------
(* u is s with t behind it.                                                   *)
Joins(u, s, t) == s \in Seq(Octet) /\ t \in Seq(Octet) /\ u = s \o t

(* What is joined can be taken apart, *)
LEMMA Joined ==
  ASSUME NEW u, NEW s, NEW t, Joins(u, s, t)
  PROVE  /\ u \in Seq(Octet) /\ s \in Seq(Octet) /\ t \in Seq(Octet)
         /\ Len(u) = Len(s) + Len(t) /\ Len(s) \in Nat /\ Len(t) \in Nat
         /\ SubSeq(u, 1, Len(s)) = s /\ From(u, Len(s) + 1) = t
<1>1. s \in Seq(Octet) /\ t \in Seq(Octet) /\ u = s \o t
  BY DEF Joins
<1>2. /\ s \o t \in Seq(Octet) /\ Len(s \o t) = Len(s) + Len(t)
      /\ SubSeq(s \o t, 1, Len(s)) = s /\ From(s \o t, Len(s) + 1) = t
  BY <1>1, Behind, Zenon
<1>3. Len(s) \in Nat /\ Len(t) \in Nat
  BY <1>1, LenProperties
<1>4. QED
  BY <1>1, <1>2, <1>3

(* ... and every byte has its place. *)
LEMMA JoinedAt ==
  ASSUME NEW u, NEW s, NEW t, Joins(u, s, t)
  PROVE  /\ \A i : i \in 1 .. Len(s) => u[i] = s[i]
         /\ \A i : i \in 1 .. Len(t) => u[Len(s) + i] = t[i]
<1>1. s \in Seq(Octet) /\ t \in Seq(Octet) /\ u = s \o t
  BY DEF Joins
<1>2. \A i \in 1 .. Len(s) : (s \o t)[i] = s[i]
  BY <1>1, Behind, Zenon
<1>3. \A i \in 1 .. Len(t) : (s \o t)[Len(s) + i] = t[i]
  BY <1>1, Behind, Zenon
<1>4. QED
  BY <1>1, <1>2, <1>3

(* A sequence in front of two that are joined. *)
LEMMA Regrouped ==
  ASSUME NEW st, NEW s, NEW t, Joins(st, s, t), NEW w, NEW u, Joins(w, st, u),
         NEW tu, Joins(tu, t, u)
  PROVE  Joins(w, s, tu)
<1>1. s \in Seq(Octet) /\ t \in Seq(Octet) /\ u \in Seq(Octet) /\ tu \in Seq(Octet)
  BY Joined, Zenon
<1>2. (s \o t) \o u = s \o (t \o u)
  BY <1>1, ConcatAssociative
<1>3. w = (s \o t) \o u /\ s \o tu = s \o (t \o u)
  BY DEF Joins
<1>4. w = s \o tu
  BY <1>2, <1>3
<1>5. QED
  BY <1>1, <1>4 DEF Joins

(* The part between two others. *)
LEMMA Middle ==
  ASSUME NEW st, NEW s, NEW t, Joins(st, s, t), NEW w, NEW u, Joins(w, st, u)
  PROVE  SubSeq(w, Len(s) + 1, Len(s) + Len(t)) = t
<1>0. t \in Seq(Octet) /\ Len(s) \in Nat /\ Len(t) \in Nat /\ Len(st) = Len(s) + Len(t)
  BY Joined, Zenon
<1>1. \A i \in 1 .. Len(t) : st[Len(s) + i] = t[i]
  BY JoinedAt
<1> USE <1>0
<1>2. \A i \in 1 .. Len(st) : w[i] = st[i]
  BY JoinedAt
<1>3. \A i \in 1 .. Len(t) : Len(s) + i \in 1 .. Len(st)
  BY <1>1
<1>4. \A i \in 1 .. Len(t) : w[Len(s) + i] = t[i]
  BY <1>1, <1>2, <1>3, Zenon
<1>5. \A i \in Len(s) + 1 .. Len(s) + Len(t) : w[i] \in Octet
  <2> TAKE i \in Len(s) + 1 .. Len(s) + Len(t)
  <2>1. i - Len(s) \in 1 .. Len(t) /\ Len(s) + (i - Len(s)) = i
    BY <1>1
  <2>2. t[i - Len(s)] \in Octet
    BY <1>1, <2>1, ElementOfSeq
  <2>3. QED
    BY <1>4, <2>1, <2>2
<1> DEFINE r == SubSeq(w, Len(s) + 1, Len(s) + Len(t))
<1>6. /\ r \in Seq(Octet) /\ Len(r) = Len(t)
      /\ \A i \in 1 .. Len(t) : r[i] = w[Len(s) + i]
  BY <1>1, <1>5, SubSeqProperties, SMT
<1> HIDE DEF r
<1>7. r = t
  BY <1>1, <1>4, <1>6, SeqEqual
<1>8. QED
  BY <1>7 DEF r

(* writeInt and readInt.                                                      *)
LEMMA Int2Bytes ==
  ASSUME NEW n \in Short
  PROVE  /\ Int2(n) \in Seq(Octet) /\ Len(Int2(n)) = 2
         /\ \A b : b[1] = Int2(n)[1] /\ b[2] = Int2(n)[2] => Value2(b) = n
<1>1. /\ n \div 256 \in Octet /\ n % 256 \in Octet
      /\ 256 * (n \div 256) + (n % 256) = n
  BY DEF Octet, Short
<1>2. /\ Int2(n) \in Seq(Octet) /\ Len(Int2(n)) = 2
      /\ Int2(n)[1] = n \div 256 /\ Int2(n)[2] = n % 256
  BY <1>1, Pair DEF Int2
<1>3. ASSUME NEW b, b[1] = Int2(n)[1], b[2] = Int2(n)[2]
      PROVE  Value2(b) = n
  BY <1>1, <1>2, <1>3, Zenon DEF Value2
<1>4. QED
  BY <1>2, <1>3

(* Two bytes and what is behind them. *)
LEMMA TwoInFront ==
  ASSUME NEW u, NEW b, NEW t, Joins(u, b, t)
  PROVE  Len(b) = 2 => u[1] = b[1] /\ u[2] = b[2] /\ From(u, 3) = t /\ Len(u) = 2 + Len(t)
<1>1. From(u, Len(b) + 1) = t /\ Len(u) = Len(b) + Len(t)
  BY Joined, Zenon
<1>2. \A i : i \in 1 .. Len(b) => u[i] = b[i]
  BY JoinedAt, Zenon
<1>3. ASSUME Len(b) = 2
      PROVE  u[1] = b[1] /\ u[2] = b[2] /\ Len(b) + 1 = 3
  <2>1. 1 \in 1 .. Len(b) /\ 2 \in 1 .. Len(b) /\ Len(b) + 1 = 3
    BY <1>3
  <2>2. QED
    BY <1>2, <2>1
<1>4. QED
  BY <1>1, <1>3

(* readInt reads the number writeInt has written in front. *)
LEMMA Int2Reads ==
  ASSUME NEW n \in Short, NEW u, NEW t, Joins(u, Int2(n), t)
  PROVE  Value2(u) = n /\ From(u, 3) = t /\ Len(u) = 2 + Len(t)
<1>1. Len(Int2(n)) = 2
  BY Int2Bytes
<1>2. /\ u[1] = Int2(n)[1] /\ u[2] = Int2(n)[2]
      /\ From(u, 3) = t /\ Len(u) = 2 + Len(t)
  BY <1>1, TwoInFront
<1>3. QED
  BY <1>2, Int2Bytes, Zenon

(* A string with its length in front is bytes. *)
LEMMA StringBytes ==
  ASSUME NEW s, IsString(s)
  PROVE  /\ s \in Seq(Octet) /\ Len(s) \in Short
         /\ Joins(MqttString(s), Int2(Len(s)), s)
         /\ MqttString(s) \in Seq(Octet) /\ Len(MqttString(s)) = 2 + Len(s)
<1>1. s \in Seq(Octet) /\ Len(s) \in Short
  BY DEF IsString
<1>2. Joins(MqttString(s), Int2(Len(s)), s)
  BY <1>1, Int2Bytes DEF MqttString, Joins
<1>3. QED
  BY <1>1, <1>2, Int2Reads, Joined, Zenon

Reading(left, strings, gaps) == [ok |-> TRUE, left |-> left, strings |-> strings, gaps |-> gaps]

(* readMQTTLenString on a string with the bytes t behind it that belong to it.  *)
LEMMA StringRead ==
  ASSUME NEW s, IsString(s), NEW mt, NEW t, Joins(mt, MqttString(s), t),
         NEW left, NEW rest, Joins(left, mt, rest), NEW strings, NEW gaps
  PROVE  ReadString(Reading(left, strings, gaps), Len(t))
           = Reading(rest, Append(strings, s), gaps \o t)
<1>1. PICK m : m = MqttString(s)
  OBVIOUS
<1>2. PICK b : b = Int2(Len(s))
  OBVIOUS
<1>3. /\ s \in Seq(Octet) /\ Len(s) \in Short
      /\ Len(b) = 2 /\ Joins(m, b, s) /\ Len(m) = 2 + Len(s) /\ Joins(mt, m, t)
  BY <1>1, <1>2, StringBytes, Int2Bytes
<1>4. /\ Len(mt) = Len(m) + Len(t) /\ Len(left) = Len(mt) + Len(rest)
      /\ From(left, Len(mt) + 1) = rest
      /\ t \in Seq(Octet) /\ rest \in Seq(Octet) /\ Len(t) \in Nat /\ Len(rest) \in Nat
  BY <1>3, Joined, Zenon
<1>5. SubSeq(left, Len(m) + 1, Len(m) + Len(t)) = t
  BY <1>3, Middle, Zenon
<1>6. PICK u : u = t \o rest
  OBVIOUS
<1>7. Joins(u, t, rest)
  BY <1>4, <1>6 DEF Joins
<1>8. Joins(left, m, u)
  BY <1>3, <1>7, Regrouped, Zenon
<1>9. SubSeq(left, Len(b) + 1, Len(b) + Len(s)) = s
  BY <1>3, <1>8, Middle, Zenon
<1>10. PICK v : v = s \o u
  OBVIOUS
<1>11. u \in Seq(Octet)
  BY <1>7, Joined, Zenon
<1>12. Joins(v, s, u)
  BY <1>3, <1>10, <1>11 DEF Joins
<1>13. Joins(left, b, v)
  BY <1>3, <1>8, <1>12, Regrouped, Zenon
<1>14. Value2(left) = Len(s)
  <2>1. PICK n : n = Len(s)
    OBVIOUS
  <2>2. n \in Short /\ Joins(left, Int2(n), v)
    BY <1>2, <1>3, <1>13, <2>1
  <2>3. Value2(left) = n
    BY <2>2, Int2Reads, Zenon
  <2>4. QED
    BY <2>1, <2>3
<1>15. Len(s) \in Nat
  BY <1>3, LenProperties
<1>16. /\ Len(b) + 1 = 3 /\ Len(b) + Len(s) = 2 + Len(s)
       /\ Len(mt) + 1 = 3 + Len(s) + Len(t)
       /\ Len(m) + 1 = 3 + Len(s) /\ Len(m) + Len(t) = 2 + Len(s) + Len(t)
       /\ ~(Len(left) < 2) /\ ~(2 + Len(s) + Len(t) > Len(left))
  BY <1>3, <1>4, <1>15
<1>17. /\ SubSeq(left, 3, 2 + Len(s)) = s
       /\ SubSeq(left, 3 + Len(s), 2 + Len(s) + Len(t)) = t
       /\ From(left, 3 + Len(s) + Len(t)) = rest
  BY <1>4, <1>5, <1>9, <1>16, Zenon
<1>18. PICK st : st = Reading(left, strings, gaps)
  OBVIOUS
<1>19. st.left = left /\ st.strings = strings /\ st.gaps = gaps
  BY <1>18 DEF Reading
<1>20. ReadString(st, Len(t)) = Reading(rest, Append(strings, s), gaps \o t)
  BY <1>14, <1>16, <1>17, <1>19, Zenon DEF ReadString, Reading
<1>21. QED
  BY <1>18, <1>20
-----------------------------------------------------------------------------
Empty == <<>>

(* Nothing is joined to a sequence in front or behind. *)
LEMMA NothingBehind ==
  ASSUME NEW s \in Seq(Octet)
  PROVE  Joins(s, s, Empty) /\ Joins(s, Empty, s) /\ Empty \in Seq(Octet) /\ Len(Empty) = 0
<1>1. Empty \in Seq(Octet) /\ Len(Empty) = 0
  BY EmptySeq DEF Empty
<1>2. s \o Empty = s /\ Empty \o s = s
  BY ConcatEmptySeq, Zenon DEF Empty
<1>3. QED
  BY <1>1, <1>2 DEF Joins

(* The header has the type in the upper half and the QoS in bits 1 and 2. *)
LEMMA HeaderReads ==
  ASSUME NEW type \in 1 .. 14, NEW qos \in 0 .. 2
  PROVE  /\ 16 * type + 2 * qos \in Octet
         /\ \A bytes : bytes[1] = 16 * type + 2 * qos => TypeOf(bytes) = type /\ QosOf(bytes) = qos
<1>1. qos = 0 \/ qos = 1 \/ qos = 2
  OBVIOUS
<1>2. /\ 16 * type + 2 * qos \in Octet
      /\ (16 * type + 2 * qos) \div 16 = type
      /\ ((16 * type + 2 * qos) \div 2) % 4 = qos
  BY <1>1 DEF Octet
<1>3. QED
  BY <1>2, Zenon DEF TypeOf, QosOf

(* A packet whose length was computed right is a frame, if it fits the buffer.  *)
LEMMA WholeIs ==
  ASSUME NEW p, NEW body \in Seq(Octet), Whole(p, Len(body), body) # <<>>
  PROVE  /\ Len(body) \in Measurable
         /\ Whole(p, Len(body), body) = Frame(16 * p.type + 2 * p.qos, body)
<1>1. Len(body) \in Nat
  BY LenProperties
<1>2. ~(PacketLen(Len(body)) > BufferSize)
  BY DEF Whole
<1>3. PacketLen(Len(body)) \in Nat /\ PacketLen(Len(body)) > Len(body)
  BY <1>1 DEF PacketLen
<1>4. Len(body) \in Measurable
  BY <1>1, <1>2, <1>3, BufferAssumption, Powers DEF Measurable
<1>5. QED
  BY <1>2, <1>4, Zenon DEF Whole, Frame

(* Read(bytes) is p for all bytes that hold the body of p under its header.     *)
Carries(body, p) ==
  \A bytes : TypeOf(bytes) = p.type /\ QosOf(bytes) = p.qos /\ BodyOf(bytes) = body
               => ServerReads(bytes) = p

IsHeader(p) == p.type \in 1 .. 14 /\ p.qos \in 0 .. 2

(* The fields of a packet. *)
LEMMA FieldsOf ==
  ASSUME NEW type, NEW qos, NEW flags, NEW number, NEW strings, NEW rest, NEW p,
         p = Packet(type, qos, flags, number, strings, rest)
  PROVE  /\ p.type = type /\ p.qos = qos /\ p.flags = flags /\ p.number = number
         /\ p.strings = strings /\ p.rest = rest
  BY DEF Packet

(* Their ranges. *)
LEMMA Typed ==
  ASSUME NEW p \in Packets
  PROVE  /\ p.type \in 1 .. 14 /\ p.qos \in 0 .. 2 /\ p.flags \in Octet /\ p.number \in Short
         /\ p.strings \in Seq(Seq(Octet)) /\ p.rest \in Seq(Octet)
  BY DEF Packets

(* What each type of request is serialized to. *)
LEMMA Serialized ==
  ASSUME NEW p
  PROVE  /\ p.type = CONNECT => Serialize(p) = Whole(p, ConnectLength(p), ConnectBody(p))
         /\ p.type = SUBSCRIBE => Serialize(p) = Whole(p, SubscribeLength(p), SubscribeBody(p))
         /\ p.type = UNSUBSCRIBE => Serialize(p) = Whole(p, UnsubscribeLength(p), UnsubscribeBody(p))
         /\ p.type = PUBLISH => Serialize(p) = Whole(p, PublishLength(p), PublishBody(p))
         /\ p.type = PUBACK => Serialize(p) = Whole(p, 2, Int2(p.number))
  BY DEF Serialize, CONNECT, SUBSCRIBE, UNSUBSCRIBE, PUBLISH, PUBACK, PINGREQ, DISCONNECT

(* What the server makes of the body of each type. *)
LEMMA ReadByServer ==
  ASSUME NEW bytes, NEW body, BodyOf(bytes) = body
  PROVE  /\ TypeOf(bytes) = CONNECT => ServerReads(bytes) = ReadConnect(body)
         /\ TypeOf(bytes) = SUBSCRIBE => ServerReads(bytes) = ReadTopics(SUBSCRIBE, body, 1)
         /\ TypeOf(bytes) = UNSUBSCRIBE => ServerReads(bytes) = ReadTopics(UNSUBSCRIBE, body, 0)
         /\ TypeOf(bytes) = PUBLISH => ServerReads(bytes) = ReadPublish(QosOf(bytes), body)
         /\ TypeOf(bytes) = PUBACK => ServerReads(bytes) = ReadAck(PUBACK, body)
  BY DEF ServerReads, CONNECT, SUBSCRIBE, UNSUBSCRIBE, PUBLISH, PUBACK

(* PINGREQ and DISCONNECT have no body. *)
LEMMA BlankTravels ==
  ASSUME NEW type \in {PINGREQ, DISCONNECT}, NEW p, p = Packet(type, 0, 0, 0, <<>>, <<>>)
  PROVE  Serialize(p) = Whole(p, Len(Empty), Empty) /\ Carries(Empty, p)
<1>1. p.type = type /\ p.qos = 0
  BY DEF Packet
<1>2. Len(Empty) = 0
  BY EmptySeq DEF Empty
<1>3. Serialize(p) = Whole(p, 0, Empty)
  BY <1>1 DEF Serialize, Empty, CONNECT, SUBSCRIBE, UNSUBSCRIBE, PUBLISH, PUBACK, PINGREQ, DISCONNECT
<1>4. ASSUME NEW bytes, TypeOf(bytes) = type
      PROVE  ServerReads(bytes) = Packet(type, 0, 0, 0, <<>>, <<>>)
  BY <1>4 DEF ServerReads, CONNECT, SUBSCRIBE, UNSUBSCRIBE, PUBLISH, PUBACK, PINGREQ, DISCONNECT
<1>5. QED
  BY <1>1, <1>2, <1>3, <1>4 DEF Carries

(* A PUBACK has its packet id. *)
LEMMA AckTravels ==
  ASSUME NEW p, p = Packet(PUBACK, 0, 0, p.number, <<>>, <<>>), p.number \in Short
  PROVE  /\ Int2(p.number) \in Seq(Octet)
         /\ Serialize(p) = Whole(p, Len(Int2(p.number)), Int2(p.number))
         /\ Carries(Int2(p.number), p)
<1>1. PICK n \in Short : n = p.number
  OBVIOUS
<1>2. p = Packet(PUBACK, 0, 0, n, <<>>, <<>>)
  BY <1>1
<1>3. p.type = PUBACK
  BY <1>2 DEF Packet
<1>4. Int2(n) \in Seq(Octet) /\ Len(Int2(n)) = 2 /\ Value2(Int2(n)) = n
  BY Int2Bytes
<1>5. Serialize(p) = Whole(p, 2, Int2(n))
  <2>1. Serialize(p) = Whole(p, 2, Int2(p.number))
    BY <1>3, Serialized, Zenon
  <2>2. QED
    BY <1>1, <2>1
<1>6. ASSUME NEW bytes, TypeOf(bytes) = PUBACK, BodyOf(bytes) = Int2(n)
      PROVE  ServerReads(bytes) = p
  <2>1. ServerReads(bytes) = ReadAck(PUBACK, Int2(n))
    BY <1>6, ReadByServer, Zenon
  <2>2. QED
    BY <1>2, <1>4, <2>1 DEF ReadAck
<1>7. QED
  BY <1>1, <1>3, <1>4, <1>5, <1>6, Zenon DEF Carries

(* readMQTTLenString reads the string in front and leaves the rest. *)
LEMMA ReadNext ==
  ASSUME NEW s, IsString(s), NEW left, NEW rest, Joins(left, MqttString(s), rest),
         NEW strings
  PROVE  ReadString(Reading(left, strings, Empty), 0) = Reading(rest, Append(strings, s), Empty)
<1>1. PICK m : m = MqttString(s)
  OBVIOUS
<1>2. m \in Seq(Octet)
  BY <1>1, StringBytes
<1>3. Joins(m, m, Empty) /\ Len(Empty) = 0
  BY <1>2, NothingBehind
<1>4. Joins(m, MqttString(s), Empty) /\ Joins(left, m, rest)
  BY <1>1, <1>3
<1>5. ReadString(Reading(left, strings, Empty), Len(Empty)) = Reading(rest, Append(strings, s), Empty \o Empty)
  BY <1>4, StringRead
<1>6. Empty \o Empty = Empty
  BY <1>3 DEF Joins, Empty
<1>7. QED
  BY <1>3, <1>5, <1>6

(* Nothing has been read at the start. *)
LEMMA UnreadIs == ASSUME NEW bytes PROVE Unread(bytes) = Reading(bytes, Empty, Empty)
  BY DEF Unread, Reading, Empty

(* The first string that is read is a sequence of its own. *)
LEMMA FirstString ==
  ASSUME NEW S, NEW s \in S
  PROVE  Append(Empty, s) = <<s>>
  BY DEF Empty

(* A sequence of one has its first member. *)
LEMMA OnlyOne ==
  ASSUME NEW S, NEW strings \in Seq(S), Len(strings) = 1
  PROVE  strings[1] \in S /\ strings = <<strings[1]>>
<1>1. strings[1] \in S
  BY ElementOfSeq, SMTT(40)
<1>2. <<strings[1]>> \in Seq(S) /\ Len(<<strings[1]>>) = 1 /\ <<strings[1]>>[1] = strings[1]
  BY <1>1, Single
<1>3. \A i \in 1 .. 1 : strings[i] = <<strings[1]>>[i]
  BY <1>2
<1>4. QED
  BY <1>1, <1>2, <1>3, SeqEqual

(* The body of a PUBLISH, read by either side. *)
LEMMA PublishTravels ==
  ASSUME NEW p \in Packets, IsPublish(p), \A i \in DOMAIN p.strings : IsString(p.strings[i])
  PROVE  /\ PublishBody(p) \in Seq(Octet) /\ Len(PublishBody(p)) = PublishLength(p)
         /\ ReadPublish(p.qos, PublishBody(p)) = p
<1>1. /\ p.qos \in 0 .. 2 /\ p.number \in Short /\ p.strings \in Seq(Seq(Octet)) /\ p.rest \in Seq(Octet)
      /\ Len(p.strings) = 1 /\ (p.qos = 0 => p.number = 0)
      /\ p = Packet(PUBLISH, p.qos, 0, p.number, p.strings, p.rest)
  BY Typed DEF IsPublish
<1>2. PICK s : s = p.strings[1]
  OBVIOUS
<1>3. p.strings = <<s>> /\ IsString(s)
  <2>1. 1 \in DOMAIN p.strings
    BY <1>1, LenProperties
  <2>2. QED
    BY <1>1, <1>2, <2>1, OnlyOne
<1>4. PICK m : m = MqttString(s)
  OBVIOUS
<1>5. PICK r : r = p.rest
  OBVIOUS
<1>6. PICK x : x = IF p.qos > 0 THEN Int2(p.number) ELSE <<>>
  OBVIOUS
<1>7. /\ x \in Seq(Octet)
      /\ p.qos > 0 => x = Int2(p.number) /\ Len(x) = 2
      /\ ~(p.qos > 0) => x = Empty /\ Len(x) = 0
  BY <1>1, <1>6, Int2Bytes, NothingBehind, EmptySeq DEF Empty
<1>8. PICK mx : mx = m \o x
  OBVIOUS
<1>9. PICK body : body = mx \o r
  OBVIOUS
<1>10. PICK xr : xr = x \o r
  OBVIOUS
<1>11. m \in Seq(Octet) /\ Len(m) = 2 + Len(s) /\ Len(s) \in Nat
  BY <1>3, <1>4, StringBytes, LenProperties
<1>12. Joins(mx, m, x) /\ Joins(xr, x, r)
  BY <1>1, <1>5, <1>7, <1>8, <1>10, <1>11 DEF Joins
<1>13. Joins(body, mx, r)
  <2>1. mx \in Seq(Octet) /\ r \in Seq(Octet)
    BY <1>12, Joined, Zenon
  <2>2. QED
    BY <1>9, <2>1 DEF Joins
<1>14. Joins(body, m, xr)
  BY <1>12, <1>13, Regrouped, Zenon
<1>15. body = PublishBody(p)
  BY <1>2, <1>4, <1>5, <1>6, <1>8, <1>9 DEF PublishBody
<1>16. /\ body \in Seq(Octet) /\ Len(body) = Len(mx) + Len(r) /\ Len(mx) = Len(m) + Len(x)
       /\ Len(r) \in Nat
  BY <1>12, <1>13, Joined, Zenon
<1>17. PublishLength(p) = 2 + Len(s) + Len(r) + (IF p.qos > 0 THEN 2 ELSE 0)
  BY <1>2, <1>5 DEF PublishLength
<1>26. p.qos \in 0 .. 2
  BY <1>1
<1>18. Len(body) = PublishLength(p)
  <2>1. CASE p.qos = 0
    BY <1>7, <1>11, <1>16, <1>17, <2>1
  <2>2. CASE p.qos > 0
    <3>1. Len(x) = 2
      BY <1>7, <2>2, Zenon
    <3>2. PublishLength(p) = 2 + Len(s) + Len(r) + 2
      BY <1>17, <2>2
    <3>3. QED
      BY <1>11, <1>16, <3>1, <3>2
  <2>3. QED
    BY <1>1, <2>1, <2>2
<1>19. ReadString(Unread(body), 0) = Reading(xr, <<s>>, Empty)
  <2>1. Joins(body, MqttString(s), xr)
    BY <1>4, <1>14
  <2>2. ReadString(Reading(body, Empty, Empty), 0) = Reading(xr, Append(Empty, s), Empty)
    BY <1>3, <2>1, ReadNext
  <2>3. Append(Empty, s) = <<s>>
    BY FirstString
  <2>4. QED
    BY <2>2, <2>3, UnreadIs
<1>20. PICK st : st = Reading(xr, <<s>>, Empty)
  OBVIOUS
<1>21. st.ok = TRUE /\ st.left = xr /\ st.strings = <<s>>
  BY <1>20 DEF Reading
<1>22. ReadPublish(p.qos, body) = IF p.qos = 0 THEN Packet(PUBLISH, 0, 0, 0, <<s>>, xr)
                                 ELSE Packet(PUBLISH, p.qos, 0, Value2(xr), <<s>>, From(xr, 3))
  BY <1>19, <1>20, <1>21, Zenon DEF ReadPublish
<1>23. CASE p.qos = 0
  <2>1. xr = r
    BY <1>7, <1>10, <1>12, <1>23, ConcatEmptySeq DEF Joins, Empty
  <2>2. QED
    BY <1>1, <1>3, <1>5, <1>15, <1>16, <1>18, <1>22, <1>23, <2>1
<1>24. CASE p.qos > 0
  <2>1. Joins(xr, Int2(p.number), r)
    BY <1>7, <1>12, <1>24
  <2>2. Value2(xr) = p.number /\ From(xr, 3) = r
    BY <1>1, <2>1, Int2Reads
  <2>3. ReadPublish(p.qos, body) = Packet(PUBLISH, p.qos, 0, p.number, <<s>>, r)
    BY <1>22, <1>24, <2>2
  <2>4. Packet(PUBLISH, p.qos, 0, p.number, <<s>>, r) = p
    BY <1>1, <1>3, <1>5
  <2>5. QED
    BY <1>15, <1>16, <1>18, <2>3, <2>4, Zenon
<1>25. QED
  BY <1>1, <1>23, <1>24

Topics(body, n, s, t) == body = (Int2(n) \o MqttString(s)) \o t

(* A topic filter with the gap behind it, which is where the QoS of a SUBSCRIBE is. *)
LEMMA TopicsRead ==
  ASSUME NEW n \in Short, NEW s, IsString(s), NEW t \in Seq(Octet), NEW type,
         NEW body, Topics(body, n, s, t)
  PROVE  /\ body \in Seq(Octet) /\ Len(body) = 4 + Len(s) + Len(t)
         /\ ReadTopics(type, body, Len(t)) = Packet(type, 1, 0, n, <<s>>, t)
<1>1. PICK m : m = MqttString(s)
  OBVIOUS
<1>2. PICK b : b = Int2(n)
  OBVIOUS
<1>3. PICK bm : bm = b \o m
  OBVIOUS
<1>4. body = bm \o t
  BY <1>1, <1>2, <1>3 DEF Topics
<1>5. PICK mt : mt = m \o t
  OBVIOUS
<1>6. /\ m \in Seq(Octet) /\ Len(m) = 2 + Len(s) /\ Len(s) \in Nat
      /\ b \in Seq(Octet) /\ Len(b) = 2
  BY <1>1, <1>2, StringBytes, Int2Bytes, LenProperties
<1>7. Joins(bm, b, m) /\ Joins(mt, m, t)
  BY <1>3, <1>5, <1>6 DEF Joins
<1>8. Joins(body, bm, t)
  <2>1. bm \in Seq(Octet)
    BY <1>7, Joined, Zenon
  <2>2. QED
    BY <1>4, <2>1 DEF Joins
<1>9. Joins(body, b, mt)
  BY <1>7, <1>8, Regrouped, Zenon
<1>10. /\ body \in Seq(Octet) /\ Len(body) = Len(bm) + Len(t) /\ Len(bm) = Len(b) + Len(m)
       /\ Len(t) \in Nat /\ mt \in Seq(Octet) /\ Len(mt) = Len(m) + Len(t)
  BY <1>7, <1>8, Joined, Zenon
<1>11. Value2(body) = n /\ From(body, 3) = mt
  <2>1. Joins(body, Int2(n), mt)
    BY <1>2, <1>9
  <2>2. QED
    BY <2>1, Int2Reads
<1>12. ReadString(Unread(mt), Len(t)) = Reading(<<>>, <<s>>, t)
  <2>1. Joins(mt, mt, Empty)
    BY <1>10, NothingBehind
  <2>2. Joins(mt, MqttString(s), t)
    BY <1>1, <1>7
  <2>3. ReadString(Reading(mt, Empty, Empty), Len(t)) = Reading(Empty, Append(Empty, s), Empty \o t)
    BY <2>1, <2>2, StringRead
  <2>4. Append(Empty, s) = <<s>>
    BY FirstString
  <2>5. Empty \o t = t
    BY NothingBehind DEF Joins
  <2>6. QED
    BY <2>3, <2>4, <2>5, UnreadIs DEF Empty
<1>13. PICK st : st = Reading(<<>>, <<s>>, t)
  OBVIOUS
<1>14. st.ok = TRUE /\ st.left = <<>> /\ st.strings = <<s>> /\ st.gaps = t
  BY <1>13 DEF Reading
<1>15. mt # <<>>
  BY <1>6, <1>10, EmptySeq
<1>16. PICK un : un = Unread(mt)
  OBVIOUS
<1>17. un.ok = TRUE /\ un.left = mt
  BY <1>16 DEF Unread
<1>18. ReadStrings(mt, Len(t)) = st
  BY <1>12, <1>13, <1>14, <1>15, <1>16, <1>17, Zenon DEF ReadStrings
<1>19. ReadTopics(type, body, Len(t)) = Packet(type, 1, 0, n, <<s>>, t)
  BY <1>11, <1>14, <1>18, Zenon DEF ReadTopics
<1>20. Len(body) = 4 + Len(s) + Len(t)
  BY <1>6, <1>10
<1>21. QED
  BY <1>10, <1>19, <1>20

(* The body of a SUBSCRIBE *)
LEMMA SubscribeTravels ==
  ASSUME NEW p \in Packets, \A i \in DOMAIN p.strings : IsString(p.strings[i]),
         p = Packet(SUBSCRIBE, 1, 0, p.number, p.strings, p.rest),
         Len(p.strings) = 1, Len(p.rest) = 1
  PROVE  /\ SubscribeBody(p) \in Seq(Octet) /\ Len(SubscribeBody(p)) = SubscribeLength(p)
         /\ ReadTopics(SUBSCRIBE, SubscribeBody(p), 1) = p
<1>1. PICK s : s = p.strings[1]
  OBVIOUS
<1>2. PICK q : q = p.rest[1]
  OBVIOUS
<1>3. p.number \in Short /\ p.strings \in Seq(Seq(Octet)) /\ p.rest \in Seq(Octet)
  BY Typed
<1>4. p.strings = <<s>> /\ IsString(s)
  <2>1. 1 \in DOMAIN p.strings
    BY <1>3, LenProperties
  <2>2. QED
    BY <1>1, <1>3, <2>1, OnlyOne
<1>5. q \in Octet /\ p.rest = <<q>>
  BY <1>2, <1>3, OnlyOne
<1>6. PICK t : t = <<q>>
  OBVIOUS
<1>7. t \in Seq(Octet) /\ Len(t) = 1
  BY <1>5, <1>6, Single
<1>8. SubscribeBody(p) = (Int2(p.number) \o MqttString(s)) \o t
  BY <1>1, <1>2, <1>6 DEF SubscribeBody
<1>9. SubscribeLength(p) = 2 + 2 + Len(s) + 1 /\ Len(s) \in Nat
  BY <1>1, <1>4, LenProperties DEF SubscribeLength, IsString
<1>10. PICK body : body = (Int2(p.number) \o MqttString(s)) \o t
  OBVIOUS
<1>11. /\ body \in Seq(Octet) /\ Len(body) = 4 + Len(s) + Len(t)
       /\ ReadTopics(SUBSCRIBE, body, Len(t)) = Packet(SUBSCRIBE, 1, 0, p.number, <<s>>, t)
  <2>1. PICK n \in Short : n = p.number
    BY <1>3
  <2>2. Topics(body, n, s, t)
    BY <1>10, <2>1 DEF Topics
  <2>3. /\ body \in Seq(Octet) /\ Len(body) = 4 + Len(s) + Len(t)
        /\ ReadTopics(SUBSCRIBE, body, Len(t)) = Packet(SUBSCRIBE, 1, 0, n, <<s>>, t)
    <3>1. IsString(s) /\ t \in Seq(Octet) /\ n \in Short
      BY <1>4, <1>7
    <3>2. QED
      BY <2>2, <3>1, TopicsRead
  <2>4. QED
    BY <2>1, <2>3
<1>12. Packet(SUBSCRIBE, 1, 0, p.number, <<s>>, t) = p
  BY <1>4, <1>5, <1>6
<1>13. Len(body) = SubscribeLength(p)
  BY <1>7, <1>9, <1>11
<1>14. QED
  BY <1>7, <1>8, <1>10, <1>11, <1>12, <1>13

(* ... and of an UNSUBSCRIBE. *)
LEMMA UnsubscribeTravels ==
  ASSUME NEW p \in Packets, \A i \in DOMAIN p.strings : IsString(p.strings[i]),
         p = Packet(UNSUBSCRIBE, 1, 0, p.number, p.strings, <<>>), Len(p.strings) = 1
  PROVE  /\ UnsubscribeBody(p) \in Seq(Octet) /\ Len(UnsubscribeBody(p)) = UnsubscribeLength(p)
         /\ ReadTopics(UNSUBSCRIBE, UnsubscribeBody(p), 0) = p
<1>1. PICK s : s = p.strings[1]
  OBVIOUS
<1>2. p.number \in Short /\ p.strings \in Seq(Seq(Octet))
  BY Typed
<1>3. p.strings = <<s>> /\ IsString(s)
  <2>1. 1 \in DOMAIN p.strings
    BY <1>2, LenProperties
  <2>2. QED
    BY <1>1, <1>2, <2>1, OnlyOne
<1>4. PICK bm : bm = Int2(p.number) \o MqttString(s)
  OBVIOUS
<1>5. Empty \in Seq(Octet) /\ Len(Empty) = 0
  BY EmptySeq DEF Empty
<1>6. /\ bm \o Empty \in Seq(Octet) /\ Len(bm \o Empty) = 4 + Len(s) + 0
      /\ ReadTopics(UNSUBSCRIBE, bm \o Empty, 0) = Packet(UNSUBSCRIBE, 1, 0, p.number, <<s>>, Empty)
  <2>1. PICK n \in Short : n = p.number
    BY <1>2
  <2>2. PICK body : body = bm \o Empty
    OBVIOUS
  <2>3. Topics(body, n, s, Empty)
    BY <1>4, <2>1, <2>2 DEF Topics
  <2>4. /\ body \in Seq(Octet) /\ Len(body) = 4 + Len(s) + Len(Empty)
        /\ ReadTopics(UNSUBSCRIBE, body, Len(Empty)) = Packet(UNSUBSCRIBE, 1, 0, n, <<s>>, Empty)
    BY <1>3, <1>5, <2>3, TopicsRead, Zenon
  <2>5. QED
    BY <1>5, <2>1, <2>2, <2>4
<1>7. bm \in Seq(Octet)
  BY <1>2, <1>3, <1>4, Int2Bytes, StringBytes, ConcatProperties
<1>8. bm \o Empty = bm
  BY <1>7, ConcatEmptySeq DEF Empty
<1>9. UnsubscribeBody(p) = bm /\ UnsubscribeLength(p) = 2 + 2 + Len(s) /\ Len(s) \in Nat
  BY <1>1, <1>3, <1>4, LenProperties DEF UnsubscribeBody, UnsubscribeLength, IsString
<1>10. Packet(UNSUBSCRIBE, 1, 0, p.number, <<s>>, Empty) = p
  BY <1>3 DEF Empty
<1>11. Len(bm) = UnsubscribeLength(p)
  BY <1>6, <1>8, <1>9
<1>12. QED
  BY <1>6, <1>8, <1>9, <1>10, <1>11
-----------------------------------------------------------------------------
(* The strings of a CONNECT behind the k-th.                                  *)
Part(strings, i) == IF i <= Len(strings) THEN MqttString(strings[i]) ELSE <<>>
From4(strings) == Part(strings, 5)
From3(strings) == Part(strings, 4) \o From4(strings)
From2(strings) == Part(strings, 3) \o From3(strings)
From1(strings) == Part(strings, 2) \o From2(strings)
From0(strings) == Part(strings, 1) \o From1(strings)
After(strings, k) ==
  IF k = 0 THEN From0(strings) ELSE IF k = 1 THEN From1(strings)
  ELSE IF k = 2 THEN From2(strings) ELSE IF k = 3 THEN From3(strings)
  ELSE IF k = 4 THEN From4(strings) ELSE Empty

Strings(strings) == strings \in Seq(Seq(Octet)) /\ \A i \in 1 .. Len(strings) : IsString(strings[i])

(* The strings of a CONNECT are bytes one after another: *)
LEMMA PartIs ==
  ASSUME NEW strings, Strings(strings), NEW i \in 1 .. 5
  PROVE  /\ Part(strings, i) \in Seq(Octet)
         /\ Len(Part(strings, i)) = IF i <= Len(strings) THEN 2 + Len(strings[i]) ELSE 0
<1>1. Len(strings) \in Nat
  BY LenProperties DEF Strings
<1>2. CASE i <= Len(strings)
  <2>1. i \in 1 .. Len(strings)
    BY <1>1, <1>2
  <2>2. IsString(strings[i])
    BY <2>1 DEF Strings
  <2>3. MqttString(strings[i]) \in Seq(Octet) /\ Len(MqttString(strings[i])) = 2 + Len(strings[i])
    BY <2>2, StringBytes
  <2>4. QED
    BY <1>2, <2>3 DEF Part
<1>3. CASE ~(i <= Len(strings))
  BY <1>3, EmptySeq DEF Part
<1>4. QED
  BY <1>2, <1>3

(* ... two sequences of bytes can be joined, *)
LEMMA JoinsIs ==
  ASSUME NEW s \in Seq(Octet), NEW t \in Seq(Octet)
  PROVE  s \o t \in Seq(Octet) /\ Joins(s \o t, s, t)
<1>1. Joins(s \o t, s, t)
  BY DEF Joins
<1>2. QED
  BY <1>1, Joined

(* ... each string is joined to those after it, *)
LEMMA AfterJoins ==
  ASSUME NEW strings, Strings(strings)
  PROVE  \A k \in 0 .. 4 : Joins(After(strings, k), Part(strings, k + 1), After(strings, k + 1))
<1>1. /\ After(strings, 0) = From0(strings) /\ After(strings, 1) = From1(strings)
      /\ After(strings, 2) = From2(strings) /\ After(strings, 3) = From3(strings)
      /\ After(strings, 4) = From4(strings) /\ After(strings, 5) = Empty
  BY DEF After, Empty
<1>2. /\ Part(strings, 1) \in Seq(Octet) /\ Part(strings, 2) \in Seq(Octet)
      /\ Part(strings, 3) \in Seq(Octet) /\ Part(strings, 4) \in Seq(Octet)
      /\ Part(strings, 5) \in Seq(Octet)
  BY PartIs
<1>4. From4(strings) \in Seq(Octet) /\ Joins(From4(strings), Part(strings, 5), Empty)
  BY <1>2, NothingBehind DEF From4
<1>5. From3(strings) \in Seq(Octet) /\ Joins(From3(strings), Part(strings, 4), From4(strings))
  BY <1>2, <1>4, JoinsIs DEF From3
<1>6. From2(strings) \in Seq(Octet) /\ Joins(From2(strings), Part(strings, 3), From3(strings))
  BY <1>2, <1>5, JoinsIs DEF From2
<1>7. From1(strings) \in Seq(Octet) /\ Joins(From1(strings), Part(strings, 2), From2(strings))
  BY <1>2, <1>6, JoinsIs DEF From1
<1>8. Joins(From0(strings), Part(strings, 1), From1(strings))
  BY <1>2, <1>7, JoinsIs DEF From0
<1>9. TAKE k \in 0 .. 4
<1>10. k = 0 \/ k = 1 \/ k = 2 \/ k = 3 \/ k = 4
  OBVIOUS
<1>11. QED
  BY <1>1, <1>4, <1>5, <1>6, <1>7, <1>8, <1>10

(* ... and all of them have the length that was computed beforehand. *)
LEMMA ConcatIs ==
  ASSUME NEW strings, Strings(strings)
  PROVE  /\ Concat(strings) = After(strings, 0)
         /\ Len(Concat(strings)) = Lengths(strings)
         /\ Concat(strings) \in Seq(Octet)
<1>1. Concat(strings) = From0(strings)
  BY Zenon DEF Concat, From0, From1, From2, From3, From4, Part
<1>2. /\ After(strings, 0) = From0(strings) /\ After(strings, 5) = Empty
      /\ 0 + 1 = 1 /\ 1 + 1 = 2 /\ 2 + 1 = 3 /\ 3 + 1 = 4 /\ 4 + 1 = 5
  BY DEF After
<1>3. /\ Joins(After(strings, 0), Part(strings, 1), After(strings, 1))
      /\ Joins(After(strings, 1), Part(strings, 2), After(strings, 2))
      /\ Joins(After(strings, 2), Part(strings, 3), After(strings, 3))
      /\ Joins(After(strings, 3), Part(strings, 4), After(strings, 4))
      /\ Joins(After(strings, 4), Part(strings, 5), After(strings, 5))
  BY <1>2, AfterJoins
<1>4. /\ After(strings, 0) \in Seq(Octet)
      /\ Len(After(strings, 0)) = Len(Part(strings, 1)) + Len(After(strings, 1))
  BY <1>3, Joined, Zenon
<1>5. Len(After(strings, 1)) = Len(Part(strings, 2)) + Len(After(strings, 2))
  BY <1>3, Joined
<1>6. Len(After(strings, 2)) = Len(Part(strings, 3)) + Len(After(strings, 3))
  BY <1>3, Joined
<1>7. Len(After(strings, 3)) = Len(Part(strings, 4)) + Len(After(strings, 4))
  BY <1>3, Joined
<1>8. Len(After(strings, 4)) = Len(Part(strings, 5)) + Len(After(strings, 5))
  BY <1>3, Joined
<1>9. Len(After(strings, 5)) = 0
  BY <1>2, EmptySeq DEF Empty
<1>10. /\ Len(Part(strings, 1)) \in Nat /\ Len(Part(strings, 2)) \in Nat /\ Len(Part(strings, 3)) \in Nat
       /\ Len(Part(strings, 4)) \in Nat /\ Len(Part(strings, 5)) \in Nat
  BY <1>3, Joined
<1>11. /\ Len(Part(strings, 1)) = IF 1 <= Len(strings) THEN 2 + Len(strings[1]) ELSE 0
       /\ Len(Part(strings, 2)) = IF 2 <= Len(strings) THEN 2 + Len(strings[2]) ELSE 0
       /\ Len(Part(strings, 3)) = IF 3 <= Len(strings) THEN 2 + Len(strings[3]) ELSE 0
       /\ Len(Part(strings, 4)) = IF 4 <= Len(strings) THEN 2 + Len(strings[4]) ELSE 0
       /\ Len(Part(strings, 5)) = IF 5 <= Len(strings) THEN 2 + Len(strings[5]) ELSE 0
  BY PartIs
<1>12. Lengths(strings) = Len(Part(strings, 1)) + Len(Part(strings, 2)) + Len(Part(strings, 3))
                            + Len(Part(strings, 4)) + Len(Part(strings, 5))
  BY <1>11, Zenon DEF Lengths
<1>13. Len(After(strings, 0)) = Lengths(strings)
  BY <1>4, <1>5, <1>6, <1>7, <1>8, <1>9, <1>10, <1>12, SMTT(40)
<1>14. QED
  BY <1>1, <1>2, <1>4, <1>13

(* What is read when k strings are.                                           *)
At(strings, k) == Reading(After(strings, k), SubSeq(strings, 1, k), Empty)

(* Reading the string where the last one ended. *)
LEMMA ReadAt ==
  ASSUME NEW strings, Strings(strings), NEW k \in 0 .. 4, k < Len(strings)
  PROVE  /\ ReadString(At(strings, k), 0) = At(strings, k + 1)
         /\ strings[k + 1] # <<>> => ~(Len(At(strings, k).left) < 3)
<1>1. strings \in Seq(Seq(Octet)) /\ Len(strings) \in Nat
  BY LenProperties DEF Strings
<1>2. k + 1 \in 1 .. Len(strings) /\ k + 1 <= Len(strings)
  BY <1>1
<1>3. IsString(strings[k + 1]) /\ strings[k + 1] \in Seq(Octet)
  BY <1>2 DEF Strings, IsString
<1>4. Joins(After(strings, k), Part(strings, k + 1), After(strings, k + 1))
  BY AfterJoins, Zenon
<1>5. Part(strings, k + 1) = MqttString(strings[k + 1])
  BY <1>2 DEF Part
<1>6. PICK s : s = strings[k + 1]
  OBVIOUS
<1>7. IsString(s) /\ Joins(After(strings, k), MqttString(s), After(strings, k + 1))
  BY <1>3, <1>4, <1>5, <1>6
<1>8. ReadString(At(strings, k), 0) = Reading(After(strings, k + 1), Append(SubSeq(strings, 1, k), s), Empty)
  BY <1>7, ReadNext DEF At
<1>9. Append(SubSeq(strings, 1, k), s) = SubSeq(strings, 1, k + 1)
  <2>1. \A i \in 1 .. Len(strings) : strings[i] \in Seq(Octet)
    BY <1>1, ElementOfSeq
  <2>2. /\ SubSeq(strings, 1, k) \in Seq(Seq(Octet)) /\ Len(SubSeq(strings, 1, k)) = k
        /\ \A i \in 1 .. k : SubSeq(strings, 1, k)[i] = strings[i]
    BY <1>2, <2>1, SubSeqProperties, SMT
  <2>3. /\ SubSeq(strings, 1, k + 1) \in Seq(Seq(Octet)) /\ Len(SubSeq(strings, 1, k + 1)) = k + 1
        /\ \A i \in 1 .. k + 1 : SubSeq(strings, 1, k + 1)[i] = strings[i]
    BY <1>2, <2>1, SubSeqProperties, SMT
  <2>4. PICK r : r = SubSeq(strings, 1, k)
    OBVIOUS
  <2>5. PICK x : x = SubSeq(strings, 1, k + 1)
    OBVIOUS
  <2>6. /\ Append(r, s) \in Seq(Seq(Octet)) /\ Len(Append(r, s)) = k + 1
        /\ \A i \in 1 .. k : Append(r, s)[i] = r[i]
        /\ Append(r, s)[k + 1] = s
    BY <1>3, <1>6, <2>2, <2>4, AppendProperties
  <2>7. \A i \in 1 .. k + 1 : Append(r, s)[i] = x[i]
    BY <1>6, <2>2, <2>3, <2>4, <2>5, <2>6
  <2>8. Append(r, s) = x
    BY <2>3, <2>5, <2>6, <2>7, SeqEqual
  <2>9. QED
    BY <2>4, <2>5, <2>8
<1>10. ASSUME s # <<>>
       PROVE  ~(Len(At(strings, k).left) < 3)
  <2>1. Len(s) \in Nat \ {0}
    BY <1>3, <1>6, <1>10, EmptySeq
  <2>2. Len(After(strings, k)) = Len(MqttString(s)) + Len(After(strings, k + 1)) /\ Len(After(strings, k + 1)) \in Nat
    BY <1>7, Joined, ZenonT(40)
  <2>3. Len(MqttString(s)) = 2 + Len(s)
    BY <1>7, StringBytes, Zenon
  <2>4. At(strings, k).left = After(strings, k)
    BY DEF At, Reading
  <2>5. QED
    BY <2>1, <2>2, <2>3, <2>4
<1>11. QED
  BY <1>6, <1>8, <1>9, <1>10 DEF At


(* A field whose flag is set is read, *)
LEMMA FieldRead ==
  ASSUME NEW strings, Strings(strings), NEW k \in 0 .. 4, k < Len(strings), NEW least \in {0, 3},
         least = 3 => strings[k + 1] # <<>>
  PROVE  ReadField(At(strings, k), TRUE, least) = At(strings, k + 1)
<1>1. PICK st : st = At(strings, k)
  OBVIOUS
<1>2. ReadString(st, 0) = At(strings, k + 1) /\ (least = 3 => ~(Len(st.left) < 3))
  BY <1>1, ReadAt
<1>3. st.ok = TRUE
  BY <1>1 DEF At, Reading
<1>4. ~(Len(st.left) < 0)
  <2>1. st.left = After(strings, k)
    BY <1>1 DEF At, Reading
  <2>2. After(strings, k) \in Seq(Octet)
    BY AfterJoins, Joined
  <2>3. QED
    BY <2>1, <2>2, LenProperties
<1>5. ~(Len(st.left) < least)
  BY <1>2, <1>4
<1>6. ReadField(st, TRUE, least) = ReadString(st, 0)
  BY <1>3, <1>5, Zenon DEF ReadField
<1>7. QED
  BY <1>1, <1>2, <1>6

(* ... and one whose flag is not set is not. *)
LEMMA NoField == ASSUME NEW st, NEW least PROVE ReadField(st, FALSE, least) = st
  BY DEF ReadField

(* The fields of a CONNECT, with any flags. *)
LEMMA FieldsRead ==
  ASSUME NEW strings, Strings(strings), NEW w \in BOOLEAN, NEW u \in BOOLEAN, NEW p \in BOOLEAN,
         p => u,
         Len(strings) = 1 + (IF w THEN 2 ELSE 0) + (IF u THEN 1 ELSE 0) + (IF p THEN 1 ELSE 0),
         \A i \in 2 + (IF w THEN 2 ELSE 0) .. Len(strings) : strings[i] # <<>>
  PROVE  ReadField(ReadField(ReadField(ReadField(ReadString(At(strings, 0), 0), w, 0), w, 0), u, 3), p, 3)
           = At(strings, Len(strings))
<1>1. PICK id : id = ReadString(At(strings, 0), 0)
  OBVIOUS
<1>2. PICK topic : topic = ReadField(id, w, 0)
  OBVIOUS
<1>3. PICK message : message = ReadField(topic, w, 0)
  OBVIOUS
<1>4. PICK user : user = ReadField(message, u, 3)
  OBVIOUS
<1>5. PICK k : k = 1 + (IF w THEN 2 ELSE 0)
  OBVIOUS
<1>6. /\ k \in 1 .. 3 /\ Len(strings) \in 1 .. 5 /\ k <= Len(strings)
      /\ w => k = 3
      /\ ~w => k = 1
      /\ Len(strings) = k + (IF u THEN 1 ELSE 0) + (IF p THEN 1 ELSE 0)
      /\ 2 + (IF w THEN 2 ELSE 0) = k + 1
  BY <1>5
<1>7. id = At(strings, 1)
  <2>1. 0 < Len(strings) /\ 0 \in 0 .. 4 /\ 0 + 1 = 1
    BY <1>6
  <2>2. QED
    BY <1>1, <2>1, ReadAt
<1>8. message = At(strings, k)
  <2>1. CASE w
    <3>1. /\ 1 < Len(strings) /\ 1 \in 0 .. 4 /\ 1 + 1 = 2 /\ 0 \in {0, 3} /\ ~(0 = 3)
          /\ 2 < Len(strings) /\ 2 \in 0 .. 4 /\ 2 + 1 = 3 /\ k = 3
      BY <1>6, <2>1
    <3>2. topic = At(strings, 2)
      BY <1>2, <1>7, <2>1, <3>1, FieldRead
    <3>3. message = At(strings, 3)
      BY <1>3, <2>1, <3>1, <3>2, FieldRead
    <3>4. QED
      BY <3>1, <3>3
  <2>2. CASE ~w
    BY <1>2, <1>3, <1>6, <1>7, <2>2, NoField
  <2>3. QED
    BY <2>1, <2>2
<1>9. \A i \in k + 1 .. Len(strings) : strings[i] # <<>>
  BY <1>6
<1>10. CASE ~u
  <2>1. ~p /\ Len(strings) = k
    BY <1>6, <1>10
  <2>2. user = message /\ ReadField(user, p, 3) = user
    BY <1>4, <1>10, <2>1, NoField
  <2>3. QED
    BY <1>1, <1>2, <1>3, <1>4, <1>8, <2>1, <2>2
<1>11. CASE u
  <2>1. /\ k < Len(strings) /\ k \in 0 .. 4 /\ k + 1 \in k + 1 .. Len(strings) /\ 3 \in {0, 3}
    BY <1>6, <1>11
  <2>2. strings[k + 1] # <<>>
    BY <1>9, <2>1, Zenon
  <2>3. user = At(strings, k + 1)
    BY <1>4, <1>8, <1>11, <2>1, <2>2, FieldRead
  <2>4. CASE ~p
    <3>1. Len(strings) = k + 1
      BY <1>6, <1>11, <2>4
    <3>2. ReadField(user, p, 3) = user
      BY <2>4, NoField
    <3>3. QED
      BY <1>1, <1>2, <1>3, <1>4, <2>3, <3>1, <3>2
  <2>5. CASE p
    <3>1. /\ k + 1 < Len(strings) /\ k + 1 \in 0 .. 4 /\ (k + 1) + 1 \in k + 1 .. Len(strings)
          /\ Len(strings) = (k + 1) + 1
      BY <1>6, <1>11, <2>5
    <3>2. strings[(k + 1) + 1] # <<>>
      BY <1>9, <3>1, Zenon
    <3>3. ReadField(user, p, 3) = At(strings, (k + 1) + 1)
      BY <2>1, <2>3, <2>5, <3>1, <3>2, FieldRead
    <3>4. QED
      BY <1>1, <1>2, <1>3, <1>4, <3>1, <3>3
  <2>6. QED
    BY <2>4, <2>5
<1>12. QED
  BY <1>10, <1>11

(* The name and the version of the protocol are seven bytes. *)
LEMMA ProtocolIs == Protocol \in Seq(Octet) /\ Len(Protocol) = 7
<1>1. PICK s : s = <<77, 81, 84, 84>>
  OBVIOUS
<1>2. s \in Seq(Octet) /\ Len(s) = 4 /\ Len(s) \in Short
  BY <1>1 DEF Octet, Short
<1>3. MqttString(s) \in Seq(Octet) /\ Len(MqttString(s)) = 2 + 4
  BY <1>2, StringBytes DEF IsString
<1>4. PICK v : v = <<4>>
  OBVIOUS
<1>5. v \in Seq(Octet) /\ Len(v) = 1
  BY <1>4 DEF Octet
<1>6. PICK m : m = MqttString(s)
  OBVIOUS
<1>7. m \o v \in Seq(Octet) /\ Joins(m \o v, m, v)
  BY <1>3, <1>5, <1>6, JoinsIs
<1>8. Len(m \o v) = Len(m) + Len(v)
  BY <1>7, Joined
<1>9. Protocol = m \o v
  BY <1>1, <1>4, <1>6 DEF Protocol
<1>10. Len(m \o v) = 7
  BY <1>3, <1>5, <1>6, <1>8
<1>11. QED
  BY <1>7, <1>9, <1>10, Zenon

(* The body of a CONNECT. *)
LEMMA ConnectTravels ==
  ASSUME NEW p \in Packets, \A i \in DOMAIN p.strings : IsString(p.strings[i]), IsConnect(p)
  PROVE  /\ ConnectBody(p) \in Seq(Octet) /\ Len(ConnectBody(p)) = ConnectLength(p)
         /\ ReadConnect(ConnectBody(p)) = p
<1>1. PICK strings : strings = p.strings
  OBVIOUS
<1>2. PICK flags : flags = p.flags
  OBVIOUS
<1>3. PICK n : n = p.number
  OBVIOUS
<1>4. Strings(strings) /\ n \in Short /\ flags \in Octet
  BY <1>1, <1>2, <1>3, Typed, LenProperties DEF Strings
<1>5. PICK f : f = <<flags>>
  OBVIOUS
<1>6. PICK b : b = Int2(n)
  OBVIOUS
<1>7. PICK c : c = Concat(strings)
  OBVIOUS
<1>8. /\ Protocol \in Seq(Octet) /\ Len(Protocol) = 7
      /\ f \in Seq(Octet) /\ Len(f) = 1 /\ f[1] = flags
      /\ b \in Seq(Octet) /\ Len(b) = 2
      /\ c \in Seq(Octet) /\ Len(c) = Lengths(strings) /\ c = After(strings, 0)
  BY <1>4, <1>5, <1>6, <1>7, ProtocolIs, Single, Int2Bytes, ConcatIs
<1>9. PICK pf : pf = Protocol \o f
  OBVIOUS
<1>10. PICK pfb : pfb = pf \o b
  OBVIOUS
<1>11. PICK body : body = pfb \o c
  OBVIOUS
<1>12. PICK bc : bc = b \o c
  OBVIOUS
<1>13. PICK fbc : fbc = f \o bc
  OBVIOUS
<1>14. pf \in Seq(Octet) /\ Joins(pf, Protocol, f)
  BY <1>8, <1>9, JoinsIs
<1>15. pfb \in Seq(Octet) /\ Joins(pfb, pf, b)
  BY <1>8, <1>10, <1>14, JoinsIs
<1>16. body \in Seq(Octet) /\ Joins(body, pfb, c)
  BY <1>8, <1>11, <1>15, JoinsIs
<1>17. bc \in Seq(Octet) /\ Joins(bc, b, c)
  BY <1>8, <1>12, JoinsIs
<1>18. fbc \in Seq(Octet) /\ Joins(fbc, f, bc)
  BY <1>8, <1>13, <1>17, JoinsIs
<1>19. Joins(body, pf, bc)
  BY <1>15, <1>16, <1>17, Regrouped, Zenon
<1>20. Joins(body, Protocol, fbc)
  BY <1>14, <1>18, <1>19, Regrouped, Zenon
<1>21. Len(pf) = 8 /\ Len(pfb) = 10 /\ Len(body) = 10 + Len(c)
  <2>1. Len(pf) = Len(Protocol) + Len(f)
    BY <1>14, Joined
  <2>2. Len(pfb) = Len(pf) + Len(b)
    BY <1>15, Joined
  <2>3. Len(body) = Len(pfb) + Len(c)
    BY <1>16, Joined
  <2>4. QED
    BY <1>8, <2>1, <2>2, <2>3
<1>22. SubSeq(body, 1, 7) = Protocol
  BY <1>8, <1>20, Joined
<1>23. body[8] = flags
  <2>1. 1 \in 1 .. Len(f) /\ Len(Protocol) + 1 = 8 /\ 8 \in 1 .. Len(pf)
    BY <1>8, <1>21
  <2>2. pf[Len(Protocol) + 1] = f[1]
    BY <1>14, <2>1, JoinedAt
  <2>3. body[8] = pf[8]
    BY <1>19, <2>1, JoinedAt
  <2>4. QED
    BY <1>8, <2>1, <2>2, <2>3
<1>24. From(body, 9) = bc /\ From(body, 11) = c
  <2>1. From(body, Len(pf) + 1) = bc
    BY <1>19, Joined
  <2>2. From(body, Len(pfb) + 1) = c
    BY <1>16, Joined
  <2>3. QED
    BY <1>21, <2>1, <2>2
<1>25. Value2(bc) = n
  <2>1. Joins(bc, Int2(n), c)
    BY <1>6, <1>17
  <2>2. QED
    BY <1>4, <2>1, Int2Reads
<1>26. PICK w : w = Has(flags, Will)
  OBVIOUS
<1>27. PICK u : u = Has(flags, UserName)
  OBVIOUS
<1>28. PICK pw : pw = Has(flags, Password)
  OBVIOUS
<1>29. /\ w \in BOOLEAN /\ u \in BOOLEAN /\ pw \in BOOLEAN
       /\ pw => u
       /\ Len(strings) = 1 + (IF w THEN 2 ELSE 0) + (IF u THEN 1 ELSE 0) + (IF pw THEN 1 ELSE 0)
       /\ \A i \in 2 + (IF w THEN 2 ELSE 0) .. Len(strings) : strings[i] # <<>>
  <2>1. w \in BOOLEAN /\ u \in BOOLEAN /\ pw \in BOOLEAN
    BY <1>26, <1>27, <1>28 DEF Has
  <2>2. /\ (IF pw THEN 1 ELSE 0) <= (IF u THEN 1 ELSE 0)
        /\ Len(strings) = 1 + (IF w THEN 2 ELSE 0) + (IF u THEN 1 ELSE 0) + (IF pw THEN 1 ELSE 0)
        /\ \A i \in 2 + (IF w THEN 2 ELSE 0) .. Len(strings) : strings[i] # <<>>
    BY <1>1, <1>2, <1>26, <1>27, <1>28, Zenon DEF IsConnect
  <2>3. pw => u
    BY <2>1, <2>2
  <2>4. QED
    BY <2>1, <2>2, <2>3
<1>30. Unread(c) = At(strings, 0)
  <2>1. SubSeq(strings, 1, 0) = Empty
    BY SubSeqEmpty DEF Empty
  <2>2. QED
    BY <1>8, <2>1, UnreadIs DEF At
<1>31. PICK s : s = At(strings, Len(strings))
  OBVIOUS
<1>32. s.ok = TRUE /\ s.strings = strings
  <2>1. SubSeq(strings, 1, Len(strings)) = strings
    BY <1>4, SubSeqFull DEF Strings
  <2>2. QED
    BY <1>31, <2>1 DEF At, Reading
<1>33. ReadField(ReadField(ReadField(ReadField(ReadString(Unread(c), 0), w, 0), w, 0), u, 3), pw, 3) = s
  BY <1>4, <1>29, <1>30, <1>31, FieldsRead
<1>34. ReadConnect(body) = Packet(CONNECT, 0, flags, n, strings, <<>>)
  BY <1>22, <1>23, <1>24, <1>25, <1>26, <1>27, <1>28, <1>29, <1>32, <1>33, Zenon DEF ReadConnect
<1>35. Packet(CONNECT, 0, flags, n, strings, <<>>) = p
  BY <1>1, <1>2, <1>3, Zenon DEF IsConnect
<1>36. body = ConnectBody(p) /\ ConnectLength(p) = 10 + Lengths(strings)
  BY <1>1, <1>2, <1>3, <1>5, <1>6, <1>7, <1>9, <1>10, <1>11 DEF ConnectBody, ConnectLength
<1>37. QED
  BY <1>8, <1>16, <1>21, <1>34, <1>35, <1>36
-----------------------------------------------------------------------------
(* What the client serializes is one packet, and the server reads what was       *)
(* asked for.                                                                *)
Travels(bytes, p) ==
  /\ bytes \in Seq(Octet) /\ Len(bytes) > 1
  /\ Len(bytes) = 1 + DecodeLength(Tail(bytes)).size + Len(BodyOf(bytes))
  /\ ServerReads(bytes) = p

(* The body in its frame. *)
LEMMA FrameTravels ==
  ASSUME NEW p, IsHeader(p), NEW body \in Seq(Octet), Carries(body, p),
         Serialize(p) = Whole(p, Len(body), body), Serialize(p) # <<>>
  PROVE  Travels(Serialize(p), p)
<1>1. PICK h : h = 16 * p.type + 2 * p.qos
  OBVIOUS
<1>2. /\ h \in Octet
      /\ \A bytes : bytes[1] = h => TypeOf(bytes) = p.type /\ QosOf(bytes) = p.qos
  BY <1>1, HeaderReads DEF IsHeader
<1>3. Len(body) \in Measurable /\ Serialize(p) = Frame(h, body)
  BY <1>1, WholeIs
<1>4. PICK bytes : bytes = Serialize(p)
  OBVIOUS
<1>5. PICK e : e = EncodeLength(Len(body))
  OBVIOUS
<1>6. /\ bytes \in Seq(Octet) /\ bytes[1] = h
      /\ Len(bytes) = 1 + Len(e) + Len(body) /\ Len(e) = Digits(Len(body)) /\ Len(e) \in 1 .. 4
  <2>1. h \in Octet /\ Len(body) \in Measurable /\ bytes = Frame(h, body)
    BY <1>2, <1>3, <1>4
  <2>2. QED
    BY <1>5, <2>1, FrameIs, Zenon
<1>7. DecodeLength(Tail(bytes)).size = Digits(Len(body)) /\ BodyOf(bytes) = body
  BY <1>2, <1>3, <1>4, FrameReads
<1>8. ServerReads(bytes) = p
  BY <1>2, <1>6, <1>7, Zenon DEF Carries
<1>9. Len(body) \in Nat
  BY LenProperties
<1>10. Travels(bytes, p)
  BY <1>6, <1>7, <1>8, <1>9 DEF Travels
<1>11. QED
  BY <1>4, <1>10

(* What sendPacket makes of any request that fits the buffer is one packet, in    *)
(* which MQTTDeserialize_* of the server reads what was asked for.              *)
THEOREM RequestTravels ==
  ASSUME NEW p, IsRequest(p), Serialize(p) # <<>>
  PROVE  Travels(Serialize(p), p)
<1>1. p \in Packets /\ \A i \in DOMAIN p.strings : IsString(p.strings[i])
  BY DEF IsRequest
<1>2. IsHeader(p) /\ p.number \in Short
  BY <1>1, Typed DEF IsHeader
<1>3. CASE IsConnect(p)
  <2>1. p.type = CONNECT
    <3>1. p = Packet(CONNECT, 0, p.flags, p.number, p.strings, <<>>)
      BY <1>3, Zenon DEF IsConnect
    <3>2. QED
      BY <3>1, FieldsOf
  <2>2. PICK body : body = ConnectBody(p)
    OBVIOUS
  <2>3. body \in Seq(Octet) /\ Len(body) = ConnectLength(p) /\ ReadConnect(body) = p
    BY <1>1, <1>3, <2>2, ConnectTravels
  <2>4. Serialize(p) = Whole(p, Len(body), body)
    BY <2>1, <2>2, <2>3, Serialized
  <2>5. Carries(body, p)
    BY <2>1, <2>3, ReadByServer, Zenon DEF Carries
  <2>6. QED
    BY <1>2, <2>3, <2>4, <2>5, FrameTravels
<1>4. CASE /\ p = Packet(SUBSCRIBE, 1, 0, p.number, p.strings, p.rest)
           /\ Len(p.strings) = 1 /\ Len(p.rest) = 1
  <2>1. p.type = SUBSCRIBE
    BY <1>4, FieldsOf
  <2>2. PICK body : body = SubscribeBody(p)
    OBVIOUS
  <2>3. body \in Seq(Octet) /\ Len(body) = SubscribeLength(p) /\ ReadTopics(SUBSCRIBE, body, 1) = p
    BY <1>1, <1>4, <2>2, SubscribeTravels
  <2>4. Serialize(p) = Whole(p, Len(body), body)
    BY <2>1, <2>2, <2>3, Serialized
  <2>5. Carries(body, p)
    BY <2>1, <2>3, ReadByServer, Zenon DEF Carries
  <2>6. QED
    BY <1>2, <2>3, <2>4, <2>5, FrameTravels
<1>5. CASE p = Packet(UNSUBSCRIBE, 1, 0, p.number, p.strings, <<>>) /\ Len(p.strings) = 1
  <2>1. p.type = UNSUBSCRIBE
    BY <1>5, FieldsOf
  <2>2. PICK body : body = UnsubscribeBody(p)
    OBVIOUS
  <2>3. body \in Seq(Octet) /\ Len(body) = UnsubscribeLength(p) /\ ReadTopics(UNSUBSCRIBE, body, 0) = p
    BY <1>1, <1>5, <2>2, UnsubscribeTravels
  <2>4. Serialize(p) = Whole(p, Len(body), body)
    BY <2>1, <2>2, <2>3, Serialized
  <2>5. Carries(body, p)
    BY <2>1, <2>3, ReadByServer, Zenon DEF Carries
  <2>6. QED
    BY <1>2, <2>3, <2>4, <2>5, FrameTravels
<1>6. CASE IsPublish(p)
  <2>1. p.type = PUBLISH
    <3>1. p = Packet(PUBLISH, p.qos, 0, p.number, p.strings, p.rest)
      BY <1>6, Zenon DEF IsPublish
    <3>2. QED
      BY <3>1, FieldsOf
  <2>2. PICK body : body = PublishBody(p)
    OBVIOUS
  <2>3. body \in Seq(Octet) /\ Len(body) = PublishLength(p) /\ ReadPublish(p.qos, body) = p
    BY <1>1, <1>6, <2>2, PublishTravels
  <2>4. Serialize(p) = Whole(p, Len(body), body)
    BY <2>1, <2>2, <2>3, Serialized
  <2>5. Carries(body, p)
    BY <2>1, <2>3, ReadByServer, Zenon DEF Carries
  <2>6. QED
    BY <1>2, <2>3, <2>4, <2>5, FrameTravels
<1>7. CASE p = Packet(PUBACK, 0, 0, p.number, <<>>, <<>>)
  BY <1>2, <1>7, AckTravels, FrameTravels
<1>8. CASE p \in {Packet(PINGREQ, 0, 0, 0, <<>>, <<>>), Packet(DISCONNECT, 0, 0, 0, <<>>, <<>>)}
  <2>1. Serialize(p) = Whole(p, Len(Empty), Empty) /\ Carries(Empty, p)
    BY <1>8, BlankTravels
  <2>2. Empty \in Seq(Octet)
    BY EmptySeq DEF Empty
  <2>3. QED
    BY <1>2, <2>1, <2>2, FrameTravels
<1>9. QED
  BY <1>3, <1>4, <1>5, <1>6, <1>7, <1>8 DEF IsRequest
-----------------------------------------------------------------------------
(* What the server serializes is a frame, and the client reads what was sent.   *)
Header(p) == 16 * p.type + 2 * p.qos

Told(body, p) ==
  \A bytes : TypeOf(bytes) = p.type /\ QosOf(bytes) = p.qos /\ BodyOf(bytes) = body
               => ClientReads(bytes) = p

Holds(p, body) ==
  /\ ServerBody(p) = body
  /\ body \in Seq(Octet) /\ Len(body) \in Measurable
  /\ ~CharSigned => Told(body, p)

(* The body of each type of answer. *)
LEMMA BodyIs ==
  ASSUME NEW p
  PROVE  /\ p.type = CONNACK => ServerBody(p) = <<p.flags, p.number>>
         /\ p.type = SUBACK => ServerBody(p) = SubackBody(p)
         /\ p.type \in {UNSUBACK, PUBACK} => ServerBody(p) = Int2(p.number)
         /\ p.type = PUBLISH => ServerBody(p) = PublishBody(p)
         /\ p.type = PINGRESP => ServerBody(p) = Empty
<1>1. p.type = CONNACK => ServerBody(p) = <<p.flags, p.number>>
  BY DEF ServerBody, CONNACK, SUBACK, UNSUBACK, PUBACK, PUBLISH, PINGRESP, Empty
<1>2. p.type = SUBACK => ServerBody(p) = SubackBody(p)
  BY DEF ServerBody, CONNACK, SUBACK, UNSUBACK, PUBACK, PUBLISH, PINGRESP, Empty
<1>3. p.type \in {UNSUBACK, PUBACK} => ServerBody(p) = Int2(p.number)
  BY DEF ServerBody, CONNACK, SUBACK, UNSUBACK, PUBACK, PUBLISH, PINGRESP, Empty
<1>4. p.type = PUBLISH => ServerBody(p) = PublishBody(p)
  BY DEF ServerBody, CONNACK, SUBACK, UNSUBACK, PUBACK, PUBLISH, PINGRESP, Empty
<1>5. p.type = PINGRESP => ServerBody(p) = Empty
  BY DEF ServerBody, CONNACK, SUBACK, UNSUBACK, PUBACK, PUBLISH, PINGRESP, Empty
<1>6. QED
  BY <1>1, <1>2, <1>3, <1>4, <1>5, Zenon

(* An answer is the frame of its body. *)
LEMMA ServerSerialized ==
  ASSUME NEW p
  PROVE  ServerSerialize(p) = Frame(Header(p), ServerBody(p))
  BY Zenon DEF ServerSerialize, Frame, Header

(* What the client makes of the body of each type. *)
LEMMA ReadByClient ==
  ASSUME NEW bytes, NEW body, BodyOf(bytes) = body
  PROVE  /\ TypeOf(bytes) = CONNACK => ClientReads(bytes) = ReadConnack(body)
         /\ TypeOf(bytes) = SUBACK => ClientReads(bytes) = ReadSuback(body)
         /\ TypeOf(bytes) = PUBLISH => ClientReads(bytes) = ReadPublish(QosOf(bytes), body)
         /\ TypeOf(bytes) = UNSUBACK /\ Len(body) >= 2 => ClientReads(bytes) = ReadAck(UNSUBACK, body)
         /\ TypeOf(bytes) = PUBACK /\ Len(body) >= 2 => ClientReads(bytes) = ReadAck(PUBACK, body)
         /\ TypeOf(bytes) = PINGRESP => ClientReads(bytes) = Packet(PINGRESP, 0, 0, 0, <<>>, <<>>)
  BY DEF ClientReads, CONNACK, SUBACK, PUBLISH, UNSUBACK, PUBACK, PINGRESP

(* A body of two bytes at most has a length that can be encoded. *)
LEMMA SmallIsMeasurable == ASSUME NEW n \in Nat, n <= 3 PROVE n \in Measurable
  BY DEF Measurable

(* A CONNACK. *)
LEMMA ConnackTravels ==
  ASSUME NEW p, p = Packet(CONNACK, 0, p.flags, p.number, <<>>, <<>>),
         p.flags \in {0, 1}, p.number \in Octet
  PROVE  Holds(p, <<p.flags, p.number>>)
<1>1. PICK f \in {0, 1} : f = p.flags
  OBVIOUS
<1>2. PICK n \in Octet : n = p.number
  OBVIOUS
<1>3. PICK body : body = <<f, n>>
  OBVIOUS
<1>4. f \in Octet /\ f % 2 = f
  BY DEF Octet
<1>5. body \in Seq(Octet) /\ Len(body) = 2 /\ body[1] = f /\ body[2] = n
  BY <1>3, <1>4, Pair
<1>6. p.type = CONNACK /\ p = Packet(CONNACK, 0, f, n, <<>>, <<>>)
  BY <1>1, <1>2, FieldsOf
<1>7. ServerBody(p) = body
  BY <1>1, <1>2, <1>3, <1>6, BodyIs
<1>8. ReadConnack(body) = p
  <2>1. ~(Len(body) < 2)
    BY <1>5
  <2>2. QED
    BY <1>4, <1>5, <1>6, <2>1 DEF ReadConnack
<1>9. Told(body, p)
  BY <1>6, <1>8, ReadByClient, Zenon DEF Told
<1>10. Len(body) \in Measurable
  BY <1>5, SmallIsMeasurable
<1>11. Holds(p, body)
  BY <1>5, <1>7, <1>9, <1>10 DEF Holds
<1>12. QED
  BY <1>1, <1>2, <1>3, <1>11

(* A SUBACK of one subscription, whose code is read as char. *)
LEMMA SubackTravels ==
  ASSUME NEW p, p \in Packets, p = Packet(SUBACK, 0, 0, p.number, <<>>, p.rest),
         Len(p.rest) = 1
  PROVE  Holds(p, Int2(p.number) \o p.rest)
<1>1. PICK n : n = p.number
  OBVIOUS
<1>2. PICK r : r = p.rest
  OBVIOUS
<1>3. n \in Short /\ r \in Seq(Octet) /\ Len(r) = 1
  BY <1>1, <1>2, Typed, LenProperties
<1>4. PICK b : b = Int2(n)
  OBVIOUS
<1>5. PICK body : body = b \o r
  OBVIOUS
<1>6. b \in Seq(Octet) /\ Len(b) = 2
  BY <1>3, <1>4, Int2Bytes
<1>7. body \in Seq(Octet) /\ Joins(body, b, r)
  BY <1>3, <1>5, <1>6, JoinsIs
<1>8. Value2(body) = n /\ Len(body) = 3
  <2>1. Joins(body, Int2(n), r)
    BY <1>4, <1>7
  <2>2. Value2(body) = n /\ Len(body) = 2 + Len(r)
    BY <1>3, <2>1, Int2Reads, Zenon
  <2>3. QED
    BY <1>3, <2>2
<1>9. p.type = SUBACK /\ p = Packet(SUBACK, 0, 0, n, <<>>, r)
  BY <1>1, <1>2, FieldsOf
<1>10. ServerBody(p) = body
  BY <1>1, <1>2, <1>4, <1>5, <1>9, BodyIs DEF SubackBody
<1>11. ASSUME ~CharSigned
       PROVE  Told(body, p)
  <2>1. body[3] = r[1]
    <3>1. 1 \in 1 .. Len(r) /\ Len(b) + 1 = 3
      BY <1>3, <1>6
    <3>2. body[Len(b) + 1] = r[1]
      BY <1>7, <3>1, JoinedAt
    <3>3. QED
      BY <3>1, <3>2
  <2>2. PICK c : c = Char(body[3])
    OBVIOUS
  <2>3. c = r[1]
    BY <1>11, <2>1, <2>2 DEF Char
  <2>4. <<c>> = r
    BY <1>3, <2>3
  <2>5. ~(Len(body) < 2) /\ ~(Len(body) = 2) /\ Len(body) \in 3 .. 4
    BY <1>8
  <2>6. ReadSuback(body) = Packet(SUBACK, 0, 0, n, <<>>, <<c>>)
    BY <1>8, <2>2, <2>5 DEF ReadSuback
  <2>7. ReadSuback(body) = p
    BY <1>9, <2>4, <2>6
  <2>8. QED
    BY <1>9, <2>7, ReadByClient, Zenon DEF Told
<1>12. Len(body) \in Measurable
  BY <1>8, SmallIsMeasurable
<1>13. Holds(p, body)
  BY <1>7, <1>10, <1>11, <1>12 DEF Holds
<1>14. QED
  BY <1>1, <1>2, <1>4, <1>5, <1>13

(* UNSUBACK and PUBACK. *)
LEMMA AnswerTravels ==
  ASSUME NEW p, NEW type \in {UNSUBACK, PUBACK}, p = Packet(type, 0, 0, p.number, <<>>, <<>>),
         p.number \in Short
  PROVE  Holds(p, Int2(p.number))
<1>1. PICK n \in Short : n = p.number
  OBVIOUS
<1>2. PICK body : body = Int2(n)
  OBVIOUS
<1>3. body \in Seq(Octet) /\ Len(body) = 2 /\ Value2(body) = n
  BY <1>2, Int2Bytes
<1>4. p.type = type /\ p = Packet(type, 0, 0, n, <<>>, <<>>)
  BY <1>1, FieldsOf
<1>5. ServerBody(p) = body
  BY <1>1, <1>2, <1>4, BodyIs
<1>6. ReadAck(type, body) = p
  BY <1>3, <1>4 DEF ReadAck
<1>7. Len(body) >= 2
  BY <1>3
<1>8. ASSUME NEW bytes, TypeOf(bytes) = type, BodyOf(bytes) = body
      PROVE  ClientReads(bytes) = p
  <2>1. ClientReads(bytes) = ReadAck(type, body)
    BY <1>7, <1>8, ReadByClient
  <2>2. QED
    BY <1>6, <2>1
<1>9. Told(body, p)
  BY <1>4, <1>8, Zenon DEF Told
<1>10. Len(body) \in Measurable
  BY <1>3, SmallIsMeasurable
<1>11. Holds(p, body)
  BY <1>3, <1>5, <1>9, <1>10 DEF Holds
<1>12. QED
  BY <1>1, <1>2, <1>11

(* The client reads in any packet of the server what was sent; the code of a     *)
(* SUBACK, which answers one subscription, is read as char, so it is right where *)
(* a char is not signed.                                                         *)
THEOREM ReplyTravels ==
  ASSUME NEW p, IsReply(p)
  PROVE  Holds(p, ServerBody(p))
<1>1. p \in Packets /\ \A i \in DOMAIN p.strings : IsString(p.strings[i])
  BY DEF IsReply
<1>2. p.number \in Short
  BY <1>1, Typed
<1>3. CASE /\ p = Packet(CONNACK, 0, p.flags, p.number, <<>>, <<>>)
           /\ p.flags \in {0, 1} /\ p.number \in Octet
  <2>1. Holds(p, <<p.flags, p.number>>)
    BY <1>3, ConnackTravels
  <2>2. QED
    BY <2>1, Zenon DEF Holds
<1>4. CASE p = Packet(SUBACK, 0, 0, p.number, <<>>, p.rest) /\ Len(p.rest) = 1
  <2>1. Holds(p, Int2(p.number) \o p.rest)
    BY <1>1, <1>4, SubackTravels
  <2>2. QED
    BY <2>1, Zenon DEF Holds
<1>5. CASE IsPublish(p)
  <2>1. p.type = PUBLISH
    <3>1. p = Packet(PUBLISH, p.qos, 0, p.number, p.strings, p.rest)
      BY <1>5, Zenon DEF IsPublish
    <3>2. QED
      BY <3>1, FieldsOf
  <2>2. PICK body : body = PublishBody(p)
    OBVIOUS
  <2>3. body \in Seq(Octet) /\ Len(body) = PublishLength(p) /\ ReadPublish(p.qos, body) = p
    BY <1>1, <1>5, <2>2, PublishTravels
  <2>4. Len(body) \in Measurable
    <3>1. PublishLength(p) < Power128[5]
      BY <1>5 DEF IsPublish
    <3>2. QED
      BY <2>3, <3>1, Powers, LenProperties DEF Measurable
  <2>5. ServerBody(p) = body
    BY <2>1, <2>2, BodyIs
  <2>6. Told(body, p)
    BY <2>1, <2>3, ReadByClient, Zenon DEF Told
  <2>7. QED
    BY <2>3, <2>4, <2>5, <2>6, Zenon DEF Holds
<1>6. CASE \E type \in {UNSUBACK, PUBACK} : p = Packet(type, 0, 0, p.number, <<>>, <<>>)
  <2>1. Holds(p, Int2(p.number))
    BY <1>2, <1>6, AnswerTravels
  <2>2. QED
    BY <2>1, Zenon DEF Holds
<1>7. CASE p = Packet(PINGRESP, 0, 0, 0, <<>>, <<>>)
  <2>1. p.type = PINGRESP
    BY <1>7, FieldsOf
  <2>2. Empty \in Seq(Octet) /\ Len(Empty) = 0
    BY EmptySeq DEF Empty
  <2>3. Len(Empty) \in Measurable
    BY <2>2, SmallIsMeasurable
  <2>4. ServerBody(p) = Empty
    BY <2>1, BodyIs
  <2>5. Told(Empty, p)
    BY <1>7, <2>1, ReadByClient, Zenon DEF Told
  <2>6. QED
    BY <2>2, <2>3, <2>4, <2>5 DEF Holds
<1>8. QED
  BY <1>3, <1>4, <1>5, <1>6, <1>7 DEF IsReply
(* A request that fits the buffer is two bytes at least. *)
LEMMA RequestBytes ==
  ASSUME NEW p, IsRequest(p), Serialize(p) # <<>>
  PROVE  Serialize(p) \in Seq(Octet) /\ Len(Serialize(p)) \in Nat /\ Len(Serialize(p)) > 1
<1>1. Serialize(p) \in Seq(Octet) /\ Len(Serialize(p)) > 1
  BY RequestTravels, Zenon DEF Travels
<1>2. QED
  BY <1>1, LenProperties

(* What the server sends is a frame that tells its length.                    *)
LEMMA ReplyBytes ==
  ASSUME NEW p, IsReply(p)
  PROVE  /\ Header(p) \in Octet /\ ServerBody(p) \in Seq(Octet)
         /\ Len(ServerBody(p)) \in Measurable /\ Len(ServerBody(p)) \in Nat
         /\ ServerSerialize(p) = Frame(Header(p), ServerBody(p))
         /\ ServerSerialize(p) \in Seq(Octet)
         /\ ~CharSigned => Told(ServerBody(p), p)
<1>1. p.type \in 1 .. 14 /\ p.qos \in 0 .. 2
  BY Typed DEF IsReply
<1>2. Header(p) \in Octet
  BY <1>1, HeaderReads DEF Header
<1>3. /\ ServerBody(p) \in Seq(Octet) /\ Len(ServerBody(p)) \in Measurable
      /\ ~CharSigned => Told(ServerBody(p), p)
  BY ReplyTravels, Zenon DEF Holds
<1>4. ServerSerialize(p) = Frame(Header(p), ServerBody(p))
  BY ServerSerialized
<1>5. Frame(Header(p), ServerBody(p)) \in Seq(Octet)
  BY <1>2, <1>3, FrameIs, Zenon
<1>6. Len(ServerBody(p)) \in Nat
  BY <1>3, LenProperties
<1>7. QED
  BY <1>2, <1>3, <1>4, <1>5, <1>6, Zenon
-----------------------------------------------------------------------------
(* The length of a stream that makes no sense is still a length.               *)
LEMMA LeastOfFour ==
  ASSUME NEW S, S \subseteq 1 .. 4, S # {}
  PROVE  Min(S) \in S
<1>1. S \subseteq Int /\ \A y \in S : y = 1 \/ y = 2 \/ y = 3 \/ y = 4
  OBVIOUS
<1>2. ASSUME NEW x \in S, \A y \in S : x <= y
      PROVE  Min(S) \in S
  BY <1>1, <1>2, LeastIs, Zenon
<1>3. CASE 1 \in S
  <2>1. \A y \in S : 1 <= y
    BY <1>1
  <2>2. QED
    BY <1>2, <1>3, <2>1, Zenon
<1>4. CASE 1 \notin S /\ 2 \in S
  <2>1. \A y \in S : 2 <= y
    BY <1>1, <1>4
  <2>2. QED
    BY <1>2, <1>4, <2>1, Zenon
<1>5. CASE 1 \notin S /\ 2 \notin S /\ 3 \in S
  <2>1. \A y \in S : 3 <= y
    BY <1>1, <1>5
  <2>2. QED
    BY <1>2, <1>5, <2>1, Zenon
<1>6. CASE 1 \notin S /\ 2 \notin S /\ 3 \notin S
  <2>1. \A y \in S : y = 4
    BY <1>1, <1>6, Zenon
  <2>2. 4 \in S
    BY <2>1, Zenon
  <2>3. \A y \in S : 4 <= y
    BY <2>1
  <2>4. QED
    BY <1>2, <2>2, <2>3, Zenon
<1>7. QED
  BY <1>3, <1>4, <1>5, <1>6

(* Whatever the bytes are, four at most are read, and their value is a length. *)
LEMMA DecodedIsSmall ==
  ASSUME NEW b \in Seq(Octet), Len(b) <= 4
  PROVE  /\ DecodeLength(b).size \in 0 .. Len(b)
         /\ DecodeLength(b).value \in Measurable
<1>0. Len(b) \in Nat /\ \A i \in 1 .. Len(b) : b[i] \in Octet
  BY LenProperties, ElementOfSeq
<1>1. Len(b) \in 0 .. 4 /\ \A i \in 1 .. Len(b) : b[i] \in Octet
  <2>1. PICK n \in Nat : n = Len(b)
    BY <1>0
  <2>2. n <= 4
    BY <2>1
  <2>3. n \in 0 .. 4
    BY <2>2
  <2>4. QED
    BY <1>0, <2>1, <2>3, Zenon
<1>2. Ends(b) \subseteq 1 .. Len(b) /\ Ends(b) \subseteq 1 .. 4
  BY <1>1 DEF Ends
<1>3. SizeOf(b) \in 0 .. Len(b)
  BY <1>1, <1>2, LeastOfFour DEF SizeOf
<1>4. ASSUME NEW i \in 1 .. 4
      PROVE  \E x \in 0 .. 127 : PartOf(b, i) = x * Power128[i]
  <2>0. Power128[i] \in Nat
    BY Powers
  <2>1. CASE i <= SizeOf(b)
    <3>1. PICK c \in Octet : c = b[i]
      BY <1>1, <1>3, <2>1
    <3>2. c % 128 \in 0 .. 127
      BY DEF Octet
    <3>3. PartOf(b, i) = (c % 128) * Power128[i]
      BY <2>1, <3>1 DEF PartOf
    <3>4. QED
      BY <3>2, <3>3
  <2>2. CASE ~(i <= SizeOf(b))
    <3>1. PartOf(b, i) = 0
      BY <2>2 DEF PartOf
    <3>2. PartOf(b, i) = 0 * Power128[i]
      BY <2>0, <3>1
    <3>3. QED
      BY <3>2
  <2>3. QED
    BY <2>1, <2>2
<1>5. PICK x1 \in 0 .. 127 : PartOf(b, 1) = x1 * Power128[1]
  BY <1>4
<1>6. PICK x2 \in 0 .. 127 : PartOf(b, 2) = x2 * Power128[2]
  BY <1>4
<1>7. PICK x3 \in 0 .. 127 : PartOf(b, 3) = x3 * Power128[3]
  BY <1>4
<1>8. PICK x4 \in 0 .. 127 : PartOf(b, 4) = x4 * Power128[4]
  BY <1>4
<1>9. x1 + x2 * 128 + x3 * (128 * 128) + x4 * (128 * 128 * 128) \in Measurable
  BY DEF Measurable
<1>10. PartOf(b, 1) + PartOf(b, 2) + PartOf(b, 3) + PartOf(b, 4) \in Measurable
  BY <1>5, <1>6, <1>7, <1>8, <1>9, Powers
<1>11. QED
  BY <1>3, <1>10, DecodeIs

(* decodePacket looks at four bytes at most.                                  *)
LEMMA FirstFour ==
  ASSUME NEW s \in Seq(Octet)
  PROVE  LET k == Min({4, Len(s)})
         IN /\ k \in 0 .. 4 /\ k <= Len(s) /\ (k = 4 \/ k = Len(s))
            /\ SubSeq(s, 1, k) \in Seq(Octet) /\ Len(SubSeq(s, 1, k)) = k
<1>1. Len(s) \in Nat
  BY LenProperties
<1>2. PICK k : k = Min({4, Len(s)})
  OBVIOUS
<1>3. k = IF Len(s) < 4 THEN Len(s) ELSE 4
  <2>1. PICK n \in Nat : n = Len(s)
    BY <1>1
  <2>2. PICK S : S = {4, n}
    OBVIOUS
  <2>3. k = Min(S) /\ S \subseteq Int
    BY <1>2, <2>1, <2>2
  <2>4. CASE n < 4
    <3>1. n \in S /\ \A y \in S : n <= y
      BY <2>2, <2>4
    <3>2. Min(S) = n
      BY <2>3, <3>1, LeastIs, Zenon
    <3>3. QED
      BY <2>1, <2>3, <2>4, <3>2
  <2>5. CASE ~(n < 4)
    <3>1. 4 \in S /\ \A y \in S : 4 <= y
      BY <2>2, <2>5
    <3>2. Min(S) = 4
      BY <2>3, <3>1, LeastIs, Zenon
    <3>3. QED
      BY <2>1, <2>3, <2>5, <3>2
  <2>6. QED
    BY <2>4, <2>5
<1>4. k \in 0 .. Len(s) /\ k \in 0 .. 4 /\ (k = 4 \/ k = Len(s))
  <2>1. CASE Len(s) < 4
    BY <1>1, <1>3, <2>1
  <2>2. CASE ~(Len(s) < 4)
    BY <1>1, <1>3, <2>2
  <2>3. QED
    BY <2>1, <2>2
<1>5. SubSeq(s, 1, k) \in Seq(Octet) /\ Len(SubSeq(s, 1, k)) = k
  BY <1>4, Split, Zenon
<1>6. k <= Len(s)
  BY <1>1, <1>4
<1>7. QED
  BY <1>2, <1>4, <1>5, <1>6, Zenon

=============================================================================
