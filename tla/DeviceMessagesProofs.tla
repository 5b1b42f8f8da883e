------------------------ MODULE DeviceMessagesProofs ------------------------
(***************************************************************************)
(* The safety of DeviceMessages for any values, sizes and numbers of         *)
(* messages.                                                                *)
(*                                                                         *)
(* Whether an acknowledgement tells what became of its update depends on     *)
(* two things besides the handlers: that a binary value comes out of Base64   *)
(* as it went in (BinariesTravel), and that nothing but an update changes a   *)
(* value while another waits to be acknowledged.                             *)
(***************************************************************************)
EXTENDS DeviceMessages, TLAPS, SequenceTheorems

(* b64_encode takes three bytes together, and a negative char loses those        *)
(* before it: only the first of three may be one.                             *)
CharsPositive ==
  CharSigned => \A b \in Binaries : \A i \in 1 .. Len(b) : i % 3 # 1 => b[i] < 128

(* The server reads the bytes of a binary value, and the device those it sends.  *)
BinariesTravel == \A b \in Binaries : Published[b] = b /\ Carried[b] = b

(* The values are those the server asked for, of their types.                 *)
ValuesKept ==
  /\ value \in [ParamNames -> UNION {Values[p] : p \in ParamNames}]
  /\ \A p \in ParamNames : value[p] \in Values[p]
  /\ wanted = value

Notes == [named : SUBSET ParamNames, values : [ParamNames -> UNION {Values[p] : p \in ParamNames}]]
Tabs == UNION {[places -> ParamNames] : places \in SUBSET (1 .. MaxParsed)}

(* The update to acknowledge is the last that changed a value.                *)
ToAck ==
  /\ sent \in 0 .. MaxMessages
  /\ tab \in Tabs
  /\ after \in [Cids -> {Unnamed} \union Notes]
  /\ cid \in 0 .. sent
  /\ cid # 0 => after[cid] = [named |-> RangeOf(tab), values |-> wanted]

(* Those the server has acknowledgements of are in the past.                  *)
Acked == \A a \in acks : a.cid \in 1 .. sent

ParamInv == ValuesKept /\ ToAck /\ Acked /\ AcksTell

(* The commands to come have no verdict, and no answer but under an id that    *)
(* was an argument of another.                                               *)
Verdicts ==
  /\ sent \in 0 .. MaxMessages
  /\ verdict \in [Cids -> {-1, 0, NotCalled}]
  /\ \A c \in Cids : c > sent => verdict[c] = NotCalled
  /\ \A a \in answers : a.cid \in 1 .. sent \/ a.cid \in misnamed
CommandInv == Verdicts /\ AnswersAreTrue

Lost == lost \in 0 .. Blocks /\ broken \in Nat /\ LostToBroken

(* No slot is ever freed: the streams are attached to them in order.           *)
Streams ==
  /\ handles \in Seq(Nat) /\ Len(handles) <= Slots
  /\ \A i \in 1 .. Len(handles) : handles[i] = i - 1
  /\ SetData = [h \in 0 .. Slots - 1 |-> IF h < Len(handles) THEN h + 1 ELSE NoStream]
-----------------------------------------------------------------------------
(* Numbers of 8 and of 6 bits, three and four of them in one number, and what   *)
(* the shifts of b64_encode and b64_decode take out of it.                    *)
Octet == 0 .. 255
Sextet == 0 .. 63
Positive(b, c) == CharSigned => b < 128 /\ c < 128
Packed(a, b, c) == (a * 256 + b) * 256 + c
Grouped(p, q, r, t) == ((p * 64 + q) * 64 + r) * 64 + t
SextetAt(v, k) == <<v \div (64 * 64 * 64), v \div (64 * 64), v \div 64, v>>[k + 1] % 64
OctetAt(v, k) == <<v \div (256 * 256), v \div 256, v>>[k + 1] % 256

(* The number of a group in b64_encode has its bytes one behind the other.    *)
LEMMA NumberOf ==
  ASSUME NEW a \in Octet, NEW b \in Octet, NEW c \in Octet, Positive(b, c)
  PROVE  Or(Or(Or(0, a), b), c) = Packed(a, b, c)
<1>1. ~(CharSigned /\ b >= 128) /\ ~(CharSigned /\ c >= 128)
  BY DEF Positive, Octet
<1>2. \A v : /\ Or(v, b) = (v % (256 * 256)) * 256 + b
             /\ Or(v, c) = (v % (256 * 256)) * 256 + c
  BY <1>1, Zenon DEF Or
<1>3. Or(0, a) = a \/ Or(0, a) = 16776960 + a
  BY DEF Or, Octet
<1>4. a % (256 * 256) = a /\ (16776960 + a) % (256 * 256) = 65280 + a
  BY DEF Octet
<1>5. Or(Or(0, a), b) = a * 256 + b \/ Or(Or(0, a), b) = 16711680 + (a * 256 + b)
  <2>1. CASE Or(0, a) = a
    BY <1>2, <1>4, <2>1
  <2>2. CASE Or(0, a) = 16776960 + a
    <3>1. (65280 + a) * 256 + b = 16711680 + (a * 256 + b)
      BY DEF Octet
    <3>2. QED
      BY <1>2, <1>4, <2>2, <3>1
  <2>3. QED
    BY <1>3, <2>1, <2>2
<1>6. /\ (a * 256 + b) % (256 * 256) = a * 256 + b
      /\ (16711680 + (a * 256 + b)) % (256 * 256) = a * 256 + b
  <2>1. \A y \in Nat : y < 65536 => y % 65536 = y
    OBVIOUS
  <2>2. \A y \in Nat : y < 65536 => (16711680 + y) % 65536 = y
    OBVIOUS
  <2>3. 256 * 256 = 65536
    OBVIOUS
  <2>4. a * 256 + b \in Nat /\ a * 256 + b < 65536
    BY DEF Octet
  <2>5. PICK y \in Nat : y = a * 256 + b /\ y < 65536
    BY <2>4
  <2>6. y % 65536 = y /\ (16711680 + y) % 65536 = y
    BY <2>1, <2>2, <2>5
  <2>7. y % (256 * 256) = y /\ (16711680 + y) % (256 * 256) = y
    BY <2>3, <2>6
  <2>8. QED
    BY <2>5, <2>7
<1>7. Or(Or(Or(0, a), b), c) = (a * 256 + b) * 256 + c
  BY <1>2, <1>5, <1>6
<1>8. QED
  BY <1>7, Zenon DEF Packed

(* What b64_encode shifts and masks are the digits of the standard ...        *)
LEMMA ShiftsAreSextets ==
  ASSUME NEW a \in Octet, NEW b \in Octet, NEW c \in Octet, NEW k \in 0 .. 3
  PROVE  SextetAt(Packed(a, b, c), k) = Sextets(a, b, c)[k + 1]
<1> DEFINE v == (a * 256 + b) * 256 + c
<1>1. PICK a1 \in 0 .. 63, a2 \in 0 .. 3 : a = 4 * a1 + a2
  BY DEF Octet
<1>2. PICK b1 \in 0 .. 15, b2 \in 0 .. 15 : b = 16 * b1 + b2
  BY DEF Octet
<1>3. PICK c1 \in 0 .. 3, c2 \in 0 .. 63 : c = 64 * c1 + c2
  BY DEF Octet
<1>4. (v \div (64 * 64 * 64)) % 64 = a \div 4
  BY <1>1, <1>2, <1>3
<1>5. v \div (64 * 64) = 64 * a1 + 16 * a2 + b1 /\ 16 * (a % 4) + b \div 16 = 16 * a2 + b1
  BY <1>1, <1>2, <1>3
<1>6. v \div 64 = 64 * (64 * a1 + 16 * a2 + b1) + 4 * b2 + c1 /\ 4 * (b % 16) + c \div 64 = 4 * b2 + c1
  BY <1>1, <1>2, <1>3
<1>7. v % 64 = c % 64
  BY <1>1, <1>2, <1>3
<1>8. (v \div (64 * 64)) % 64 = 16 * (a % 4) + b \div 16
  BY <1>1, <1>2, <1>5
<1>9. (v \div 64) % 64 = 4 * (b % 16) + c \div 64
  BY <1>1, <1>2, <1>3, <1>6
<1>10. k = 0 \/ k = 1 \/ k = 2 \/ k = 3
  OBVIOUS
<1> HIDE DEF v
<1>11. SextetAt(v, k) = Sextets(a, b, c)[k + 1]
  BY <1>4, <1>7, <1>8, <1>9, <1>10 DEF SextetAt, Sextets
<1>12. QED
  BY <1>11, Zenon DEF Packed, v

(* ... and what b64_decode shifts and masks its bytes.                        *)
LEMMA ShiftsAreOctets ==
  ASSUME NEW p \in Sextet, NEW q \in Sextet, NEW r \in Sextet, NEW t \in Sextet,
         NEW k \in 0 .. 2
  PROVE  OctetAt(Grouped(p, q, r, t), k) = Octets(p, q, r, t)[k + 1]
<1> DEFINE v == ((p * 64 + q) * 64 + r) * 64 + t
<1>1. PICK q1 \in 0 .. 3, q2 \in 0 .. 15 : q = 16 * q1 + q2
  BY DEF Sextet
<1>2. PICK r1 \in 0 .. 15, r2 \in 0 .. 3 : r = 4 * r1 + r2
  BY DEF Sextet
<1>0. p \in 0 .. 63 /\ t \in 0 .. 63
  BY DEF Sextet
<1>3. v \div (256 * 256) = 4 * p + q1 /\ q \div 16 = q1
  BY <1>0, <1>1, <1>2
<1>4. v \div 256 = 256 * (4 * p + q1) + 16 * q2 + r1 /\ 16 * (q % 16) + r \div 4 = 16 * q2 + r1
  BY <1>0, <1>1, <1>2
<1>5. v % 256 = 64 * r2 + t /\ r % 4 = r2
  BY <1>0, <1>1, <1>2
<1>6. /\ (v \div (256 * 256)) % 256 = 4 * p + q \div 16
      /\ (v \div 256) % 256 = 16 * (q % 16) + r \div 4
      /\ v % 256 = 64 * (r % 4) + t
  BY <1>0, <1>1, <1>2, <1>3, <1>4, <1>5
<1>7. k = 0 \/ k = 1 \/ k = 2
  OBVIOUS
<1> HIDE DEF v
<1>8. OctetAt(v, k) = Octets(p, q, r, t)[k + 1]
  BY <1>6, <1>7 DEF OctetAt, Octets
<1>9. QED
  BY <1>8, Zenon DEF Grouped, v

(* Three bytes are what their four digits make.                               *)
LEMMA SextetsAndBack ==
  ASSUME NEW a \in Octet, NEW b \in Octet, NEW c \in Octet
  PROVE  LET p == Sextets(a, b, c)[1]
             q == Sextets(a, b, c)[2]
             r == Sextets(a, b, c)[3]
             t == Sextets(a, b, c)[4]
         IN /\ p \in Sextet /\ q \in Sextet /\ r \in Sextet /\ t \in Sextet
            /\ Octets(p, q, r, t)[1] = a
            /\ Octets(p, q, r, t)[2] = b
            /\ Octets(p, q, r, t)[3] = c
<1>1. PICK p, q, r, t :
        p = a \div 4 /\ q = 16 * (a % 4) + b \div 16 /\ r = 4 * (b % 16) + c \div 64 /\ t = c % 64
  OBVIOUS
<1>2. p \in 0 .. 63 /\ q \in 0 .. 63 /\ r \in 0 .. 63 /\ t \in 0 .. 63
  BY <1>1 DEF Octet
<1>3. 4 * p + q \div 16 = a
  BY <1>1 DEF Octet
<1>4. 16 * (q % 16) + r \div 4 = b
  BY <1>1 DEF Octet
<1>5. 64 * (r % 4) + t = c
  BY <1>1 DEF Octet
<1>6. /\ Sextets(a, b, c)[1] = p /\ Sextets(a, b, c)[2] = q
      /\ Sextets(a, b, c)[3] = r /\ Sextets(a, b, c)[4] = t
  BY <1>1 DEF Sextets
<1>7. Octets(p, q, r, t)[1] = a /\ Octets(p, q, r, t)[2] = b /\ Octets(p, q, r, t)[3] = c
  BY <1>3, <1>4, <1>5 DEF Octets
<1>8. QED
  BY <1>2, <1>6, <1>7, Zenon DEF Sextet

(* A value that Base64 carries: no zero, and no negative char behind others.   *)
Plain(s) ==
  s \in Seq(1 .. 255) /\ (CharSigned => \A i \in 1 .. Len(s) : i % 3 # 1 => s[i] < 128)

(* A value goes on with zeros behind its end, and has none before it.         *)
LEMMA ByteTypes ==
  ASSUME NEW s, Plain(s), NEW i \in Nat \ {0}
  PROVE  /\ Len(s) \in Nat
         /\ Byte(s, i) \in Octet
         /\ CharSigned /\ i % 3 # 1 => Byte(s, i) < 128
         /\ i > Len(s) => Byte(s, i) = 0
         /\ i <= Len(s) => Byte(s, i) = s[i] /\ Byte(s, i) # 0
<1>1. s \in Seq(1 .. 255) /\ Len(s) \in Nat
  BY DEF Plain
<1>2. CASE i > Len(s)
  <2>1. Byte(s, i) = 0 /\ ~(i <= Len(s))
    BY <1>1, <1>2 DEF Byte
  <2>2. 0 \in Octet /\ 0 < 128
    BY DEF Octet
  <2>3. QED
    BY <1>1, <2>1, <2>2, Zenon
<1>3. CASE i <= Len(s)
  <2>1. i \in 1 .. Len(s)
    BY <1>1, <1>3
  <2>2. PICK e \in 1 .. 255 : e = s[i]
    BY <1>1, <2>1, ElementOfSeq
  <2>3. Byte(s, i) = e
    BY <1>3, <2>2 DEF Byte
  <2>4. CharSigned /\ i % 3 # 1 => e < 128
    BY <2>1, <2>2 DEF Plain
  <2>5. e \in Octet /\ e # 0
    BY <2>2 DEF Octet
  <2>6. ~(i > Len(s))
    BY <1>1, <1>3
  <2>7. QED
    BY <1>1, <2>2, <2>3, <2>4, <2>5, <2>6, Zenon
<1>4. QED
  BY <1>1, <1>2, <1>3

(* The bytes of group g, of which there is at least one.                      *)
LEMMA Group ==
  ASSUME NEW s, Plain(s), NEW g \in Nat
  PROVE  \E a \in Octet, b \in Octet, c \in Octet :
           /\ a = Byte(s, 3 * g + 1) /\ b = Byte(s, 3 * g + 2) /\ c = Byte(s, 3 * g + 3)
           /\ Positive(b, c)
           /\ 3 * g + 2 > Len(s) => b = 0
           /\ 3 * g + 3 > Len(s) => c = 0
<1>1. 3 * g + 1 \in Nat \ {0} /\ 3 * g + 2 \in Nat \ {0} /\ 3 * g + 3 \in Nat \ {0}
  OBVIOUS
<1>2. PICK i1 \in Nat \ {0}, i2 \in Nat \ {0}, i3 \in Nat \ {0} :
        i1 = 3 * g + 1 /\ i2 = 3 * g + 2 /\ i3 = 3 * g + 3
  BY <1>1
<1>3. /\ Byte(s, i1) \in Octet /\ Byte(s, i2) \in Octet /\ Byte(s, i3) \in Octet
      /\ i2 > Len(s) => Byte(s, i2) = 0
      /\ i3 > Len(s) => Byte(s, i3) = 0
  BY ByteTypes, Zenon
<1>4. Positive(Byte(s, i2), Byte(s, i3))
  <2>1. i2 % 3 # 1 /\ i3 % 3 # 1
    BY <1>2
  <2>2. QED
    BY <2>1, ByteTypes, Zenon DEF Positive
<1>5. QED
  BY <1>2, <1>3, <1>4, Zenon

(* The j-th character is the k-th of group g, the j-th byte likewise.          *)
LEMMA InGroup ==
  ASSUME NEW n \in Nat, NEW j \in 1 .. B64EncodedSize(n)
  PROVE  \E g \in Nat, k \in 0 .. 3 :
           /\ j = 4 * g + k + 1 /\ 3 * g < n
           /\ (j - 1) % 4 = k /\ (j - 1) \div 4 = g
<1> DEFINE g == (j - 1) \div 4
           k == (j - 1) % 4
<1>1. g \in Nat /\ k \in 0 .. 3 /\ j = 4 * g + k + 1
  BY DEF B64EncodedSize
<1>2. 3 * g < n
  BY <1>1 DEF B64EncodedSize
<1>3. QED
  BY <1>1, <1>2

LEMMA InTriple ==
  ASSUME NEW j \in Nat \ {0}
  PROVE  \E g \in Nat, k \in 0 .. 2 :
           /\ j = 3 * g + k + 1
           /\ (j - 1) % 3 = k /\ (j - 1) \div 3 = g
<1> DEFINE g == (j - 1) \div 3
           k == (j - 1) % 3
<1>1. g \in Nat /\ k \in 0 .. 2 /\ j = 3 * g + k + 1
  OBVIOUS
<1>2. QED
  BY <1>1

(* A digit is padding if no bit of the value is in it.                        *)
LEMMA Padding ==
  ASSUME NEW n \in Nat, NEW g \in Nat, NEW k \in 0 .. 3, 3 * g < n
  PROVE  /\ 4 * g + k + 1 \in 1 .. B64EncodedSize(n)
         /\ 4 * g + k + 1 > (8 * n + 5) \div 6 <=> k >= 2 /\ 3 * g + k > n
<1>1. 4 * g + k + 1 \in 1 .. B64EncodedSize(n)
  BY DEF B64EncodedSize
<1>2. 4 * g + k + 1 > (8 * n + 5) \div 6 <=> k >= 2 /\ 3 * g + k > n
  OBVIOUS
<1>3. QED
  BY <1>1, <1>2

(* The lengths of a text of n bytes, of its digits and of its bytes.           *)
LEMMA Lengths ==
  ASSUME NEW n \in Nat
  PROVE  /\ (8 * n + 5) \div 6 \in 0 .. B64EncodedSize(n)
         /\ B64EncodedSize(n) \in Nat
         /\ (6 * ((8 * n + 5) \div 6)) \div 8 = n
         /\ B64EncodedSize(n) \div 4 = (n + 2) \div 3
         /\ n \in 0 .. 3 * ((n + 2) \div 3)
<1>1. (8 * n + 5) \div 6 \in 0 .. B64EncodedSize(n) /\ B64EncodedSize(n) \in Nat
  BY DEF B64EncodedSize
<1>2. (6 * ((8 * n + 5) \div 6)) \div 8 = n
  OBVIOUS
<1>3. B64EncodedSize(n) \div 4 = (n + 2) \div 3
  BY DEF B64EncodedSize
<1>4. n \in 0 .. 3 * ((n + 2) \div 3)
  OBVIOUS
<1>5. QED
  BY <1>1, <1>2, <1>3, <1>4

(* The device codes as the standard has it.                                   *)
LEMMA EncodesAsServer ==
  ASSUME NEW s, Plain(s)
  PROVE  B64Encode(s) = ServerEncodes(s)
<1> DEFINE n == Len(s)
<1>1. n \in Nat
  BY DEF Plain
<1> HIDE DEF n
<1>2. ASSUME NEW j \in 1 .. B64EncodedSize(n)
      PROVE  B64Encode(s)[j] = ServerEncodes(s)[j]
  <2>1. PICK g \in Nat, k \in 0 .. 3 :
          /\ j = 4 * g + k + 1 /\ 3 * g < n
          /\ (j - 1) % 4 = k /\ (j - 1) \div 4 = g
    BY <1>1, InGroup
  <2>2. PICK i \in Nat \ {0} : i = 3 * g + 1 /\ i + 1 = 3 * g + 2 /\ i + 2 = 3 * g + 3
    OBVIOUS
  <2>3. PICK a \in Octet, b \in Octet, c \in Octet :
          /\ a = Byte(s, i) /\ b = Byte(s, i + 1) /\ c = Byte(s, i + 2)
          /\ Positive(b, c)
    BY <2>2, Group, Zenon
  <2>5. Triple(s, i) = Packed(a, b, c)
    BY <2>3, NumberOf, Zenon DEF Triple
  <2>6. B64Encode(s)[j] = IF k >= 2 /\ i + k - 1 > n THEN Pad ELSE SextetAt(Packed(a, b, c), k)
    BY <2>1, <2>2, <2>5, Zenon DEF B64Encode, n, SextetAt
  <2>7. ServerEncodes(s)[j] = IF j > (8 * n + 5) \div 6 THEN Pad ELSE Sextets(a, b, c)[k + 1]
    BY <2>1, <2>2, <2>3, Zenon DEF ServerEncodes, n
  <2>8. j > (8 * n + 5) \div 6 <=> k >= 2 /\ i + k - 1 > n
    BY <1>1, <2>1, <2>2, Padding
  <2>10. QED
    BY <2>6, <2>7, <2>8, ShiftsAreSextets, Zenon
<1>3. QED
  BY <1>2, Zenon DEF B64Encode, ServerEncodes, n

(* What is before the first z, where that is known.                           *)
LEMMA BeforeIs ==
  ASSUME NEW S, NEW s \in Seq(S), NEW z, NEW d \in 0 .. Len(s), \A i \in 1 .. d : s[i] # z,
         d < Len(s) => s[d + 1] = z
  PROVE  Before(s, z) = [i \in 1 .. d |-> s[i]]
<1>1. Len(s) \in Nat /\ DOMAIN s = 1 .. Len(s)
  OBVIOUS
<1>2. {n \in DOMAIN s : \A j \in 1 .. n : s[j] # z} = 1 .. d
  <2>1. ASSUME NEW n \in DOMAIN s, \A j \in 1 .. n : s[j] # z
        PROVE  n \in 1 .. d
    <3>1. n \in 1 .. Len(s)
      BY <1>1
    <3>2. CASE n > d
      <4>1. d + 1 \in 1 .. n /\ d < Len(s)
        BY <1>1, <3>1, <3>2
      <4>2. QED
        BY <2>1, <4>1
    <3>3. QED
      BY <1>1, <3>1, <3>2
  <2>2. ASSUME NEW n \in 1 .. d
        PROVE  n \in DOMAIN s /\ \A j \in 1 .. n : s[j] # z
    BY <1>1
  <2>3. QED
    BY <2>1, <2>2
<1>3. QED
  BY <1>2, Zenon DEF Before

(* What the server sends for a value: its digits, and no more than padding.    *)
Digits(s) == (8 * Len(s) + 5) \div 6
Digit(s, g, m) ==
  Sextets(Byte(s, 3 * g + 1), Byte(s, 3 * g + 2), Byte(s, 3 * g + 3))[m + 1]

(* The digit at m in group g; padding has the place of a digit without bits.   *)
LEMMA DigitOf ==
  ASSUME NEW s, Plain(s), NEW g \in Nat, NEW m \in 0 .. 3, 3 * g < Len(s)
  PROVE  /\ Digit(s, g, m) \in Sextet
         /\ 4 * g + m + 1 \in 1 .. B64EncodedSize(Len(s))
         /\ ServerEncodes(s)[4 * g + m + 1] = IF 4 * g + m + 1 > Digits(s) THEN Pad ELSE Digit(s, g, m)
         /\ 4 * g + m + 1 > Digits(s) => Digit(s, g, m) = 0
<1> DEFINE n == Len(s)
<1>1. n \in Nat /\ 3 * g < n
  BY DEF Plain
<1> HIDE DEF n
<1>2. PICK a \in Octet, b \in Octet, c \in Octet :
        /\ a = Byte(s, 3 * g + 1) /\ b = Byte(s, 3 * g + 2) /\ c = Byte(s, 3 * g + 3)
        /\ 3 * g + 2 > n => b = 0
        /\ 3 * g + 3 > n => c = 0
  BY Group, Zenon DEF n
<1>3. Digit(s, g, m) = Sextets(a, b, c)[m + 1]
  BY <1>2, Zenon DEF Digit
<1>4. m = 0 \/ m = 1 \/ m = 2 \/ m = 3
  OBVIOUS
<1>5. Digit(s, g, m) \in Sextet
  <2>1. /\ Sextets(a, b, c)[1] \in Sextet /\ Sextets(a, b, c)[2] \in Sextet
        /\ Sextets(a, b, c)[3] \in Sextet /\ Sextets(a, b, c)[4] \in Sextet
    BY SextetsAndBack, Zenon
  <2>2. QED
    BY <1>3, <1>4, <2>1
<1>6. 4 * g + m + 1 \in 1 .. B64EncodedSize(n)
  BY <1>1, Padding
<1>7. ServerEncodes(s)[4 * g + m + 1] = IF 4 * g + m + 1 > Digits(s) THEN Pad ELSE Digit(s, g, m)
  <2>1. PICK j \in 1 .. B64EncodedSize(n), i \in Nat :
           /\ j = 4 * g + m + 1 /\ i = 3 * g + 1 /\ i + 1 = 3 * g + 2 /\ i + 2 = 3 * g + 3
           /\ i = 3 * ((j - 1) \div 4) + 1 /\ ((j - 1) % 4) + 1 = m + 1
    <3>1. ((4 * g + m + 1) - 1) \div 4 = g /\ ((4 * g + m + 1) - 1) % 4 = m
      OBVIOUS
    <3>2. QED
      BY <1>6, <3>1
  <2>2. ServerEncodes(s)[j] =
          IF j > (8 * n + 5) \div 6 THEN Pad
          ELSE Sextets(Byte(s, i), Byte(s, i + 1), Byte(s, i + 2))[m + 1]
    BY <2>1, Zenon DEF ServerEncodes, n
  <2>3. QED
    BY <2>1, <2>2, Zenon DEF Digits, Digit, n
<1>8. ASSUME 4 * g + m + 1 > Digits(s)
      PROVE  Digit(s, g, m) = 0
  <2>1. m >= 2 /\ 3 * g + m > n
    BY <1>1, <1>8, Padding DEF Digits, n
  <2>2. CASE m = 2
    <3>1. b = 0 /\ c = 0
      BY <1>1, <1>2, <2>1, <2>2
    <3>2. Sextets(a, 0, 0)[3] = 0
      BY DEF Sextets
    <3>3. QED
      BY <1>3, <2>2, <3>1, <3>2
  <2>3. CASE m = 3
    <3>1. c = 0
      BY <1>1, <1>2, <2>1, <2>3
    <3>2. Sextets(a, b, 0)[4] = 0
      BY DEF Sextets
    <3>3. QED
      BY <1>3, <2>3, <3>1, <3>2
  <2>4. QED
    BY <2>1, <2>2, <2>3
<1>9. QED
  BY <1>5, <1>6, <1>7, <1>8, Zenon DEF n

(* The digits of a group make its bytes.                                      *)
LEMMA GroupBack ==
  ASSUME NEW s, Plain(s), NEW g \in Nat, NEW k \in 0 .. 2
  PROVE  Octets(Digit(s, g, 0), Digit(s, g, 1), Digit(s, g, 2), Digit(s, g, 3))[k + 1]
           = Byte(s, 3 * g + k + 1)
<1>1. PICK a \in Octet, b \in Octet, c \in Octet :
        a = Byte(s, 3 * g + 1) /\ b = Byte(s, 3 * g + 2) /\ c = Byte(s, 3 * g + 3)
  BY Group, Zenon
<1>2. PICK p, q, r, t :
        /\ p = Sextets(a, b, c)[1] /\ q = Sextets(a, b, c)[2]
        /\ r = Sextets(a, b, c)[3] /\ t = Sextets(a, b, c)[4]
  OBVIOUS
<1>3. Octets(p, q, r, t)[1] = a /\ Octets(p, q, r, t)[2] = b /\ Octets(p, q, r, t)[3] = c
  <2>1. LET S == Sextets(a, b, c) IN
          /\ Octets(S[1], S[2], S[3], S[4])[1] = a
          /\ Octets(S[1], S[2], S[3], S[4])[2] = b
          /\ Octets(S[1], S[2], S[3], S[4])[3] = c
    BY SextetsAndBack
  <2>2. QED
    BY <1>2, <2>1, Zenon
<1>4. /\ Digit(s, g, 0) = p /\ Digit(s, g, 1) = q
      /\ Digit(s, g, 2) = r /\ Digit(s, g, 3) = t
  BY <1>1, <1>2 DEF Digit
<1>5. k = 0 \/ k = 1 \/ k = 2
  OBVIOUS
<1>6. Octets(p, q, r, t)[k + 1] = Byte(s, 3 * g + k + 1)
  <2>1. CASE k = 0
    BY <1>1, <1>3, <2>1
  <2>2. CASE k = 1
    BY <1>1, <1>3, <2>2
  <2>3. CASE k = 2
    BY <1>1, <1>3, <2>3
  <2>4. QED
    BY <1>5, <2>1, <2>2, <2>3
<1>7. QED
  BY <1>4, <1>6

(* The text is digits, then padding.                                         *)
LEMMA EncodedText ==
  ASSUME NEW s, Plain(s)
  PROVE  /\ ServerEncodes(s) \in Seq(0 .. 64) /\ Len(ServerEncodes(s)) = B64EncodedSize(Len(s))
         /\ \A j \in 1 .. Digits(s) : ServerEncodes(s)[j] \in Sextet
         /\ \A j \in 1 .. B64EncodedSize(Len(s)) : j > Digits(s) => ServerEncodes(s)[j] = Pad
<1> DEFINE n == Len(s)
           text == ServerEncodes(s)
<1>1. n \in Nat
  BY DEF Plain
<1> HIDE DEF n
<1>2. B64EncodedSize(n) \in Nat /\ Digits(s) \in 0 .. B64EncodedSize(n)
  BY <1>1, Lengths DEF Digits, n
<1>3. ASSUME NEW j \in 1 .. B64EncodedSize(n)
      PROVE  IF j > Digits(s) THEN text[j] = Pad ELSE text[j] \in Sextet
  <2>1. PICK g \in Nat, m \in 0 .. 3 : j = 4 * g + m + 1 /\ 3 * g < n
    BY <1>1, InGroup
  <2>2. QED
    BY <2>1, DigitOf, Zenon DEF n
<1>4. \A j \in 1 .. B64EncodedSize(n) : text[j] \in 0 .. 64
  <2>1. \A x \in Sextet : x \in 0 .. 64
    BY DEF Sextet
  <2>2. Pad \in 0 .. 64
    BY DEF Pad
  <2> HIDE DEF text
  <2>3. QED
    BY <1>3, <2>1, <2>2
<1>5. DOMAIN text = 1 .. B64EncodedSize(n) /\ text = [j \in 1 .. B64EncodedSize(n) |-> text[j]]
  BY Zenon DEF ServerEncodes, n
<1> HIDE DEF text
<1>6. text \in Seq(0 .. 64) /\ Len(text) = B64EncodedSize(n)
  <2>1. text \in [1 .. B64EncodedSize(n) -> 0 .. 64]
    BY <1>4, <1>5
  <2>2. PICK size \in Nat : size = B64EncodedSize(n)
    BY <1>2
  <2>3. text \in [1 .. size -> 0 .. 64]
    BY <2>1, <2>2, Zenon
  <2>4. text \in Seq(0 .. 64) /\ Len(text) = size
    BY <2>3
  <2>5. QED
    BY <2>2, <2>4, Zenon
<1>7. \A j \in 1 .. Digits(s) : j \in 1 .. B64EncodedSize(n) /\ ~(j > Digits(s))
  BY <1>2
<1>8. QED
  BY <1>3, <1>6, <1>7, Zenon DEF text, n

(* The server reads a value back ...                                          *)
LEMMA ServerReadsBack ==
  ASSUME NEW s, Plain(s)
  PROVE  ServerDecodes(ServerEncodes(s)) = s
<1>0. s \in Seq(1 .. 255)
  BY DEF Plain
<1>1. PICK n \in Nat : n = Len(s)
  BY <1>0
<1>2. PICK d : d = Digits(s)
  OBVIOUS
<1>3. PICK text \in Seq(0 .. 64) :
        /\ text = ServerEncodes(s) /\ Len(text) = B64EncodedSize(n)
        /\ \A j \in 1 .. d : text[j] \in Sextet
        /\ \A j \in 1 .. B64EncodedSize(n) : j > d => text[j] = Pad
  BY <1>1, <1>2, EncodedText, Zenon
<1>4. d \in 0 .. B64EncodedSize(n) /\ B64EncodedSize(n) \in Nat /\ (6 * d) \div 8 = n
  BY <1>1, <1>2, Lengths DEF Digits
<1>5. PICK digits : digits = Before(text, Pad)
  OBVIOUS
<1>6. digits = [j \in 1 .. d |-> text[j]]
  <2>1. \A j \in 1 .. d : text[j] # Pad
    <3>1. Pad \notin Sextet
      BY DEF Sextet, Pad
    <3>2. QED
      BY <1>3, <3>1, Zenon
  <2>2. d < Len(text) => text[d + 1] = Pad
    BY <1>3, <1>4
  <2>3. d \in 0 .. Len(text)
    BY <1>3, <1>4
  <2>4. QED
    BY <1>5, <2>1, <2>2, <2>3, BeforeIs
<1>7. Len(digits) = d
  BY <1>4, <1>6
<1>8. ASSUME NEW j \in 1 .. n
      PROVE  ServerDecodes(text)[j] = s[j]
  <2>1. PICK g \in Nat, k \in 0 .. 2 :
          j = 3 * g + k + 1 /\ (j - 1) % 3 = k /\ (j - 1) \div 3 = g
    BY InTriple
  <2>2. 3 * g < n
    BY <2>1
  <2>3. ASSUME NEW m \in 0 .. 3
        PROVE  Byte(digits, 4 * g + m + 1) = Digit(s, g, m)
    <3>1. PICK i \in 1 .. B64EncodedSize(n) :
            /\ i = 4 * g + m + 1
            /\ text[i] = IF i > d THEN Pad ELSE Digit(s, g, m)
            /\ i > d => Digit(s, g, m) = 0
      BY <1>1, <1>2, <1>3, <2>2, DigitOf, Zenon
    <3>2. CASE i > d
      <4>1. Byte(digits, i) = 0
        BY <1>4, <1>7, <3>2 DEF Byte
      <4>2. QED
        BY <3>1, <3>2, <4>1, Zenon
    <3>3. CASE ~(i > d)
      <4>1. i \in 1 .. d
        BY <1>4, <3>3
      <4>2. Byte(digits, i) = text[i]
        BY <1>4, <1>6, <1>7, <4>1 DEF Byte
      <4>3. QED
        BY <3>1, <3>3, <4>2, Zenon
    <3>4. QED
      BY <3>2, <3>3, Zenon
  <2>4. PICK i \in Nat : /\ i = 4 * ((j - 1) \div 3) + 1
                         /\ i = 4 * g + 0 + 1 /\ i + 1 = 4 * g + 1 + 1
                         /\ i + 2 = 4 * g + 2 + 1 /\ i + 3 = 4 * g + 3 + 1
    BY <2>1
  <2>5. /\ Byte(digits, i) = Digit(s, g, 0) /\ Byte(digits, i + 1) = Digit(s, g, 1)
        /\ Byte(digits, i + 2) = Digit(s, g, 2) /\ Byte(digits, i + 3) = Digit(s, g, 3)
    <3>1. 0 \in 0 .. 3 /\ 1 \in 0 .. 3 /\ 2 \in 0 .. 3 /\ 3 \in 0 .. 3
      OBVIOUS
    <3>2. QED
      BY <2>3, <2>4, <3>1, Zenon
  <2>6. j \in 1 .. (6 * Len(digits)) \div 8
    BY <1>4, <1>7
  <2>7. ServerDecodes(text)[j] =
          Octets(Byte(digits, i), Byte(digits, i + 1), Byte(digits, i + 2),
                 Byte(digits, i + 3))[((j - 1) % 3) + 1]
    BY <1>5, <2>4, <2>6, Zenon DEF ServerDecodes
  <2>8. ServerDecodes(text)[j] = Byte(s, j)
    BY <2>1, <2>5, <2>7, GroupBack, Zenon
  <2>9. QED
    BY <1>1, <2>8 DEF Byte
<1>9. /\ DOMAIN ServerDecodes(text) = 1 .. n
      /\ ServerDecodes(text) = [j \in 1 .. n |-> ServerDecodes(text)[j]]
  <2>1. (6 * Len(digits)) \div 8 = n
    BY <1>4, <1>7
  <2>2. QED
    BY <1>5, <2>1, Zenon DEF ServerDecodes
<1>10. s = [j \in 1 .. n |-> s[j]]
  BY <1>0, <1>1
<1>11. ServerDecodes(text) = s
  BY <1>8, <1>9, <1>10, Zenon
<1>12. QED
  BY <1>3, <1>11

(* b64_decode in terms of the groups.                                        *)
LEMMA BytesAt ==
  ASSUME NEW in
  PROVE  LET sextet(i) == IF in[i] = Pad THEN 0 ELSE in[i] IN
         B64Bytes(in) =
           [j \in 1 .. 3 * (Len(in) \div 4) |->
              LET k == (j - 1) % 3
                  i == 4 * ((j - 1) \div 3) + 1
              IN IF k > 0 /\ in[i + k + 1] = Pad THEN 0
                 ELSE OctetAt(Grouped(sextet(i), sextet(i + 1), sextet(i + 2), sextet(i + 3)), k)]
  BY DEF B64Bytes, OctetAt, Grouped

(* ... and so does the device, whose string ends at the first zero.            *)
LEMMA DeviceReadsBack ==
  ASSUME NEW s, Plain(s)
  PROVE  B64Decode(ServerEncodes(s)) = s
<1>0. s \in Seq(1 .. 255)
  BY DEF Plain
<1>1. PICK n \in Nat : n = Len(s)
  BY <1>0
<1>2. PICK d : d = Digits(s)
  OBVIOUS
<1>3. PICK text \in Seq(0 .. 64) :
        text = ServerEncodes(s) /\ Len(text) = B64EncodedSize(n)
  BY <1>1, EncodedText, Zenon
<1>4. PICK all \in Nat : all = 3 * (Len(text) \div 4) /\ all = 3 * ((n + 2) \div 3) /\ n \in 0 .. all
  BY <1>3, Lengths
<1>5. PICK bytes : bytes = B64Bytes(text)
  OBVIOUS
<1>6. ASSUME NEW j \in 1 .. all
      PROVE  bytes[j] = Byte(s, j)
  <2>1. PICK g \in Nat, k \in 0 .. 2 :
          j = 3 * g + k + 1 /\ (j - 1) % 3 = k /\ (j - 1) \div 3 = g
    BY InTriple
  <2>2. 3 * g < n
    BY <1>4, <2>1
  <2>3. PICK i \in Nat : /\ i = 4 * ((j - 1) \div 3) + 1
                         /\ i = 4 * g + 0 + 1 /\ i + 1 = 4 * g + 1 + 1
                         /\ i + 2 = 4 * g + 2 + 1 /\ i + 3 = 4 * g + 3 + 1
                         /\ i + k + 1 = 4 * g + (k + 1) + 1
    BY <2>1
  <2> DEFINE sextet(x) == IF text[x] = Pad THEN 0 ELSE text[x]
  <2>4. ASSUME NEW m \in 0 .. 3
        PROVE  /\ sextet(4 * g + m + 1) = Digit(s, g, m)
               /\ Digit(s, g, m) \in Sextet
               /\ text[4 * g + m + 1] = Pad <=> m >= 2 /\ 3 * g + m > n
    <3>1. PICK x : x = 4 * g + m + 1
      OBVIOUS
    <3>2. /\ text[x] = IF x > d THEN Pad ELSE Digit(s, g, m)
          /\ x > d => Digit(s, g, m) = 0
          /\ Digit(s, g, m) \in Sextet
      BY <1>1, <1>2, <1>3, <2>2, <3>1, DigitOf, Zenon
    <3>3. x > d <=> m >= 2 /\ 3 * g + m > n
      BY <1>1, <1>2, <2>2, <3>1, Padding DEF Digits
    <3>4. Pad \notin Sextet
      BY DEF Pad, Sextet
    <3>5. text[x] = Pad <=> x > d
      BY <3>2, <3>4, Zenon
    <3>6. sextet(x) = Digit(s, g, m)
      BY <3>2, <3>5, Zenon
    <3>7. QED
      BY <3>1, <3>2, <3>3, <3>5, <3>6, Zenon
  <2>5. PICK p \in Sextet, q \in Sextet, r \in Sextet, t \in Sextet :
          /\ p = Digit(s, g, 0) /\ q = Digit(s, g, 1) /\ r = Digit(s, g, 2) /\ t = Digit(s, g, 3)
          /\ sextet(i) = p /\ sextet(i + 1) = q /\ sextet(i + 2) = r /\ sextet(i + 3) = t
    <3>1. 0 \in 0 .. 3 /\ 1 \in 0 .. 3 /\ 2 \in 0 .. 3 /\ 3 \in 0 .. 3
      OBVIOUS
    <3> HIDE DEF sextet
    <3>2. QED
      BY <2>3, <2>4, <3>1, Zenon
  <2>6. j \in 1 .. 3 * (Len(text) \div 4)
    BY <1>4
  <2>7. bytes[j] = IF k > 0 /\ text[i + k + 1] = Pad THEN 0 ELSE OctetAt(Grouped(p, q, r, t), k)
    <3>1. bytes[j] = IF k > 0 /\ text[i + k + 1] = Pad THEN 0
                     ELSE OctetAt(Grouped(sextet(i), sextet(i + 1), sextet(i + 2), sextet(i + 3)), k)
      BY <1>5, <2>1, <2>3, <2>6, BytesAt, Zenon
    <3>2. QED
      BY <2>5, <3>1, Zenon
  <2>8. OctetAt(Grouped(p, q, r, t), k) = Byte(s, j)
    <3>1. OctetAt(Grouped(p, q, r, t), k) = Octets(p, q, r, t)[k + 1]
      BY ShiftsAreOctets
    <3>2. Octets(p, q, r, t)[k + 1] = Byte(s, 3 * g + k + 1)
      BY <2>5, GroupBack, Zenon
    <3>3. QED
      BY <2>1, <3>1, <3>2, Zenon
  <2>9. ASSUME k > 0, text[i + k + 1] = Pad
        PROVE  Byte(s, j) = 0
    <3>1. k + 1 \in 0 .. 3
      OBVIOUS
    <3>2. k + 1 >= 2 /\ 3 * g + (k + 1) > n
      BY <2>3, <2>4, <2>9, <3>1, Zenon
    <3>3. j > n
      BY <2>1, <3>2
    <3>4. QED
      BY <1>1, <3>3 DEF Byte
  <2>10. QED
    BY <2>7, <2>8, <2>9, Zenon
<1>7. \A j \in 1 .. all : (j <= n => bytes[j] = s[j] /\ bytes[j] # 0) /\ (j > n => bytes[j] = 0)
  <2>1. \A j \in 1 .. all : j \in Nat \ {0}
    OBVIOUS
  <2>2. QED
    BY <1>1, <1>6, <2>1, ByteTypes, Zenon
<1>8. bytes \in [1 .. all -> Octet]
  <2>1. DOMAIN bytes = 1 .. all /\ bytes = [j \in 1 .. all |-> bytes[j]]
    BY <1>4, <1>5, BytesAt, Zenon
  <2>2. \A j \in 1 .. all : j \in Nat \ {0}
    OBVIOUS
  <2>3. \A j \in 1 .. all : bytes[j] \in Octet
    BY <1>6, <2>2, ByteTypes, Zenon
  <2>4. QED
    BY <2>1, <2>3
<1>9. bytes \in Seq(Octet) /\ Len(bytes) = all
  BY <1>8
<1>10. Before(bytes, 0) = [j \in 1 .. n |-> bytes[j]]
  <2>1. n \in 0 .. Len(bytes)
    BY <1>4, <1>9
  <2>2. \A j \in 1 .. n : bytes[j] # 0
    BY <1>4, <1>7
  <2>3. n < Len(bytes) => bytes[n + 1] = 0
    BY <1>4, <1>7, <1>9
  <2>4. QED
    BY <1>9, <2>1, <2>2, <2>3, BeforeIs
<1>11. s = [j \in 1 .. n |-> s[j]]
  BY <1>0, <1>1
<1>12. \A j \in 1 .. n : bytes[j] = s[j]
  BY <1>4, <1>7
<1>13. Before(bytes, 0) = s
  BY <1>10, <1>11, <1>12, Zenon
<1>14. QED
  BY <1>3, <1>5, <1>13, Zenon DEF B64Decode

(* A binary value reaches the server as it is, and the device as it was sent:   *)
(* b64_encode makes the characters the standard has, and what b64_decode makes *)
(* of them ends where the value ended.                                       *)
THEOREM ValuesTravel == CharsPositive => BinariesTravel
<1> SUFFICES ASSUME CharsPositive, NEW b \in Binaries
             PROVE  Published[b] = b /\ Carried[b] = b
  BY DEF BinariesTravel
<1>1. Plain(b)
  BY ValuesAssumption, Zenon DEF CharsPositive, Plain
<1>2. Published[b] = ServerDecodes(B64Encode(b)) /\ Carried[b] = B64Decode(ServerEncodes(b))
  BY Zenon DEF Published, Carried
<1>3. QED
  BY <1>1, <1>2, EncodesAsServer, ServerReadsBack, DeviceReadsBack, Zenon
-----------------------------------------------------------------------------
LEMMA Sizes ==
  /\ ParamRoom \in Nat /\ MaxParsed \in Nat /\ Blocks \in Nat /\ Slots \in Nat
  /\ MaxEntries \in Nat /\ MaxMessages \in Nat
  BY SizesAssumption

(* A step of the parameters is one of these.                                  *)
LEMMA ParamKinds ==
  ASSUME [Next]_vars
  PROVE  \/ UNCHANGED paramVars /\ (sent' = sent \/ (sent < MaxMessages /\ sent' = sent + 1))
         \/ Ack \/ AckFails \/ AckTooLong \/ UpdateIllegible
         \/ \E n \in 0 .. MaxEntries : \E es \in [1 .. n -> Entries], taken \in SUBSET (1 .. n) :
              Update(es, taken)
<1>1. CASE ConnectOk \/ ConnectFails \/ SessionLost \/ NothingToAck \/ YieldEnds \/ AttachData
           \/ PushData \/ UNCHANGED vars
  BY <1>1, Zenon DEF ConnectOk, ConnectFails, SessionLost, NothingToAck, YieldEnds, AttachData,
     PushData, vars
<1>2. ASSUME NEW id, NEW code \in -4 .. -2, CommandRefused(id, code)
      PROVE  UNCHANGED paramVars /\ sent < MaxMessages /\ sent' = sent + 1
  BY <1>2, Zenon DEF CommandRefused, Received
<1>3. ASSUME NEW id, NEW malformed, CommandNoMemory(id, malformed)
      PROVE  UNCHANGED paramVars /\ sent < MaxMessages /\ sent' = sent + 1
  BY <1>3, Zenon DEF CommandNoMemory, Received
<1>4. ASSUME NEW id, NEW result, CommandCalled(id, result)
      PROVE  UNCHANGED paramVars /\ sent < MaxMessages /\ sent' = sent + 1
  BY <1>4, Zenon DEF CommandCalled, Received
<1>5. ASSUME NEW id, CommandBroken(id)
      PROVE  UNCHANGED paramVars /\ sent < MaxMessages /\ sent' = sent + 1
  BY <1>5, Zenon DEF CommandBroken, Received
<1>6. CASE CommandIllegible
  BY <1>6, Zenon DEF CommandIllegible, Received
<1>7. QED
  BY <1>1, <1>2, <1>3, <1>4, <1>5, <1>6, Zenon DEF Next
-----------------------------------------------------------------------------
LEMMA EntryTypes ==
  ASSUME NEW e \in Entries, Recognised(e)
  PROVE  e.name \in ParamNames /\ e.value \in Values[e.name]
<1>1. \/ \E p \in ParamNames : \E v \in Values[p] : e = Entry(p, v, TRUE)
      \/ e = Entry("number", <<>>, FALSE) \/ e = Entry("unknown", <<>>, TRUE)
  <2> DEFINE E == {{Entry(p, v, TRUE) : v \in Values[p]} : p \in ParamNames}
  <2>1. e \in UNION E \/ e \in {Entry("number", <<>>, FALSE), Entry("unknown", <<>>, TRUE)}
    BY DEF Entries
  <2>2. ASSUME NEW S \in E, e \in S
        PROVE  \E p \in ParamNames : \E v \in Values[p] : e = Entry(p, v, TRUE)
    <3>1. PICK p \in ParamNames : S = {Entry(p, v, TRUE) : v \in Values[p]}
      BY Zenon
    <3>2. QED
      BY <2>2, <3>1, Zenon
  <2> HIDE DEF E
  <2>3. QED
    BY <2>1, <2>2, Zenon
<1>2. e.name \in ParamNames /\ e.fits
  BY DEF Recognised
<1>3. CASE e = Entry("number", <<>>, FALSE) \/ e = Entry("unknown", <<>>, TRUE)
  BY <1>2, <1>3 DEF Entry, ParamNames
<1>4. ASSUME NEW p \in ParamNames, NEW v \in Values[p], e = Entry(p, v, TRUE)
      PROVE  e.name \in ParamNames /\ e.value \in Values[e.name]
  BY <1>4 DEF Entry
<1>5. QED
  BY <1>1, <1>3, <1>4, Zenon

LEMMA GivenAsAsked ==
  ASSUME BinariesTravel, NEW e \in Entries, Recognised(e)
  PROVE  Decoded(e) = e.value
<1>1. CASE e.name = "binary"
  <2>1. e.value \in Values["binary"]
    BY <1>1, EntryTypes, Zenon
  <2>2. Values["binary"] = Binaries
    BY DEF Values
  <2>3. QED
    BY <1>1, <2>1, <2>2, Zenon DEF Decoded, BinariesTravel
<1>2. CASE e.name # "binary"
  BY <1>2, Zenon DEF Decoded
<1>3. QED
  BY <1>1, <1>2

(* The callback is given what the server asked for.                           *)
LEMMA UpdatedAsAsked ==
  ASSUME BinariesTravel, ValuesKept, NEW n, NEW es \in [1 .. n -> Entries],
         NEW taken \in SUBSET (1 .. n), \A i \in taken : Recognised(es[i])
  PROVE  LET new == Updated(wanted, es, taken, LAMBDA e : e.value) IN
         /\ Updated(value, es, taken, Decoded) = new
         /\ new \in [ParamNames -> UNION {Values[p] : p \in ParamNames}]
         /\ \A p \in ParamNames : new[p] \in Values[p]
<1> DEFINE last(p) == {i \in taken : es[i].name = p /\ \A j \in taken : es[j].name = p => j <= i}
           at(p) == es[CHOOSE i \in last(p) : TRUE]
           new == [p \in ParamNames |-> IF last(p) = {} THEN wanted[p] ELSE at(p).value]
           old == [p \in ParamNames |-> IF last(p) = {} THEN value[p] ELSE Decoded(at(p))]
<1>1. Updated(wanted, es, taken, LAMBDA e : e.value) = new /\ Updated(value, es, taken, Decoded) = old
  BY Zenon DEF Updated
<1>2. ASSUME NEW p \in ParamNames, last(p) # {}
      PROVE  at(p) \in Entries /\ Recognised(at(p)) /\ at(p).name = p
  BY <1>2
<1>3. ASSUME NEW p \in ParamNames
      PROVE  old[p] = new[p] /\ new[p] \in Values[p]
  <2>1. CASE last(p) = {}
    BY <2>1, SMTT(40) DEF ValuesKept
  <2>2. CASE last(p) # {}
    <3>1. at(p) \in Entries /\ Recognised(at(p)) /\ at(p).name = p
      BY <1>2, <2>2
    <3>2. Decoded(at(p)) = at(p).value /\ at(p).value \in Values[p]
      BY <3>1, GivenAsAsked, EntryTypes
    <3>3. old[p] = Decoded(at(p)) /\ new[p] = at(p).value
      BY <2>2
    <3>4. QED
      BY <3>2, <3>3
  <2>3. QED
    BY <2>1, <2>2
<1>4. old = new
  <2> HIDE DEF last, at
  <2>1. \A p \in ParamNames : old[p] = new[p]
    BY <1>3
  <2>2. QED
    BY <2>1
<1>5. /\ new \in [ParamNames -> UNION {Values[p] : p \in ParamNames}]
      /\ \A p \in ParamNames : new[p] \in Values[p]
  <2> HIDE DEF last, at
  <2>1. \A p \in ParamNames : new[p] \in UNION {Values[q] : q \in ParamNames}
    BY <1>3, Zenon
  <2>2. QED
    BY <1>3, <2>1, Zenon
<1> HIDE DEF new, old
<1>6. QED
  BY <1>1, <1>4, <1>5, Zenon
-----------------------------------------------------------------------------
LEMMA InitParams == BinariesTravel /\ Init => ParamInv
<1> SUFFICES ASSUME Init
             PROVE  ParamInv
  OBVIOUS
<1>1. ValuesKept
  BY DEF Init, ValuesKept
<1>2. tab \in Tabs
  <2>1. <<>> \in [{} -> ParamNames]
    OBVIOUS
  <2>2. QED
    BY <2>1 DEF Init, Tabs
<1>3. ToAck
  <2>1. /\ sent = 0 /\ cid = 0 /\ after = [c \in Cids |-> Unnamed]
    BY DEF Init
  <2>2. QED
    BY <1>2, <2>1, Sizes DEF ToAck
<1>4. Acked /\ AcksTell
  BY DEF Init, Acked, AcksTell
<1>5. QED
  BY <1>1, <1>3, <1>4 DEF ParamInv

(* What an acknowledgement shows, once it reaches the server.                 *)
LEMMA AckIsTrue ==
  ASSUME BinariesTravel, ParamInv, cid # 0
  PROVE  LET shown == [p \in Listed |-> Shown(p)] IN
         /\ DOMAIN shown = IF after[cid].named = {} THEN ParamNames ELSE after[cid].named
         /\ \A p \in DOMAIN shown : shown[p] = after[cid].values[p]
<1> DEFINE shown == [p \in Listed |-> Shown(p)]
<1>1. after[cid].named = RangeOf(tab) /\ after[cid].values = value
  BY DEF ParamInv, ToAck, ValuesKept
<1>2. PICK places \in SUBSET (1 .. MaxParsed) : tab \in [places -> ParamNames]
  BY DEF ParamInv, ToAck, Tabs
<1>3. RangeOf(tab) \subseteq ParamNames /\ (RangeOf(tab) = {} <=> places = {})
  BY <1>2 DEF RangeOf
<1>4. tab = <<>> <=> places = {}
  <2>1. tab = <<>> => DOMAIN tab = {}
    BY EmptySeq
  <2>2. places = {} => tab = <<>>
    BY <1>2
  <2>3. QED
    BY <1>2, <2>1, <2>2
<1>5. Listed = IF RangeOf(tab) = {} THEN ParamNames ELSE RangeOf(tab)
  BY <1>3, <1>4 DEF Listed
<1>6. Listed \subseteq ParamNames
  BY <1>3, <1>5
<1>7. ASSUME NEW p \in ParamNames
      PROVE  Shown(p) = value[p]
  <2>1. CASE p = "binary"
    <3>1. value[p] \in Binaries
      BY <2>1 DEF ParamInv, ValuesKept, Values, ParamNames
    <3>2. QED
      BY <2>1, <3>1 DEF Shown, BinariesTravel
  <2>2. CASE p # "binary"
    BY <2>2 DEF Shown
  <2>3. QED
    BY <2>1, <2>2
<1>8. DOMAIN shown = Listed /\ \A p \in Listed : shown[p] = value[p]
  BY <1>6, <1>7
<1> HIDE DEF shown
<1>9. QED
  BY <1>1, <1>5, <1>8 DEF shown

LEMMA ParamStep ==
  ASSUME BinariesTravel, ParamInv, [Next]_vars
  PROVE  ParamInv'
<1>0. sent \in 0 .. MaxMessages /\ MaxMessages \in Nat /\ cid \in 0 .. sent
  BY Sizes DEF ParamInv, ToAck
<1>1. CASE UNCHANGED paramVars /\ (sent' = sent \/ (sent < MaxMessages /\ sent' = sent + 1))
  <2>1. UNCHANGED <<value, cid, tab, wanted, after, acks>>
    BY <1>1 DEF paramVars
  <2>2. sent' \in 0 .. MaxMessages /\ sent <= sent'
    BY <1>0, <1>1
  <2>3. ToAck'
    BY <1>0, <2>1, <2>2 DEF ParamInv, ToAck, RangeOf, Tabs, Notes, Unnamed
  <2>4. ValuesKept' /\ AcksTell'
    BY <2>1 DEF ParamInv, ValuesKept, AcksTell
  <2>5. Acked'
    BY <1>0, <2>1, <2>2 DEF ParamInv, Acked
  <2>6. QED
    BY <2>3, <2>4, <2>5 DEF ParamInv
<1>2. CASE Ack \/ AckFails \/ AckTooLong
  <2>1. /\ UNCHANGED <<sent, value, tab, wanted, after>> /\ cid # 0 /\ cid' \in {0, cid}
        /\ acks' = acks \/ AckReaches
    BY <1>2 DEF Ack, AckFails, AckTooLong
  <2>2. ValuesKept'
    BY <2>1 DEF ParamInv, ValuesKept
  <2>3. ToAck'
    BY <1>0, <2>1 DEF ParamInv, ToAck
  <2>4. ASSUME NEW a \in acks', a \notin acks
        PROVE  /\ a.cid \in 1 .. sent
               /\ DOMAIN a.shown = IF after[a.cid].named = {} THEN ParamNames ELSE after[a.cid].named
               /\ \A p \in DOMAIN a.shown : a.shown[p] = after[a.cid].values[p]
    <3>1. a = [cid |-> cid, shown |-> [p \in Listed |-> Shown(p)]]
      BY <2>1, <2>4 DEF AckReaches
    <3>2. a.cid = cid /\ a.shown = [p \in Listed |-> Shown(p)]
      BY <3>1
    <3>3. cid \in 1 .. sent
      BY <1>0, <2>1
    <3>4. QED
      BY <2>1, <3>2, <3>3, AckIsTrue, Zenon
  <2>5. Acked' /\ AcksTell'
    <3>1. \A a \in acks' : a \in acks \/ a \notin acks
      OBVIOUS
    <3>2. Acked'
      BY <2>1, <2>4 DEF ParamInv, Acked
    <3>3. AcksTell'
      BY <2>1, <2>4, Zenon DEF ParamInv, AcksTell
    <3>4. QED
      BY <3>2, <3>3
  <2>6. QED
    BY <2>2, <2>3, <2>5 DEF ParamInv
<1>3. CASE UpdateIllegible
  <2>1. /\ sent < MaxMessages /\ sent' = sent + 1 /\ cid' = 0 /\ tab' = <<>>
        /\ UNCHANGED <<value, wanted, after, acks>>
    BY <1>3 DEF UpdateIllegible, Received
  <2>2. tab' \in Tabs
    <3>1. <<>> \in [{} -> ParamNames]
      OBVIOUS
    <3>2. QED
      BY <2>1, <3>1 DEF Tabs
  <2>3. ToAck'
    BY <1>0, <2>1, <2>2 DEF ParamInv, ToAck
  <2>4. ValuesKept' /\ AcksTell'
    BY <2>1 DEF ParamInv, ValuesKept, AcksTell
  <2>5. Acked'
    BY <1>0, <2>1 DEF ParamInv, Acked
  <2>6. QED
    BY <2>3, <2>4, <2>5 DEF ParamInv
<1>4. ASSUME NEW n \in 0 .. MaxEntries, NEW es \in [1 .. n -> Entries], NEW taken \in SUBSET (1 .. n),
             Update(es, taken)
      PROVE  ParamInv'
  <2> DEFINE places == {j \in DOMAIN es : Recognised(es[j])}
             new == Updated(wanted, es, taken, LAMBDA e : e.value)
  <2>1. /\ sent < MaxMessages /\ sent' = sent + 1 /\ cid' = sent' /\ acks' = acks
        /\ tab' = [i \in places |-> es[i].name]
        /\ value' = Updated(value, es, taken, Decoded) /\ wanted' = new
        /\ after' = [after EXCEPT ![sent'] = [named |-> RangeOf(tab'), values |-> wanted']]
        /\ Len(es) <= MaxParsed /\ \A i \in taken : Recognised(es[i])
    BY <1>4, Zenon DEF Update, Received
  <2>2. /\ value' = new
        /\ new \in [ParamNames -> UNION {Values[p] : p \in ParamNames}]
        /\ \A p \in ParamNames : new[p] \in Values[p]
    BY <2>1, UpdatedAsAsked, Zenon DEF ParamInv
  <2> HIDE DEF new
  <2>3. ValuesKept'
    BY <2>1, <2>2, Zenon DEF ValuesKept
  <2>4. tab' \in Tabs /\ RangeOf(tab') \subseteq ParamNames
    <3>1. DOMAIN es = 1 .. n /\ n \in Nat
      OBVIOUS
    <3>2. Len(es) = n
      BY <3>1
    <3>3. places \subseteq 1 .. MaxParsed
      BY <2>1, <3>1, <3>2, Sizes
    <3>4. \A i \in places : es[i].name \in ParamNames
      BY DEF Recognised
    <3> HIDE DEF places
    <3>5. tab' \in [places -> ParamNames]
      BY <2>1, <3>4
    <3>6. QED
      BY <3>3, <3>5 DEF Tabs, RangeOf
  <2>5. sent' \in 1 .. MaxMessages /\ sent' \in Cids /\ \A c \in 1 .. sent : c # sent' /\ c \in 1 .. sent'
    BY <1>0, <2>1 DEF Cids
  <2>6. /\ after \in [Cids -> {Unnamed} \union Notes]
        /\ [named |-> RangeOf(tab'), values |-> wanted'] \in Notes
    BY <2>1, <2>2, <2>4 DEF Notes, ParamInv, ToAck
  <2>7. after'[sent'] = [named |-> RangeOf(tab'), values |-> wanted']
    BY <2>1, <2>5, <2>6
  <2>8. \A c \in Cids : c # sent' => after'[c] = after[c]
    BY <2>1, <2>6
  <2>9. after' \in [Cids -> {Unnamed} \union Notes]
    BY <2>1, <2>5, <2>6
  <2>10. ToAck'
    BY <2>1, <2>4, <2>5, <2>7, <2>9 DEF ToAck
  <2>11. \A a \in acks : a.cid \in 1 .. sent' /\ after'[a.cid] = after[a.cid]
    BY <1>0, <2>5, <2>8 DEF ParamInv, Acked, Cids
  <2>12. Acked' /\ AcksTell'
    BY <2>1, <2>11 DEF ParamInv, Acked, AcksTell
  <2>13. QED
    BY <2>3, <2>10, <2>12 DEF ParamInv
<1>5. QED
  BY <1>1, <1>2, <1>3, <1>4, ParamKinds, Zenon
-----------------------------------------------------------------------------
LEMMA InitCommands == Init => CommandInv
<1> SUFFICES ASSUME Init
             PROVE  CommandInv
  OBVIOUS
<1>1. sent = 0 /\ verdict = [c \in Cids |-> NotCalled] /\ answers = {}
  BY DEF Init
<1>2. QED
  BY <1>1, Sizes DEF CommandInv, Verdicts, AnswersAreTrue

(* A message of the server: at most one answer reaches it.                    *)
Told(id, code) ==
  /\ sent < MaxMessages /\ sent' = sent + 1
  /\ misnamed' = misnamed \union ({id} \ {sent'})
  /\ answers' = answers \/ answers' = answers \union {[cid |-> id, code |-> code]}

LEMMA AnsweredTold ==
  ASSUME NEW id, NEW code, Received, Answered(id, code)
  PROVE  Told(id, code)
  BY DEF Received, Answered, Told

(* A step of the commands is one of these.                                    *)
LEMMA CommandKinds ==
  ASSUME [Next]_vars
  PROVE  \/ /\ UNCHANGED <<verdict, answers, misnamed>>
            /\ sent' = sent \/ (sent < MaxMessages /\ sent' = sent + 1)
         \/ \E code \in -6 .. -2 : \E id \in MessageIds : Told(id, code) /\ UNCHANGED verdict
         \/ \E id \in MessageIds, result \in {-1, 0} :
              Told(id, result) /\ verdict' = [verdict EXCEPT ![sent'] = result]
<1>1. CASE ConnectOk \/ ConnectFails \/ SessionLost \/ NothingToAck \/ YieldEnds \/ AttachData
           \/ PushData \/ Ack \/ AckFails \/ AckTooLong \/ UNCHANGED vars
  BY <1>1, Zenon DEF ConnectOk, ConnectFails, SessionLost, NothingToAck, YieldEnds, AttachData,
     PushData, Ack, AckFails, AckTooLong, vars, commandVars
<1>2. CASE CommandIllegible \/ UpdateIllegible
  BY <1>2, Zenon DEF CommandIllegible, UpdateIllegible, Received, commandVars
<1>3. ASSUME NEW es, NEW taken, Update(es, taken)
      PROVE  UNCHANGED <<verdict, answers, misnamed>> /\ sent < MaxMessages /\ sent' = sent + 1
  BY <1>3, Zenon DEF Update, Received, commandVars
<1>4. -6 \in -6 .. -2 /\ -2 \in -6 .. -2 /\ \A code \in -4 .. -2 : code \in -6 .. -2
  OBVIOUS
<1>5. ASSUME NEW id \in MessageIds, NEW code \in -4 .. -2, CommandRefused(id, code)
      PROVE  code \in -6 .. -2 /\ Told(id, code) /\ UNCHANGED verdict
  BY <1>4, <1>5, AnsweredTold, Zenon DEF CommandRefused
<1>6. ASSUME NEW id \in MessageIds, NEW malformed, CommandNoMemory(id, malformed)
      PROVE  Told(id, -6) /\ UNCHANGED verdict
  BY <1>6, AnsweredTold, Zenon DEF CommandNoMemory
<1>7. ASSUME NEW id \in MessageIds, CommandBroken(id)
      PROVE  Told(id, -2) /\ UNCHANGED verdict
  BY <1>7, AnsweredTold, Zenon DEF CommandBroken
<1>8. ASSUME NEW id, NEW result, CommandCalled(id, result)
      PROVE  Told(id, result) /\ verdict' = [verdict EXCEPT ![sent'] = result]
  BY <1>8, AnsweredTold, Zenon DEF CommandCalled
<1>9. ASSUME NEW id \in MessageIds,
             \/ \E code \in -4 .. -2 : CommandRefused(id, code)
             \/ \E malformed \in BOOLEAN : CommandNoMemory(id, malformed)
             \/ CommandBroken(id)
      PROVE  \E code \in -6 .. -2 : Told(id, code) /\ UNCHANGED verdict
  BY <1>4, <1>5, <1>6, <1>7, <1>9, Zenon
<1>10. QED
  BY <1>1, <1>2, <1>3, <1>8, <1>9, Zenon DEF Next

(* The answers so far keep, whatever becomes of the commands to come.          *)
LEMMA ToldStep ==
  ASSUME CommandInv, NEW id, NEW code \in Int, Told(id, code),
         verdict' \in [Cids -> {-1, 0, NotCalled}],
         \A c \in Cids : c # sent' => verdict'[c] = verdict[c],
         sent' \in Cids => IF verdict'[sent'] = NotCalled THEN code < 0 ELSE code = verdict'[sent']
  PROVE  CommandInv'
<1>0. sent \in 0 .. MaxMessages /\ MaxMessages \in Nat
  BY Sizes DEF CommandInv, Verdicts
<1>1. sent' = sent + 1 /\ sent' \in 1 .. MaxMessages /\ sent' \in Cids
  BY <1>0 DEF Told, Cids
<1>2. \A c \in Cids : c > sent' => verdict'[c] = NotCalled
  BY <1>0, <1>1 DEF CommandInv, Verdicts, Cids
<1>3. ASSUME NEW a \in answers'
      PROVE  a \in answers \/ (a.code = code /\ a.cid = id)
  BY <1>3 DEF Told
<1>4. misnamed \subseteq misnamed' /\ (id = sent' \/ id \in misnamed')
  BY DEF Told
<1>5. ASSUME NEW a \in answers'
      PROVE  a.cid \in 1 .. sent' \/ a.cid \in misnamed'
  <2>1. a \in answers => a.cid \in 1 .. sent \/ a.cid \in misnamed
    BY DEF CommandInv, Verdicts
  <2>2. \A c \in 1 .. sent : c \in 1 .. sent'
    BY <1>0, <1>1
  <2>3. sent' \in 1 .. sent'
    BY <1>1
  <2>4. QED
    BY <1>3, <1>4, <1>5, <2>1, <2>2, <2>3, Zenon
<1>6. ASSUME NEW a \in answers', a.cid \in Cids \ misnamed'
      PROVE  IF verdict'[a.cid] = NotCalled THEN a.code < 0 ELSE a.code = verdict'[a.cid]
  <2>1. CASE a \in answers
    <3>1. a.cid \in 1 .. sent /\ a.cid \in Cids \ misnamed
      BY <1>4, <1>6, <2>1, Zenon DEF CommandInv, Verdicts
    <3>2. a.cid # sent'
      BY <1>0, <1>1, <3>1
    <3>3. verdict'[a.cid] = verdict[a.cid]
      BY <3>1, <3>2
    <3>4. QED
      BY <2>1, <3>1, <3>3 DEF CommandInv, AnswersAreTrue, Truthful
  <2>2. CASE a \notin answers
    <3>1. a.code = code /\ a.cid = sent'
      BY <1>3, <1>4, <1>6, <2>2, Zenon
    <3>2. QED
      BY <1>1, <3>1, Zenon
  <2>3. QED
    BY <2>1, <2>2
<1>7. sent' \in 0 .. MaxMessages
  BY <1>0, <1>1
<1>8. Verdicts'
  BY <1>2, <1>5, <1>7, Zenon DEF Verdicts, Cids, NotCalled
<1>9. AnswersAreTrue'
  BY <1>6, Zenon DEF AnswersAreTrue, Truthful, Cids, NotCalled
<1>10. QED
  BY <1>8, <1>9 DEF CommandInv

LEMMA CommandStep == CommandInv /\ [Next]_vars => CommandInv'
<1> SUFFICES ASSUME CommandInv, [Next]_vars
             PROVE  CommandInv'
  OBVIOUS
<1>0. /\ sent \in 0 .. MaxMessages /\ MaxMessages \in Nat
      /\ verdict \in [Cids -> {-1, 0, NotCalled}]
  BY Sizes DEF CommandInv, Verdicts
<1>1. CASE /\ UNCHANGED <<verdict, answers, misnamed>>
           /\ sent' = sent \/ (sent < MaxMessages /\ sent' = sent + 1)
  <2>1. sent' \in 0 .. MaxMessages /\ sent <= sent'
    BY <1>0, <1>1
  <2>2. \A c \in Cids : c > sent' => c > sent
    BY <1>0, <2>1 DEF Cids
  <2>3. \A c \in 1 .. sent : c \in 1 .. sent'
    BY <1>0, <2>1
  <2>4. verdict' = verdict /\ answers' = answers /\ misnamed' = misnamed
    BY <1>1
  <2>5. Verdicts'
    BY <2>1, <2>2, <2>3, <2>4 DEF CommandInv, Verdicts
  <2>6. AnswersAreTrue'
    BY <2>4 DEF CommandInv, AnswersAreTrue, Truthful
  <2>7. QED
    BY <2>5, <2>6 DEF CommandInv
<1>2. ASSUME NEW code \in -6 .. -2, NEW id, Told(id, code), UNCHANGED verdict
      PROVE  CommandInv'
  <2>1. sent' \in Cids => verdict'[sent'] = NotCalled
    BY <1>0, <1>2 DEF Told, CommandInv, Verdicts, Cids
  <2>2. code \in Int /\ code < 0
    OBVIOUS
  <2>3. QED
    BY <1>0, <1>2, <2>1, <2>2, ToldStep
<1>3. ASSUME NEW id, NEW result \in {-1, 0}, Told(id, result), verdict' = [verdict EXCEPT ![sent'] = result]
      PROVE  CommandInv'
  <2>1. verdict' \in [Cids -> {-1, 0, NotCalled}]
    BY <1>0, <1>3
  <2>2. \A c \in Cids : c # sent' => verdict'[c] = verdict[c]
    BY <1>0, <1>3
  <2>3. sent' \in Cids => verdict'[sent'] = result
    BY <1>0, <1>3
  <2>4. result \in Int /\ result # NotCalled
    BY DEF NotCalled
  <2>5. QED
    BY <1>3, <2>1, <2>2, <2>3, <2>4, ToldStep
<1>4. QED
  BY <1>1, <1>2, <1>3, CommandKinds, Zenon
-----------------------------------------------------------------------------
LEMMA InitLost == Init => Lost
  BY Sizes DEF Init, Lost, LostToBroken

LEMMA LostStep == Lost /\ [Next]_vars => Lost'
<1> SUFFICES ASSUME Lost, [Next]_vars
             PROVE  Lost'
  OBVIOUS
<1>1. \/ UNCHANGED <<lost, broken>>
      \/ lost = Blocks /\ lost' = lost /\ broken' \in {broken, broken + 1}
      \/ lost < Blocks /\ lost' = lost + 1 /\ broken' = broken + 1
  <2>1. CASE ConnectOk \/ ConnectFails \/ SessionLost \/ NothingToAck \/ YieldEnds \/ AttachData
             \/ PushData \/ Ack \/ AckFails \/ AckTooLong \/ UpdateIllegible \/ CommandIllegible \/ UNCHANGED vars
    BY <2>1, Zenon DEF ConnectOk, ConnectFails, SessionLost, NothingToAck, YieldEnds, AttachData,
       PushData, Ack, AckFails, AckTooLong, UpdateIllegible, CommandIllegible, vars, commandVars
  <2>2. ASSUME NEW es, NEW taken, Update(es, taken)
        PROVE  UNCHANGED <<lost, broken>>
    BY <2>2, Zenon DEF Update, commandVars
  <2>3. ASSUME NEW id, NEW code, CommandRefused(id, code)
        PROVE  UNCHANGED <<lost, broken>>
    BY <2>3, Zenon DEF CommandRefused
  <2>4. ASSUME NEW id, NEW malformed, CommandNoMemory(id, malformed)
        PROVE  lost = Blocks /\ lost' = lost /\ broken' \in {broken, broken + 1}
    <3>1. lost = Blocks /\ lost' = lost /\ broken' = IF malformed THEN broken + 1 ELSE broken
      BY <2>4, Zenon DEF CommandNoMemory
    <3>2. QED
      BY <3>1, Zenon
  <2>5. ASSUME NEW id, CommandBroken(id)
        PROVE  lost < Blocks /\ lost' = lost + 1 /\ broken' = broken + 1
    BY <2>5, Zenon DEF CommandBroken
  <2>6. ASSUME NEW id, NEW result, CommandCalled(id, result)
        PROVE  UNCHANGED <<lost, broken>>
    BY <2>6, Zenon DEF CommandCalled
  <2>7. QED
    BY <2>1, <2>2, <2>3, <2>4, <2>5, <2>6, Zenon DEF Next
<1>2. QED
  BY <1>1, Sizes DEF Lost, LostToBroken
-----------------------------------------------------------------------------
LEMMA InitStreams == Init => Streams
<1> SUFFICES ASSUME Init
             PROVE  Streams
  OBVIOUS
<1>1. handles = <<>> /\ SetData = [h \in 0 .. Slots - 1 |-> NoStream]
  BY DEF Init
<1>2. handles \in Seq(Nat) /\ Len(handles) = 0
  BY <1>1
<1>3. \A h \in 0 .. Slots - 1 : ~(h < Len(handles))
  BY <1>2, Sizes
<1>4. QED
  BY <1>1, <1>2, <1>3, Sizes DEF Streams

LEMMA FirstFree ==
  ASSUME Streams, FreeSlots # {}
  PROVE  Min(FreeSlots) = Len(handles) /\ Len(handles) < Slots
<1>1. Len(handles) \in Nat /\ Slots \in Nat
  BY Sizes DEF Streams
<1>2. \A h \in 0 .. Slots - 1 : SetData[h] = NoStream <=> ~(h < Len(handles))
  BY <1>1 DEF Streams, NoStream
<1>3. FreeSlots = {h \in 0 .. Slots - 1 : ~(h < Len(handles))}
  BY <1>2 DEF FreeSlots
<1>4. Len(handles) < Slots /\ Len(handles) \in FreeSlots /\ \A h \in FreeSlots : h \in Int /\ Len(handles) <= h
  BY <1>1, <1>3
<1>5. \A h \in FreeSlots : (\A g \in FreeSlots : h <= g) => h = Len(handles)
  BY <1>1, <1>4
<1>6. Min(FreeSlots) = Len(handles)
  BY <1>4, <1>5, Zenon DEF Min
<1>7. QED
  BY <1>4, <1>6

LEMMA StreamStep == Streams /\ [Next]_vars => Streams'
<1> SUFFICES ASSUME Streams, [Next]_vars
             PROVE  Streams'
  OBVIOUS
<1>1. UNCHANGED dataVars \/ AttachData
  <2>1. CASE ConnectOk \/ ConnectFails \/ SessionLost \/ NothingToAck \/ YieldEnds
             \/ PushData \/ Ack \/ AckFails \/ AckTooLong \/ UpdateIllegible \/ CommandIllegible
             \/ UNCHANGED vars
    BY <2>1, Zenon DEF ConnectOk, ConnectFails, SessionLost, NothingToAck, YieldEnds,
       PushData, Ack, AckFails, AckTooLong, UpdateIllegible, CommandIllegible, vars
  <2>2. ASSUME NEW es, NEW taken, Update(es, taken)
        PROVE  UNCHANGED dataVars
    BY <2>2, Zenon DEF Update
  <2>3. ASSUME NEW id, NEW code, CommandRefused(id, code)
        PROVE  UNCHANGED dataVars
    BY <2>3, Zenon DEF CommandRefused
  <2>4. ASSUME NEW id, NEW malformed, CommandNoMemory(id, malformed)
        PROVE  UNCHANGED dataVars
    BY <2>4, Zenon DEF CommandNoMemory
  <2>5. ASSUME NEW id, NEW result, CommandCalled(id, result)
        PROVE  UNCHANGED dataVars
    BY <2>5, Zenon DEF CommandCalled
  <2>6. ASSUME NEW id, CommandBroken(id)
        PROVE  UNCHANGED dataVars
    BY <2>6, Zenon DEF CommandBroken
  <2>7. QED
    BY <2>1, <2>2, <2>3, <2>4, <2>5, <2>6, Zenon DEF Next
<1>2. CASE UNCHANGED dataVars
  BY <1>2 DEF dataVars, Streams
<1>3. CASE AttachData
  <2> DEFINE n == Len(handles)
  <2>1. n \in Nat /\ Slots \in Nat /\ n < Slots
    BY <1>3, FirstFree, Sizes DEF AttachData, Streams
  <2>2. SetData' = [SetData EXCEPT ![n] = n + 1] /\ handles' = Append(handles, n)
    BY <1>3, FirstFree DEF AttachData
  <2>3. /\ handles' \in Seq(Nat) /\ Len(handles') = n + 1
        /\ \A i \in 1 .. n : handles'[i] = handles[i]
        /\ handles'[n + 1] = n
    BY <2>1, <2>2, AppendProperties DEF Streams
  <2> HIDE DEF n
  <2>4. \A i \in 1 .. n + 1 : handles'[i] = i - 1
    <3>1. \A i \in 1 .. n + 1 : i \in 1 .. n \/ i = n + 1
      BY <2>1
    <3>2. \A i \in 1 .. n : handles[i] = i - 1
      BY DEF Streams, n
    <3>3. n = n + 1 - 1
      BY <2>1
    <3>4. QED
      BY <2>3, <3>1, <3>2, <3>3
  <2>5. SetData' = [h \in 0 .. Slots - 1 |-> IF h < n + 1 THEN h + 1 ELSE NoStream]
    <3>1. SetData = [h \in 0 .. Slots - 1 |-> IF h < n THEN h + 1 ELSE NoStream]
      BY DEF Streams, n
    <3>2. \A h \in 0 .. Slots - 1 : h < n + 1 <=> h < n \/ h = n
      BY <2>1
    <3>3. SetData' = [h \in 0 .. Slots - 1 |-> IF h = n THEN n + 1 ELSE SetData[h]]
      BY <2>2, <3>1
    <3>4. QED
      BY <2>1, <3>1, <3>2, <3>3
  <2>6. QED
    BY <2>1, <2>3, <2>4, <2>5 DEF Streams
<1>4. QED
  BY <1>1, <1>2, <1>3
-----------------------------------------------------------------------------
(* Where the application is, and whether it has a session.                    *)
Where == pc \in {"app", "yield"} /\ isconnected \in BOOLEAN

LEMMA WhereStep == Where /\ [Next]_vars => Where'
<1> SUFFICES ASSUME Where, [Next]_vars
             PROVE  Where'
  OBVIOUS
<1>1. ASSUME NEW id, NEW code, Answered(id, code)
      PROVE  isconnected' \in {isconnected, FALSE}
  BY <1>1, Zenon DEF Answered
<1>2. CASE ConnectOk \/ ConnectFails \/ SessionLost \/ NothingToAck \/ YieldEnds \/ AttachData
           \/ PushData \/ Ack \/ AckFails \/ AckTooLong \/ UpdateIllegible \/ CommandIllegible \/ UNCHANGED vars
  BY <1>2, Zenon DEF ConnectOk, ConnectFails, SessionLost, NothingToAck, YieldEnds, AttachData,
     PushData, Ack, AckFails, AckTooLong, UpdateIllegible, CommandIllegible, Received, vars, Where
<1>3. ASSUME NEW es, NEW taken, Update(es, taken)
      PROVE  Where'
  BY <1>3, Zenon DEF Update, Where
<1>4. ASSUME NEW id, NEW code, CommandRefused(id, code)
      PROVE  Where'
  BY <1>1, <1>4, Zenon DEF CommandRefused, Where
<1>5. ASSUME NEW id, NEW malformed, CommandNoMemory(id, malformed)
      PROVE  Where'
  BY <1>1, <1>5, Zenon DEF CommandNoMemory, Where
<1>6. ASSUME NEW id, CommandBroken(id)
      PROVE  Where'
  BY <1>1, <1>6, Zenon DEF CommandBroken, Where
<1>7. ASSUME NEW id, NEW result, CommandCalled(id, result)
      PROVE  Where'
  BY <1>1, <1>7, Zenon DEF CommandCalled, Where
<1>8. QED
  BY <1>2, <1>3, <1>4, <1>5, <1>6, <1>7, Zenon DEF Next
-----------------------------------------------------------------------------
LEMMA ParamsHold == CharsPositive /\ Spec => []ParamInv
<1>0. CharsPositive => BinariesTravel
  BY ValuesTravel
<1>1. BinariesTravel /\ Init => ParamInv
  BY InitParams
<1>2. BinariesTravel /\ ParamInv /\ [Next]_vars => ParamInv'
  BY ParamStep
<1>3. SUFFICES ASSUME BinariesTravel
               PROVE  Spec => []ParamInv
  BY <1>0
<1>4. ParamInv /\ [Next]_vars => ParamInv'
  BY <1>2, <1>3
<1>5. Init => ParamInv
  BY <1>1, <1>3
<1> QED
  BY <1>4, <1>5, PTL DEF Spec

(* What an acknowledgement shows the server is the outcome of the update it    *)
(* answers, if Base64 carries the binary values: processConfig runs once       *)
(* the handler is over and publishes the values as they are then, and no       *)
(* handler in between changes one without taking over the acknowledgement.    *)
THEOREM AcknowledgementsTell == CharsPositive /\ Spec => []AcksTell
<1>1. ParamInv => AcksTell
  BY DEF ParamInv
<1> QED
  BY <1>1, ParamsHold, PTL

(* The code on dev/cmd/res is what the callback of the command with that id     *)
(* returned, and an error when it was not called (messageHandlerDevCmd),      *)
(* unless the id was taken from an argument of another command.              *)
THEOREM AnswersHold == Spec => []AnswersAreTrue
<1>1. CommandInv => AnswersAreTrue
  BY DEF CommandInv
<1> QED
  BY <1>1, InitCommands, CommandStep, PTL DEF Spec

LEMMA LostHolds == Spec => []Lost
  BY InitLost, LostStep, PTL DEF Spec

(* A command with a malformed argument costs a block, until none is left; no    *)
(* other message does (LiveBooster_msg_decode_cmd_req).                       *)
THEOREM LossIsKnown == Spec => []LostToBroken
<1>1. Lost => LostToBroken
  BY DEF Lost
<1> QED
  BY <1>1, LostHolds, PTL

LEMMA StreamsHold == Spec => []Streams
  BY InitStreams, StreamStep, PTL DEF Spec

(* The slot LiveBooster_AttachData returned for a stream keeps that stream.    *)
THEOREM HandlesAreKept == Spec => []HandlesHold
<1>1. Streams => HandlesHold
  <2> SUFFICES ASSUME Streams, NEW i \in DOMAIN handles
               PROVE  SetData[handles[i]] = i
    BY DEF HandlesHold
  <2>1. /\ Len(handles) \in Nat /\ Len(handles) <= Slots /\ Slots \in Nat
        /\ i \in 1 .. Len(handles) /\ handles[i] = i - 1
    BY Sizes DEF Streams
  <2>2. i - 1 \in 0 .. Slots - 1 /\ i - 1 < Len(handles) /\ i - 1 + 1 = i
    BY <2>1
  <2>3. QED
    BY <2>1, <2>2 DEF Streams
<1> QED
  BY <1>1, StreamsHold, PTL

(* Every variable stays in its range: the values of the parameters are of their  *)
(* types, and the names to acknowledge fit updatedParamTab.                    *)
THEOREM TypeCorrect == CharsPositive /\ Spec => []TypeOK
<1>1. Init => Where
  BY DEF Init, Where
<1>2. ParamInv /\ Lost /\ Streams /\ Where => TypeOK
  <2> SUFFICES ASSUME ParamInv, Lost, Streams, Where
               PROVE  TypeOK
    OBVIOUS
  <2>1. \A p \in ParamNames : value[p] \in Values[p] /\ wanted[p] \in Values[p]
    BY DEF ParamInv, ValuesKept
  <2>2. cid \in 0 .. MaxMessages /\ tab \in Tabs
    BY Sizes DEF ParamInv, ToAck
  <2>3. \A h \in 0 .. Slots - 1 : SetData[h] \in 0 .. Slots
    <3>1. Slots \in Nat /\ Len(handles) \in Nat
      BY Sizes DEF Streams
    <3>2. QED
      BY <3>1 DEF Streams, NoStream
  <2>4. QED
    BY <2>1, <2>2, <2>3, Zenon DEF TypeOK, Lost, Where, Tabs
<1> QED
  BY <1>1, <1>2, ParamsHold, LostHolds, StreamsHold, WhereStep, PTL DEF Spec
=============================================================================
