-------------------------------- MODULE Base64 --------------------------------
(***************************************************************************)
(* LiveBooster_code_b64.c, which codes the values of binary parameters, and  *)
(* Base64 as it is defined, which the server uses.  A character of the        *)
(* alphabet is its index 0 .. 63; Pad is "=".                                *)
(***************************************************************************)
EXTENDS Naturals, Sequences

CONSTANT CharSigned   (* is a char of the compiler signed?                   *)

ASSUME CharAssumption == CharSigned \in BOOLEAN

Pad == 64
B64EncodedSize(n) == 4 * ((n + 2) \div 3)

(* The elements of s before the first z.                                      *)
Before(s, z) == [i \in {n \in DOMAIN s : \A j \in 1 .. n : s[j] # z} |-> s[i]]

(* v << 8 | b, of which 24 bits are used: a negative char sets all the others. *)
Or(v, b) ==
  IF CharSigned /\ b >= 128 THEN 256 * 256 * 256 - 256 + b ELSE (v % (256 * 256)) * 256 + b

(* The byte at position k, zero behind the end, and the three from i on.       *)
Byte(in, k) == IF k <= Len(in) THEN in[k] ELSE 0
Triple(in, i) == Or(Or(Or(0, Byte(in, i)), Byte(in, i + 1)), Byte(in, i + 2))

B64Encode(in) ==
  [j \in 1 .. B64EncodedSize(Len(in)) |->
     LET k == (j - 1) % 4
         i == 3 * ((j - 1) \div 4) + 1
         v == Triple(in, i)
     IN IF k >= 2 /\ i + k - 1 > Len(in) THEN Pad
        ELSE <<v \div (64 * 64 * 64), v \div (64 * 64), v \div 64, v>>[k + 1] % 64]

(* The bytes b64_decode makes of groups of four characters, zeros for padding. *)
B64Bytes(in) ==
  LET sextet(i) == IF in[i] = Pad THEN 0 ELSE in[i]
      group(i) ==
        ((sextet(i) * 64 + sextet(i + 1)) * 64 + sextet(i + 2)) * 64 + sextet(i + 3)
  IN [j \in 1 .. 3 * (Len(in) \div 4) |->
        LET k == (j - 1) % 3
            i == 4 * ((j - 1) \div 3) + 1
            v == group(i)
        IN IF k > 0 /\ in[i + k + 1] = Pad THEN 0
           ELSE <<v \div (256 * 256), v \div 256, v>>[k + 1] % 256]

(* Mutant: the padding is part of the value.                                  *)
B64DecodePadded(in) == B64Bytes(in)

(* ... of which the first zero ends the string.                               *)
B64Decode(in) == Before(B64Bytes(in), 0)
-----------------------------------------------------------------------------
(* RFC 4648: three bytes are four digits of 6 bits, zeros behind the end, with *)
(* padding for the digits that no bit of the input is in.                    *)
Sextets(a, b, c) == <<a \div 4, 16 * (a % 4) + b \div 16, 4 * (b % 16) + c \div 64, c % 64>>
Octets(p, q, r, s) == <<4 * p + q \div 16, 16 * (q % 16) + r \div 4, 64 * (r % 4) + s>>

ServerEncodes(bytes) ==
  [j \in 1 .. B64EncodedSize(Len(bytes)) |->
     LET i == 3 * ((j - 1) \div 4) + 1
     IN IF j > (8 * Len(bytes) + 5) \div 6 THEN Pad
        ELSE Sextets(Byte(bytes, i), Byte(bytes, i + 1), Byte(bytes, i + 2))[((j - 1) % 4) + 1]]

ServerDecodes(chars) ==
  LET digits == Before(chars, Pad)
  IN [j \in 1 .. (6 * Len(digits)) \div 8 |->
        LET i == 4 * ((j - 1) \div 3) + 1
        IN Octets(Byte(digits, i), Byte(digits, i + 1), Byte(digits, i + 2),
                  Byte(digits, i + 3))[((j - 1) % 3) + 1]]
===============================================================================
