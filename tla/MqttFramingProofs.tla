-------------------------- MODULE MqttFramingProofs --------------------------
(***************************************************************************)
(* The safety of MqttFraming for any requests and answers of the protocol,    *)
(* any sizes of a buffer and of a stream, and however the modem cuts what it   *)
(* takes and gives.                                                         *)
(*                                                                         *)
(* What is under way to the client is a row of whole packets only as long as   *)
(* no read gave up inside one: the client has no way to find the next header   *)
(* then, and nothing is claimed of what it reads after that but the sizes.    *)
(*                                                                         *)
(* The last part is about the topic filters: the characters isTopicMatched      *)
(* goes through one by one are compared level by level, as MQTT says.         *)
(***************************************************************************)
EXTENDS MqttFraming, MqttPacketProofs, WellFoundedInduction, TLAPS

Resting == {"idle", "sending", "sent"}

(* Sizes: what is read is shorter than the buffer in every phase, also of a     *)
(* stream that makes no sense.                                               *)
Measured ==
  /\ due \in Seq(Replies) /\ wire \in Seq(Octet) /\ readbuf \in Seq(Octet)
  /\ pc # "idle" => open
  /\ pc \in Resting => readbuf = <<>>
  /\ pc = "length" => Len(readbuf) = 1
  /\ pc = "body" => Len(readbuf) <= 5
  /\ pc \in {"sending", "sent"} => IsRequest(request) /\ Serialize(request) # <<>>

TypeInv == TypeOK /\ Measured

(* What the server has is what sendPacket has written of the request.           *)
SendInv ==
  /\ spoiled => received = <<>>
  /\ open /\ ~spoiled =>
       /\ pc = "sending" /\ sent <= Len(Serialize(request)) =>
            received = SubSeq(Serialize(request), 1, sent)
       /\ pc = "sent" => received = Serialize(request)
       /\ pc \notin {"sending", "sent"} => received = <<>>

(* The stream s is the packets of d, and nothing more: rest[i] is what is left   *)
(* of it behind the i-th.                                                    *)
Framed(s, d) ==
  \E rest \in [0 .. Len(d) -> Seq(Octet)] :
    /\ rest[0] = s /\ rest[Len(d)] = <<>>
    /\ \A i \in 1 .. Len(d) : rest[i - 1] = ServerSerialize(d[i]) \o rest[i]

(* What has been read of the packet the client is at, and what is still under   *)
(* way, are the packets that are due.                                        *)
StreamInv ==
  open /\ late = 0 =>
    /\ Framed(readbuf \o wire, due)
    /\ pc = "body" => /\ due # <<>> /\ rem = Len(ServerBody(Head(due)))
                      /\ readbuf = <<Header(Head(due))>> \o EncodeLength(rem)
    /\ pc = "packet" => due # <<>> /\ readbuf = ServerSerialize(Head(due))

ReadInv == pc = "packet" => packet = ClientReads(readbuf)

(* A packet is whole: readPacket puts the length it understood behind the        *)
(* header, and reads as many bytes.                                          *)
FrameInv ==
  /\ pc = "body" => rem \in Measurable /\ \E h \in Octet : readbuf = <<h>> \o EncodeLength(rem)
  /\ pc = "packet" =>
       \E h \in Octet, body \in Seq(Octet) :
         Len(body) \in Measurable /\ readbuf = Frame(h, body)

Inv == TypeInv /\ SendInv /\ StreamInv /\ ReadInv /\ FrameInv
-----------------------------------------------------------------------------
(* A request is still one with its packet id.                                 *)
LEMMA Numbered ==
  ASSUME NEW p \in Packets, NEW k \in Short, NEW q, q = [p EXCEPT !.number = k]
  PROVE  /\ q = Packet(p.type, p.qos, p.flags, k, p.strings, p.rest)
         /\ q \in Packets
<1>1. q = Packet(p.type, p.qos, p.flags, k, p.strings, p.rest)
  BY DEF Packets, Packet
<1>2. q \in Packets
  BY DEF Packets
<1>3. QED
  BY <1>1, <1>2

(* sendPacket gives SUBSCRIBE, UNSUBSCRIBE and PUBLISH an id; all else stays. *)
LEMMA NumberedIsRequest ==
  ASSUME NEW p, IsRequest(p), NeedsId(p), NEW k \in Short
  PROVE  IsRequest([p EXCEPT !.number = k])
<1>1. p \in Packets /\ \A i \in DOMAIN p.strings : IsString(p.strings[i])
  BY DEF IsRequest
<1>2. PICK q : q = [p EXCEPT !.number = k]
  OBVIOUS
<1>3. q \in Packets /\ q = Packet(p.type, p.qos, p.flags, k, p.strings, p.rest)
  BY <1>1, <1>2, Numbered
<1>4. /\ q.type = p.type /\ q.qos = p.qos /\ q.flags = p.flags /\ q.number = k
      /\ q.strings = p.strings /\ q.rest = p.rest
  BY <1>3, FieldsOf
<1>5. \A i \in DOMAIN q.strings : IsString(q.strings[i])
  BY <1>1, <1>4
<1>6. p.type \in {SUBSCRIBE, UNSUBSCRIBE, PUBLISH} /\ (p.type = PUBLISH => p.qos > 0)
  BY DEF NeedsId, SUBSCRIBE, UNSUBSCRIBE, PUBLISH
<1>7. CASE p.type = SUBSCRIBE
  <2>1. p = Packet(SUBSCRIBE, 1, 0, p.number, p.strings, p.rest)
        /\ Len(p.strings) = 1 /\ Len(p.rest) = 1
    BY <1>7 DEF IsRequest, IsConnect, IsPublish, Packet, CONNECT, PUBLISH, PUBACK, SUBSCRIBE,
               UNSUBSCRIBE, PINGREQ, DISCONNECT
  <2>2. p.qos = 1 /\ p.flags = 0
    BY <2>1, FieldsOf
  <2>3. q = Packet(SUBSCRIBE, 1, 0, q.number, q.strings, q.rest)
    BY <1>3, <1>4, <1>7, <2>2
  <2>4. QED
    BY <1>2, <1>3, <1>4, <1>5, <2>1, <2>3 DEF IsRequest
<1>8. CASE p.type = UNSUBSCRIBE
  <2>1. p = Packet(UNSUBSCRIBE, 1, 0, p.number, p.strings, <<>>) /\ Len(p.strings) = 1
    BY <1>8 DEF IsRequest, IsConnect, IsPublish, Packet, CONNECT, PUBLISH, PUBACK, SUBSCRIBE,
               UNSUBSCRIBE, PINGREQ, DISCONNECT
  <2>2. p.qos = 1 /\ p.flags = 0 /\ p.rest = <<>>
    BY <2>1, FieldsOf
  <2>3. q = Packet(UNSUBSCRIBE, 1, 0, q.number, q.strings, <<>>)
    BY <1>3, <1>4, <1>8, <2>2
  <2>4. QED
    BY <1>2, <1>3, <1>4, <1>5, <2>1, <2>3 DEF IsRequest
<1>9. CASE p.type = PUBLISH
  <2>1. IsPublish(p)
    BY <1>9 DEF IsRequest, IsConnect, Packet, CONNECT, PUBLISH, PUBACK, SUBSCRIBE,
               UNSUBSCRIBE, PINGREQ, DISCONNECT
  <2>2. /\ p = Packet(PUBLISH, p.qos, 0, p.number, p.strings, p.rest)
        /\ Len(p.strings) = 1 /\ PublishLength(p) < Power128[5]
    BY <2>1, Zenon DEF IsPublish
  <2>3. p.flags = 0
    BY <2>2, FieldsOf
  <2>4. q = Packet(PUBLISH, q.qos, 0, q.number, q.strings, q.rest)
    BY <1>3, <1>4, <1>9, <2>3
  <2>5. PublishLength(q) = PublishLength(p)
    BY <1>4 DEF PublishLength
  <2>6. q.qos # 0
    BY <1>4, <1>6, <1>9
  <2>7. IsPublish(q)
    BY <1>4, <2>2, <2>4, <2>5, <2>6, Zenon DEF IsPublish
  <2>8. QED
    BY <1>2, <1>3, <1>5, <2>7 DEF IsRequest
<1>10. QED
  BY <1>6, <1>7, <1>8, <1>9

(* Packet ids are 16 bits wide. *)
LEMMA IdRange == MaxPacketId \in Nat /\ MaxPacketId > 0 /\ 1 .. MaxPacketId \subseteq Short
<1>0. MaxPacketId \in Short /\ MaxPacketId # 0
  BY IdAssumption
<1>1. PICK m \in Short : m = MaxPacketId
  BY <1>0
<1>2. m \in Nat /\ m < 256 * 256
  BY DEF Short
<1>3. m > 0
  BY <1>0, <1>1, <1>2
<1>4. ASSUME NEW k \in 1 .. m
      PROVE  k \in Short
  <2>1. k \in Nat /\ k < 256 * 256
    BY <1>2
  <2>2. QED
    BY <2>1 DEF Short
<1>5. QED
  BY <1>1, <1>2, <1>3, <1>4

(* getNextPacketId stays in the range. *)
LEMMA IdsAreShort ==
  ASSUME next_packetid \in 1 .. MaxPacketId
  PROVE  NextPacketId \in 1 .. MaxPacketId /\ NextPacketId \in Short
<1>2. NextPacketId \in 1 .. MaxPacketId
  BY IdRange DEF NextPacketId
<1>3. QED
  BY IdRange, <1>2

(* What ReadLength takes is there, and what it puts in the buffer fits.        *)
LEMMA LengthFits ==
  ASSUME wire \in Seq(Octet), NEW n \in 0 .. 4, ReadLength(n)
  PROVE  /\ n <= Len(wire) /\ Len(wire) \in Nat
         /\ rem' = DecodeLength(SubSeq(wire, 1, n)).value /\ rem' \in Measurable
         /\ EncodeLength(rem') \in Seq(Octet) /\ Len(EncodeLength(rem')) \in 1 .. 4
<1>1. PICK k : k = Min({4, Len(wire)})
  OBVIOUS
<1>2. /\ k \in 0 .. 4 /\ k <= Len(wire)
      /\ SubSeq(wire, 1, k) \in Seq(Octet) /\ Len(SubSeq(wire, 1, k)) = k
  BY <1>1, FirstFour, Zenon
<1>3. DecodeLength(SubSeq(wire, 1, k)).size \in 0 .. k
  <2>1. PICK b : b = SubSeq(wire, 1, k)
    OBVIOUS
  <2>2. b \in Seq(Octet) /\ Len(b) = k /\ Len(b) <= 4
    BY <1>2, <2>1
  <2>3. DecodeLength(b).size \in 0 .. Len(b)
    BY <2>2, DecodedIsSmall
  <2>4. QED
    BY <2>1, <2>2, <2>3
<1>4. n <= DecodeLength(SubSeq(wire, 1, k)).size
  BY <1>1, <1>3 DEF ReadLength
<1>5. n <= Len(wire) /\ Len(wire) \in Nat
  BY <1>2, <1>3, <1>4, LenProperties
<1>6. rem' = DecodeLength(SubSeq(wire, 1, n)).value
  BY DEF ReadLength
<1>7. SubSeq(wire, 1, n) \in Seq(Octet) /\ Len(SubSeq(wire, 1, n)) = n
  <2>1. n \in 0 .. Len(wire)
    BY <1>5
  <2>2. QED
    BY <2>1, Split, Zenon
<1>8. rem' \in Measurable
  <2>1. PICK b : b = SubSeq(wire, 1, n)
    OBVIOUS
  <2>2. b \in Seq(Octet) /\ Len(b) <= 4
    BY <1>7, <2>1
  <2>3. DecodeLength(b).value \in Measurable
    BY <2>2, DecodedIsSmall
  <2>4. QED
    BY <1>6, <2>1, <2>3
<1>9. PICK r \in Measurable : r = rem'
  BY <1>8
<1>10. EncodeLength(r) \in Seq(Octet) /\ Len(EncodeLength(r)) \in 1 .. 4
  BY Encoded
<1>11. QED
  BY <1>5, <1>6, <1>9, <1>10
-----------------------------------------------------------------------------
(* No session is open in the beginning. *)
LEMMA TypeHolds == Init => TypeInv
<1> SUFFICES ASSUME Init PROVE TypeInv
  OBVIOUS
<1>0. /\ 1 \in 1 .. MaxPacketId /\ 0 \in 0 .. MaxLate /\ 0 <= MaxReplies /\ 0 <= BufferSize
      /\ Len(<<>>) = 0
  BY IdAssumption, IdRange, BufferAssumption
<1>1. TypeOK
  BY <1>0 DEF Init, TypeOK
<1>2. Measured
  BY DEF Init, Measured, Resting
<1>3. QED
  BY <1>1, <1>2 DEF TypeInv

(* The writes of one packet are of some bytes.                                *)
LEMMA PiecesAre ==
  ASSUME TypeInv, pc \in {"sending", "sent"}
  PROVE  /\ Serialize(request) \in Seq(Octet) /\ Len(Serialize(request)) \in Nat
         /\ Len(Serialize(request)) > 1
         /\ sent < Len(Serialize(request)) => Pieces \subseteq Nat \ {0}
<1>1. IsRequest(request) /\ Serialize(request) # <<>>
  BY DEF TypeInv, Measured
<1>2. PICK b : b = Serialize(request)
  OBVIOUS
<1>3. b \in Seq(Octet) /\ Len(b) \in Nat /\ Len(b) > 1
  BY <1>1, <1>2, RequestBytes
<1>4. sent \in Nat
  BY DEF TypeInv, TypeOK
<1>5. Pieces \subseteq {1, (Len(b) - sent) \div 2, Len(b) - sent, Len(b)} \ {0}
  BY <1>2 DEF Pieces
<1>6. sent < Len(b) => (Len(b) - sent) \div 2 \in Nat
  BY <1>3, <1>4
<1>7. sent < Len(b) => Pieces \subseteq Nat \ {0}
  BY <1>3, <1>4, <1>5, <1>6
<1>8. QED
  BY <1>2, <1>3, <1>7

(* The sizes and ranges, action by action. *)
LEMMA SendTyped ==
  ASSUME TypeInv, NEW p \in Requests, Send(p)
  PROVE  TypeInv'
<1>1. PICK q : q = IF NeedsId(p) THEN [p EXCEPT !.number = NextPacketId] ELSE p
  OBVIOUS
<1>2. IsRequest(q)
  BY <1>1, PacketAssumption, NumberedIsRequest, IdsAreShort DEF TypeInv, TypeOK
<1>3. next_packetid' \in 1 .. MaxPacketId
  BY IdsAreShort DEF TypeInv, TypeOK, Send
<1>4. CASE Serialize(q) = <<>>
  <2>1. /\ pc' = "idle" /\ open' \in BOOLEAN /\ sent' = sent
        /\ UNCHANGED <<received, spoiled, readVars, netVars>>
    BY <1>1, <1>4 DEF Send
  <2>2. QED
    BY <1>3, <2>1 DEF TypeInv, TypeOK, Measured, Resting, Send, readVars, netVars
<1>5. CASE Serialize(q) # <<>>
  <2>1. /\ pc' = "sending" /\ request' = q /\ sent' = 0
        /\ UNCHANGED <<open, received, spoiled, readVars, netVars>>
    BY <1>1, <1>5 DEF Send
  <2>2. IsRequest(request') /\ Serialize(request') # <<>>
    BY <1>2, <1>5, <2>1
  <2>3. pc = "idle" /\ open
    BY DEF Send
  <2>4. TypeOK'
    BY <1>3, <2>1 DEF TypeInv, TypeOK, readVars, netVars
  <2>5. Measured'
    BY <2>1, <2>2, <2>3 DEF TypeInv, Measured, Resting, readVars, netVars
  <2>6. QED
    BY <2>4, <2>5 DEF TypeInv
<1>6. QED
  BY <1>4, <1>5

(* A write in part or whole. *)
LEMMA WriteTyped ==
  ASSUME TypeInv, NEW n \in Pieces, Write(n)
  PROVE  TypeInv'
<1>1. pc = "sending" /\ sent < Len(Serialize(request))
  BY DEF Write
<1>2. n \in Nat
  BY <1>1, PiecesAre
<1>3. sent' \in Nat
  BY <1>2 DEF Write, TypeInv, TypeOK
<1>4. pc' \in {"sending", "sent"} /\ UNCHANGED <<open, next_packetid, request, spoiled, readVars, netVars>>
  BY DEF Write
<1>5. TypeOK'
  BY <1>3, <1>4 DEF TypeInv, TypeOK, readVars, netVars
<1>6. Measured'
  BY <1>1, <1>4 DEF TypeInv, Measured, Resting, readVars, netVars
<1>7. QED
  BY <1>5, <1>6 DEF TypeInv

(* A write that fails. *)
LEMMA SendFailsTyped ==
  ASSUME TypeInv, SendFails
  PROVE  TypeInv'
<1>1. /\ pc = "sending" /\ pc' = "idle" /\ open' \in BOOLEAN /\ spoiled' \in BOOLEAN /\ sent' = 0
      /\ UNCHANGED <<next_packetid, readVars, netVars>>
  BY DEF SendFails, SendForgotten, TypeInv, TypeOK
<1>2. TypeOK'
  BY <1>1 DEF TypeInv, TypeOK, readVars, netVars
<1>3. Measured'
  BY <1>1 DEF TypeInv, Measured, Resting, readVars, netVars
<1>4. QED
  BY <1>2, <1>3 DEF TypeInv

(* The last byte is written. *)
LEMMA SendEndsTyped ==
  ASSUME TypeInv, SendEnds
  PROVE  TypeInv'
<1>1. /\ pc = "sent" /\ pc' = "idle" /\ sent' = 0
      /\ UNCHANGED <<open, next_packetid, spoiled, readVars, netVars>>
  BY DEF SendEnds, SendForgotten
<1>2. TypeOK'
  BY <1>1 DEF TypeInv, TypeOK, readVars, netVars
<1>3. Measured'
  BY <1>1 DEF TypeInv, Measured, Resting, readVars, netVars
<1>4. QED
  BY <1>2, <1>3 DEF TypeInv

(* The server adds a packet to the stream. *)
LEMMA ServerSendsTyped ==
  ASSUME TypeInv, NEW p \in Replies, ServerSends(p)
  PROVE  TypeInv'
<1>1. ServerSerialize(p) \in Seq(Octet)
  BY PacketAssumption, ReplyBytes
<1>2. /\ due \in Seq(Replies) /\ wire \in Seq(Octet) /\ Len(due) < MaxReplies
      /\ UNCHANGED <<pc, open, sendVars, readVars>>
  BY DEF ServerSends, TypeInv, Measured
<1>3. due' \in Seq(Replies) /\ Len(due') = Len(due) + 1 /\ Len(due) \in Nat
  BY <1>2, AppendProperties, LenProperties DEF ServerSends
<1>4. wire' \in Seq(Octet)
  BY <1>1, <1>2, ConcatProperties DEF ServerSends
<1>5. Len(due') <= MaxReplies
  BY <1>2, <1>3, IdAssumption
<1>6. TypeOK'
  BY <1>2, <1>5 DEF TypeInv, TypeOK, sendVars, readVars
<1>7. Measured'
  BY <1>2, <1>3, <1>4 DEF TypeInv, Measured, Resting, sendVars, readVars
<1>8. QED
  BY <1>6, <1>7 DEF TypeInv

(* A read takes what is there.                                                *)
LEMMA Taken ==
  ASSUME TypeInv, NEW n \in Nat, n <= Len(wire), Take(n)
  PROVE  /\ wire' \in Seq(Octet) /\ SubSeq(wire, 1, n) \in Seq(Octet)
         /\ Len(SubSeq(wire, 1, n)) = n
         /\ SubSeq(wire, 1, n) \o wire' = wire
<1>1. wire \in Seq(Octet) /\ Len(wire) \in Nat
  BY LenProperties DEF TypeInv, Measured
<1>2. n \in 0 .. Len(wire)
  BY <1>1
<1>3. wire' = From(wire, n + 1)
  BY DEF Take
<1>4. QED
  BY <1>1, <1>2, <1>3, Split, Zenon

(* A read that gives up with more under way counts, one that has it all does not. *)
LEMMA GivenUp ==
  ASSUME TypeInv, NEW n, GivesUp(n)
  PROVE  /\ late' \in 0 .. MaxLate
         /\ late' = 0 => late = 0 /\ ~(n < Len(wire))
  BY IdAssumption DEF GivesUp, TypeInv, TypeOK

(* The header is the first byte under way. *)
LEMMA ReadHeaderTyped ==
  ASSUME TypeInv, ReadHeader
  PROVE  TypeInv' /\ readbuf' \o wire' = wire
<1>1. /\ pc = "idle" /\ open /\ wire # <<>> /\ readbuf' = <<wire[1]>> /\ rem' = 0 /\ Take(1)
      /\ pc' = "length" /\ UNCHANGED <<open, late, packet, sendVars, due>>
  BY DEF ReadHeader
<1>2. wire \in Seq(Octet) /\ Len(wire) \in Nat /\ 1 <= Len(wire)
  <2>1. wire \in Seq(Octet)
    BY DEF TypeInv, Measured
  <2>2. Len(wire) \in Nat /\ Len(wire) # 0
    BY <1>1, <2>1, EmptySeq, LenProperties
  <2>3. QED
    BY <2>1, <2>2
<1>3. wire[1] \in Octet
  BY <1>2, ElementOfSeq
<1>4. PICK h \in Octet : h = wire[1]
  BY <1>3
<1>5. readbuf' = <<h>> /\ <<h>> \in Seq(Octet) /\ Len(<<h>>) = 1 /\ <<h>>[1] = h
  BY <1>1, <1>4, Single
<1>6. /\ wire' \in Seq(Octet) /\ SubSeq(wire, 1, 1) \in Seq(Octet)
      /\ Len(SubSeq(wire, 1, 1)) = 1 /\ SubSeq(wire, 1, 1) \o wire' = wire
  BY <1>1, <1>2, Taken
<1>7. SubSeq(wire, 1, 1) = <<h>>
  <2>1. SubSeq(wire, 1, 1)[1] = wire[1]
    BY <1>2, <1>3, SubSeqProperties, SMT
  <2>2. PICK u : u = SubSeq(wire, 1, 1)
    OBVIOUS
  <2>3. u \in Seq(Octet) /\ Len(u) = 1 /\ u[1] = h
    BY <1>4, <1>6, <2>1, <2>2
  <2>4. \A i \in 1 .. 1 : u[i] = <<h>>[i]
    BY <1>5, <2>3
  <2>5. u = <<h>>
    BY <1>5, <2>3, <2>4, SeqEqual
  <2>6. QED
    BY <2>2, <2>5
<1>8. BufferSize \in Nat /\ 1 <= BufferSize
  BY BufferAssumption
<1>9. Len(readbuf') = 1 /\ readbuf' \in Seq(Octet)
  BY <1>5
<1>10. TypeOK'
  BY <1>1, <1>8, <1>9 DEF TypeInv, TypeOK, sendVars
<1>11. Measured'
  BY <1>1, <1>6, <1>9 DEF TypeInv, Measured, Resting, sendVars
<1>12. QED
  BY <1>5, <1>6, <1>7, <1>10, <1>11 DEF TypeInv

(* Behind the header there are four bytes at most. *)
LEMMA ReadLengthTyped ==
  ASSUME TypeInv, NEW n \in 0 .. 4, ReadLength(n)
  PROVE  TypeInv'
<1>1. wire \in Seq(Octet) /\ readbuf \in Seq(Octet)
  BY DEF TypeInv, Measured
<1>2. /\ n \in Nat /\ n <= Len(wire) /\ rem' \in Measurable
      /\ EncodeLength(rem') \in Seq(Octet) /\ Len(EncodeLength(rem')) \in 1 .. 4
  BY <1>1, LengthFits
<1>3. /\ pc = "length" /\ pc' = "body" /\ Take(n) /\ readbuf' = readbuf \o EncodeLength(rem')
      /\ UNCHANGED <<open, packet, sendVars, due>>
  BY DEF ReadLength
<1>4. Len(readbuf) = 1
  BY <1>3 DEF TypeInv, Measured
<1>5. readbuf' \in Seq(Octet) /\ Len(readbuf') = 1 + Len(EncodeLength(rem'))
  <2>1. PICK e : e = EncodeLength(rem')
    OBVIOUS
  <2>2. e \in Seq(Octet) /\ readbuf' = readbuf \o e
    BY <1>2, <1>3, <2>1
  <2>3. readbuf' \in Seq(Octet) /\ Len(readbuf') = Len(readbuf) + Len(e)
    BY <1>1, <2>2, ConcatProperties, Zenon
  <2>4. QED
    BY <1>4, <2>1, <2>3
<1>6. Len(readbuf') \in Nat /\ Len(readbuf') <= 5
  <2>1. PICK k \in 1 .. 4 : k = Len(EncodeLength(rem'))
    BY <1>2
  <2>2. Len(readbuf') = 1 + k
    BY <1>5, <2>1
  <2>3. QED
    BY <2>2
<1>7. wire' \in Seq(Octet)
  BY <1>2, <1>3, Taken
<1>8. late' \in 0 .. MaxLate
  BY GivenUp DEF ReadLength, TypeInv, TypeOK
<1>9. rem' \in Nat
  BY <1>2 DEF Measurable
<1>10. Len(readbuf') <= BufferSize
  BY <1>6, BufferAssumption
<1>11. TypeOK'
  BY <1>3, <1>8, <1>9, <1>10 DEF TypeInv, TypeOK, sendVars
<1>12. Measured'
  BY <1>3, <1>5, <1>6, <1>7 DEF TypeInv, Measured, Resting, sendVars
<1>13. QED
  BY <1>11, <1>12 DEF TypeInv

(* readPacket returns with nothing kept. *)
LEMMA ForgottenTyped ==
  ASSUME TypeInv, ReadForgotten, pc' = "idle", open' \in BOOLEAN, late' \in 0 .. MaxLate,
         wire' \in Seq(Octet), due' \in Seq(Replies), Len(due') <= MaxReplies,
         UNCHANGED sendVars
  PROVE  TypeInv'
<1>1. readbuf' \in Seq(Octet) /\ Len(readbuf') = 0
  BY EmptySeq DEF ReadForgotten
<1>2. TypeOK'
  BY <1>1, BufferAssumption DEF TypeInv, TypeOK, ReadForgotten, sendVars
<1>3. Measured'
  BY <1>1 DEF TypeInv, Measured, Resting, ReadForgotten, sendVars
<1>4. QED
  BY <1>2, <1>3 DEF TypeInv

(* The packet is refused. *)
LEMMA ReadTooLongTyped ==
  ASSUME TypeInv, ReadTooLong
  PROVE  TypeInv'
<1>1. /\ ReadForgotten /\ pc' = "idle" /\ open' \in BOOLEAN /\ UNCHANGED sendVars
      /\ wire' = wire /\ due' = due /\ late' = late
  BY DEF ReadTooLong, netVars
<1>2. /\ late' \in 0 .. MaxLate /\ wire' \in Seq(Octet) /\ due' \in Seq(Replies)
      /\ Len(due') <= MaxReplies
  BY <1>1 DEF TypeInv, TypeOK, Measured
<1>3. QED
  BY <1>1, <1>2, ForgottenTyped

(* Part of the body is read and forgotten. *)
LEMMA ReadShortTyped ==
  ASSUME TypeInv, NEW n, ReadShort(n)
  PROVE  TypeInv'
<1>1. /\ ReadForgotten /\ pc' = "idle" /\ open' \in BOOLEAN /\ UNCHANGED <<sendVars, due>>
      /\ n \in Nat /\ n <= Len(wire) /\ Take(n) /\ GivesUp(n)
  BY DEF ReadShort, TypeInv, TypeOK
<1>2. wire' \in Seq(Octet)
  BY <1>1, Taken
<1>3. late' \in 0 .. MaxLate
  BY <1>1, GivenUp
<1>4. open' \in BOOLEAN /\ due' \in Seq(Replies) /\ Len(due') <= MaxReplies /\ UNCHANGED sendVars
  BY <1>1 DEF TypeInv, TypeOK, Measured
<1>5. QED
  BY <1>1, <1>2, <1>3, <1>4, ForgottenTyped

(* The body is moved from the stream to the buffer, where it fits. *)
LEMMA ReadBodyTyped ==
  ASSUME TypeInv, ReadBody
  PROVE  /\ TypeInv'
         /\ readbuf' \o wire' = readbuf \o wire
         /\ SubSeq(wire, 1, rem) \in Seq(Octet) /\ Len(SubSeq(wire, 1, rem)) = rem
<1>1. /\ pc = "body" /\ pc' = "packet" /\ ~TooLong /\ rem <= Len(wire) /\ Take(rem)
      /\ readbuf' = readbuf \o SubSeq(wire, 1, rem)
      /\ UNCHANGED <<open, rem, late, sendVars, due>>
  BY DEF ReadBody
<1>2. PICK u : u = SubSeq(wire, 1, rem)
  OBVIOUS
<1>3. /\ rem \in Nat /\ readbuf \in Seq(Octet) /\ Len(readbuf) \in Nat
  BY LenProperties DEF TypeInv, TypeOK, Measured
<1>4. wire' \in Seq(Octet) /\ u \in Seq(Octet) /\ Len(u) = rem /\ u \o wire' = wire
  BY <1>1, <1>2, <1>3, Taken
<1>5. readbuf' = readbuf \o u
  BY <1>1, <1>2
<1>6. readbuf' \in Seq(Octet) /\ Len(readbuf') = Len(readbuf) + rem
  BY <1>3, <1>4, <1>5, ConcatProperties, Zenon
<1>7. readbuf' \o wire' = readbuf \o wire
  <2>1. PICK w : w = wire'
    OBVIOUS
  <2>2. (readbuf \o u) \o w = readbuf \o (u \o w)
    BY <1>3, <1>4, <2>1, ConcatAssociative, SMTT(40)
  <2>3. u \o w = wire
    BY <1>4, <2>1
  <2>4. readbuf' \o w = readbuf \o wire
    BY <1>5, <2>2, <2>3
  <2>5. QED
    BY <2>1, <2>4
<1>8. Len(readbuf') <= BufferSize
  BY <1>1, <1>3, <1>6, BufferAssumption DEF TooLong
<1>9. TypeOK'
  BY <1>1, <1>8 DEF TypeInv, TypeOK, sendVars
<1>10. Measured'
  BY <1>1, <1>4, <1>6 DEF TypeInv, Measured, Resting, sendVars
<1>11. QED
  BY <1>2, <1>4, <1>7, <1>9, <1>10 DEF TypeInv

(* The packet is handled, and with it one that was due. *)
LEMMA HandleTyped ==
  ASSUME TypeInv, StreamInv, Handle
  PROVE  TypeInv'
<1>1. /\ ReadForgotten /\ pc = "packet" /\ pc' = "idle" /\ open' \in BOOLEAN /\ UNCHANGED sendVars
      /\ wire' = wire /\ late' = late /\ due' = IF late > 0 THEN due ELSE Tail(due)
  BY DEF Handle
<1>2. /\ late' \in 0 .. MaxLate /\ wire' \in Seq(Octet) /\ due \in Seq(Replies)
      /\ Len(due) <= MaxReplies /\ open
  BY <1>1 DEF TypeInv, TypeOK, Measured
<1>3. due' \in Seq(Replies) /\ Len(due') <= MaxReplies
  <2>1. CASE late > 0
    BY <1>1, <1>2, <2>1
  <2>2. CASE ~(late > 0)
    <3>1. late = 0
      BY <1>1, <1>2, <2>2, IdAssumption
    <3>2. due # <<>>
      BY <1>1, <1>2, <3>1 DEF StreamInv
    <3>3. Tail(due) \in Seq(Replies) /\ Len(Tail(due)) = Len(due) - 1 /\ Len(due) \in Nat
      BY <1>2, <3>2, HeadTailProperties, LenProperties
    <3>4. QED
      BY <1>1, <1>2, <2>2, <3>3, IdAssumption
  <2>3. QED
    BY <2>1, <2>2
<1>4. QED
  BY <1>1, <1>2, <1>3, ForgottenTyped

(* A new connection has nothing under way. *)
LEMMA OpenTyped ==
  ASSUME TypeInv, Open
  PROVE  TypeInv'
<1>1. /\ pc = "idle" /\ open' = TRUE /\ next_packetid' = 1 /\ spoiled' = FALSE
      /\ wire' = <<>> /\ due' = <<>> /\ late' = 0
      /\ UNCHANGED <<pc, request, sent, readbuf, rem, packet>>
  BY DEF Open
<1>0. 1 \in 1 .. MaxPacketId /\ 0 \in 0 .. MaxLate /\ 0 <= MaxReplies /\ Len(<<>>) = 0
  BY IdAssumption, IdRange
<1>2. TypeOK'
  BY <1>0, <1>1 DEF TypeInv, TypeOK
<1>3. Measured'
  BY <1>1 DEF TypeInv, Measured, Resting
<1>4. QED
  BY <1>2, <1>3 DEF TypeInv

(* The sizes and ranges are kept by every step. *)
LEMMA TypeStep ==
  ASSUME TypeInv, StreamInv, [Next]_vars
  PROVE  TypeInv'
<1>1. CASE Open
  BY <1>1, OpenTyped
<1>2. ASSUME NEW p \in Requests, Send(p) PROVE TypeInv'
  BY <1>2, SendTyped
<1>3. ASSUME NEW n \in Pieces, Write(n) PROVE TypeInv'
  BY <1>3, WriteTyped
<1>4. CASE SendFails
  BY <1>4, SendFailsTyped
<1>5. CASE SendEnds
  BY <1>5, SendEndsTyped
<1>6. ASSUME NEW p \in Replies, ServerSends(p) PROVE TypeInv'
  BY <1>6, ServerSendsTyped
<1>7. CASE ReadHeader
  BY <1>7, ReadHeaderTyped
<1>8. ASSUME NEW n \in 0 .. 4, ReadLength(n) PROVE TypeInv'
  BY <1>8, ReadLengthTyped
<1>9. CASE ReadTooLong
  BY <1>9, ReadTooLongTyped
<1>10. ASSUME NEW n, ReadShort(n) PROVE TypeInv'
  BY <1>10, ReadShortTyped
<1>11. CASE ReadBody
  BY <1>11, ReadBodyTyped
<1>12. CASE Handle
  BY <1>12, HandleTyped
<1>13. CASE UNCHANGED vars
  BY <1>13 DEF TypeInv, TypeOK, Measured, Resting, vars, sendVars, readVars, netVars
<1>14. QED
  BY <1>1, <1>2, <1>3, <1>4, <1>5, <1>6, <1>7, <1>8, <1>9, <1>10, <1>11, <1>12, <1>13, Zenon
     DEF Next
-----------------------------------------------------------------------------
(* None of a sequence, all of it, and what is behind its end. *)
LEMMA NothingTaken ==
  ASSUME NEW s \in Seq(Octet)
  PROVE  /\ SubSeq(s, 1, 0) = <<>> /\ SubSeq(s, 1, Len(s)) = s
         /\ From(s, Len(s) + 1) = <<>>
<1>1. Len(s) \in Nat
  BY LenProperties
<1>2. 0 \in 0 .. Len(s) /\ Len(s) \in 0 .. Len(s)
  BY <1>1
<1>3. SubSeq(s, 1, 0) \in Seq(Octet) /\ Len(SubSeq(s, 1, 0)) = 0
  BY <1>2, Split, Zenon
<1>4. From(s, Len(s) + 1) \in Seq(Octet) /\ Len(From(s, Len(s) + 1)) = Len(s) - Len(s)
  BY <1>2, Split, Zenon
<1>5. Len(s) - Len(s) = 0
  BY <1>1
<1>6. QED
  BY <1>3, <1>4, <1>5, EmptySeq, SubSeqFull, Zenon

(* A part of the bytes of a packet.                                          *)
LEMMA Slice ==
  ASSUME NEW b, NEW i \in Int, NEW j \in Int, \A x \in i .. j : b[x] \in Octet,
         NEW u, u = SubSeq(b, i, j)
  PROVE  /\ u \in Seq(Octet)
         /\ Len(u) = IF i <= j THEN j - i + 1 ELSE 0
         /\ \A x \in 1 .. j - i + 1 : u[x] = b[i + x - 1]
<1>1. /\ SubSeq(b, i, j) \in Seq(Octet)
      /\ Len(SubSeq(b, i, j)) = IF i <= j THEN j - i + 1 ELSE 0
      /\ \A x \in 1 .. j - i + 1 : SubSeq(b, i, j)[x] = b[i + x - 1]
  BY SubSeqProperties
<1>2. QED
  BY <1>1, Zenon

(* A write that stays inside the packet adds its next n bytes.                 *)
LEMMA Written ==
  ASSUME NEW b \in Seq(Octet), NEW k \in Nat, NEW n \in Nat,
         NEW w, w = [i \in 1 .. n |-> IF k + i <= Len(b) THEN b[k + i] ELSE 0]
  PROVE  k + n <= Len(b) => SubSeq(b, 1, k) \o w = SubSeq(b, 1, k + n)
<1> SUFFICES ASSUME k + n <= Len(b)
             PROVE  SubSeq(b, 1, k) \o w = SubSeq(b, 1, k + n)
  OBVIOUS
<1>1. Len(b) \in Nat /\ \A i \in 1 .. Len(b) : b[i] \in Octet
  BY LenProperties, ElementOfSeq
<1>2. PICK u : u = SubSeq(b, k + 1, k + n)
  OBVIOUS
<1>3. u \in Seq(Octet) /\ Len(u) = n /\ \A i \in 1 .. n : u[i] = b[k + i]
  <2>1. PICK m \in Int, e \in Int : m = k + 1 /\ e = k + n
    OBVIOUS
  <2>2. \A i \in m .. e : b[i] \in Octet
    BY <1>1, <2>1
  <2>3. u = SubSeq(b, m, e)
    BY <1>2, <2>1
  <2>4. /\ u \in Seq(Octet)
        /\ Len(u) = IF m <= e THEN e - m + 1 ELSE 0
        /\ \A i \in 1 .. e - m + 1 : u[i] = b[m + i - 1]
    BY <2>2, <2>3, Slice
  <2>5. e - m + 1 = n /\ (IF m <= e THEN e - m + 1 ELSE 0) = n
    BY <2>1
  <2>6. \A i \in 1 .. n : m + i - 1 = k + i
    BY <2>1
  <2>7. QED
    BY <2>4, <2>5, <2>6, Zenon
<1>4. w = [i \in 1 .. n |-> b[k + i]]
  <2>1. \A i \in 1 .. n : k + i <= Len(b)
    BY <1>1
  <2>2. QED
    BY <2>1
<1>5. u = [i \in 1 .. n |-> u[i]]
  BY <1>3, LenProperties
<1>6. w = u
  BY <1>3, <1>4, <1>5
<1>7. 1 \in 1 .. k + 1 /\ k \in 1 - 1 .. k + n /\ k + n \in k .. Len(b)
  BY <1>1
<1>8. SubSeq(b, 1, k) \o SubSeq(b, k + 1, k + n) = SubSeq(b, 1, k + n)
  BY <1>7, ConcatAdjacentSubSeq
<1>9. QED
  BY <1>2, <1>6, <1>8

(* The server has nothing in the beginning. *)
LEMMA SendHolds == Init => SendInv
  BY DEF Init, SendInv

(* Nothing is written yet of a packet that is serialized. *)
LEMMA SendStarts ==
  ASSUME TypeInv, SendInv, NEW p \in Requests, Send(p)
  PROVE  SendInv'
<1>1. PICK q : q = IF NeedsId(p) THEN [p EXCEPT !.number = NextPacketId] ELSE p
  OBVIOUS
<1>2. pc = "idle" /\ open /\ received' = received /\ spoiled' = spoiled
  BY DEF Send
<1>3. ~spoiled => received = <<>>
  BY <1>2 DEF SendInv
<1>4. CASE Serialize(q) = <<>>
  <2>1. pc' = "idle"
    BY <1>1, <1>2, <1>4 DEF Send
  <2>2. QED
    BY <1>2, <1>3, <2>1 DEF SendInv
<1>5. CASE Serialize(q) # <<>>
  <2>1. pc' = "sending" /\ request' = q /\ sent' = 0
    BY <1>1, <1>5 DEF Send
  <2>2. IsRequest(q)
    BY <1>1, PacketAssumption, NumberedIsRequest, IdsAreShort DEF TypeInv, TypeOK
  <2>3. Serialize(q) \in Seq(Octet)
    BY <1>5, <2>2, RequestBytes
  <2>4. SubSeq(Serialize(q), 1, 0) = <<>>
    BY <2>3, NothingTaken
  <2>5. QED
    BY <1>2, <1>3, <2>1, <2>4 DEF SendInv
<1>6. QED
  BY <1>4, <1>5

(* Each write adds what follows, or goes past the end and will fail. *)
LEMMA SendGoesOn ==
  ASSUME TypeInv, SendInv, NEW n \in Pieces, Write(n)
  PROVE  SendInv'
<1>1. /\ pc = "sending" /\ sent < Len(Serialize(request)) /\ sent' = sent + n
      /\ pc' = IF sent' = Len(Serialize(request)) THEN "sent" ELSE "sending"
      /\ received' = IF spoiled THEN <<>> ELSE received \o Window(n)
      /\ UNCHANGED <<open, request, spoiled>>
  BY DEF Write
<1>2. PICK b : b = Serialize(request)
  OBVIOUS
<1>3. b \in Seq(Octet) /\ Len(b) \in Nat /\ n \in Nat /\ sent \in Nat
  BY <1>1, <1>2, PiecesAre DEF TypeInv, TypeOK
<1>4. Serialize(request') = b
  BY <1>1, <1>2
<1>5. ASSUME open, ~spoiled, sent + n <= Len(b)
      PROVE  received' = SubSeq(b, 1, sent + n)
  <2>0. sent <= Len(Serialize(request))
    BY <1>1, <1>2, <1>3
  <2>1. received = SubSeq(b, 1, sent)
    BY <1>1, <1>2, <1>5, <2>0 DEF SendInv
  <2>2. Window(n) = [i \in 1 .. n |-> IF sent + i <= Len(b) THEN b[sent + i] ELSE 0]
    BY <1>2 DEF Window
  <2>3. SubSeq(b, 1, sent) \o Window(n) = SubSeq(b, 1, sent + n)
    BY <1>3, <1>5, <2>2, Written
  <2>4. QED
    BY <1>1, <1>5, <2>1, <2>3
<1>6. sent + n = Len(b) => SubSeq(b, 1, sent + n) = b
  BY <1>3, NothingTaken
<1>7. spoiled' => received' = <<>>
  BY <1>1
<1>8. open' /\ ~spoiled' => /\ pc' = "sending" /\ sent' <= Len(b) => received' = SubSeq(b, 1, sent')
                            /\ pc' = "sent" => received' = b
  <2>1. CASE sent + n = Len(b)
    BY <1>1, <1>2, <1>3, <1>5, <1>6, <2>1, SMTT(40)
  <2>2. CASE sent + n # Len(b)
    BY <1>1, <1>2, <1>5, <2>2
  <2>3. QED
    BY <2>1, <2>2
<1>9. pc' \in {"sending", "sent"}
  BY <1>1
<1>10. QED
  BY <1>4, <1>7, <1>8, <1>9 DEF SendInv

(* A failed write closes the session, or spoils the stream of a subscription. *)
LEMMA SendIsGivenUp ==
  ASSUME TypeInv, SendInv, SendFails
  PROVE  SendInv'
<1>1. /\ pc = "sending" /\ pc' = "idle" /\ open' = (request.type = SUBSCRIBE)
      /\ spoiled' = (spoiled \/ (request.type = SUBSCRIBE /\ sent > 0))
      /\ received' = IF spoiled' THEN <<>> ELSE received
  BY DEF SendFails
<1>2. Serialize(request) \in Seq(Octet) /\ Len(Serialize(request)) \in Nat /\ sent \in Nat /\ open
  BY <1>1, PiecesAre DEF TypeInv, TypeOK, Measured
<1>3. ASSUME open', ~spoiled'
      PROVE  received' = <<>>
  <2>0. ~spoiled /\ ~(sent > 0)
    BY <1>1, <1>3, Zenon
  <2>1. ~spoiled /\ sent = 0
    BY <1>2, <2>0
  <2>2. received = SubSeq(Serialize(request), 1, 0)
    BY <1>1, <1>2, <2>1 DEF SendInv
  <2>3. received = <<>>
    BY <1>2, <2>2, NothingTaken, Zenon
  <2>4. QED
    BY <1>1, <1>3, <2>3
<1>4. spoiled' => received' = <<>>
  BY <1>1
<1>5. QED
  BY <1>1, <1>3, <1>4 DEF SendInv

(* The server takes the packet. *)
LEMMA SendIsDone ==
  ASSUME TypeInv, SendInv, SendEnds
  PROVE  SendInv'
<1>1. /\ pc = "sent" /\ pc' = "idle" /\ open' = open /\ spoiled' = spoiled
      /\ received' = IF spoiled THEN <<>> ELSE From(received, Len(Serialize(request)) + 1)
  BY DEF SendEnds
<1>2. open /\ Serialize(request) \in Seq(Octet)
  BY <1>1, PiecesAre DEF TypeInv, Measured
<1>3. ~spoiled => received' = <<>>
  <2>1. ~spoiled => received = Serialize(request)
    BY <1>1, <1>2 DEF SendInv
  <2>2. From(Serialize(request), Len(Serialize(request)) + 1) = <<>>
    BY <1>2, NothingTaken
  <2>3. QED
    BY <1>1, <2>1, <2>2
<1>4. received' = <<>>
  BY <1>1, <1>3
<1>5. QED
  BY <1>1, <1>4 DEF SendInv

(* What is done to the stream of the answers leaves the server alone.            *)
LEMMA SendUntouched ==
  ASSUME SendInv, UNCHANGED sendVars, open' => open,
         \/ pc' = pc
         \/ {pc, pc'} \cap {"sending", "sent"} = {}
  PROVE  SendInv'
<1>1. UNCHANGED <<request, sent, received, spoiled>>
  BY DEF sendVars
<1>2. pc' = pc \/ (pc \notin {"sending", "sent"} /\ pc' \notin {"sending", "sent"})
  OBVIOUS
<1>3. QED
  BY <1>1, <1>2 DEF SendInv

(* Every step keeps what is known of the request. *)
LEMMA SendStep ==
  ASSUME TypeInv, SendInv, [Next]_vars
  PROVE  SendInv'
<1>1. CASE Open
  BY <1>1 DEF Open, SendInv
<1>2. ASSUME NEW p \in Requests, Send(p) PROVE SendInv'
  BY <1>2, SendStarts
<1>3. ASSUME NEW n \in Pieces, Write(n) PROVE SendInv'
  BY <1>3, SendGoesOn
<1>4. CASE SendFails
  BY <1>4, SendIsGivenUp
<1>5. CASE SendEnds
  BY <1>5, SendIsDone
<1>6. ASSUME NEW p \in Replies, ServerSends(p) PROVE SendInv'
  BY <1>6, SendUntouched DEF ServerSends
<1>7. CASE ReadHeader
  BY <1>7, SendUntouched DEF ReadHeader
<1>8. ASSUME NEW n \in 0 .. 4, ReadLength(n) PROVE SendInv'
  BY <1>8, SendUntouched DEF ReadLength
<1>9. CASE ReadTooLong
  BY <1>9, SendUntouched DEF ReadTooLong
<1>10. ASSUME NEW n, ReadShort(n) PROVE SendInv'
  <2>1. pc = "body" /\ pc' = "idle" /\ open /\ UNCHANGED sendVars
    BY <1>10 DEF ReadShort, TypeInv, Measured
  <2>2. QED
    BY <2>1, SendUntouched
<1>11. CASE ReadBody
  BY <1>11, SendUntouched DEF ReadBody
<1>12. CASE Handle
  <2>1. pc = "packet" /\ pc' = "idle" /\ open /\ UNCHANGED sendVars
    BY <1>12 DEF Handle, TypeInv, Measured
  <2>2. QED
    BY <2>1, SendUntouched
<1>13. CASE UNCHANGED vars
  BY <1>13 DEF SendInv, vars, sendVars
<1>14. QED
  BY <1>1, <1>2, <1>3, <1>4, <1>5, <1>6, <1>7, <1>8, <1>9, <1>10, <1>11, <1>12, <1>13, Zenon
     DEF Next
-----------------------------------------------------------------------------
(* Concatenation of bytes is associative. *)
LEMMA Assoc ==
  ASSUME NEW u \in Seq(Octet), NEW t \in Seq(Octet), NEW x \in Seq(Octet)
  PROVE  (u \o t) \o x = u \o (t \o x)
  BY ConcatAssociative

(* A row of packets can be taken apart at its front and put on at its end.       *)
LEMMA FramedEmpty == Framed(Empty, <<>>)
<1>1. Empty \in Seq(Octet) /\ Len(<<>>) = 0 /\ Empty = <<>>
  BY EmptySeq DEF Empty
<1>2. PICK rest : rest = [i \in 0 .. 0 |-> Empty]
  OBVIOUS
<1>3. rest \in [0 .. 0 -> Seq(Octet)] /\ rest[0] = Empty
  BY <1>1, <1>2
<1>4. \A i \in 1 .. 0 : FALSE
  OBVIOUS
<1>5. QED
  BY <1>1, <1>3, <1>4, Zenon DEF Framed

(* The server may add a packet at the end. *)
LEMMA FramedAppend ==
  ASSUME NEW d \in Seq(Replies), NEW p \in Replies, NEW s, Framed(s, d)
  PROVE  Framed(s \o ServerSerialize(p), Append(d, p))
<1>1. PICK m \in Nat : m = Len(d)
  BY LenProperties
<1>2. PICK rest \in [0 .. m -> Seq(Octet)] :
        /\ rest[0] = s /\ rest[m] = <<>>
        /\ \A i \in 1 .. m : rest[i - 1] = ServerSerialize(d[i]) \o rest[i]
  BY <1>1 DEF Framed
<1>3. PICK x : x = ServerSerialize(p)
  OBVIOUS
<1>4. x \in Seq(Octet) /\ \A i \in 1 .. m : ServerSerialize(d[i]) \in Seq(Octet)
  <2>1. \A i \in 1 .. m : d[i] \in Replies
    BY <1>1, ElementOfSeq
  <2>2. QED
    BY <1>3, <2>1, PacketAssumption, ReplyBytes
<1>5. PICK e : e = Append(d, p)
  OBVIOUS
<1>6. Len(e) = m + 1 /\ e[m + 1] = p /\ \A i \in 1 .. m : e[i] = d[i]
  BY <1>1, <1>5, AppendProperties
<1>7. PICK r : r = [i \in 0 .. m + 1 |-> IF i <= m THEN rest[i] \o x ELSE Empty]
  OBVIOUS
<1>8. /\ \A i \in 0 .. m : r[i] = rest[i] \o x
      /\ r[m + 1] = Empty
  BY <1>7
<1>9. r \in [0 .. m + 1 -> Seq(Octet)]
  <2>1. \A i \in 0 .. m : rest[i] \o x \in Seq(Octet)
    BY <1>2, <1>4, ConcatProperties, Zenon
  <2>2. Empty \in Seq(Octet)
    BY EmptySeq DEF Empty
  <2>3. \A i \in 0 .. m + 1 : (IF i <= m THEN rest[i] \o x ELSE Empty) \in Seq(Octet)
    BY <2>1, <2>2
  <2>4. QED
    BY <1>7, <2>3, Zenon
<1>10. ASSUME NEW i \in 1 .. m
       PROVE  r[i - 1] = ServerSerialize(e[i]) \o r[i]
  <2>1. i - 1 \in 0 .. m /\ i \in 0 .. m
    OBVIOUS
  <2>2. PICK u \in Seq(Octet) : u = ServerSerialize(d[i])
    BY <1>4
  <2>3. PICK t \in Seq(Octet) : t = rest[i]
    BY <1>2, <2>1
  <2>4. (u \o t) \o x = u \o (t \o x)
    BY <1>4, Assoc, Zenon
  <2>5. r[i - 1] = (u \o t) \o x
    BY <1>2, <1>8, <2>1, <2>2, <2>3
  <2>6. r[i] = t \o x
    BY <1>8, <2>1, <2>3
  <2>7. ServerSerialize(e[i]) = u
    BY <1>6, <2>2
  <2>8. QED
    BY <2>4, <2>5, <2>6, <2>7
<1>11. r[(m + 1) - 1] = ServerSerialize(e[m + 1]) \o r[m + 1]
  <2>1. (m + 1) - 1 = m /\ m \in 0 .. m
    OBVIOUS
  <2>2. <<>> \o x = x /\ x \o <<>> = x
    BY <1>4, ConcatEmptySeq, Zenon
  <2>3. r[m] = x
    BY <1>2, <1>8, <2>1, <2>2
  <2>4. x \o r[m + 1] = x
    BY <1>8, <2>2 DEF Empty
  <2>5. ServerSerialize(e[m + 1]) = x
    BY <1>3, <1>6
  <2>6. QED
    BY <2>1, <2>3, <2>4, <2>5
<1>12. \A i \in 1 .. m + 1 : r[i - 1] = ServerSerialize(e[i]) \o r[i]
  <2> TAKE i \in 1 .. m + 1
  <2>1. i \in 1 .. m \/ i = m + 1
    OBVIOUS
  <2>2. QED
    BY <1>10, <1>11, <2>1
<1>13. r[0] = s \o x
  <2>1. 0 \in 0 .. m
    OBVIOUS
  <2>2. r[0] = rest[0] \o x
    BY <1>8, <2>1
  <2>3. QED
    BY <1>2, <2>2
<1>14. Framed(s \o x, e)
  BY <1>6, <1>8, <1>9, <1>12, <1>13, Zenon DEF Framed, Empty
<1>15. QED
  BY <1>3, <1>5, <1>14

(* A stream that is not empty begins with the packet that is due. *)
LEMMA FramedNext ==
  ASSUME NEW d \in Seq(Replies), NEW s, Framed(s, d), s # <<>>
  PROVE  /\ d # <<>> /\ Head(d) \in Replies
         /\ \E t \in Seq(Octet) : s = ServerSerialize(Head(d)) \o t /\ Framed(t, Tail(d))
<1>1. PICK m \in Nat : m = Len(d)
  BY LenProperties
<1>2. PICK rest \in [0 .. m -> Seq(Octet)] :
        /\ rest[0] = s /\ rest[m] = <<>>
        /\ \A i \in 1 .. m : rest[i - 1] = ServerSerialize(d[i]) \o rest[i]
  BY <1>1 DEF Framed
<1>3. m # 0
  BY <1>2
<1>4. d # <<>>
  BY <1>1, <1>3, EmptySeq
<1>5. PICK e : e = Tail(d)
  OBVIOUS
<1>6. /\ e \in Seq(Replies) /\ Len(e) = m - 1 /\ Head(d) \in Replies /\ Head(d) = d[1]
      /\ \A i \in 1 .. m - 1 : e[i] = d[i + 1]
  BY <1>1, <1>4, <1>5, HeadTailProperties
<1>7. PICK r : r = [i \in 0 .. m - 1 |-> rest[i + 1]]
  OBVIOUS
<1>8. /\ r \in [0 .. m - 1 -> Seq(Octet)]
      /\ \A i \in 0 .. m - 1 : r[i] = rest[i + 1]
  <2>1. \A i \in 0 .. m - 1 : i + 1 \in 0 .. m
    OBVIOUS
  <2>2. \A i \in 0 .. m - 1 : rest[i + 1] \in Seq(Octet)
    BY <1>2, <2>1
  <2>3. QED
    BY <1>7, <2>2
<1>9. \A i \in 1 .. m - 1 : r[i - 1] = ServerSerialize(e[i]) \o r[i]
  <2> TAKE i \in 1 .. m - 1
  <2>1. /\ i - 1 \in 0 .. m - 1 /\ i \in 0 .. m - 1 /\ (i - 1) + 1 = i
        /\ i + 1 \in 1 .. m /\ (i + 1) - 1 = i
    OBVIOUS
  <2>2. r[i - 1] = rest[i] /\ r[i] = rest[i + 1]
    BY <1>8, <2>1
  <2>3. rest[i] = ServerSerialize(d[i + 1]) \o rest[i + 1]
    BY <1>2, <2>1
  <2>4. e[i] = d[i + 1]
    BY <1>6
  <2>5. QED
    BY <2>2, <2>3, <2>4
<1>10. 0 \in 0 .. m - 1 /\ m - 1 \in 0 .. m - 1 /\ (m - 1) + 1 = m /\ 1 \in 1 .. m /\ 1 - 1 = 0
       /\ 0 + 1 = 1
  BY <1>3
<1>11. r[0] = rest[1] /\ r[m - 1] = <<>>
  BY <1>2, <1>8, <1>10
<1>12. PICK t : t = r[0]
  OBVIOUS
<1>13. t \in Seq(Octet) /\ s = ServerSerialize(d[1]) \o t
  BY <1>2, <1>8, <1>10, <1>11, <1>12
<1>14. Framed(t, e)
  BY <1>6, <1>8, <1>9, <1>11, <1>12, Zenon DEF Framed
<1>15. QED
  BY <1>4, <1>5, <1>6, <1>13, <1>14

(* Two ways to take a sequence apart at the same place are one. *)
LEMMA SameSplit ==
  ASSUME NEW u, NEW s, NEW t, Joins(u, s, t), NEW s2, NEW t2, Joins(u, s2, t2),
         Len(s) = Len(s2)
  PROVE  s = s2 /\ t = t2
<1>1. SubSeq(u, 1, Len(s)) = s /\ From(u, Len(s) + 1) = t
  BY Joined, Zenon
<1>2. SubSeq(u, 1, Len(s2)) = s2 /\ From(u, Len(s2) + 1) = t2
  BY Joined, Zenon
<1>3. QED
  BY <1>1, <1>2

(* Behind the packet that is due the others follow. *)
LEMMA FramedRest ==
  ASSUME NEW d \in Seq(Replies), d # <<>>, NEW w \in Seq(Octet),
         Framed(ServerSerialize(Head(d)) \o w, d)
  PROVE  Framed(w, Tail(d))
<1>1. Head(d) \in Replies
  BY HeadTailProperties
<1>2. PICK x : x = ServerSerialize(Head(d))
  OBVIOUS
<1>3. x \in Seq(Octet) /\ Len(x) > 0
  <2>1. PICK p \in Replies : p = Head(d)
    BY <1>1
  <2>2. /\ Header(p) \in Octet /\ ServerBody(p) \in Seq(Octet) /\ Len(ServerBody(p)) \in Measurable
        /\ Len(ServerBody(p)) \in Nat
        /\ x = Frame(Header(p), ServerBody(p)) /\ x \in Seq(Octet)
    BY <1>2, <2>1, PacketAssumption, ReplyBytes
  <2>3. Len(x) = 1 + Len(EncodeLength(Len(ServerBody(p)))) + Len(ServerBody(p))
    BY <2>2, FrameIs, Zenon
  <2>4. Len(EncodeLength(Len(ServerBody(p)))) \in 1 .. 4
    BY <2>2, FrameIs, Zenon
  <2>5. QED
    BY <2>2, <2>3, <2>4
<1>4. PICK s : s = x \o w
  OBVIOUS
<1>5. Joins(s, x, w)
  BY <1>3, <1>4 DEF Joins
<1>6. s # <<>>
  <2>1. Len(s) = Len(x) + Len(w) /\ Len(x) \in Nat /\ Len(w) \in Nat
    BY <1>5, Joined, Zenon
  <2>2. Len(s) # 0
    BY <1>3, <2>1
  <2>3. QED
    BY <2>2, EmptySeq
<1>7. Framed(s, d)
  BY <1>2, <1>4
<1>8. PICK t \in Seq(Octet) : s = x \o t /\ Framed(t, Tail(d))
  BY <1>2, <1>6, <1>7, FramedNext
<1>9. Joins(s, x, t)
  BY <1>3, <1>8 DEF Joins
<1>10. t = w
  BY <1>5, <1>9, SameSplit, Zenon
<1>11. QED
  BY <1>8, <1>10
-----------------------------------------------------------------------------
(* The packet the client is at: what is read of it and what is under way.        *)
LEMMA AtFront ==
  ASSUME TypeInv, StreamInv, open, late = 0, readbuf # <<>>
  PROVE  LET p == Head(due)
         IN /\ due # <<>> /\ IsReply(p)
            /\ \E t \in Seq(Octet) : readbuf \o wire = ServerSerialize(p) \o t
<1>1. due \in Seq(Replies) /\ wire \in Seq(Octet) /\ readbuf \in Seq(Octet)
  BY DEF TypeInv, Measured
<1>2. PICK s : s = readbuf \o wire
  OBVIOUS
<1>3. Framed(s, due)
  BY <1>2 DEF StreamInv
<1>4. s # <<>>
  <2>1. Joins(s, readbuf, wire)
    BY <1>1, <1>2 DEF Joins
  <2>2. Len(s) = Len(readbuf) + Len(wire) /\ Len(readbuf) \in Nat /\ Len(wire) \in Nat
    BY <2>1, Joined, Zenon
  <2>3. Len(readbuf) # 0
    BY <1>1, EmptySeq
  <2>4. Len(s) # 0
    BY <2>2, <2>3
  <2>5. QED
    BY <2>4, EmptySeq
<1>5. /\ due # <<>> /\ Head(due) \in Replies
      /\ \E t \in Seq(Octet) : s = ServerSerialize(Head(due)) \o t /\ Framed(t, Tail(due))
  BY <1>1, <1>3, <1>4, FramedNext
<1>6. QED
  BY <1>2, <1>5, PacketAssumption

(* The rest of the packet is under way when its header is read.                 *)
LEMMA LengthAhead ==
  ASSUME TypeInv, StreamInv, open, late = 0, pc = "length"
  PROVE  LET p == Head(due)
         IN /\ due # <<>> /\ IsReply(p) /\ readbuf = <<Header(p)>>
            /\ \E after : Joins(wire, EncodeLength(Len(ServerBody(p))), after)
<1>1. wire \in Seq(Octet) /\ readbuf \in Seq(Octet) /\ Len(readbuf) = 1
  BY DEF TypeInv, Measured
<1>2. readbuf # <<>>
  <2>1. Len(readbuf) # 0
    BY <1>1
  <2>2. QED
    BY <2>1, EmptySeq
<1>3. due # <<>> /\ IsReply(Head(due))
      /\ \E t \in Seq(Octet) : readbuf \o wire = ServerSerialize(Head(due)) \o t
  BY <1>2, AtFront
<1>4. PICK p : p = Head(due)
  OBVIOUS
<1>5. PICK t \in Seq(Octet) : readbuf \o wire = ServerSerialize(p) \o t
  BY <1>3, <1>4
<1>6. IsReply(p)
  BY <1>3, <1>4
<1>7. PICK h : h = Header(p)
  OBVIOUS
<1>8. PICK body : body = ServerBody(p)
  OBVIOUS
<1>9. PICK e : e = EncodeLength(Len(body))
  OBVIOUS
<1>10. /\ h \in Octet /\ body \in Seq(Octet) /\ Len(body) \in Measurable
       /\ ServerSerialize(p) = Frame(h, body)
  BY <1>6, <1>7, <1>8, ReplyBytes
<1>11. e \in Seq(Octet) /\ Frame(h, body) = <<h>> \o (e \o body)
  BY <1>9, <1>10, FrameIs, Zenon
<1>12. <<h>> \in Seq(Octet) /\ Len(<<h>>) = 1
  BY <1>10, Single
<1>13. PICK u : u = readbuf \o wire
  OBVIOUS
<1>14. PICK a : a = body \o t
  OBVIOUS
<1>15. a \in Seq(Octet) /\ e \o body \in Seq(Octet) /\ e \o a \in Seq(Octet)
  BY <1>5, <1>10, <1>11, <1>14, ConcatProperties, Zenon
<1>16. u = <<h>> \o (e \o a)
  <2>1. u = (<<h>> \o (e \o body)) \o t
    BY <1>5, <1>10, <1>11, <1>13
  <2>2. (<<h>> \o (e \o body)) \o t = <<h>> \o ((e \o body) \o t)
    BY <1>5, <1>12, <1>15, Assoc, Zenon
  <2>3. (e \o body) \o t = e \o (body \o t)
    BY <1>5, <1>10, <1>11, Assoc, Zenon
  <2>4. QED
    BY <1>14, <2>1, <2>2, <2>3
<1>17. Joins(u, readbuf, wire)
  BY <1>1, <1>13 DEF Joins
<1>18. Joins(u, <<h>>, e \o a)
  BY <1>12, <1>15, <1>16 DEF Joins
<1>19. readbuf = <<h>> /\ wire = e \o a
  <2>1. Len(readbuf) = Len(<<h>>)
    BY <1>1, <1>12
  <2>2. QED
    BY <1>17, <1>18, <2>1, SameSplit, Zenon
<1>20. Joins(wire, e, a)
  BY <1>11, <1>15, <1>19 DEF Joins
<1>21. QED
  BY <1>3, <1>4, <1>7, <1>8, <1>9, <1>19, <1>20

(* When its length is read, the body is.                                      *)
LEMMA BodyAhead ==
  ASSUME TypeInv, StreamInv, open, late = 0, pc = "body"
  PROVE  LET p == Head(due)
         IN /\ due # <<>> /\ IsReply(p)
            /\ rem = Len(ServerBody(p)) /\ readbuf = <<Header(p)>> \o EncodeLength(rem)
            /\ \E after : Joins(wire, ServerBody(p), after)
<1>1. wire \in Seq(Octet) /\ readbuf \in Seq(Octet)
  BY DEF TypeInv, Measured
<1>2. PICK p : p = Head(due)
  OBVIOUS
<1>3. due # <<>> /\ rem = Len(ServerBody(p)) /\ readbuf = <<Header(p)>> \o EncodeLength(rem)
  BY <1>2 DEF StreamInv
<1>4. p \in Replies /\ IsReply(p)
  <2>1. due \in Seq(Replies)
    BY DEF TypeInv, Measured
  <2>2. QED
    BY <1>2, <1>3, <2>1, HeadTailProperties, PacketAssumption
<1>5. PICK h : h = Header(p)
  OBVIOUS
<1>6. PICK body : body = ServerBody(p)
  OBVIOUS
<1>7. PICK e : e = EncodeLength(Len(body))
  OBVIOUS
<1>8. /\ h \in Octet /\ body \in Seq(Octet) /\ Len(body) \in Measurable
      /\ ServerSerialize(p) = Frame(h, body)
  BY <1>4, <1>5, <1>6, ReplyBytes
<1>9. e \in Seq(Octet) /\ Frame(h, body) = (<<h>> \o e) \o body
  BY <1>7, <1>8, FrameIs, Zenon
<1>10. readbuf = <<h>> \o e
  BY <1>3, <1>5, <1>6, <1>7
<1>11. readbuf # <<>>
  <2>1. <<h>> \in Seq(Octet) /\ Len(<<h>>) = 1
    BY <1>8, Single
  <2>2. Len(readbuf) = 1 + Len(e) /\ Len(e) \in Nat
    BY <1>9, <1>10, <2>1, ConcatProperties, LenProperties
  <2>3. Len(readbuf) # 0
    BY <2>2
  <2>4. QED
    BY <2>3, EmptySeq
<1>12. PICK t \in Seq(Octet) : readbuf \o wire = ServerSerialize(p) \o t
  BY <1>2, <1>11, AtFront
<1>13. PICK u : u = readbuf \o wire
  OBVIOUS
<1>14. body \o t \in Seq(Octet)
  BY <1>8, <1>12, ConcatProperties, Zenon
<1>15. u = readbuf \o (body \o t)
  <2>1. u = (readbuf \o body) \o t
    BY <1>8, <1>9, <1>10, <1>12, <1>13
  <2>2. (readbuf \o body) \o t = readbuf \o (body \o t)
    BY <1>1, <1>8, <1>12, Assoc, Zenon
  <2>3. QED
    BY <2>1, <2>2
<1>16. Joins(u, readbuf, wire) /\ Joins(u, readbuf, body \o t)
  BY <1>1, <1>13, <1>14, <1>15 DEF Joins
<1>17. wire = body \o t
  BY <1>16, SameSplit, Zenon
<1>18. Joins(wire, body, t)
  BY <1>8, <1>12, <1>17 DEF Joins
<1>19. QED
  BY <1>2, <1>3, <1>4, <1>6, <1>18

(* The first bytes of a stream that has a length in front.                     *)
LEMMA StartOf ==
  ASSUME NEW m \in Measurable, NEW w, NEW after, Joins(w, EncodeLength(m), after),
         NEW k \in Nat, Digits(m) <= k, k <= Len(w)
  PROVE  Starts(SubSeq(w, 1, k), m)
<1>1. PICK e : e = EncodeLength(m)
  OBVIOUS
<1>2. e \in Seq(Octet) /\ Len(e) = Digits(m) /\ Digits(m) \in 1 .. 4
  BY <1>1, Encoded
<1>3. w \in Seq(Octet) /\ Len(w) \in Nat
  <2>1. w \in Seq(Octet)
    BY Joined, Zenon
  <2>2. QED
    BY <2>1, LenProperties
<1>4. \A i \in 1 .. Len(e) : w[i] = e[i]
  <2>1. Joins(w, e, after)
    BY <1>1
  <2>2. QED
    BY <2>1, JoinedAt
<1>5. PICK b : b = SubSeq(w, 1, k)
  OBVIOUS
<1>6. b \in Seq(Octet) /\ Len(b) = k
  <2>1. k \in 0 .. Len(w)
    BY <1>3
  <2>2. QED
    BY <1>3, <1>5, <2>1, Split, Zenon
<1>7. \A i \in 1 .. k : b[i] = w[i]
  <2>1. \A i \in 1 .. Len(w) : w[i] \in Octet
    BY <1>3, ElementOfSeq
  <2>2. \A i \in 1 .. k : w[i] \in Octet
    BY <1>3, <2>1
  <2>3. QED
    BY <1>5, <2>2, SubSeqProperties, SMT
<1>8. \A i \in 1 .. Digits(m) : i \in 1 .. k
  BY <1>2
<1>9. \A i \in 1 .. Digits(m) : b[i] = EncodeLength(m)[i]
  BY <1>1, <1>2, <1>4, <1>7, <1>8, Zenon
<1>10. Digits(m) <= Len(b)
  BY <1>6
<1>11. QED
  BY <1>5, <1>6, <1>9, <1>10 DEF Starts

(* A length that is read without giving up is the one that was sent.            *)
LEMMA LengthRead ==
  ASSUME TypeInv, NEW m \in Measurable, NEW after, Joins(wire, EncodeLength(m), after),
         NEW n \in 0 .. 4, ReadLength(n), late' = 0
  PROVE  n = Digits(m) /\ rem' = m
<1>1. PICK d \in 1 .. 4 : d = Digits(m)
  BY Encoded
<1>2. Len(EncodeLength(m)) = d
  BY <1>1, Encoded
<1>3. d <= Len(wire) /\ Len(wire) \in Nat
  <2>1. /\ Len(wire) = Len(EncodeLength(m)) + Len(after)
        /\ Len(EncodeLength(m)) \in Nat /\ Len(after) \in Nat
    BY Joined, Zenon
  <2>2. QED
    BY <1>2, <2>1
<1>4. PICK k : k = Min({4, Len(wire)})
  OBVIOUS
<1>5. k \in 0 .. 4 /\ k <= Len(wire) /\ (k = 4 \/ k = Len(wire))
  <2>1. wire \in Seq(Octet)
    BY DEF TypeInv, Measured
  <2>2. QED
    BY <1>4, <2>1, FirstFour, Zenon
<1>6. k \in Nat /\ d <= k
  BY <1>3, <1>5
<1>7. Starts(SubSeq(wire, 1, k), m)
  BY <1>1, <1>5, <1>6, StartOf
<1>8. DecodeLength(SubSeq(wire, 1, k)).size = d
  BY <1>1, <1>7, DecodeIs, SizeTravels
<1>9. n = d
  <2>1. \/ n = d
        \/ n < d /\ GivesUp(n)
    BY <1>4, <1>8 DEF ReadLength
  <2>2. GivesUp(n) => ~(n < Len(wire))
    BY GivenUp
  <2>3. QED
    BY <1>3, <2>1, <2>2
<1>10. Starts(SubSeq(wire, 1, n), m)
  BY <1>1, <1>3, <1>9, StartOf
<1>11. rem' = DecodeLength(SubSeq(wire, 1, n)).value
  BY DEF ReadLength
<1>12. QED
  BY <1>1, <1>9, <1>10, <1>11, LengthTravels

(* Header and length are those of the packet that is due. *)
LEMMA StreamLength ==
  ASSUME TypeInv, StreamInv, NEW n \in 0 .. 4, ReadLength(n)
  PROVE  StreamInv'
<1> SUFFICES ASSUME late' = 0
             PROVE  StreamInv'
  BY DEF StreamInv
<1>1. /\ pc = "length" /\ pc' = "body" /\ Take(n) /\ readbuf' = readbuf \o EncodeLength(rem')
      /\ due' = due
  BY DEF ReadLength
<1>2. open /\ late = 0
  <2>1. open
    BY <1>1 DEF TypeInv, Measured
  <2>2. late = 0
    BY GivenUp DEF ReadLength
  <2>3. QED
    BY <2>1, <2>2
<1>3. PICK p : p = Head(due)
  OBVIOUS
<1>4. /\ due # <<>> /\ IsReply(p) /\ readbuf = <<Header(p)>>
      /\ \E after : Joins(wire, EncodeLength(Len(ServerBody(p))), after)
  BY <1>1, <1>2, <1>3, LengthAhead
<1>5. PICK m : m = Len(ServerBody(p))
  OBVIOUS
<1>6. m \in Measurable
  BY <1>4, <1>5, ReplyBytes
<1>7. PICK e : e = EncodeLength(m)
  OBVIOUS
<1>8. PICK after : Joins(wire, e, after)
  BY <1>4, <1>5, <1>7
<1>9. n = Len(e) /\ rem' = m
  <2>1. Joins(wire, EncodeLength(m), after)
    BY <1>7, <1>8
  <2>2. n = Digits(m) /\ rem' = m
    BY <1>6, <2>1, LengthRead
  <2>3. Len(e) = Digits(m)
    BY <1>6, <1>7, Encoded
  <2>4. QED
    BY <2>2, <2>3
<1>10. readbuf' = readbuf \o e /\ wire' = after
  <2>1. wire' = From(wire, n + 1)
    BY <1>1 DEF Take
  <2>2. From(wire, Len(e) + 1) = after
    BY <1>8, Joined, Zenon
  <2>3. QED
    BY <1>1, <1>7, <1>9, <2>1, <2>2
<1>11. PICK s : s = readbuf \o wire
  OBVIOUS
<1>12. readbuf' \o wire' = s
  <2>1. readbuf \in Seq(Octet) /\ e \in Seq(Octet) /\ after \in Seq(Octet) /\ wire = e \o after
    BY <1>8 DEF Joins, TypeInv, Measured
  <2>2. (readbuf \o e) \o after = readbuf \o (e \o after)
    BY <2>1, Assoc, Zenon
  <2>3. QED
    BY <1>10, <1>11, <2>1, <2>2
<1>13. Framed(s, due)
  BY <1>2, <1>11 DEF StreamInv
<1>14. Framed(readbuf' \o wire', due')
  BY <1>1, <1>12, <1>13
<1>15. readbuf' = <<Header(p)>> \o EncodeLength(rem')
  BY <1>4, <1>7, <1>9, <1>10
<1>16. Head(due') = p /\ due' # <<>> /\ rem' = Len(ServerBody(p))
  BY <1>1, <1>3, <1>4, <1>5, <1>9
<1>17. QED
  BY <1>1, <1>14, <1>15, <1>16 DEF StreamInv

(* The body is there: a read of it that gives up leaves some of it under way. *)
LEMMA StreamShort ==
  ASSUME TypeInv, StreamInv, NEW n, ReadShort(n)
  PROVE  StreamInv'
<1> SUFFICES ASSUME late' = 0, open'
             PROVE  FALSE
  BY DEF StreamInv
<1>1. pc = "body" /\ open /\ n < rem /\ n \in Nat /\ rem \in Nat /\ n <= Len(wire) /\ GivesUp(n)
  BY DEF ReadShort, TypeInv, TypeOK, Measured
<1>2. late = 0 /\ ~(n < Len(wire))
  BY <1>1, GivenUp
<1>3. PICK p : p = Head(due)
  OBVIOUS
<1>4. rem = Len(ServerBody(p)) /\ \E after : Joins(wire, ServerBody(p), after)
  BY <1>1, <1>2, <1>3, BodyAhead
<1>5. PICK after : Joins(wire, ServerBody(p), after)
  BY <1>4
<1>6. /\ Len(wire) = Len(ServerBody(p)) + Len(after)
      /\ Len(ServerBody(p)) \in Nat /\ Len(after) \in Nat
  BY <1>5, Joined, Zenon
<1>7. QED
  BY <1>1, <1>2, <1>4, <1>6

(* The whole packet is in the buffer. *)
LEMMA StreamBody ==
  ASSUME TypeInv, StreamInv, ReadBody
  PROVE  StreamInv'
<1> SUFFICES ASSUME late' = 0
             PROVE  StreamInv'
  BY DEF StreamInv
<1>1. /\ pc = "body" /\ pc' = "packet" /\ readbuf' = readbuf \o SubSeq(wire, 1, rem)
      /\ due' = due /\ late = 0
  BY DEF ReadBody
<1>2. open
  BY <1>1 DEF TypeInv, Measured
<1>3. PICK p : p = Head(due)
  OBVIOUS
<1>4. /\ due # <<>> /\ IsReply(p)
      /\ rem = Len(ServerBody(p)) /\ readbuf = <<Header(p)>> \o EncodeLength(rem)
      /\ \E after : Joins(wire, ServerBody(p), after)
  BY <1>1, <1>2, <1>3, BodyAhead
<1>5. PICK body : body = ServerBody(p)
  OBVIOUS
<1>6. PICK after : Joins(wire, body, after)
  BY <1>4, <1>5
<1>7. SubSeq(wire, 1, rem) = body
  <2>1. SubSeq(wire, 1, Len(body)) = body
    BY <1>6, Joined, Zenon
  <2>2. QED
    BY <1>4, <1>5, <2>1
<1>8. readbuf' = ServerSerialize(p)
  <2>1. readbuf' = (<<Header(p)>> \o EncodeLength(Len(body))) \o body
    BY <1>1, <1>4, <1>5, <1>7
  <2>2. /\ Header(p) \in Octet /\ body \in Seq(Octet) /\ Len(body) \in Measurable
        /\ ServerSerialize(p) = Frame(Header(p), body)
    BY <1>4, <1>5, ReplyBytes
  <2>3. Frame(Header(p), body) = (<<Header(p)>> \o EncodeLength(Len(body))) \o body
    BY <2>2, FrameIs, Zenon
  <2>4. QED
    BY <2>1, <2>2, <2>3
<1>9. PICK s : s = readbuf \o wire
  OBVIOUS
<1>10. readbuf' \o wire' = s /\ Framed(s, due)
  BY <1>1, <1>2, <1>9, ReadBodyTyped DEF StreamInv
<1>11. Framed(readbuf' \o wire', due')
  BY <1>1, <1>10
<1>12. due' # <<>> /\ readbuf' = ServerSerialize(Head(due'))
  BY <1>1, <1>3, <1>4, <1>8
<1>13. QED
  BY <1>1, <1>11, <1>12 DEF StreamInv

(* The next packet is in front. *)
LEMMA StreamHandled ==
  ASSUME TypeInv, StreamInv, Handle
  PROVE  StreamInv'
<1> SUFFICES ASSUME late' = 0
             PROVE  StreamInv'
  BY DEF StreamInv
<1>1. /\ pc = "packet" /\ pc' = "idle" /\ readbuf' = <<>> /\ wire' = wire /\ late = 0
      /\ due' = Tail(due)
  BY DEF Handle, ReadForgotten
<1>2. open /\ due \in Seq(Replies) /\ wire \in Seq(Octet)
  BY <1>1 DEF TypeInv, Measured
<1>3. due # <<>> /\ readbuf = ServerSerialize(Head(due)) /\ Framed(readbuf \o wire, due)
  BY <1>1, <1>2 DEF StreamInv
<1>4. Framed(ServerSerialize(Head(due)) \o wire, due)
  BY <1>3
<1>5. Framed(wire, Tail(due))
  BY <1>2, <1>3, <1>4, FramedRest
<1>6. readbuf' \o wire' = wire
  BY <1>1, <1>2, ConcatEmptySeq, Zenon
<1>7. Framed(readbuf' \o wire', due')
  BY <1>1, <1>5, <1>6
<1>8. QED
  BY <1>1, <1>7 DEF StreamInv

(* What the server adds is behind the packet the client is at. *)
LEMMA StreamGrows ==
  ASSUME TypeInv, StreamInv, NEW p \in Replies, ServerSends(p)
  PROVE  StreamInv'
<1> SUFFICES ASSUME late' = 0
             PROVE  StreamInv'
  BY DEF StreamInv
<1>1. /\ open /\ due' = Append(due, p) /\ wire' = wire \o ServerSerialize(p)
      /\ pc' = pc /\ open' = open /\ readbuf' = readbuf /\ rem' = rem /\ late' = late
  BY DEF ServerSends, readVars
<1>2. due \in Seq(Replies) /\ wire \in Seq(Octet) /\ readbuf \in Seq(Octet)
  BY DEF TypeInv, Measured
<1>3. PICK x : x = ServerSerialize(p)
  OBVIOUS
<1>4. x \in Seq(Octet)
  BY <1>3, PacketAssumption, ReplyBytes
<1>5. PICK s : s = readbuf \o wire
  OBVIOUS
<1>6. Framed(s \o x, Append(due, p))
  <2>1. Framed(s, due)
    BY <1>1, <1>5 DEF StreamInv
  <2>2. QED
    BY <1>2, <1>3, <2>1, FramedAppend
<1>7. readbuf' \o wire' = s \o x
  <2>1. (readbuf \o wire) \o x = readbuf \o (wire \o x)
    BY <1>2, <1>4, Assoc, Zenon
  <2>2. QED
    BY <1>1, <1>3, <1>5, <2>1
<1>8. Framed(readbuf' \o wire', due')
  BY <1>1, <1>6, <1>7
<1>9. due # <<>> => due' # <<>> /\ Head(due') = Head(due)
  BY <1>1, <1>2, AppendProperties, HeadTailProperties, EmptySeq, LenProperties
<1>10. /\ pc' = "body" => /\ due' # <<>> /\ rem' = Len(ServerBody(Head(due')))
                         /\ readbuf' = <<Header(Head(due'))>> \o EncodeLength(rem')
       /\ pc' = "packet" => due' # <<>> /\ readbuf' = ServerSerialize(Head(due'))
  <2>1. /\ pc = "body" => /\ due # <<>> /\ rem = Len(ServerBody(Head(due)))
                          /\ readbuf = <<Header(Head(due))>> \o EncodeLength(rem)
        /\ pc = "packet" => due # <<>> /\ readbuf = ServerSerialize(Head(due))
    BY <1>1 DEF StreamInv
  <2>2. QED
    BY <1>1, <1>9, <2>1
<1>11. QED
  BY <1>8, <1>10 DEF StreamInv

(* A new connection has no packets under way. *)
LEMMA StreamOpened ==
  ASSUME TypeInv, Open
  PROVE  StreamInv'
<1>1. pc' = "idle" /\ readbuf = <<>> /\ readbuf' = readbuf /\ wire' = <<>> /\ due' = <<>>
  BY DEF Open, TypeInv, Measured, Resting
<1>2. Empty \o Empty = Empty
  <2>1. Empty \in Seq(Octet)
    BY EmptySeq DEF Empty
  <2>2. Joins(Empty, Empty, Empty)
    BY <2>1, NothingBehind
  <2>3. QED
    BY <2>2 DEF Joins
<1>3. readbuf' \o wire' = Empty
  BY <1>1, <1>2 DEF Empty
<1>4. Framed(readbuf' \o wire', due')
  BY <1>1, <1>3, FramedEmpty
<1>5. QED
  BY <1>1, <1>4 DEF StreamInv

(* The steps of sendPacket, and those that read nothing more of a packet.       *)
LEMMA StreamUntouched ==
  ASSUME StreamInv, UNCHANGED <<wire, due, readbuf>>, late' = late, open' => open,
         pc' \notin {"body", "packet"}
  PROVE  StreamInv'
  BY DEF StreamInv

(* Nothing is claimed before there is a session. *)
LEMMA StreamHolds == Init => StreamInv
  BY DEF Init, StreamInv

(* The stream stays framed in every step, unless a read gives up inside a packet. *)
LEMMA StreamStep ==
  ASSUME TypeInv, StreamInv, [Next]_vars
  PROVE  StreamInv'
<1>1. CASE Open
  BY <1>1, StreamOpened
<1>2. ASSUME NEW p \in Requests, Send(p) PROVE StreamInv'
  <2>1. pc' \in {"idle", "sending"} /\ open
    BY <1>2 DEF Send
  <2>2. UNCHANGED <<wire, due, readbuf>> /\ late' = late
    BY <1>2 DEF Send, readVars, netVars
  <2>3. QED
    BY <2>1, <2>2, StreamUntouched
<1>3. ASSUME NEW n \in Pieces, Write(n) PROVE StreamInv'
  <2>1. pc' \in {"sent", "sending"} /\ open' = open
    BY <1>3 DEF Write
  <2>2. UNCHANGED <<wire, due, readbuf>> /\ late' = late
    BY <1>3 DEF Write, readVars, netVars
  <2>3. QED
    BY <2>1, <2>2, StreamUntouched
<1>4. CASE SendFails
  <2>1. pc' = "idle" /\ open
    BY <1>4 DEF SendFails, TypeInv, Measured
  <2>2. UNCHANGED <<wire, due, readbuf>> /\ late' = late
    BY <1>4 DEF SendFails, readVars, netVars
  <2>3. QED
    BY <2>1, <2>2, StreamUntouched
<1>5. CASE SendEnds
  <2>1. pc' = "idle" /\ open' = open
    BY <1>5 DEF SendEnds
  <2>2. UNCHANGED <<wire, due, readbuf>> /\ late' = late
    BY <1>5 DEF SendEnds, readVars, netVars
  <2>3. QED
    BY <2>1, <2>2, StreamUntouched
<1>6. ASSUME NEW p \in Replies, ServerSends(p) PROVE StreamInv'
  BY <1>6, StreamGrows
<1>7. CASE ReadHeader
  <2>1. pc = "idle" /\ pc' = "length" /\ open /\ late' = late /\ due' = due
    BY <1>7 DEF ReadHeader
  <2>2. readbuf = <<>> /\ wire \in Seq(Octet)
    BY <2>1 DEF TypeInv, Measured, Resting
  <2>3. readbuf \o wire = wire /\ readbuf' \o wire' = wire
    BY <1>7, <2>2, ConcatEmptySeq, ReadHeaderTyped, Zenon
  <2>4. late = 0 => Framed(wire, due)
    BY <2>1, <2>3 DEF StreamInv
  <2>5. late' = 0 => Framed(readbuf' \o wire', due')
    BY <2>1, <2>3, <2>4
  <2>6. QED
    BY <2>1, <2>5 DEF StreamInv
<1>8. ASSUME NEW n \in 0 .. 4, ReadLength(n) PROVE StreamInv'
  BY <1>8, StreamLength
<1>9. CASE ReadTooLong
  BY <1>9 DEF ReadTooLong, StreamInv
<1>10. ASSUME NEW n, ReadShort(n) PROVE StreamInv'
  BY <1>10, StreamShort
<1>11. CASE ReadBody
  BY <1>11, StreamBody
<1>12. CASE Handle
  BY <1>12, StreamHandled
<1>13. CASE UNCHANGED vars
  BY <1>13 DEF StreamInv, vars, readVars, netVars
<1>14. QED
  BY <1>1, <1>2, <1>3, <1>4, <1>5, <1>6, <1>7, <1>8, <1>9, <1>10, <1>11, <1>12, <1>13, Zenon
     DEF Next

(* Only ReadBody makes something of a packet, and Handle forgets it.             *)
LEMMA ReadStep ==
  ASSUME ReadInv, [Next]_vars
  PROVE  ReadInv'
<1>1. \/ pc' # "packet"
      \/ pc' = pc /\ UNCHANGED <<readbuf, packet>>
      \/ ReadBody
  BY DEF Next, Open, Send, Write, SendFails, SendEnds, ServerSends, ReadHeader, ReadLength,
         ReadTooLong, ReadShort, Handle, vars, readVars
<1>2. QED
  BY <1>1 DEF ReadInv, ReadBody

LEMMA FrameLength ==
  ASSUME TypeInv, NEW n \in 0 .. 4, ReadLength(n)
  PROVE  FrameInv'
<1>1. /\ pc = "length" /\ pc' = "body" /\ readbuf' = readbuf \o EncodeLength(rem')
  BY DEF ReadLength
<1>2. readbuf \in Seq(Octet) /\ Len(readbuf) = 1 /\ wire \in Seq(Octet)
  BY <1>1 DEF TypeInv, Measured
<1>3. rem' \in Measurable
  BY <1>2, LengthFits
<1>4. readbuf[1] \in Octet /\ readbuf = <<readbuf[1]>>
  <2>1. readbuf[1] \in Octet
    BY <1>2, ElementOfSeq
  <2>2. QED
    BY <1>2, <2>1
<1>5. readbuf' = <<readbuf[1]>> \o EncodeLength(rem')
  BY <1>1, <1>4
<1>6. QED
  BY <1>1, <1>3, <1>4, <1>5 DEF FrameInv

LEMMA FrameBody ==
  ASSUME TypeInv, FrameInv, ReadBody
  PROVE  FrameInv'
<1>1. pc = "body" /\ pc' = "packet" /\ readbuf' = readbuf \o SubSeq(wire, 1, rem)
  BY DEF ReadBody
<1>2. PICK h \in Octet : rem \in Measurable /\ readbuf = <<h>> \o EncodeLength(rem)
  BY <1>1 DEF FrameInv
<1>3. PICK body \in Seq(Octet) : body = SubSeq(wire, 1, rem) /\ Len(body) = rem
  BY ReadBodyTyped
<1>4. readbuf' = <<h>> \o EncodeLength(Len(body)) \o body
  BY <1>1, <1>2, <1>3
<1>5. readbuf' = Frame(h, body) /\ Len(body) \in Measurable
  BY <1>2, <1>3, <1>4 DEF Frame
<1>6. QED
  BY <1>1, <1>5 DEF FrameInv

LEMMA FrameStep ==
  ASSUME TypeInv, FrameInv, [Next]_vars
  PROVE  FrameInv'
<1>1. \/ pc' \notin {"body", "packet"}
      \/ pc' = pc /\ UNCHANGED <<readbuf, rem>>
      \/ \E n \in 0 .. 4 : ReadLength(n)
      \/ ReadBody
  BY DEF Next, Open, Send, Write, SendFails, SendEnds, ServerSends, ReadHeader,
         ReadTooLong, ReadShort, Handle, vars, readVars
<1>2. QED
  BY <1>1, FrameLength, FrameBody DEF FrameInv
-----------------------------------------------------------------------------
(* The inductive invariant. *)
LEMMA Invariance == Spec => []Inv
<1>1. Init => Inv
  BY TypeHolds, SendHolds, StreamHolds DEF Inv, ReadInv, FrameInv, Init
<1>2. Inv /\ [Next]_vars => Inv'
  BY TypeStep, SendStep, StreamStep, ReadStep, FrameStep, Zenon DEF Inv
<1>3. QED
  BY <1>1, <1>2, PTL DEF Spec

(* No packet id leaves its range, and nothing is ever put behind the end of the *)
(* receive buffer, whatever the bytes are that come.                          *)
THEOREM TypeCorrect == Spec => []TypeOK
<1>1. Inv => TypeOK
  BY DEF Inv, TypeInv
<1>2. QED
  BY <1>1, Invariance, PTL

(* A packet sendPacket reports as sent is one packet for the server, and it      *)
(* reads in it what was asked for, however many writes it took.                *)
THEOREM SentIsRead == Spec => []RequestIsRead
<1>1. Inv => RequestIsRead
  <2> SUFFICES ASSUME Inv, pc = "sent", ~spoiled
               PROVE  /\ Len(received) > 1
                      /\ Len(received) =
                           1 + DecodeLength(Tail(received)).size + Len(BodyOf(received))
                      /\ ServerReads(received) = request
    BY DEF RequestIsRead
  <2>1. open /\ IsRequest(request) /\ Serialize(request) # <<>>
    BY DEF Inv, TypeInv, Measured
  <2>2. received = Serialize(request)
    BY <2>1 DEF Inv, SendInv
  <2>3. Travels(received, request)
    BY <2>1, <2>2, RequestTravels
  <2>4. QED
    BY <2>3 DEF Travels
<1>2. QED
  BY <1>1, Invariance, PTL

(* A session that is open between two packets has left no part of one behind.    *)
THEOREM OpenMeansFramed == Spec => []OpenIsFramed
<1>1. Inv => OpenIsFramed
  BY DEF Inv, SendInv, OpenIsFramed
<1>2. QED
  BY <1>1, Invariance, PTL

(* As long as no read gave up inside a packet, readPacket returns the packets   *)
(* the server sent, whole and in their order; where a char is not signed, also  *)
(* the codes of a SUBACK are what they were.                                 *)
THEOREM ArriveAsSent == ~CharSigned => (Spec => []PacketsAsSent)
<1> SUFFICES ASSUME ~CharSigned
             PROVE  Spec => []PacketsAsSent
  OBVIOUS
<1>1. Inv => PacketsAsSent
  <2> SUFFICES ASSUME Inv, pc = "packet", late = 0
               PROVE  due # <<>> /\ packet = Head(due)
    BY DEF PacketsAsSent
  <2>1. open /\ due \in Seq(Replies)
    BY DEF Inv, TypeInv, Measured
  <2>2. PICK p : p = Head(due)
    OBVIOUS
  <2>3. due # <<>> /\ readbuf = ServerSerialize(p) /\ packet = ClientReads(readbuf)
    BY <2>1, <2>2 DEF Inv, StreamInv, ReadInv
  <2>4. IsReply(p)
    BY <2>1, <2>2, <2>3, HeadTailProperties, PacketAssumption
  <2>5. PICK body : body = ServerBody(p)
    OBVIOUS
  <2>6. PICK h : h = Header(p)
    OBVIOUS
  <2>7. /\ h \in Octet /\ body \in Seq(Octet) /\ Len(body) \in Measurable
        /\ readbuf = Frame(h, body) /\ Told(body, p)
    BY <2>3, <2>4, <2>5, <2>6, ReplyBytes
  <2>8. BodyOf(readbuf) = body
    BY <2>7, FrameReads
  <2>9. readbuf[1] = h
    BY <2>7, FrameIs, Zenon
  <2>10. TypeOf(readbuf) = p.type /\ QosOf(readbuf) = p.qos
    <3>1. p.type \in 1 .. 14 /\ p.qos \in 0 .. 2
      BY <2>4, Typed DEF IsReply
    <3>2. QED
      BY <2>6, <2>9, <3>1, HeaderReads, Zenon DEF Header
  <2>11. ClientReads(readbuf) = p
    BY <2>7, <2>8, <2>10, Zenon DEF Told
  <2>12. QED
    BY <2>2, <2>3, <2>11
<1>2. QED
  BY <1>1, Invariance, PTL

(* Only a packet that is longer than the buffer is refused as too long.         *)
THEOREM OnlyLongIsRefused == Spec => []RefusedIsTooLong
<1>1. Inv => RefusedIsTooLong
  <2> SUFFICES ASSUME Inv, pc = "body", TooLong, late = 0
               PROVE  Len(ServerSerialize(Head(due))) > BufferSize
    BY DEF RefusedIsTooLong
  <2>1. open
    BY DEF Inv, TypeInv, Measured
  <2>2. PICK p : p = Head(due)
    OBVIOUS
  <2>3. /\ IsReply(p) /\ rem = Len(ServerBody(p)) /\ readbuf = <<Header(p)>> \o EncodeLength(rem)
    BY <2>1, <2>2, BodyAhead DEF Inv
  <2>4. PICK body : body = ServerBody(p)
    OBVIOUS
  <2>5. PICK h : h = Header(p)
    OBVIOUS
  <2>6. PICK e : e = EncodeLength(Len(body))
    OBVIOUS
  <2>7. /\ h \in Octet /\ body \in Seq(Octet) /\ Len(body) \in Measurable /\ Len(body) \in Nat
        /\ ServerSerialize(p) = Frame(h, body)
    BY <2>3, <2>4, <2>5, ReplyBytes
  <2>8. /\ e \in Seq(Octet) /\ Len(e) \in 1 .. 4
        /\ Len(ServerSerialize(p)) = 1 + Len(e) + Len(body)
    <3>1. e \in Seq(Octet) /\ Len(e) \in 1 .. 4 /\ Len(Frame(h, body)) = 1 + Len(e) + Len(body)
      BY <2>6, <2>7, FrameIs, Zenon
    <3>2. QED
      BY <2>7, <3>1
  <2>9. Len(readbuf) = 1 + Len(e)
    <3>1. <<h>> \in Seq(Octet) /\ Len(<<h>>) = 1
      BY <2>7, Single
    <3>2. readbuf = <<h>> \o e
      BY <2>3, <2>4, <2>5, <2>6
    <3>3. Len(readbuf) = Len(<<h>>) + Len(e)
      BY <2>8, <3>1, <3>2, ConcatProperties, Zenon
    <3>4. QED
      BY <3>1, <3>3
  <2>10. rem > BufferSize - Len(readbuf) /\ rem = Len(body)
    BY <2>3, <2>4 DEF TooLong
  <2>11. BufferSize \in Nat
    BY BufferAssumption
  <2>12. Len(ServerSerialize(p)) > BufferSize
    BY <2>7, <2>8, <2>9, <2>10, <2>11
  <2>13. QED
    BY <2>2, <2>12
<1>2. QED
  BY <1>1, Invariance, PTL
-----------------------------------------------------------------------------
(* A turn of isTopicMatched takes one character of the filter; a filter is what  *)
(* MQTT says level by level.  The recursive functions of the model are shown to  *)
(* exist before they are unfolded, by induction over the numbers.              *)
Below == {p \in Nat \X Nat : p[1] < p[2]}

(* < on the numbers, as a set of pairs, so that the library applies.          *)
LEMMA BelowIsWellFounded == IsWellFoundedOn(Below, Nat)
<1>1. IsWellFoundedOn(OpToRel(<, Nat), Nat)
  BY NatLessThanWellFounded
<1>2. OpToRel(<, Nat) = Below
  BY DEF OpToRel, Below
<1>3. QED
  BY <1>1, <1>2

(* Induction: a set with 0, and with n + 1 whenever it has n, has every number. *)
LEMMA Induction ==
  ASSUME NEW S, 0 \in S, \A n \in Nat : n \in S => n + 1 \in S
  PROVE  \A n \in Nat : n \in S
<1> DEFINE T == Nat \ S
<1>1. SUFFICES ASSUME T # {}
               PROVE  FALSE
  OBVIOUS
<1>2. PICK n \in T : \A m \in T : ~(<<m, n>> \in Below)
  <2>1. T \subseteq Nat
    OBVIOUS
  <2> HIDE DEF T
  <2>2. QED
    BY <1>1, <2>1, WFMin, BelowIsWellFounded
<1>3. n \in Nat /\ n # 0
  OBVIOUS
<1>4. n - 1 \in Nat /\ (n - 1) + 1 = n
  BY <1>3
<1>5. <<n - 1, n>> \in Below
  BY <1>3, <1>4 DEF Below
<1>6. n - 1 \in S
  BY <1>2, <1>4, <1>5
<1>7. QED
  BY <1>4, <1>6

(* A set of numbers with an element has a least one.                          *)
LEMMA Least ==
  ASSUME NEW S, S \subseteq Nat, S # {}
  PROVE  \E x \in S : \A y \in S : x <= y
<1>1. PICK x \in S : \A y \in S : ~(<<y, x>> \in Below)
  BY WFMin, BelowIsWellFounded
<1>2. \A y \in S : x <= y
  <2>1. SUFFICES ASSUME NEW y \in S
                 PROVE  x <= y
    OBVIOUS
  <2>2. x \in Nat /\ y \in Nat /\ ~(<<y, x>> \in Below)
    BY <1>1
  <2>3. ~(y < x)
    BY <2>2 DEF Below
  <2>4. QED
    BY <2>2, <2>3
<1>3. QED
  BY <1>2

LEMMA LevelEndIs ==
  ASSUME NEW T, NEW s \in Seq(T), NEW i \in 1 .. Len(s) + 1
  PROVE  /\ LevelEnd(s, i) \in i .. Len(s) + 1
         /\ LevelEnd(s, i) <= Len(s) => s[LevelEnd(s, i)] = Slash
         /\ \A k \in i .. LevelEnd(s, i) - 1 : s[k] # Slash
<1> DEFINE S == {k \in i .. Len(s) + 1 : k = Len(s) + 1 \/ s[k] = Slash}
<1>1. Len(s) \in Nat
  OBVIOUS
<1>2. S \subseteq Nat /\ Len(s) + 1 \in S
  BY <1>1
<1>3. PICK e : e = Min(S)
  OBVIOUS
<1>4. e \in S /\ \A y \in S : e <= y
  <2>1. \E x \in S : \A y \in S : x <= y
    <3> HIDE DEF S
    <3>1. QED
      BY <1>2, Least
  <2> HIDE DEF S
  <2>2. QED
    BY <1>3, <2>1, Zenon DEF Min
<1>5. LevelEnd(s, i) = e
  BY <1>3 DEF LevelEnd
<1>6. e \in i .. Len(s) + 1 /\ (e <= Len(s) => s[e] = Slash)
  BY <1>1, <1>4
<1>7. ASSUME NEW k \in i .. e - 1
      PROVE  s[k] # Slash
  <2>1. k \in i .. Len(s) + 1 /\ ~(e <= k)
    BY <1>1, <1>6
  <2>2. k \notin S
    BY <1>4, <2>1
  <2>3. QED
    BY <2>1, <2>2
<1>8. QED
  BY <1>5, <1>6, <1>7

(* "+" goes on to the end of the level.                                       *)
LEMMA SkipIs ==
  ASSUME NEW T, NEW n \in Seq(T), NEW j \in 1 .. Len(n), n[j] # Slash
  PROVE  SkipLevel(n, j) + 1 = LevelEnd(n, j)
<1> DEFINE S == {k \in j .. Len(n) : k = Len(n) \/ n[k + 1] = Slash}
<1>1. Len(n) \in Nat
  OBVIOUS
<1>2. PICK e \in j .. Len(n) + 1 :
        /\ e = LevelEnd(n, j)
        /\ e <= Len(n) => n[e] = Slash
        /\ \A k \in j .. e - 1 : n[k] # Slash
  BY <1>1, LevelEndIs
<1>3. e # j
  <2>1. CASE e <= Len(n)
    BY <1>2, <2>1
  <2>2. CASE e = Len(n) + 1
    BY <1>1, <2>2
  <2>3. QED
    BY <1>1, <2>1, <2>2
<1>4. e - 1 \in S
  <2>1. e - 1 \in j .. Len(n) /\ (e - 1) + 1 = e
    BY <1>1, <1>3
  <2>2. e - 1 = Len(n) \/ n[e] = Slash
    BY <1>1, <1>2
  <2>3. QED
    BY <2>1, <2>2
<1>5. \A y \in S : e - 1 <= y
  <2>1. SUFFICES ASSUME NEW y \in S, ~(e - 1 <= y)
                 PROVE  FALSE
    OBVIOUS
  <2>2. y \in j .. Len(n) /\ y + 1 \in j .. e - 1 /\ y # Len(n)
    BY <1>1, <2>1
  <2>3. QED
    BY <1>2, <2>1, <2>2
<1>6. PICK m : m = Min(S)
  OBVIOUS
<1>7. m \in S /\ \A y \in S : m <= y
  <2> HIDE DEF S
  <2>1. QED
    BY <1>4, <1>5, <1>6, Zenon DEF Min
<1>8. m = e - 1
  <2>1. m \in Nat
    BY <1>1, <1>7
  <2>2. m <= e - 1 /\ e - 1 <= m
    <3> HIDE DEF S
    <3>1. QED
      BY <1>4, <1>5, <1>7
  <2>3. QED
    BY <2>1, <2>2
<1>9. SkipLevel(n, j) = m
  BY <1>6 DEF SkipLevel
<1>10. QED
  BY <1>1, <1>2, <1>8, <1>9

-----------------------------------------------------------------------------
(* c has the places in the name n behind the first m characters of f.          *)
Loops(c, f, n, m) == c = [i \in 0 .. m |-> IF i = 0 THEN 1 ELSE Turn(f[i], n, c[i - 1])]

LEMMA LoopExists ==
  ASSUME NEW f, NEW n, Len(f) \in Nat
  PROVE  \E c : Loops(c, f, n, Len(f))
<1> DEFINE S == {m \in Nat : \E c : Loops(c, f, n, m)}
<1>1. 0 \in S
  <2>1. Loops([i \in 0 .. 0 |-> 1], f, n, 0)
    BY DEF Loops
  <2>2. QED
    BY <2>1
<1>2. ASSUME NEW m \in Nat, m \in S
      PROVE  m + 1 \in S
  <2>1. PICK r : Loops(r, f, n, m)
    BY <1>2
  <2> DEFINE q == [i \in 0 .. m + 1 |-> IF i = m + 1 THEN Turn(f[m + 1], n, r[m]) ELSE r[i]]
  <2>2. ASSUME NEW i \in 0 .. m + 1
        PROVE  q[i] = IF i = 0 THEN 1 ELSE Turn(f[i], n, q[i - 1])
    <3>1. CASE i = 0
      BY <3>1, <2>1 DEF Loops
    <3>2. CASE i = m + 1
      <4>1. q[i - 1] = r[m]
        BY <3>2
      <4>2. QED
        BY <3>2, <4>1
    <3>3. CASE i # 0 /\ i # m + 1
      <4>1. i \in 0 .. m /\ i - 1 \in 0 .. m /\ i - 1 # m + 1
        BY <3>3
      <4>2. q[i] = r[i] /\ q[i - 1] = r[i - 1]
        BY <4>1, <3>3
      <4>3. r[i] = Turn(f[i], n, r[i - 1])
        BY <2>1, <4>1, <3>3 DEF Loops
      <4>4. QED
        BY <3>3, <4>2, <4>3
    <3>4. QED
      BY <3>1, <3>2, <3>3
  <2>3. Loops(q, f, n, m + 1)
    BY <2>2 DEF Loops
  <2>4. QED
    BY <2>3
<1>3. Len(f) \in S
  <2> HIDE DEF S
  <2>1. QED
    BY <1>1, <1>2, Induction
<1>4. QED
  BY <1>3

(* isTopicMatched, turn by turn.                                              *)
LEMMA MatchIs ==
  ASSUME NEW f, NEW n, Len(f) \in Nat
  PROVE  \E c : /\ c[0] = 1
                /\ \A i \in 1 .. Len(f) : c[i] = Turn(f[i], n, c[i - 1])
                /\ TopicMatches(f, n) <=> c[Len(f)] = Len(n) + 1
<1> DEFINE c == CHOOSE r : Loops(r, f, n, Len(f))
<1>1. Loops(c, f, n, Len(f))
  BY LoopExists, Zenon
<1>2. TopicMatches(f, n) <=> c[Len(f)] = Len(n) + 1
  BY Zenon DEF TopicMatches, Loops
<1> HIDE DEF c
<1>3. c[0] = 1 /\ \A i \in 1 .. Len(f) : c[i] = Turn(f[i], n, c[i - 1])
  BY <1>1 DEF Loops
<1>4. QED
  BY <1>2, <1>3, Zenon

(* start has where the first m levels of s start.                              *)
StartsAt(start, s, m) ==
  start = [k \in 1 .. m |-> IF k = 1 THEN 1 ELSE NextLevel(s, start[k - 1])]

(* The recursive functions of the model are functions.                        *)
LEMMA StartsExist ==
  ASSUME NEW s, Len(s) \in Nat
  PROVE  \E start : StartsAt(start, s, Len(s) + 1)
<1> DEFINE S == {m \in Nat : \E r : StartsAt(r, s, m + 1)}
<1>1. 0 \in S
  <2>1. StartsAt([k \in 1 .. 1 |-> 1], s, 1)
    BY DEF StartsAt
  <2>2. QED
    BY <2>1
<1>2. ASSUME NEW m \in Nat, m \in S
      PROVE  m + 1 \in S
  <2>1. PICK r : StartsAt(r, s, m + 1)
    BY <1>2
  <2> DEFINE q == [k \in 1 .. m + 2 |-> IF k = m + 2 THEN NextLevel(s, r[m + 1]) ELSE r[k]]
  <2>2. ASSUME NEW k \in 1 .. m + 2
        PROVE  q[k] = IF k = 1 THEN 1 ELSE NextLevel(s, q[k - 1])
    <3>1. CASE k = 1
      BY <3>1, <2>1 DEF StartsAt
    <3>2. CASE k = m + 2
      <4>1. q[k - 1] = r[m + 1]
        BY <3>2
      <4>2. QED
        BY <3>2, <4>1
    <3>3. CASE k # 1 /\ k # m + 2
      <4>1. k \in 1 .. m + 1 /\ k - 1 \in 1 .. m + 1 /\ k - 1 # m + 2
        BY <3>3
      <4>2. q[k] = r[k] /\ q[k - 1] = r[k - 1]
        BY <4>1, <3>3
      <4>3. r[k] = NextLevel(s, r[k - 1])
        BY <2>1, <4>1, <3>3 DEF StartsAt
      <4>4. QED
        BY <3>3, <4>2, <4>3
    <3>4. QED
      BY <3>1, <3>2, <3>3
  <2>3. StartsAt(q, s, m + 2)
    BY <2>2 DEF StartsAt
  <2>4. (m + 1) + 1 = m + 2 /\ m + 1 \in Nat
    OBVIOUS
  <2>5. QED
    BY <2>3, <2>4
<1>3. Len(s) \in S
  <2> HIDE DEF S
  <2>1. QED
    BY <1>1, <1>2, Induction
<1>4. QED
  BY <1>3

LEMMA StartsAre ==
  ASSUME NEW T, NEW s \in Seq(T)
  PROVE  /\ LevelStarts(s)[1] = 1
         /\ \A k \in 1 .. Len(s) : LevelStarts(s)[k + 1] = NextLevel(s, LevelStarts(s)[k])
<1> DEFINE start == CHOOSE r : StartsAt(r, s, Len(s) + 1)
<1>0. Len(s) \in Nat
  OBVIOUS
<1>1. StartsAt(start, s, Len(s) + 1)
  BY <1>0, StartsExist, Zenon
<1>2. LevelStarts(s) = start
  BY Zenon DEF LevelStarts, StartsAt
<1> HIDE DEF start
<1>3. start[1] = 1
  BY <1>0, <1>1 DEF StartsAt
<1>4. ASSUME NEW k \in 1 .. Len(s)
      PROVE  start[k + 1] = NextLevel(s, start[k])
  <2>1. k + 1 \in 1 .. Len(s) + 1 /\ k + 1 # 1 /\ (k + 1) - 1 = k
    BY <1>0
  <2>2. QED
    BY <1>1, <2>1 DEF StartsAt
<1>5. QED
  BY <1>2, <1>3, <1>4

-----------------------------------------------------------------------------
(* s has K levels, the k-th from S[k] to before E[k].                          *)
HasLevels(s, K, S, E) ==
  /\ K \in Nat \ {0} /\ DOMAIN Levels(s) = 1 .. K
  /\ S[1] = 1 /\ E[K] = Len(s) + 1
  /\ \A k \in 1 .. K : /\ S[k] \in 1 .. Len(s) + 1
                       /\ E[k] = LevelEnd(s, S[k])
                       /\ Levels(s)[k] = SubSeq(s, S[k], E[k] - 1)
  /\ \A k \in 1 .. K : k < K => E[k] <= Len(s) /\ S[k + 1] = E[k] + 1

(* NextLevel is behind the end of the level, or stays outside.                *)
LEMMA NextIs ==
  ASSUME NEW T, NEW s \in Seq(T), NEW k \in 1 .. Len(s), NEW i \in Nat, i >= k
  PROVE  /\ NextLevel(s, i) \in Nat /\ NextLevel(s, i) >= k + 1
         /\ i > Len(s) + 1 => NextLevel(s, i) = i
         /\ ~(i > Len(s) + 1) => NextLevel(s, i) = LevelEnd(s, i) + 1
<1>1. Len(s) \in Nat
  OBVIOUS
<1>2. CASE i > Len(s) + 1
  BY <1>1, <1>2 DEF NextLevel
<1>3. CASE ~(i > Len(s) + 1)
  <2>1. i \in 1 .. Len(s) + 1
    BY <1>1, <1>3
  <2>2. LevelEnd(s, i) \in i .. Len(s) + 1
    BY <2>1, LevelEndIs
  <2>3. NextLevel(s, i) = LevelEnd(s, i) + 1
    BY <1>3, Zenon DEF NextLevel
  <2>4. QED
    BY <1>1, <1>3, <2>2, <2>3
<1>4. QED
  BY <1>2, <1>3

(* A level starts behind the end of the one before it.                        *)
LEMMA StartsGrow ==
  ASSUME NEW T, NEW s \in Seq(T)
  PROVE  \A k \in 1 .. Len(s) + 1 : LevelStarts(s)[k] \in Nat /\ LevelStarts(s)[k] >= k
<1>0. Len(s) \in Nat
  OBVIOUS
<1> DEFINE start == LevelStarts(s)
<1>1. start[1] = 1 /\ \A k \in 1 .. Len(s) : start[k + 1] = NextLevel(s, start[k])
  BY StartsAre
<1> HIDE DEF start
<1> DEFINE A == {m \in Nat : m <= Len(s) => start[m + 1] \in Nat /\ start[m + 1] >= m + 1}
<1>2. 0 \in A
  BY <1>1
<1>3. ASSUME NEW m \in Nat, m \in A
      PROVE  m + 1 \in A
  <2>1. SUFFICES ASSUME m + 1 <= Len(s)
                 PROVE  start[(m + 1) + 1] \in Nat /\ start[(m + 1) + 1] >= (m + 1) + 1
    OBVIOUS
  <2>2. PICK k \in 1 .. Len(s) : k = m + 1
    BY <1>0, <2>1
  <2>3. PICK i \in Nat : i = start[k] /\ i >= k
    BY <1>0, <1>3, <2>1, <2>2
  <2>4. start[k + 1] = NextLevel(s, i)
    BY <1>1, <2>3
  <2>5. start[k + 1] \in Nat /\ start[k + 1] >= k + 1
    BY <2>3, <2>4, NextIs
  <2>6. QED
    BY <2>2, <2>5
<1>4. \A m \in Nat : m \in A
  <2> HIDE DEF A
  <2>1. QED
    BY <1>2, <1>3, Induction
<1>5. ASSUME NEW k \in 1 .. Len(s) + 1
      PROVE  start[k] \in Nat /\ start[k] >= k
  <2>1. k - 1 \in Nat /\ k - 1 <= Len(s) /\ (k - 1) + 1 = k
    BY <1>0
  <2>2. QED
    BY <1>4, <2>1
<1>6. QED
  BY <1>5 DEF start

(* There is a last level, and each but the last ends at a "/".                *)
LEMMA LevelsAre ==
  ASSUME NEW T, NEW s \in Seq(T)
  PROVE  \E K, S, E : HasLevels(s, K, S, E)
<1> DEFINE start == LevelStarts(s)
           D == {i \in 1 .. Len(s) + 1 : start[i] <= Len(s) + 1}
<1>0. Len(s) \in Nat
  OBVIOUS
<1>1. DOMAIN Levels(s) = D /\ \A k \in D : Levels(s)[k] = SubSeq(s, start[k], LevelEnd(s, start[k]) - 1)
  BY Zenon DEF Levels
<1>2. /\ start[1] = 1
      /\ \A k \in 1 .. Len(s) : start[k + 1] = NextLevel(s, start[k])
      /\ \A k \in 1 .. Len(s) + 1 : start[k] \in Nat /\ start[k] >= k
  BY StartsAre, StartsGrow
<1> HIDE DEF start
<1>3. 1 \in D
  BY <1>0, <1>2
<1>4. PICK x \in Nat : /\ x >= 2 /\ x \notin D
                       /\ \A y \in Nat : y >= 2 /\ y \notin D => x <= y
  <2> DEFINE R == {k \in Nat : k >= 2 /\ k \notin D}
  <2>1. Len(s) + 2 \in R
    BY <1>0
  <2>2. R \subseteq Nat
    OBVIOUS
  <2>3. PICK x \in R : \A y \in R : x <= y
    <3> HIDE DEF R
    <3>1. QED
      BY <2>1, <2>2, Least
  <2>4. QED
    BY <2>3
<1>5. PICK K \in Nat \ {0} : K + 1 = x /\ K = x - 1
  BY <1>4
<1>6. \A k \in 1 .. K : k \in D
  <2>1. SUFFICES ASSUME NEW k \in 1 .. K, k \notin D
                 PROVE  FALSE
    OBVIOUS
  <2>2. k # 1
    BY <1>3, <2>1
  <2>3. k \in Nat /\ k >= 2 /\ ~(x <= k)
    BY <1>5, <2>2
  <2>4. QED
    BY <1>4, <2>1, <2>3
<1>7. K \in 1 .. Len(s) + 1
  <2>1. K \in D
    BY <1>6
  <2>2. QED
    BY <2>1
<1>8. \A k \in D : k \in 1 .. K
  <2> DEFINE A == {m \in Nat : K + 1 + m \notin D}
  <2>1. 0 \in A
    BY <1>4, <1>5
  <2>2. ASSUME NEW m \in Nat, m \in A
        PROVE  m + 1 \in A
    <3>1. SUFFICES ASSUME K + 1 + (m + 1) \in D
                   PROVE  FALSE
      OBVIOUS
    <3>2. PICK k \in 1 .. Len(s) : k = K + 1 + m /\ k + 1 = K + 1 + (m + 1)
      BY <1>0, <3>1
    <3>3. k \notin D /\ k + 1 \in D
      BY <2>2, <3>1, <3>2
    <3>4. k \in 1 .. Len(s) + 1
      BY <1>0
    <3>5. PICK i \in Nat : i = start[k] /\ i >= k
      BY <1>2, <3>4
    <3>6. i > Len(s) + 1
      BY <1>0, <3>3, <3>4, <3>5
    <3>7. start[k + 1] = i
      BY <1>2, <3>5, <3>6, NextIs
    <3>8. QED
      BY <1>0, <3>3, <3>6, <3>7
  <2>3. \A m \in Nat : m \in A
    <3> HIDE DEF A
    <3>1. QED
      BY <2>1, <2>2, Induction
  <2>4. ASSUME NEW k \in D, k \notin 1 .. K
        PROVE  FALSE
    <3>1. k \in Nat /\ k >= K + 1
      BY <1>0, <2>4
    <3>2. k - (K + 1) \in Nat /\ K + 1 + (k - (K + 1)) = k
      BY <3>1
    <3>3. QED
      BY <2>3, <2>4, <3>2
  <2>5. QED
    BY <2>4
<1>9. D = 1 .. K
  BY <1>6, <1>8
<1> DEFINE E == [k \in 1 .. K |-> LevelEnd(s, start[k])]
<1>10. ASSUME NEW k \in 1 .. K
       PROVE  /\ start[k] \in 1 .. Len(s) + 1 /\ start[k] >= k
              /\ E[k] = LevelEnd(s, start[k])
              /\ E[k] \in start[k] .. Len(s) + 1
              /\ Levels(s)[k] = SubSeq(s, start[k], E[k] - 1)
  <2>1. k \in D
    BY <1>6
  <2>2. k \in 1 .. Len(s) + 1 /\ start[k] <= Len(s) + 1
    BY <2>1
  <2>3. start[k] \in 1 .. Len(s) + 1 /\ start[k] >= k
    BY <1>0, <1>2, <2>2
  <2>4. E[k] = LevelEnd(s, start[k])
    OBVIOUS
  <2>5. LevelEnd(s, start[k]) \in start[k] .. Len(s) + 1
    BY <2>3, LevelEndIs
  <2>6. QED
    BY <1>1, <2>1, <2>3, <2>4, <2>5, Zenon
<1> HIDE DEF E
<1>11. ASSUME NEW k \in 1 .. K, k < K \/ E[k] <= Len(s)
       PROVE  k <= Len(s) /\ start[k + 1] = E[k] + 1
  <2>1. start[k] \in Nat /\ start[k] >= k /\ ~(start[k] > Len(s) + 1) /\ E[k] \in Nat /\ E[k] >= start[k]
    BY <1>0, <1>10
  <2>2. k \in 1 .. Len(s)
    BY <1>0, <1>7, <1>11, <2>1
  <2>3. start[k + 1] = NextLevel(s, start[k])
    BY <1>2, <2>2
  <2>4. NextLevel(s, start[k]) = LevelEnd(s, start[k]) + 1
    BY <2>1, <2>2, NextIs
  <2>5. QED
    BY <1>10, <2>2, <2>3, <2>4
<1>12. ASSUME NEW k \in 1 .. K, k < K
       PROVE  E[k] <= Len(s) /\ start[k + 1] = E[k] + 1
  <2>1. start[k + 1] = E[k] + 1
    BY <1>11, <1>12
  <2>2. k + 1 \in 1 .. K
    BY <1>12
  <2>3. start[k + 1] \in 1 .. Len(s) + 1 /\ E[k] \in Nat
    BY <1>0, <1>10, <2>2
  <2>4. QED
    BY <1>0, <2>1, <2>3
<1>13. E[K] = Len(s) + 1
  <2>1. K \in 1 .. K
    OBVIOUS
  <2>2. E[K] \in start[K] .. Len(s) + 1 /\ start[K] \in Nat
    BY <1>10, <2>1
  <2>3. ASSUME E[K] <= Len(s)
        PROVE  FALSE
    <3>1. K <= Len(s) /\ start[K + 1] = E[K] + 1
      BY <1>11, <2>1, <2>3
    <3>2. K + 1 \in 1 .. Len(s) + 1 /\ start[K + 1] <= Len(s) + 1
      BY <1>0, <2>2, <2>3, <3>1
    <3>3. K + 1 \in D
      BY <3>2
    <3>4. QED
      BY <1>4, <1>5, <3>3
  <2>4. QED
    BY <1>0, <2>2, <2>3
<1>14. HasLevels(s, K, start, E)
  BY <1>1, <1>2, <1>9, <1>10, <1>12, <1>13 DEF HasLevels
<1>15. QED
  BY <1>14

-----------------------------------------------------------------------------
(* Where a turn goes from a character of a level.                             *)
LEMMA TurnInside ==
  ASSUME NEW T, NEW n \in Seq(T), NEW x, NEW j \in 1 .. Len(n), n[j] # Slash
  PROVE  Turn(x, n, j) = IF x = Plus THEN LevelEnd(n, j)
                         ELSE IF x = Hash THEN Len(n) + 1
                         ELSE IF x = n[j] THEN j + 1 ELSE 0
<1>1. SkipLevel(n, j) + 1 = LevelEnd(n, j)
  BY SkipIs
<1>2. QED
  BY <1>1, Zenon DEF Turn

(* Where a turn goes from a "/" and from no character.                  *)
LEMMA TurnIs ==
  ASSUME NEW T, NEW n \in Seq(T), NEW x
  PROVE  /\ Turn(x, n, 0) = 0
         /\ Turn(x, n, Len(n) + 1) = 0
         /\ \A j \in 1 .. Len(n) : n[j] = Slash => Turn(x, n, j) = IF x = Slash THEN j + 1 ELSE 0
<1>0. Len(n) \in Nat /\ Plus # Slash /\ Hash # Slash
  BY DEF Plus, Slash, Hash
<1>1. 0 \notin 1 .. Len(n) /\ Len(n) + 1 \notin 1 .. Len(n)
  BY <1>0
<1>2. Turn(x, n, 0) = 0 /\ Turn(x, n, Len(n) + 1) = 0
  BY <1>1, Zenon DEF Turn
<1>3. ASSUME NEW j \in 1 .. Len(n), n[j] = Slash
      PROVE  Turn(x, n, j) = IF x = Slash THEN j + 1 ELSE 0
  BY <1>0, <1>3, Zenon DEF Turn
<1>4. QED
  BY <1>2, <1>3

(* The turns through a filter, one after the other.                           *)
Turns(c, f, n) == c[0] = 1 /\ \A i \in 1 .. Len(f) : c[i] = Turn(f[i], n, c[i - 1])

(* What does not match any more never does.                                   *)
LEMMA Lost ==
  ASSUME NEW T, NEW n \in Seq(T), NEW f \in Seq(T), NEW c, Turns(c, f, n),
         NEW i \in 0 .. Len(f), c[i] = 0
  PROVE  \A j \in i .. Len(f) : c[j] = 0
<1> DEFINE A == {m \in Nat : i + m <= Len(f) => c[i + m] = 0}
<1>0. Len(f) \in Nat
  OBVIOUS
<1>1. 0 \in A
  BY <1>0
<1>2. ASSUME NEW m \in Nat, m \in A
      PROVE  m + 1 \in A
  <2>1. SUFFICES ASSUME i + (m + 1) <= Len(f)
                 PROVE  c[i + (m + 1)] = 0
    OBVIOUS
  <2>2. PICK k \in 1 .. Len(f) : k = i + (m + 1) /\ k - 1 = i + m
    BY <1>0, <2>1
  <2>3. c[k - 1] = 0
    BY <1>0, <1>2, <2>1, <2>2
  <2>4. c[k] = Turn(f[k], n, 0)
    BY <2>3 DEF Turns
  <2>5. c[k] = 0
    BY <2>4, TurnIs
  <2>6. QED
    BY <2>2, <2>5
<1>3. \A m \in Nat : m \in A
  <2> HIDE DEF A
  <2>1. QED
    BY <1>1, <1>2, Induction
<1>4. ASSUME NEW j \in i .. Len(f)
      PROVE  c[j] = 0
  <2>1. PICK m \in Nat : i + m = j
    <3>1. j - i \in Nat /\ i + (j - i) = j
      BY <1>0
    <3>2. QED
      BY <3>1
  <2>2. j <= Len(f) /\ m \in A
    BY <1>0, <1>3
  <2>3. QED
    BY <2>1, <2>2
<1>5. QED
  BY <1>4

Alike(f, s, n, t, m) == \A k \in 0 .. m - 1 : f[s + k] = n[t + k]

LEMMA OneMore == \A m \in Nat : 0 .. (m + 1) - 1 = (0 .. m - 1) \cup {m}
OBVIOUS

Plain(f, s, e) == \A k \in s .. e - 1 : f[k] \notin {Slash, Plus, Hash}

(* Through a level without wildcards: as far as the characters are the same.    *)
LEMMA Literal ==
  ASSUME NEW T, NEW n \in Seq(T), NEW f \in Seq(T), NEW c, Turns(c, f, n),
         NEW s \in 1 .. Len(f) + 1, NEW e \in s .. Len(f) + 1,
         Plain(f, s, e),
         NEW t \in 1 .. Len(n), n[t] # Slash, c[s - 1] = t
  PROVE  \A m \in 0 .. e - s :
           c[(s - 1) + m] = IF t + m <= LevelEnd(n, t) /\ Alike(f, s, n, t, m)
                            THEN t + m ELSE 0
<1> DEFINE P(m) == c[(s - 1) + m] = IF t + m <= LevelEnd(n, t) /\ Alike(f, s, n, t, m) THEN t + m ELSE 0
           A == {m \in Nat : m <= e - s => P(m)}
<1>0. Len(f) \in Nat /\ Len(n) \in Nat
  OBVIOUS
<1>1. PICK d \in t .. Len(n) + 1 : /\ d = LevelEnd(n, t)
                                   /\ d <= Len(n) => n[d] = Slash
                                   /\ \A k \in t .. d - 1 : n[k] # Slash
  <2>1. t \in 1 .. Len(n) + 1
    BY <1>0
  <2>2. QED
    BY <2>1, LevelEndIs
<1>2. 0 \in A
  <2>1. (s - 1) + 0 = s - 1 /\ t + 0 = t /\ t <= d
    BY <1>0
  <2>2. Alike(f, s, n, t, 0)
    BY DEF Alike
  <2>3. QED
    BY <1>1, <2>1, <2>2
<1>3. ASSUME NEW m \in Nat, m \in A
      PROVE  m + 1 \in A
  <2>1. SUFFICES ASSUME m + 1 <= e - s
                 PROVE  P(m + 1)
    <3> HIDE DEF P
    <3>1. QED
      OBVIOUS
  <2>2. PICK i \in 1 .. Len(f) : i = (s - 1) + (m + 1) /\ i = s + m /\ i - 1 = (s - 1) + m /\ i \in s .. e - 1
    BY <1>0, <2>1
  <2>3. f[i] # Slash /\ f[i] # Plus /\ f[i] # Hash
    BY <2>2 DEF Plain
  <2>4. c[i] = Turn(f[i], n, c[i - 1])
    BY DEF Turns
  <2>5. c[i - 1] = IF t + m <= d /\ Alike(f, s, n, t, m) THEN t + m ELSE 0
    <3>1. m <= e - s
      BY <1>0, <2>1
    <3>2. P(m)
      <4> HIDE DEF P
      <4>1. QED
        BY <1>3, <3>1
    <3>3. QED
      BY <3>2, <1>1, <2>2, Zenon
  <2>6. Alike(f, s, n, t, m + 1) <=> Alike(f, s, n, t, m) /\ f[i] = n[t + m]
    <3>1. Alike(f, s, n, t, m + 1) <=> Alike(f, s, n, t, m) /\ f[s + m] = n[t + m]
      <4>1. 0 .. (m + 1) - 1 = (0 .. m - 1) \cup {m}
        BY OneMore, Zenon
      <4>2. QED
        BY <4>1, Zenon DEF Alike
    <3>2. i = s + m
      BY <2>2
    <3>3. QED
      BY <3>1, <3>2, Zenon
  <2> HIDE DEF A
  <2>7. CASE ~(t + m <= d /\ Alike(f, s, n, t, m))
    <3>1. c[i] = 0
      BY <2>4, <2>5, <2>7, TurnIs
    <3>2. ~(t + (m + 1) <= d /\ Alike(f, s, n, t, m + 1))
      BY <1>0, <2>6, <2>7
    <3>3. QED
      BY <1>1, <2>2, <3>1, <3>2
  <2>8. CASE t + m = d
    <3>1. c[i - 1] = 0 \/ c[i - 1] = d
      BY <2>5, <2>8
    <3>2. Turn(f[i], n, d) = 0
      <4>1. CASE d = Len(n) + 1
        BY <4>1, TurnIs
      <4>2. CASE d <= Len(n)
        <5>1. d \in 1 .. Len(n) /\ n[d] = Slash
          BY <1>0, <1>1, <4>2
        <5>2. QED
          BY <5>1, <2>3, TurnIs
      <4>3. d \in Nat /\ d <= Len(n) + 1
        BY <1>0, <1>1
      <4>4. d = Len(n) + 1 \/ d <= Len(n)
        BY <1>0, <4>3
      <4>5. QED
        BY <4>1, <4>2, <4>4, Zenon
    <3>3. c[i] = 0
      BY <2>4, <3>1, <3>2, TurnIs
    <3>4. ~(t + (m + 1) <= d)
      BY <1>0, <2>8
    <3>5. QED
      BY <1>1, <2>2, <3>3, <3>4
  <2>9. CASE t + m < d /\ Alike(f, s, n, t, m)
    <3>1. PICK j \in 1 .. Len(n) : j = t + m /\ j \in t .. d - 1
      BY <1>0, <1>1, <2>9
    <3>2. n[j] # Slash /\ c[i - 1] = j
      BY <1>0, <1>1, <2>5, <2>9, <3>1
    <3>3. Turn(f[i], n, j) = IF f[i] = n[j] THEN j + 1 ELSE 0
      <4>1. Turn(f[i], n, j) = IF f[i] = Plus THEN LevelEnd(n, j)
                               ELSE IF f[i] = Hash THEN Len(n) + 1
                               ELSE IF f[i] = n[j] THEN j + 1 ELSE 0
        BY <3>1, <3>2, TurnInside
      <4>2. QED
        BY <2>3, <4>1, Zenon
    <3>4. t + (m + 1) <= d /\ t + (m + 1) = j + 1
      BY <1>0, <2>9, <3>1
    <3>5. c[i] = IF f[i] = n[j] THEN j + 1 ELSE 0
      BY <2>4, <3>2, <3>3
    <3>6. Alike(f, s, n, t, m + 1) <=> f[i] = n[j]
      BY <2>6, <2>9, <3>1
    <3>7. QED
      BY <1>1, <2>2, <3>4, <3>5, <3>6
  <2>10. QED
    BY <1>0, <2>7, <2>8, <2>9
<1>4. \A m \in Nat : m \in A
  <2> HIDE DEF A
  <2>1. QED
    BY <1>2, <1>3, Induction
<1>5. \A m \in 0 .. e - s : m \in Nat /\ m <= e - s
  BY <1>0
<1>6. QED
  BY <1>4, <1>5

-----------------------------------------------------------------------------
(* A piece of a sequence, from i to before e.                                 *)
LEMMA PartReads ==
  ASSUME NEW T, NEW s \in Seq(T), NEW i \in 1 .. Len(s) + 1, NEW e \in i .. Len(s) + 1
  PROVE  /\ SubSeq(s, i, e - 1) \in Seq(T) /\ Len(SubSeq(s, i, e - 1)) = e - i
         /\ \A k \in 0 .. (e - i) - 1 : SubSeq(s, i, e - 1)[k + 1] = s[i + k]
<1>0. Len(s) \in Nat
  OBVIOUS
<1>1. i \in 1 .. Len(s) + 1 /\ e - 1 \in i - 1 .. Len(s) /\ (e - 1) - i + 1 = e - i
  BY <1>0
<1>2. /\ SubSeq(s, i, e - 1) \in Seq(T) /\ Len(SubSeq(s, i, e - 1)) = (e - 1) - i + 1
      /\ \A k \in 1 .. (e - 1) - i + 1 : SubSeq(s, i, e - 1)[k] = s[i + k - 1]
  BY <1>1, SubSeqProperties
<1>3. ASSUME NEW k \in 0 .. (e - i) - 1
      PROVE  SubSeq(s, i, e - 1)[k + 1] = s[i + k]
  <2>1. k + 1 \in 1 .. (e - 1) - i + 1 /\ i + (k + 1) - 1 = i + k
    BY <1>0
  <2>2. QED
    BY <1>2, <2>1
<1>4. QED
  BY <1>1, <1>2, <1>3

(* Two pieces are the same if they have the same length and characters.       *)
LEMMA SameParts ==
  ASSUME NEW f \in Seq(Octet), NEW n \in Seq(Octet),
         NEW s \in 1 .. Len(f) + 1, NEW e \in s .. Len(f) + 1,
         NEW t \in 1 .. Len(n) + 1, NEW d \in t .. Len(n) + 1
  PROVE  SubSeq(f, s, e - 1) = SubSeq(n, t, d - 1) <=> e - s = d - t /\ Alike(f, s, n, t, e - s)
<1>0. Len(f) \in Nat /\ Len(n) \in Nat /\ e - s \in Nat /\ d - t \in Nat
  OBVIOUS
<1>1. PICK x \in Seq(Octet) : /\ x = SubSeq(f, s, e - 1) /\ Len(x) = e - s
                          /\ \A k \in 0 .. (e - s) - 1 : x[k + 1] = f[s + k]
  <2>1. /\ SubSeq(f, s, e - 1) \in Seq(Octet) /\ Len(SubSeq(f, s, e - 1)) = e - s
        /\ \A k \in 0 .. (e - s) - 1 : SubSeq(f, s, e - 1)[k + 1] = f[s + k]
    BY PartReads
  <2>2. QED
    BY <2>1, Zenon
<1>2. PICK y \in Seq(Octet) : /\ y = SubSeq(n, t, d - 1) /\ Len(y) = d - t
                          /\ \A k \in 0 .. (d - t) - 1 : y[k + 1] = n[t + k]
  <2>1. /\ SubSeq(n, t, d - 1) \in Seq(Octet) /\ Len(SubSeq(n, t, d - 1)) = d - t
        /\ \A k \in 0 .. (d - t) - 1 : SubSeq(n, t, d - 1)[k + 1] = n[t + k]
    BY PartReads
  <2>2. QED
    BY <2>1, Zenon
<1>3. ASSUME x = y
      PROVE  e - s = d - t /\ Alike(f, s, n, t, e - s)
  <2>1. e - s = d - t
    BY <1>1, <1>2, <1>3
  <2>2. ASSUME NEW k \in 0 .. (e - s) - 1
        PROVE  f[s + k] = n[t + k]
    BY <1>1, <1>2, <1>3, <2>1
  <2>3. QED
    BY <2>1, <2>2 DEF Alike
<1>4. ASSUME e - s = d - t, Alike(f, s, n, t, e - s)
      PROVE  x = y
  <2>1. Len(x) = Len(y)
    BY <1>1, <1>2, <1>4
  <2>2. ASSUME NEW i \in 1 .. Len(x)
        PROVE  x[i] = y[i]
    <3>1. PICK k \in 0 .. (e - s) - 1 : i = k + 1
      <4>1. i - 1 \in 0 .. (e - s) - 1 /\ i = (i - 1) + 1
        BY <1>0, <1>1
      <4>2. QED
        BY <4>1
    <3>2. x[k + 1] = f[s + k] /\ y[k + 1] = n[t + k]
      BY <1>1, <1>2, <1>4, <3>1
    <3>3. f[s + k] = n[t + k]
      BY <1>4, <3>1 DEF Alike
    <3>4. QED
      BY <3>1, <3>2, <3>3
  <2>3. QED
    BY <1>1, <1>2, <2>1, <2>2, SeqEqual
<1>5. QED
  BY <1>1, <1>2, <1>3, <1>4

(* A level of a filter is one wildcard, "#" the last one, or has none.          *)
LEMMA LevelKinds ==
  ASSUME NEW f, IsFilter(f), NEW s \in 1 .. Len(f) + 1, NEW e, e = LevelEnd(f, s)
  PROVE  \/ \A k \in s .. e - 1 : f[k] \notin {Slash, Plus, Hash}
         \/ s \in 1 .. Len(f) /\ e = s + 1 /\ f[s] = Plus
         \/ s \in 1 .. Len(f) /\ e = s + 1 /\ f[s] = Hash /\ s = Len(f)
<1>0. f \in Seq(Octet) /\ Len(f) \in Nat
  BY DEF IsFilter, IsString
<1>1. /\ e \in s .. Len(f) + 1 /\ \A k \in s .. e - 1 : f[k] # Slash
  BY <1>0, LevelEndIs
<1>2. SUFFICES ASSUME NEW k \in s .. e - 1, f[k] \in {Plus, Hash}
               PROVE  \/ s \in 1 .. Len(f) /\ e = s + 1 /\ f[s] = Plus
                      \/ s \in 1 .. Len(f) /\ e = s + 1 /\ f[s] = Hash /\ s = Len(f)
  BY <1>1
<1>3. k \in 1 .. Len(f)
  BY <1>0, <1>1
<1>4. /\ k = 1 \/ f[k - 1] = Slash
      /\ k = Len(f) \/ (f[k] = Plus /\ f[k + 1] = Slash)
  BY <1>2, <1>3 DEF IsFilter
<1>5. k = s
  <2>1. SUFFICES ASSUME k # s
                 PROVE  FALSE
    OBVIOUS
  <2>2. k - 1 \in s .. e - 1 /\ k # 1
    BY <1>0, <1>1, <2>1
  <2>3. QED
    BY <1>1, <1>4, <2>2
<1>6. e = k + 1
  <2>1. SUFFICES ASSUME e # k + 1
                 PROVE  FALSE
    OBVIOUS
  <2>2. k + 1 \in s .. e - 1 /\ k # Len(f)
    BY <1>0, <1>1, <1>3, <2>1
  <2>3. QED
    BY <1>1, <1>4, <2>2
<1>7. Plus # Hash
  BY DEF Plus, Hash
<1>8. QED
  BY <1>2, <1>3, <1>4, <1>5, <1>6, <1>7, Zenon

(* A piece of one character.                                                  *)
LEMMA OneOf ==
  ASSUME NEW T, NEW f \in Seq(T), NEW s \in 1 .. Len(f)
  PROVE  SubSeq(f, s, (s + 1) - 1) = <<f[s]>>
<1>0. Len(f) \in Nat
  OBVIOUS
<1>1. s \in 1 .. Len(f) + 1 /\ s + 1 \in s .. Len(f) + 1 /\ (s + 1) - s = 1
  BY <1>0
<1>2. /\ SubSeq(f, s, (s + 1) - 1) \in Seq(T) /\ Len(SubSeq(f, s, (s + 1) - 1)) = (s + 1) - s
      /\ \A k \in 0 .. ((s + 1) - s) - 1 : SubSeq(f, s, (s + 1) - 1)[k + 1] = f[s + k]
  BY <1>1, PartReads
<1>3. PICK x \in Seq(T) : x = SubSeq(f, s, (s + 1) - 1)
  BY <1>2, Zenon
<1>4. 0 \in 0 .. ((s + 1) - s) - 1 /\ s + 0 = s /\ 0 + 1 = 1
  BY <1>0
<1>5. Len(x) = 1 /\ x[1] = f[s]
  <2>1. x[0 + 1] = f[s + 0]
    BY <1>2, <1>3, <1>4, Zenon
  <2>2. Len(x) = (s + 1) - s
    BY <1>2, <1>3, Zenon
  <2>3. QED
    BY <1>1, <1>4, <2>1, <2>2
<1>6. x = <<f[s]>>
  <2>1. f[s] \in T
    BY ElementOfSeq
  <2>2. <<f[s]>> \in Seq(T) /\ Len(<<f[s]>>) = 1 /\ <<f[s]>>[1] = f[s]
    BY <2>1
  <2>3. \A i \in 1 .. Len(x) : x[i] = <<f[s]>>[i]
    BY <1>5, <2>2
  <2>4. QED
    BY <1>3, <1>5, <2>2, <2>3, SeqEqual
<1>7. QED
  BY <1>3, <1>6

(* Without a wildcard in it, a level is none.                                 *)
LEMMA NotWild ==
  ASSUME NEW f \in Seq(Octet), NEW s \in 1 .. Len(f) + 1, NEW e \in s .. Len(f) + 1, Plain(f, s, e)
  PROVE  SubSeq(f, s, e - 1) # <<Hash>> /\ SubSeq(f, s, e - 1) # <<Plus>>
<1>0. Len(f) \in Nat
  OBVIOUS
<1>1. PICK x : x = SubSeq(f, s, e - 1)
  OBVIOUS
<1>2. ASSUME NEW w \in {Plus, Hash}, x = <<w>>
      PROVE  FALSE
  <2>1. /\ Len(x) = e - s
        /\ \A k \in 0 .. (e - s) - 1 : x[k + 1] = f[s + k]
    BY <1>0, <1>1, PartReads
  <2>2. Len(x) = 1 /\ x[1] = w
    BY <1>2
  <2>3. e - s = 1
    BY <2>1, <2>2
  <2>4. 0 \in 0 .. (e - s) - 1 /\ 0 + 1 = 1 /\ s + 0 = s /\ s \in s .. e - 1
    BY <1>0, <2>3
  <2>5. f[s] = w
    BY <2>1, <2>2, <2>4
  <2>6. QED
    BY <1>2, <2>4, <2>5 DEF Plain
<1>3. QED
  BY <1>1, <1>2

(* "#" ends the filter.                                                       *)
LEMMA HashIsLast ==
  ASSUME NEW f, IsFilter(f), NEW s \in 1 .. Len(f) + 1, NEW e, e = LevelEnd(f, s),
         SubSeq(f, s, e - 1) = <<Hash>>
  PROVE  e = Len(f) + 1
<1>0. f \in Seq(Octet) /\ Len(f) \in Nat
  BY DEF IsFilter, IsString
<1>1. e \in s .. Len(f) + 1
  BY <1>0, LevelEndIs
<1>2. CASE \A k \in s .. e - 1 : f[k] \notin {Slash, Plus, Hash}
  BY <1>0, <1>1, <1>2, NotWild DEF Plain
<1>3. CASE s \in 1 .. Len(f) /\ e = s + 1 /\ f[s] = Plus
  <2>1. SubSeq(f, s, e - 1) = <<Plus>>
    BY <1>0, <1>3, OneOf
  <2>2. <<Hash>>[1] = Hash /\ <<Plus>>[1] = Plus /\ Plus # Hash
    BY DEF Plus, Hash
  <2>3. QED
    BY <2>1, <2>2
<1>4. QED
  BY <1>2, <1>3, LevelKinds, Zenon

(* Through a level: "#" goes to the end of the name, and any other level to the *)
(* end of the level of the name exactly if it covers it.                      *)
Through(f, n, c, s, e, t, d) ==
  /\ SubSeq(f, s, e - 1) = <<Hash>> => e = Len(f) + 1 /\ c[Len(f)] = Len(n) + 1
  /\ SubSeq(f, s, e - 1) # <<Hash>> =>
       /\ c[e - 1] \in {0} \cup (t .. d)
       /\ c[e - 1] = d <=> SubSeq(f, s, e - 1) \in {SubSeq(n, t, d - 1), <<Plus>>}

LEMMA ThroughLevel ==
  ASSUME NEW f, IsFilter(f), NEW n \in Seq(Octet), NEW c, Turns(c, f, n),
         NEW s \in 1 .. Len(f) + 1, NEW e, e = LevelEnd(f, s),
         NEW t \in 1 .. Len(n), n[t] # Slash, NEW d, d = LevelEnd(n, t), c[s - 1] = t
  PROVE  Through(f, n, c, s, e, t, d)
<1> USE DEF Through
<1>0. f \in Seq(Octet) /\ Len(f) \in Nat /\ Len(n) \in Nat /\ t \in 1 .. Len(n) + 1
  BY DEF IsFilter, IsString
<1>1. e \in s .. Len(f) + 1 /\ d \in t .. Len(n) + 1
  BY <1>0, LevelEndIs
<1>2. Plus # Hash
  BY DEF Plus, Hash
<1>3. PICK x : x = SubSeq(f, s, e - 1)
  OBVIOUS
<1>4. PICK y : y = SubSeq(n, t, d - 1)
  OBVIOUS
<1>5. CASE s \in 1 .. Len(f) /\ e = s + 1 /\ f[s] = Plus
  <2>1. x = <<Plus>>
    BY <1>0, <1>3, <1>5, OneOf
  <2>2. c[s] = Turn(f[s], n, t)
    BY <1>5 DEF Turns
  <2>3. c[s] = d
    BY <1>5, <2>2, TurnInside, Zenon
  <2>4. e - 1 = s
    BY <1>5
  <2>5. x # <<Hash>> /\ d \in t .. d
    BY <1>0, <1>1, <1>2, <2>1
  <2>6. QED
    BY <1>3, <1>4, <2>1, <2>3, <2>4, <2>5, Zenon
<1>6. CASE s \in 1 .. Len(f) /\ e = s + 1 /\ f[s] = Hash /\ s = Len(f)
  <2>1. x = <<Hash>>
    BY <1>0, <1>3, <1>6, OneOf
  <2>2. c[s] = Turn(f[s], n, t)
    BY <1>6 DEF Turns
  <2>3. c[s] = Len(n) + 1
    BY <1>2, <1>6, <2>2, TurnInside, Zenon
  <2>4. QED
    BY <1>3, <1>6, <2>1, <2>3, Zenon
<1>7. CASE \A k \in s .. e - 1 : f[k] \notin {Slash, Plus, Hash}
  <2>1. e - s \in 0 .. e - s /\ (s - 1) + (e - s) = e - 1
    BY <1>0, <1>1
  <2>2. c[(s - 1) + (e - s)] = IF t + (e - s) <= d /\ Alike(f, s, n, t, e - s) THEN t + (e - s) ELSE 0
    <3>1. c[(s - 1) + (e - s)] = IF t + (e - s) <= LevelEnd(n, t) /\ Alike(f, s, n, t, e - s)
                                 THEN t + (e - s) ELSE 0
      <4>1. \A m \in 0 .. e - s :
              c[(s - 1) + m] = IF t + m <= LevelEnd(n, t) /\ Alike(f, s, n, t, m)
                               THEN t + m ELSE 0
        <5>1. Plain(f, s, e)
          BY <1>7 DEF Plain
        <5>2. QED
          BY <1>0, <1>1, <5>1, Literal, SMTT(40)
      <4>2. QED
        BY <2>1, <4>1, Zenon
    <3>2. QED
      BY <3>1, Zenon
  <2>3. c[e - 1] = IF t + (e - s) <= d /\ Alike(f, s, n, t, e - s) THEN t + (e - s) ELSE 0
    BY <2>1, <2>2
  <2>4. x = y <=> e - s = d - t /\ Alike(f, s, n, t, e - s)
    <3>1. SubSeq(f, s, e - 1) = SubSeq(n, t, d - 1) <=> e - s = d - t /\ Alike(f, s, n, t, e - s)
      <4>1. \A j \in t .. Len(n) + 1 :
              SubSeq(f, s, e - 1) = SubSeq(n, t, j - 1) <=> e - s = j - t /\ Alike(f, s, n, t, e - s)
        BY <1>0, <1>1, SameParts, ZenonT(40)
      <4>2. QED
        BY <1>1, <4>1, Zenon
    <3>2. QED
      BY <1>3, <1>4, <3>1, Zenon
  <2>5. x # <<Hash>> /\ x # <<Plus>>
    <3>1. Plain(f, s, e)
      BY <1>7 DEF Plain
    <3>2. QED
      BY <1>0, <1>1, <1>3, <3>1, NotWild, Zenon
  <2>6. c[e - 1] \in {0} \cup (t .. d)
    BY <1>0, <1>1, <2>3
  <2>7. c[e - 1] = d <=> e - s = d - t /\ Alike(f, s, n, t, e - s)
    BY <1>0, <1>1, <2>3
  <2>8. QED
    BY <1>3, <1>4, <2>4, <2>5, <2>6, <2>7, Zenon
<1>8. QED
  BY <1>5, <1>6, <1>7, LevelKinds, Zenon

-----------------------------------------------------------------------------
(* Where a level of a name that is not empty starts and ends.                 *)
LEMMA NameLevels ==
  ASSUME NEW n \in Seq(Octet), NEW M, NEW P, NEW D, HasLevels(n, M, P, D),
         NEW k \in 1 .. M, Levels(n)[k] # <<>>
  PROVE  /\ P[k] \in 1 .. Len(n) /\ n[P[k]] # Slash
         /\ D[k] \in P[k] .. Len(n) + 1 /\ (D[k] <= Len(n) => n[D[k]] = Slash)
         /\ \A i \in P[k] .. D[k] - 1 : n[i] # Slash
<1>0. Len(n) \in Nat
  OBVIOUS
<1>1. /\ P[k] \in 1 .. Len(n) + 1 /\ D[k] = LevelEnd(n, P[k])
      /\ Levels(n)[k] = SubSeq(n, P[k], D[k] - 1)
  BY DEF HasLevels
<1>2. PICK t \in 1 .. Len(n) + 1 : t = P[k]
  BY <1>1
<1>3. PICK d : d = D[k]
  OBVIOUS
<1>4. /\ d \in t .. Len(n) + 1 /\ (d <= Len(n) => n[d] = Slash)
      /\ \A i \in t .. d - 1 : n[i] # Slash
  BY <1>1, <1>2, <1>3, LevelEndIs
<1>5. d # t
  <2>1. SUFFICES ASSUME d = t
                 PROVE  FALSE
    OBVIOUS
  <2>2. SubSeq(n, t, t - 1) = <<>>
    <3>1. t \in Int /\ t - 1 \in Int /\ t - 1 < t
      BY <1>0
    <3>2. QED
      BY <3>1, SubSeqEmpty
  <2>3. QED
    BY <1>1, <1>2, <1>3, <2>1, <2>2
<1>6. t \in 1 .. Len(n) /\ t \in t .. d - 1
  BY <1>0, <1>4, <1>5
<1>7. QED
  BY <1>2, <1>3, <1>4, <1>6

(* The levels before the k-th are met: each has one of the name, and no "#".     *)
Met(F, N, M, k) == \A i \in 1 .. k - 1 : i \in 1 .. M /\ F[i] \in {N[i], <<Plus>>}

LEMMA MetNext ==
  ASSUME NEW F, NEW N, NEW M, NEW k \in Nat \ {0}
  PROVE  Met(F, N, M, k + 1) <=> Met(F, N, M, k) /\ k \in 1 .. M /\ F[k] \in {N[k], <<Plus>>}
<1>1. 1 .. (k + 1) - 1 = (1 .. k - 1) \cup {k}
  OBVIOUS
<1>2. QED
  BY <1>1, Zenon DEF Met

(* Behind a level, over the "/" that ends it, into the next level of the name.  *)
LEMMA OverSlash ==
  ASSUME NEW n \in Seq(Octet), NEW t \in 1 .. Len(n), NEW d \in t .. Len(n) + 1,
         d <= Len(n) => n[d] = Slash, \A i \in t .. d - 1 : n[i] # Slash,
         NEW j \in {0} \cup (t .. d)
  PROVE  Turn(Slash, n, j) = IF j = d /\ d <= Len(n) THEN d + 1 ELSE 0
<1>0. Len(n) \in Nat /\ Plus # Slash /\ Hash # Slash
  BY DEF Plus, Slash, Hash
<1>1. CASE j = 0
  BY <1>0, <1>1, TurnIs
<1>2. CASE j \in t .. d - 1
  <2>1. j \in 1 .. Len(n) /\ n[j] # Slash /\ j # d
    BY <1>0, <1>2
  <2>2. Turn(Slash, n, j) = 0
    BY <1>0, <2>1, TurnInside
  <2>3. QED
    BY <2>1, <2>2
<1>3. CASE j = d /\ d <= Len(n)
  <2>1. d \in 1 .. Len(n) /\ n[d] = Slash
    BY <1>0, <1>3
  <2>2. QED
    BY <1>3, <2>1, TurnIs
<1>4. CASE j = d /\ d = Len(n) + 1
  <2>1. Turn(Slash, n, Len(n) + 1) = 0
    BY TurnIs
  <2>2. QED
    BY <1>0, <1>4, <2>1
<1>5. QED
  BY <1>0, <1>1, <1>2, <1>3, <1>4

(* From the start of a level of the filter to the start of the next.          *)
LEMMA LevelStep ==
  ASSUME NEW f, IsFilter(f), NEW n \in Seq(Octet), NEW c, Turns(c, f, n),
         NEW K, NEW S, NEW E, HasLevels(f, K, S, E),
         NEW M, NEW P, NEW D, HasLevels(n, M, P, D), \A i \in 1 .. M : Levels(n)[i] # <<>>,
         NEW k \in 1 .. K, k < K,
         c[S[k] - 1] = IF Met(Levels(f), Levels(n), M, k) /\ k <= M THEN P[k] ELSE 0
  PROVE  c[S[k + 1] - 1] = IF Met(Levels(f), Levels(n), M, k + 1) /\ k + 1 <= M THEN P[k + 1] ELSE 0
<1>0. /\ f \in Seq(Octet) /\ Len(f) \in Nat /\ Len(n) \in Nat
      /\ K \in Nat /\ M \in Nat /\ k \in Nat \ {0}
  <2>1. f \in Seq(Octet)
    BY DEF IsFilter, IsString
  <2>2. K \in Nat /\ M \in Nat
    BY DEF HasLevels
  <2>3. k \in Nat \ {0}
    BY <2>2
  <2>4. QED
    BY <2>1, <2>2, <2>3
<1>1. PICK s \in 1 .. Len(f) + 1 : s = S[k]
  BY DEF HasLevels
<1>2. PICK e : e = E[k]
  OBVIOUS
<1>3. /\ e = LevelEnd(f, s) /\ Levels(f)[k] = SubSeq(f, s, e - 1)
      /\ e <= Len(f) /\ S[k + 1] = e + 1
  BY <1>1, <1>2 DEF HasLevels
<1>4. e \in s .. Len(f) + 1 /\ f[e] = Slash
  BY <1>0, <1>3, LevelEndIs
<1>5. e \in 1 .. Len(f) /\ S[k + 1] - 1 = e
  <2>1. e \in Nat /\ e >= 1
    BY <1>0, <1>4
  <2>2. QED
    BY <1>0, <1>3, <2>1
<1>6. c[e] = Turn(Slash, n, c[e - 1])
  BY <1>4, <1>5 DEF Turns
<1>7. Levels(f)[k] # <<Hash>>
  <2>1. e # Len(f) + 1
    BY <1>0, <1>3
  <2>2. QED
    BY <1>3, <2>1, HashIsLast, Zenon
<1>8. /\ Met(Levels(f), Levels(n), M, k + 1) <=>
           /\ Met(Levels(f), Levels(n), M, k)
           /\ k \in 1 .. M /\ Levels(f)[k] \in {Levels(n)[k], <<Plus>>}
  BY <1>0, MetNext, Zenon
<1>9. k + 1 <= M => k <= M
  BY <1>0
<1>10. CASE ~(Met(Levels(f), Levels(n), M, k) /\ k <= M)
  <2>1. c[s - 1] = 0
    BY <1>1, <1>10
  <2>2. s - 1 \in 0 .. Len(f) /\ e \in s - 1 .. Len(f)
    BY <1>0, <1>3, <1>4
  <2>3. c[e] = 0
    BY <1>0, <2>1, <2>2, Lost
  <2>4. QED
    BY <1>5, <1>8, <1>9, <1>10, <2>3, Zenon
<1>11. CASE Met(Levels(f), Levels(n), M, k) /\ k <= M
  <2>1. k \in 1 .. M
    BY <1>0, <1>11
  <2>2. PICK t \in 1 .. Len(n) : t = P[k] /\ n[t] # Slash
    BY <2>1, NameLevels
  <2>3. PICK d \in t .. Len(n) + 1 : /\ d = D[k] /\ (d <= Len(n) => n[d] = Slash)
                                     /\ \A i \in t .. d - 1 : n[i] # Slash
    BY <2>1, <2>2, NameLevels
  <2>4. /\ d = LevelEnd(n, t) /\ Levels(n)[k] = SubSeq(n, t, d - 1)
        /\ k < M => d <= Len(n) /\ P[k + 1] = d + 1
        /\ k = M => d = Len(n) + 1
    BY <2>1, <2>2, <2>3 DEF HasLevels
  <2>5. c[s - 1] = t
    BY <1>1, <1>11, <2>2
  <2>6. /\ c[e - 1] \in {0} \cup (t .. d)
        /\ c[e - 1] = d <=> Levels(f)[k] \in {Levels(n)[k], <<Plus>>}
    <3>1. Through(f, n, c, s, e, t, d)
      BY <1>3, <2>2, <2>4, <2>5, ThroughLevel
    <3>2. QED
      BY <1>3, <1>7, <2>4, <3>1, Zenon DEF Through
  <2>7. PICK j \in {0} \cup (t .. d) : j = c[e - 1]
    BY <2>6
  <2>8. c[e] = IF j = d /\ d <= Len(n) THEN d + 1 ELSE 0
    BY <1>6, <2>3, <2>7, OverSlash, Zenon
  <2>9. Met(Levels(f), Levels(n), M, k + 1) <=> j = d
    BY <1>8, <1>11, <2>1, <2>6, <2>7, Zenon
  <2>10. k < M <=> k + 1 <= M
    BY <1>0
  <2>11. k < M <=> d <= Len(n)
    BY <1>0, <2>1, <2>4
  <2>12. k < M => P[k + 1] = d + 1
    BY <2>4
  <2>13. QED
    BY <1>5, <2>8, <2>9, <2>10, <2>11, <2>12, Zenon
<1>12. QED
  BY <1>10, <1>11, Zenon

(* Placed the start of each level of the filter: at the same level of the name, as  *)
(* long as all levels before it are met.                                      *)
LEMMA LevelByLevel ==
  ASSUME NEW f, IsFilter(f), NEW n \in Seq(Octet), NEW c, Turns(c, f, n),
         NEW K, NEW S, NEW E, HasLevels(f, K, S, E),
         NEW M, NEW P, NEW D, HasLevels(n, M, P, D), \A i \in 1 .. M : Levels(n)[i] # <<>>
  PROVE  \A k \in 1 .. K :
           c[S[k] - 1] = IF Met(Levels(f), Levels(n), M, k) /\ k <= M THEN P[k] ELSE 0
<1> DEFINE Placed(k) == c[S[k] - 1] = IF Met(Levels(f), Levels(n), M, k) /\ k <= M THEN P[k] ELSE 0
           A == {m \in Nat : m + 1 <= K => Placed(m + 1)}
<1>0. K \in Nat \ {0} /\ M \in Nat \ {0} /\ S[1] = 1 /\ P[1] = 1
  BY DEF HasLevels
<1>1. Placed(1)
  <2>1. c[S[1] - 1] = 1
    <3>1. S[1] - 1 = 0
      BY <1>0
    <3>2. QED
      BY <3>1 DEF Turns
  <2>2. Met(Levels(f), Levels(n), M, 1)
    BY DEF Met
  <2>3. 1 <= M
    BY <1>0
  <2>4. QED
    BY <1>0, <2>1, <2>2, <2>3, Zenon
<1>2. 0 \in A
  <2>1. 0 + 1 = 1
    OBVIOUS
  <2> HIDE DEF Placed
  <2>2. QED
    BY <1>1, <2>1
<1>3. ASSUME NEW m \in Nat, m \in A
      PROVE  m + 1 \in A
  <2>1. SUFFICES ASSUME (m + 1) + 1 <= K
                 PROVE  Placed((m + 1) + 1)
    <3> HIDE DEF Placed
    <3>1. QED
      OBVIOUS
  <2>2. m + 1 <= K
    BY <1>0, <2>1
  <2>3. Placed(m + 1)
    <3> HIDE DEF Placed
    <3>1. QED
      BY <1>3, <2>2
  <2>4. m + 1 \in 1 .. K /\ m + 1 < K
    BY <1>0, <2>1
  <2>5. PICK k \in 1 .. K : k = m + 1 /\ k < K
    BY <2>4
  <2>6. Placed(k)
    BY <2>3, <2>5
  <2>7. Placed(k + 1)
    BY <2>5, <2>6, LevelStep
  <2>8. QED
    BY <2>5, <2>7
<1>4. \A m \in Nat : m \in A
  <2> HIDE DEF A
  <2>1. QED
    BY <1>2, <1>3, Induction
<1>5. ASSUME NEW k \in 1 .. K
      PROVE  Placed(k)
  <2>1. PICK m \in Nat : m + 1 = k
    <3>1. k - 1 \in Nat /\ (k - 1) + 1 = k
      BY <1>0
    <3>2. QED
      BY <3>1
  <2>2. m \in A /\ m + 1 <= K
    BY <1>0, <1>4, <2>1
  <2>3. Placed(m + 1)
    <3> HIDE DEF Placed
    <3>1. QED
      BY <2>2
  <2>4. QED
    BY <2>1, <2>3
<1>6. QED
  BY <1>5

(* What is left when all levels of the filter are gone through.                *)
LEMMA LastLevel ==
  ASSUME NEW f, IsFilter(f), NEW n \in Seq(Octet), NEW c, Turns(c, f, n),
         NEW K, NEW S, NEW E, HasLevels(f, K, S, E),
         NEW M, NEW P, NEW D, HasLevels(n, M, P, D), \A i \in 1 .. M : Levels(n)[i] # <<>>
  PROVE  c[Len(f)] = Len(n) + 1 <=>
           /\ Met(Levels(f), Levels(n), M, K) /\ K <= M
           /\ \/ Levels(f)[K] = <<Hash>>
              \/ K = M /\ Levels(f)[K] \in {Levels(n)[K], <<Plus>>}
<1>0. /\ f \in Seq(Octet) /\ Len(f) \in Nat /\ Len(n) \in Nat
      /\ K \in Nat \ {0} /\ M \in Nat \ {0}
  <2>1. f \in Seq(Octet)
    BY DEF IsFilter, IsString
  <2>2. K \in Nat \ {0} /\ M \in Nat \ {0}
    BY DEF HasLevels
  <2>3. QED
    BY <2>1, <2>2
<1>1. K \in 1 .. K
  BY <1>0
<1>2. PICK s \in 1 .. Len(f) + 1 : s = S[K]
  BY <1>1 DEF HasLevels
<1>3. PICK e : e = Len(f) + 1 /\ e = LevelEnd(f, s) /\ Levels(f)[K] = SubSeq(f, s, e - 1)
  BY <1>1, <1>2 DEF HasLevels
<1>4. e - 1 = Len(f)
  BY <1>0, <1>3
<1>5. c[s - 1] = IF Met(Levels(f), Levels(n), M, K) /\ K <= M THEN P[K] ELSE 0
  BY <1>1, <1>2, LevelByLevel
<1>6. CASE ~(Met(Levels(f), Levels(n), M, K) /\ K <= M)
  <2>1. c[s - 1] = 0
    BY <1>5, <1>6
  <2>2. s - 1 \in 0 .. Len(f) /\ Len(f) \in s - 1 .. Len(f)
    BY <1>0
  <2>3. c[Len(f)] = 0
    BY <1>0, <2>1, <2>2, Lost
  <2>4. Len(n) + 1 # 0
    BY <1>0
  <2>5. QED
    BY <1>6, <2>3, <2>4, Zenon
<1>7. CASE Met(Levels(f), Levels(n), M, K) /\ K <= M
  <2>1. K \in 1 .. M
    BY <1>0, <1>7
  <2>2. PICK t \in 1 .. Len(n) : t = P[K] /\ n[t] # Slash
    BY <2>1, NameLevels
  <2>3. PICK d \in t .. Len(n) + 1 : d = D[K]
    BY <2>1, <2>2, NameLevels
  <2>4. /\ d = LevelEnd(n, t) /\ Levels(n)[K] = SubSeq(n, t, d - 1)
        /\ K < M => d <= Len(n)
        /\ K = M => d = Len(n) + 1
    BY <2>1, <2>2, <2>3 DEF HasLevels
  <2>5. c[s - 1] = t
    BY <1>5, <1>7, <2>2
  <2>6. Through(f, n, c, s, e, t, d)
    BY <1>3, <2>2, <2>4, <2>5, ThroughLevel
  <2>7. CASE Levels(f)[K] = <<Hash>>
    <3>1. c[Len(f)] = Len(n) + 1
      BY <1>3, <2>6, <2>7, Zenon DEF Through
    <3>2. QED
      BY <1>7, <2>7, <3>1, Zenon
  <2>8. CASE Levels(f)[K] # <<Hash>>
    <3>1. /\ c[Len(f)] \in {0} \cup (t .. d)
          /\ c[Len(f)] = d <=> Levels(f)[K] \in {Levels(n)[K], <<Plus>>}
      BY <1>3, <1>4, <2>4, <2>6, <2>8, Zenon DEF Through
    <3>2. CASE K = M
      <4>1. d = Len(n) + 1
        BY <2>4, <3>2
      <4>2. QED
        BY <1>7, <2>8, <3>1, <3>2, <4>1, Zenon
    <3>3. CASE K # M
      <4>1. d <= Len(n)
        BY <1>0, <2>1, <2>4, <3>3
      <4>2. c[Len(f)] # Len(n) + 1
        BY <1>0, <3>1, <4>1
      <4>3. QED
        BY <2>8, <3>3, <4>2, Zenon
    <3>4. QED
      BY <3>2, <3>3, Zenon
  <2>9. QED
    BY <2>7, <2>8, Zenon
<1>8. QED
  BY <1>6, <1>7, Zenon

(* isTopicMatched is what MQTT says.                                          *)
LEMMA MatchesByLevels ==
  ASSUME NEW f, IsFilter(f), NEW n \in Seq(Octet), \A i \in DOMAIN Levels(n) : Levels(n)[i] # <<>>
  PROVE  TopicMatches(f, n) <=> Covers(Levels(f), Levels(n))
<1>0. f \in Seq(Octet) /\ Len(f) \in Nat /\ Len(n) \in Nat
  BY DEF IsFilter, IsString
<1>1. PICK K, S, E : HasLevels(f, K, S, E)
  BY <1>0, LevelsAre
<1>2. PICK M, P, D : HasLevels(n, M, P, D)
  BY LevelsAre
<1>3. PICK F : F = Levels(f)
  OBVIOUS
<1>4. PICK N : N = Levels(n)
  OBVIOUS
<1>5. K \in Nat \ {0} /\ M \in Nat \ {0} /\ DOMAIN F = 1 .. K /\ DOMAIN N = 1 .. M
  BY <1>1, <1>2, <1>3, <1>4 DEF HasLevels
<1>6. \A i \in 1 .. M : Levels(n)[i] # <<>>
  BY <1>4, <1>5
<1>7. TopicMatches(f, n) <=>
        /\ Met(F, N, M, K) /\ K <= M
        /\ F[K] = <<Hash>> \/ (K = M /\ F[K] \in {N[K], <<Plus>>})
  <2>1. PICK c : Turns(c, f, n) /\ (TopicMatches(f, n) <=> c[Len(f)] = Len(n) + 1)
    BY <1>0, MatchIs, Zenon DEF Turns
  <2>2. c[Len(f)] = Len(n) + 1 <=>
           /\ Met(Levels(f), Levels(n), M, K) /\ K <= M
           /\ \/ Levels(f)[K] = <<Hash>>
              \/ K = M /\ Levels(f)[K] \in {Levels(n)[K], <<Plus>>}
    BY <1>1, <1>2, <1>6, <2>1, LastLevel
  <2>3. QED
    BY <1>3, <1>4, <2>1, <2>2, Zenon
<1>8. ASSUME NEW k \in 1 .. K, k # K
      PROVE  F[k] # <<Hash>>
  <2>1. PICK s \in 1 .. Len(f) + 1 : s = S[k]
    BY <1>1 DEF HasLevels
  <2>2. PICK e : e = E[k] /\ e = LevelEnd(f, s) /\ F[k] = SubSeq(f, s, e - 1)
    BY <1>1, <1>3, <2>1 DEF HasLevels
  <2>3. k < K
    BY <1>5, <1>8
  <2>4. e <= Len(f)
    BY <1>1, <2>2, <2>3 DEF HasLevels
  <2>5. e # Len(f) + 1
    BY <1>0, <2>4
  <2>6. QED
    BY <2>2, <2>5, HashIsLast, Zenon
<1>9. Covers(F, N) <=>
        /\ \A i \in 1 .. K : i \in 1 .. M /\ F[i] \in {N[i], <<Plus>>, <<Hash>>}
        /\ 1 .. K = 1 .. M \/ \E i \in 1 .. K : F[i] = <<Hash>>
  BY <1>5, Zenon DEF Covers
<1>10. 1 .. K = 1 .. M <=> K = M
  BY <1>5
<1>11. K \in 1 .. K /\ (K <= M <=> K \in 1 .. M)
  BY <1>5
<1>12. 1 .. K = (1 .. K - 1) \cup {K} /\ K \notin 1 .. K - 1
  BY <1>5
<1>13. (\E i \in 1 .. K : F[i] = <<Hash>>) <=> F[K] = <<Hash>>
  BY <1>8, <1>11, Zenon
<1>14. (\A i \in 1 .. K : i \in 1 .. M /\ F[i] \in {N[i], <<Plus>>, <<Hash>>})
         <=> Met(F, N, M, K) /\ K \in 1 .. M /\ F[K] \in {N[K], <<Plus>>, <<Hash>>}
  <2>1. \A i \in 1 .. K - 1 : F[i] # <<Hash>>
    BY <1>8, <1>12, Zenon
  <2>2. QED
    BY <1>12, <2>1, Zenon DEF Met
<1>15. QED
  BY <1>3, <1>4, <1>7, <1>9, <1>10, <1>11, <1>13, <1>14, Zenon

(* A filter that is the name itself is among them.                            *)
LEMMA EqualIsCovered ==
  ASSUME NEW N
  PROVE  Covers(N, N)
BY DEF Covers

(* deliverMessage calls the handlers whose filter covers the topic.           *)
LEMMA CalledAre ==
  ASSUME NEW n \in Seq(Octet), \A i \in DOMAIN Levels(n) : Levels(n)[i] # <<>>
  PROVE  Called(n) = {f \in Filters : Covers(Levels(f), Levels(n))}
<1>1. ASSUME NEW f \in Filters
      PROVE  f = n \/ TopicMatches(f, n) <=> Covers(Levels(f), Levels(n))
  <2>1. IsFilter(f)
    BY FilterAssumption
  <2>2. TopicMatches(f, n) <=> Covers(Levels(f), Levels(n))
    BY <2>1, MatchesByLevels
  <2>3. f = n => Covers(Levels(f), Levels(n))
    BY EqualIsCovered
  <2>4. QED
    BY <2>2, <2>3
<1>2. QED
  BY <1>1, Zenon DEF Called

-----------------------------------------------------------------------------
(* The topic of a packet the client takes for a PUBLISH is a sequence of bytes,  *)
(* whatever the packet is.                                                   *)
LEMMA TopicIsRead ==
  ASSUME NEW h \in Octet, NEW body \in Seq(Octet), Len(body) \in Measurable,
         NEW p, p = ClientReads(Frame(h, body)), p.type = PUBLISH
  PROVE  p.strings[1] \in Seq(Octet)
<1>1. PICK type : type = TypeOf(Frame(h, body))
  OBVIOUS
<1>2. PICK q : q = QosOf(Frame(h, body))
  OBVIOUS
<1>3. BodyOf(Frame(h, body)) = body
  BY FrameReads
<1>4. p = CASE type = CONNACK -> ReadConnack(body)
            [] type = SUBACK -> ReadSuback(body)
            [] type = PUBLISH -> ReadPublish(q, body)
            [] type \in {UNSUBACK, PUBACK} /\ Len(body) >= 2 -> ReadAck(type, body)
            [] OTHER -> Packet(type, 0, 0, 0, <<>>, <<>>)
  BY <1>1, <1>2, <1>3, Zenon DEF ClientReads
<1>5. /\ PUBLISH # CONNACK /\ PUBLISH # SUBACK /\ PUBLISH # 0
      /\ ReadConnack(body).type = CONNACK /\ ReadSuback(body).type = SUBACK
      /\ ReadAck(type, body).type = type /\ Packet(type, 0, 0, 0, <<>>, <<>>).type = type
  BY DEF PUBLISH, CONNACK, SUBACK, ReadConnack, ReadSuback, ReadAck, Packet
<1>6. type = PUBLISH
  <2>1. CASE type = CONNACK
    <3>1. p = ReadConnack(body)
      BY <1>4, <2>1 DEF CONNACK, SUBACK, PUBLISH, UNSUBACK, PUBACK
    <3>2. QED
      BY <1>5, <3>1
  <2>2. CASE type = SUBACK
    <3>1. p = ReadSuback(body)
      BY <1>4, <2>2 DEF CONNACK, SUBACK, PUBLISH, UNSUBACK, PUBACK
    <3>2. QED
      BY <1>5, <3>1
  <2>3. CASE type \notin {CONNACK, SUBACK, PUBLISH}
    <3>1. p \in {ReadAck(type, body), Packet(type, 0, 0, 0, <<>>, <<>>)}
      BY <1>4, <2>3
    <3>2. p.type = type
      BY <1>5, <3>1
    <3>3. QED
      BY <3>2
  <2>4. QED
    BY <2>1, <2>2, <2>3
<1>7. p = ReadPublish(q, body)
  BY <1>4, <1>6 DEF CONNACK, SUBACK, PUBLISH, UNSUBACK, PUBACK
<1>8. PICK s : s = ReadString(Unread(body), 0)
  OBVIOUS
<1>9. s.ok
  <2>1. SUFFICES ASSUME ~s.ok
                 PROVE  FALSE
    OBVIOUS
  <2>2. p = NotRead
    BY <1>7, <1>8, <2>1, Zenon DEF ReadPublish
  <2>3. p.type = 0
    BY <2>2 DEF NotRead, Packet
  <2>4. QED
    BY <1>5, <2>3
<1>10. p.strings = s.strings
  <2>1. p = IF q = 0 THEN Packet(PUBLISH, 0, 0, 0, s.strings, s.left)
            ELSE Packet(PUBLISH, q, 0, Value2(s.left), s.strings, From(s.left, 3))
    BY <1>7, <1>8, <1>9, Zenon DEF ReadPublish
  <2>2. QED
    BY <2>1 DEF Packet
<1>11. PICK len : len = Value2(body)
  OBVIOUS
<1>12. s = IF Len(body) < 2 \/ 2 + len + 0 > Len(body) THEN [Unread(body) EXCEPT !.ok = FALSE]
           ELSE [ok |-> TRUE, left |-> From(body, 3 + len + 0),
                 strings |-> Append(<<>>, SubSeq(body, 3, 2 + len)),
                 gaps |-> <<>> \o SubSeq(body, 3 + len, 2 + len + 0)]
  BY <1>8, <1>11 DEF ReadString, Unread
<1>13. ~(Len(body) < 2) /\ ~(2 + len + 0 > Len(body))
  BY <1>9, <1>12 DEF Unread
<1>14. s.strings = <<SubSeq(body, 3, 2 + len)>>
  BY <1>12, <1>13
<1>15. Len(body) \in Nat
  BY LenProperties
<1>16. len \in Nat
  <2>1. 1 \in 1 .. Len(body) /\ 2 \in 1 .. Len(body)
    BY <1>13, <1>15
  <2>2. body[1] \in Octet /\ body[2] \in Octet
    BY <2>1, ElementOfSeq
  <2>3. QED
    <3>1. PICK a \in Octet, b \in Octet : a = body[1] /\ b = body[2]
      BY <2>2
    <3>2. len = 256 * a + b
      BY <1>11, <3>1, Zenon DEF Value2
    <3>3. 256 * a + b \in Nat
      BY DEF Octet
    <3>4. QED
      BY <3>2, <3>3
<1>17. SubSeq(body, 3, 2 + len) \in Seq(Octet)
  <2>1. 3 \in Int /\ 2 + len \in Int /\ 3 .. 2 + len \subseteq 1 .. Len(body)
    BY <1>13, <1>15, <1>16
  <2>2. \A i \in 3 .. 2 + len : body[i] \in Octet
    BY <2>1, ElementOfSeq
  <2>3. QED
    BY <2>1, <2>2, SubSeqProperties
<1>18. QED
  BY <1>10, <1>14, <1>17

(* For every message whose topic has no empty level, the handlers called are     *)
(* those whose filter matches it level by level: "+" one level, "#" all that     *)
(* are left, and any other level the same level of the topic.                  *)
THEOREM HandlersAreRight == Spec => []HandlersMatch
<1>1. Inv => HandlersMatch
  <2> SUFFICES ASSUME Inv, pc = "packet", packet.type = PUBLISH,
                      NEW n, n = packet.strings[1],
                      \A i \in DOMAIN Levels(n) : Levels(n)[i] # <<>>
               PROVE  Called(n) = {f \in Filters : Covers(Levels(f), Levels(n))}
    BY Zenon DEF HandlersMatch
  <2>1. PICK h \in Octet, body \in Seq(Octet) :
          Len(body) \in Measurable /\ readbuf = Frame(h, body)
    BY DEF Inv, FrameInv
  <2>2. packet = ClientReads(Frame(h, body))
    BY <2>1 DEF Inv, ReadInv
  <2>3. n \in Seq(Octet)
    BY <2>1, <2>2, TopicIsRead, Zenon
  <2>4. QED
    BY <2>3, CalledAre
<1>2. QED
  BY <1>1, Invariance, PTL
=============================================================================
