------------------------------ MODULE MqttPacket ------------------------------
(***************************************************************************)
(* The packets of MQTT 3.1.1 as bytes, from mqttClient/MQTTPacket: what the   *)
(* client serializes and the server deserializes, and the other way round.   *)
(* The library has both sides; the server's stands for the server here.      *)
(*                                                                         *)
(* A packet is a record with the fields of all types: `flags' are the        *)
(* connect flags, `number' the packet id, the keep-alive interval or the code *)
(* of a CONNACK, `strings' the fields that have a length, `rest' the payload  *)
(* of a PUBLISH or the QoSs of a SUBSCRIBE or a SUBACK.                      *)
(***************************************************************************)
EXTENDS Integers, Sequences, SequencesExt, FiniteSetsExt

CONSTANTS
  BufferSize,    (* MQTT_DEFAULT_SEND_SIZE, MQTT_DEFAULT_RECV_SIZE           *)
  CharSigned     (* is a char of the compiler signed?                        *)

Octet == 0 .. 255
Short == {n \in Nat : n < 256 * 256}
Power128 == <<1, 128, 128 * 128, 128 * 128 * 128, 128 * 128 * 128 * 128>>

(* A header and four digits fit a buffer, its size is no more than they tell.   *)
ASSUME BufferAssumption ==
  /\ BufferSize \in Nat /\ BufferSize >= 5 /\ BufferSize < Power128[5]
  /\ CharSigned \in BOOLEAN

(* Types; the flags DUP and RETAIN are never set.                             *)
CONNECT == 1
CONNACK == 2
PUBLISH == 3
PUBACK == 4
SUBSCRIBE == 8
SUBACK == 9
UNSUBSCRIBE == 10
UNSUBACK == 11
PINGREQ == 12
PINGRESP == 13
DISCONNECT == 14

Packet(type, qos, flags, number, strings, rest) ==
  [type |-> type, qos |-> qos, flags |-> flags, number |-> number,
   strings |-> strings, rest |-> rest]
NotRead == Packet(0, 0, 0, 0, <<>>, <<>>)
-----------------------------------------------------------------------------
(* Remaining length: digits of seven bits, the smallest first, the top bit set *)
(* in all but the last.                                                      *)
EncodeLength(n) ==
  LET digits == Min({d \in 1 .. 4 : n < Power128[d + 1]})
  IN [i \in 1 .. digits |->
        (IF i < digits THEN 128 ELSE 0) + ((n \div Power128[i]) % 128)]

(* MQTTPacket_decode: four digits at most; `size' is the bytes consumed.      *)
DecodeLength(bytes) ==
  LET ends == {i \in 1 .. Len(bytes) : bytes[i] < 128}
      size == IF ends = {} THEN Len(bytes) ELSE Min(ends)
      digit(i) == IF i <= size THEN (bytes[i] % 128) * Power128[i] ELSE 0
  IN [size |-> size, value |-> digit(1) + digit(2) + digit(3) + digit(4)]

(* MQTTPacket_len: one more than needed for some lengths, never one less.     *)
PacketLen(n) ==
  n + 1 + (IF n + 1 < 128 THEN 1
           ELSE IF n + 1 < 16384 THEN 2
           ELSE IF n + 1 < 2097151 THEN 3 ELSE 4)

Int2(n) == <<n \div 256, n % 256>>
Value2(bytes) == 256 * bytes[1] + bytes[2]
MqttString(s) == Int2(Len(s)) \o s
Char(b) == IF CharSigned /\ b >= 128 THEN b - 256 ELSE b
From(bytes, i) == SubSeq(bytes, i, Len(bytes))

(* readMQTTLenString; `gap' is the number of bytes behind the string that       *)
(* belong to it, the QoS of a SUBSCRIBE.                                     *)
Unread(bytes) == [ok |-> TRUE, left |-> bytes, strings |-> <<>>, gaps |-> <<>>]
ReadString(st, gap) ==
  LET len == Value2(st.left)
  IN IF Len(st.left) < 2 \/ 2 + len + gap > Len(st.left) THEN [st EXCEPT !.ok = FALSE]
     ELSE [ok |-> TRUE, left |-> From(st.left, 3 + len + gap),
           strings |-> Append(st.strings, SubSeq(st.left, 3, 2 + len)),
           gaps |-> st.gaps \o SubSeq(st.left, 3 + len, 2 + len + gap)]

(* ... and as many more as there are; the first is read apart.                *)
ReadStrings(bytes, gap) ==
  LET read(st) == IF ~st.ok \/ st.left = <<>> THEN st ELSE ReadString(st, gap)
      first == read(Unread(bytes))
  IN IF ~first.ok \/ first.left = <<>> THEN first
     ELSE FoldLeft(LAMBDA st, i : read(st), first, [i \in 1 .. Len(bytes) |-> i])
-----------------------------------------------------------------------------
(* What each packet has behind its remaining length, and the length computed   *)
(* for it beforehand.  A CONNECT has five strings at most: the client id, the   *)
(* topic and the message of the will, the user name and the password.  The    *)
(* client subscribes to one topic at a time.                                  *)
Concat(strings) ==
  LET part(i) == IF i <= Len(strings) THEN MqttString(strings[i]) ELSE <<>>
  IN part(1) \o (part(2) \o (part(3) \o (part(4) \o part(5))))
Lengths(strings) ==
  LET size(i) == IF i <= Len(strings) THEN 2 + Len(strings[i]) ELSE 0
  IN size(1) + size(2) + size(3) + size(4) + size(5)

ConnectLength(p) == 10 + Lengths(p.strings)
SubscribeLength(p) == 2 + 2 + Len(p.strings[1]) + 1
UnsubscribeLength(p) == 2 + 2 + Len(p.strings[1])
PublishLength(p) == 2 + Len(p.strings[1]) + Len(p.rest) + (IF p.qos > 0 THEN 2 ELSE 0)

(* "MQTT", version 4.                                                         *)
Protocol == MqttString(<<77, 81, 84, 84>>) \o <<4>>
ConnectBody(p) == Protocol \o <<p.flags>> \o Int2(p.number) \o Concat(p.strings)
SubscribeBody(p) == Int2(p.number) \o MqttString(p.strings[1]) \o <<p.rest[1]>>
UnsubscribeBody(p) == Int2(p.number) \o MqttString(p.strings[1])
PublishBody(p) ==
  MqttString(p.strings[1]) \o (IF p.qos > 0 THEN Int2(p.number) ELSE <<>>) \o p.rest
SubackBody(p) == Int2(p.number) \o p.rest

Whole(p, length, body) ==
  IF PacketLen(length) > BufferSize THEN <<>>
  ELSE <<16 * p.type + 2 * p.qos>> \o EncodeLength(length) \o body

(* The bytes of a packet of the client; none if it does not fit the buffer.    *)
Serialize(p) ==
  CASE p.type = CONNECT -> Whole(p, ConnectLength(p), ConnectBody(p))
    [] p.type = SUBSCRIBE -> Whole(p, SubscribeLength(p), SubscribeBody(p))
    [] p.type = UNSUBSCRIBE -> Whole(p, UnsubscribeLength(p), UnsubscribeBody(p))
    [] p.type = PUBLISH -> Whole(p, PublishLength(p), PublishBody(p))
    [] p.type = PUBACK -> Whole(p, 2, Int2(p.number))
    [] p.type \in {PINGREQ, DISCONNECT} -> Whole(p, 0, <<>>)
    [] OTHER -> <<>>

(* The packets of the server, of any size.                                    *)
ServerBody(p) ==
  CASE p.type = CONNACK -> <<p.flags, p.number>>
    [] p.type = SUBACK -> SubackBody(p)
    [] p.type \in {UNSUBACK, PUBACK} -> Int2(p.number)
    [] p.type = PUBLISH -> PublishBody(p)
    [] p.type = PINGRESP -> <<>>
ServerSerialize(p) ==
  <<16 * p.type + 2 * p.qos>> \o EncodeLength(Len(ServerBody(p))) \o ServerBody(p)
-----------------------------------------------------------------------------
TypeOf(bytes) == bytes[1] \div 16
QosOf(bytes) == (bytes[1] \div 2) % 4
Has(flags, bit) == (flags \div bit) % 2 = 1

BodyOf(bytes) ==
  LET length == DecodeLength(Tail(bytes))
  IN SubSeq(bytes, 2 + length.size, 1 + length.size + length.value)

(* A field of a CONNECT, if its flag is set: at least `least' bytes.           *)
ReadField(st, has, least) ==
  IF ~has \/ ~st.ok THEN st
  ELSE IF Len(st.left) < least THEN [st EXCEPT !.ok = FALSE]
  ELSE ReadString(st, 0)

Will == 4
Password == 64
UserName == 128
ReadConnect(body) ==
  LET flags == body[8]
      id == ReadString(Unread(From(body, 11)), 0)
      topic == ReadField(id, Has(flags, Will), 0)
      message == ReadField(topic, Has(flags, Will), 0)
      user == ReadField(message, Has(flags, UserName), 3)
      s == ReadField(user, Has(flags, Password), 3)
  IN IF SubSeq(body, 1, 7) = Protocol /\ s.ok /\ (Has(flags, Password) => Has(flags, UserName))
     THEN Packet(CONNECT, 0, flags, Value2(From(body, 9)), s.strings, <<>>) ELSE NotRead

ReadTopics(type, body, gap) ==
  LET s == ReadStrings(From(body, 3), gap)
  IN IF s.ok THEN Packet(type, 1, 0, Value2(body), s.strings, s.gaps) ELSE NotRead

(* A topic that is not there leaves the result of MQTTPacket_decodeBuf, which  *)
(* is 1, success, if the remaining length has one digit.                     *)
ReadPublish(qos, body) ==
  LET s == ReadString(Unread(body), 0)
  IN IF ~s.ok THEN NotRead
     ELSE IF qos = 0 THEN Packet(PUBLISH, 0, 0, 0, s.strings, s.left)
     ELSE Packet(PUBLISH, qos, 0, Value2(s.left), s.strings, From(s.left, 3))

ReadAck(type, body) == Packet(type, 0, 0, Value2(body), <<>>, <<>>)

ServerReads(bytes) ==
  LET body == BodyOf(bytes)
  IN CASE TypeOf(bytes) = CONNECT -> ReadConnect(body)
       [] TypeOf(bytes) = SUBSCRIBE -> ReadTopics(SUBSCRIBE, body, 1)
       [] TypeOf(bytes) = UNSUBSCRIBE -> ReadTopics(UNSUBSCRIBE, body, 0)
       [] TypeOf(bytes) = PUBLISH -> ReadPublish(QosOf(bytes), body)
       [] TypeOf(bytes) = PUBACK -> ReadAck(PUBACK, body)
       [] OTHER -> Packet(TypeOf(bytes), 0, 0, 0, <<>>, <<>>)

(* The client's reading of a packet that readPacket returned.  An answer that   *)
(* is too short leaves a one-digit length as the result, 1, success, and the   *)
(* code is the 0 it was set to: accepted, or granted.  Of a SUBACK the client  *)
(* has room for one code; a second is written behind it, with three or more    *)
(* there is no result.                                                       *)
ReadConnack(body) ==
  IF Len(body) < 2 THEN Packet(CONNACK, 0, 0, 0, <<>>, <<>>)
  ELSE Packet(CONNACK, 0, body[1] % 2, body[2], <<>>, <<>>)
ReadSuback(body) ==
  CASE Len(body) < 2 -> Packet(SUBACK, 0, 0, 0, <<>>, <<0>>)
    [] Len(body) = 2 -> Packet(SUBACK, 0, 0, Value2(body), <<>>, <<0>>)
    [] Len(body) \in 3 .. 4 -> Packet(SUBACK, 0, 0, Value2(body), <<>>, <<Char(body[3])>>)
    [] OTHER -> Packet(SUBACK, 0, 0, Value2(body), <<>>, <<>>)

ClientReads(bytes) ==
  LET body == BodyOf(bytes)
      type == TypeOf(bytes)
  IN CASE type = CONNACK -> ReadConnack(body)
       [] type = SUBACK -> ReadSuback(body)
       [] type = PUBLISH -> ReadPublish(QosOf(bytes), body)
       [] type \in {UNSUBACK, PUBACK} /\ Len(body) >= 2 -> ReadAck(type, body)
       [] OTHER -> Packet(type, 0, 0, 0, <<>>, <<>>)
-----------------------------------------------------------------------------
(* The packets a client may ask to be sent and those a server sends, a SUBACK   *)
(* for one subscription each.  An empty user name or password is refused by     *)
(* MQTTDeserialize_connect.                                                  *)
Packets ==
  [type : 1 .. 14, qos : 0 .. 2, flags : Octet, number : Short,
   strings : Seq(Seq(Octet)), rest : Seq(Octet)]

IsString(s) == s \in Seq(Octet) /\ Len(s) \in Short

IsPublish(p) ==
  /\ p = Packet(PUBLISH, p.qos, 0, p.number, p.strings, p.rest)
  /\ Len(p.strings) = 1 /\ (p.qos = 0 => p.number = 0)
  /\ PublishLength(p) < Power128[5]

IsConnect(p) ==
  LET will == IF Has(p.flags, Will) THEN 2 ELSE 0
      user == IF Has(p.flags, UserName) THEN 1 ELSE 0
      password == IF Has(p.flags, Password) THEN 1 ELSE 0
  IN /\ p = Packet(CONNECT, 0, p.flags, p.number, p.strings, <<>>)
     /\ Len(p.strings) = 1 + will + user + password
     /\ password <= user
     /\ \A i \in 2 + will .. Len(p.strings) : p.strings[i] # <<>>

IsRequest(p) ==
  /\ p \in Packets /\ \A i \in DOMAIN p.strings : IsString(p.strings[i])
  /\ \/ IsConnect(p)
     \/ /\ p = Packet(SUBSCRIBE, 1, 0, p.number, p.strings, p.rest)
        /\ Len(p.strings) = 1 /\ Len(p.rest) = 1
     \/ p = Packet(UNSUBSCRIBE, 1, 0, p.number, p.strings, <<>>) /\ Len(p.strings) = 1
     \/ IsPublish(p)
     \/ p = Packet(PUBACK, 0, 0, p.number, <<>>, <<>>)
     \/ p \in {Packet(PINGREQ, 0, 0, 0, <<>>, <<>>), Packet(DISCONNECT, 0, 0, 0, <<>>, <<>>)}

IsReply(p) ==
  /\ p \in Packets /\ \A i \in DOMAIN p.strings : IsString(p.strings[i])
  /\ \/ /\ p = Packet(CONNACK, 0, p.flags, p.number, <<>>, <<>>)
        /\ p.flags \in {0, 1} /\ p.number \in Octet
     \/ p = Packet(SUBACK, 0, 0, p.number, <<>>, p.rest) /\ Len(p.rest) = 1
     \/ IsPublish(p)
     \/ \E type \in {UNSUBACK, PUBACK} : p = Packet(type, 0, 0, p.number, <<>>, <<>>)
     \/ p = Packet(PINGRESP, 0, 0, 0, <<>>, <<>>)
===============================================================================
