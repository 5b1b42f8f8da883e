----------------------------- MODULE MqttFraming -----------------------------
(***************************************************************************)
(* Packets over a stream of bytes: sendPacket, readPacket and decodePacket of *)
(* MqttClient.c on top of a modem that may take a write in part and whose     *)
(* reads give up at a deadline, and deliverMessage.                          *)
(*                                                                         *)
(* When which packet is sent, and what a call makes of an answer, is the      *)
(* matter of MqttSession; here any request may come, and the server sends     *)
(* what it wants.                                                            *)
(***************************************************************************)
EXTENDS MqttPacket, FiniteSets

CONSTANTS
  Requests,      (* the packets the client sends, but for their packet id    *)
  Replies,       (* the packets the server sends                             *)
  Filters,       (* the topic filters with a message handler                 *)
  MaxPacketId,   (* MAX_PACKET_ID                                            *)
  MaxReplies,    (* bound: packets under way to the client                   *)
  MaxLate        (* bound: reads that give up inside a packet                *)

ASSUME PacketAssumption ==
  (\A p \in Requests : IsRequest(p)) /\ (\A p \in Replies : IsReply(p))
ASSUME IdAssumption == MaxPacketId \in Short \ {0} /\ MaxReplies \in Nat /\ MaxLate \in Nat

(* A filter is a string of C.  As MQTT has it, a level of it is "+", or "#" if   *)
(* it is the last, or has none of them.                                      *)
Slash == 47
Plus == 43
Hash == 35
IsFilter(f) ==
  /\ IsString(f) /\ \A i \in 1 .. Len(f) : f[i] # 0
  /\ \A i \in 1 .. Len(f) :
       f[i] \in {Plus, Hash} =>
         /\ i = 1 \/ f[i - 1] = Slash
         /\ i = Len(f) \/ (f[i] = Plus /\ f[i + 1] = Slash)
ASSUME FilterAssumption == \A f \in Filters : IsFilter(f)

VARIABLES
  pc,             (* "idle", "sending", "sent", "length", "body" or "packet"  *)
  open,           (* from the TCP connection to MQTTCloseSession             *)
  next_packetid,
  request, sent,  (* the packet being sent, and the bytes the modem took      *)
  received,       (* what the server has read since the last whole packet,   *)
  spoiled,        (* unless a subscription failed with part of its packet    *)
  wire,           (* bytes under way to the client                           *)
  due,            (* the packets they are                                    *)
  readbuf, rem,   (* what readPacket has read, and the rest it has to read    *)
  late,           (* reads that gave up though there was more under way      *)
  packet          (* what the client makes of the packet                     *)

sendVars == <<next_packetid, request, sent, received, spoiled>>
readVars == <<readbuf, rem, late, packet>>
netVars == <<wire, due>>
vars == <<pc, open, sendVars, readVars, netVars>>

Init ==
  /\ pc = "idle" /\ open = FALSE
  /\ next_packetid = 1 /\ request = NotRead /\ sent = 0 /\ received = <<>> /\ spoiled = FALSE
  /\ readbuf = <<>> /\ rem = 0 /\ late = 0 /\ packet = NotRead
  /\ wire = <<>> /\ due = <<>>

(* MQTTConnect opens a new connection, MQTTClientInit was before it.          *)
Open ==
  /\ pc = "idle" /\ ~open
  /\ open' = TRUE
  /\ next_packetid' = 1 /\ received' = <<>> /\ spoiled' = FALSE
  /\ wire' = <<>> /\ due' = <<>> /\ late' = 0
  /\ UNCHANGED <<pc, request, sent, readbuf, rem, packet>>
-----------------------------------------------------------------------------
(* Mutant: the packet id goes on growing.                                     *)
IdWithoutWrap == next_packetid + 1

NextPacketId == IF next_packetid = MaxPacketId THEN 1 ELSE next_packetid + 1
NeedsId(p) == p.type \in {SUBSCRIBE, UNSUBSCRIBE} \/ (p.type = PUBLISH /\ p.qos > 0)

(* The packet is serialized into buf, or the call fails.                      *)
Send(p) ==
  LET q == IF NeedsId(p) THEN [p EXCEPT !.number = NextPacketId] ELSE p IN
  /\ pc = "idle" /\ open
  /\ next_packetid' = IF NeedsId(p) THEN NextPacketId ELSE next_packetid
  /\ IF Serialize(q) = <<>>
     THEN /\ open' = (p.type = SUBSCRIBE)
          /\ UNCHANGED <<pc, request, sent>>
     ELSE /\ request' = q /\ sent' = 0 /\ pc' = "sending"
          /\ UNCHANGED open
  /\ UNCHANGED <<received, spoiled, readVars, netVars>>

(* A write of `length' bytes from the position `sent' on, of which the modem   *)
(* takes n: behind the packet there is what was in buf before, here zeros.    *)
Window(n) ==
  LET bytes == Serialize(request)
  IN [i \in 1 .. n |-> IF sent + i <= Len(bytes) THEN bytes[sent + i] ELSE 0]

(* The first byte, half of what is left, all of it, or more than that.        *)
Pieces ==
  LET length == Len(Serialize(request))
      left == length - sent
  IN ({left \div 2, left, length} \union (IF sent = 0 THEN {1} ELSE {})) \ {0}

(* Mutant: the loop ends with the first write.                                *)
WriteOnce(n) ==
  /\ pc = "sending"
  /\ received' = IF spoiled THEN <<>> ELSE received \o Window(n)
  /\ sent' = sent + n
  /\ pc' = "sent"
  /\ UNCHANGED <<open, next_packetid, request, spoiled, readVars, netVars>>

Write(n) ==
  /\ pc = "sending" /\ sent < Len(Serialize(request))
  /\ received' = IF spoiled THEN <<>> ELSE received \o Window(n)
  /\ sent' = sent + n
  /\ pc' = IF sent' = Len(Serialize(request)) THEN "sent" ELSE "sending"
  /\ UNCHANGED <<open, next_packetid, request, spoiled, readVars, netVars>>

SendForgotten == request' = NotRead /\ sent' = 0

(* Mutant: a failed request of any kind leaves the session open.              *)
SendFailsOpen ==
  /\ pc = "sending"
  /\ pc' = "idle"
  /\ spoiled' = (spoiled \/ (request.type = SUBSCRIBE /\ sent > 0))
  /\ SendForgotten
  /\ UNCHANGED <<open, next_packetid, received, readVars, netVars>>

(* The modem refuses a write, or has taken too much.  MQTTSubscribe does not    *)
(* close the session then, all others do.                                    *)
SendFails ==
  /\ pc = "sending"
  /\ pc' = "idle"
  /\ open' = (request.type = SUBSCRIBE)
  /\ spoiled' = (spoiled \/ (request.type = SUBSCRIBE /\ sent > 0))
  /\ received' = IF spoiled' THEN <<>> ELSE received
  /\ SendForgotten
  /\ UNCHANGED <<next_packetid, readVars, netVars>>

(* The server takes the packet off what it received.                          *)
SendEnds ==
  /\ pc = "sent"
  /\ pc' = "idle"
  /\ received' = IF spoiled THEN <<>> ELSE From(received, Len(Serialize(request)) + 1)
  /\ SendForgotten
  /\ UNCHANGED <<open, next_packetid, spoiled, readVars, netVars>>
-----------------------------------------------------------------------------
ServerSends(p) ==
  /\ open /\ Len(due) < MaxReplies
  /\ wire' = wire \o ServerSerialize(p)
  /\ due' = Append(due, p)
  /\ UNCHANGED <<pc, open, sendVars, readVars>>

Take(n) == wire' = From(wire, n + 1)
GivesUp(n) ==
  IF n < Len(wire) THEN late < MaxLate /\ late' = late + 1 ELSE UNCHANGED late
ReadForgotten == readbuf' = <<>> /\ rem' = 0 /\ packet' = NotRead

ReadHeader ==
  /\ pc = "idle" /\ open /\ wire # <<>>
  /\ readbuf' = <<wire[1]>> /\ rem' = 0
  /\ Take(1)
  /\ pc' = "length"
  /\ UNCHANGED <<open, late, packet, sendVars, due>>

(* decodePacket has read n bytes when it ends or gives up, and readPacket does  *)
(* not tell: what was read is the length.                                     *)
ReadLength(n) ==
  LET whole == DecodeLength(SubSeq(wire, 1, Min({4, Len(wire)}))).size IN
  /\ pc = "length"
  /\ \/ n = whole /\ n > 0 /\ (n = 4 \/ wire[n] < 128) /\ UNCHANGED late
     \/ n < whole /\ GivesUp(n)
     \/ n = whole /\ n < 4 /\ (n > 0 => wire[n] >= 128) /\ GivesUp(n)
  /\ rem' = DecodeLength(SubSeq(wire, 1, n)).value
  /\ readbuf' = readbuf \o EncodeLength(rem')
  /\ Take(n)
  /\ pc' = "body"
  /\ UNCHANGED <<open, packet, sendVars, due>>

(* Mutant: the last byte of the buffer is not used.                           *)
TooLongByOne == rem >= BufferSize - Len(readbuf)

TooLong == rem > BufferSize - Len(readbuf)

(* ERR_MQTT_BUFFER_OVERFLOW: cycle() closes the session.                      *)
ReadTooLong ==
  /\ pc = "body" /\ TooLong
  /\ open' = FALSE
  /\ pc' = "idle"
  /\ ReadForgotten
  /\ UNCHANGED <<late, sendVars, netVars>>

(* The read gives up with part of the body; cycle() goes on with keepalive(),   *)
(* which may close the session.                                              *)
ReadShort(n) ==
  /\ pc = "body" /\ ~TooLong
  /\ n \in 0 .. rem - 1 /\ n <= Len(wire)
  /\ Take(n)
  /\ GivesUp(n)
  /\ open' \in BOOLEAN
  /\ pc' = "idle"
  /\ ReadForgotten
  /\ UNCHANGED <<sendVars, due>>

(* Mutant: the read takes a byte of the next packet where there is one.       *)
ReadBodyRunningOn ==
  LET n == Min({rem + 1, Len(wire)}) IN
  /\ pc = "body" /\ ~TooLong /\ rem <= Len(wire)
  /\ Take(n)
  /\ readbuf' = readbuf \o SubSeq(wire, 1, n)
  /\ packet' = ClientReads(readbuf')
  /\ pc' = "packet"
  /\ UNCHANGED <<open, rem, late, sendVars, due>>

ReadBody ==
  /\ pc = "body" /\ ~TooLong /\ rem <= Len(wire)
  /\ Take(rem)
  /\ readbuf' = readbuf \o SubSeq(wire, 1, rem)
  /\ packet' = ClientReads(readbuf')
  /\ pc' = "packet"
  /\ UNCHANGED <<open, rem, late, sendVars, due>>
-----------------------------------------------------------------------------
(* Mutant: a level may match "+" in part.                                     *)
SkipOne(n, j) == j

(* isTopicMatched, "+": the last character of the level.                      *)
SkipLevel(n, j) == Min({k \in j .. Len(n) : k = Len(n) \/ n[k + 1] = Slash})

(* A turn of the loop of isTopicMatched: with c from the filter, from the j-th  *)
(* character of the name to the next to compare, or to 0, no match.           *)
Turn(c, n, j) ==
  IF j \notin 1 .. Len(n) \/ (n[j] = Slash /\ c # Slash) THEN 0
  ELSE IF c = Plus THEN SkipLevel(n, j) + 1
  ELSE IF c = Hash THEN Len(n) + 1
  ELSE IF c = n[j] THEN j + 1 ELSE 0

TopicMatches(f, n) ==
  LET curn[i \in 0 .. Len(f)] == IF i = 0 THEN 1 ELSE Turn(f[i], n, curn[i - 1])
  IN curn[Len(f)] = Len(n) + 1

Called(n) == {f \in Filters : f = n \/ TopicMatches(f, n)}

(* The types cycle() has a case for; 5, 6 and 7 are PUBREC, PUBREL and PUBCOMP. *)
Known == {0, CONNACK, PUBLISH, PUBACK, 5, 6, 7, SUBACK, UNSUBACK, PINGRESP}

(* cycle(): a packet of another type closes the session; behind these the       *)
(* answer to a PUBREC or PUBREL, and keepalive(), may.                        *)
Handle ==
  /\ pc = "packet"
  /\ open' \in IF TypeOf(readbuf) \in Known THEN BOOLEAN ELSE {FALSE}
  /\ due' = IF late > 0 THEN due ELSE Tail(due)
  /\ pc' = "idle"
  /\ ReadForgotten
  /\ UNCHANGED <<late, sendVars, wire>>

Next ==
  \/ Open
  \/ \E p \in Requests : Send(p)
  \/ \E n \in Pieces : Write(n)
  \/ SendFails \/ SendEnds
  \/ \E p \in Replies : ServerSends(p)
  \/ ReadHeader
  \/ \E n \in 0 .. 4 : ReadLength(n)
  \/ ReadTooLong
  \/ \E n \in {0, 1, rem - 1, Len(wire)} : ReadShort(n)
  \/ ReadBody
  \/ Handle

Spec == Init /\ [][Next]_vars
-----------------------------------------------------------------------------
(* Every variable stays in its range; nothing is read behind the buffer.       *)
TypeOK ==
  /\ pc \in {"idle", "sending", "sent", "length", "body", "packet"}
  /\ open \in BOOLEAN /\ spoiled \in BOOLEAN /\ late \in 0 .. MaxLate
  /\ next_packetid \in 1 .. MaxPacketId
  /\ sent \in Nat /\ rem \in Nat
  /\ Len(readbuf) <= BufferSize
  /\ Len(due) <= MaxReplies

(* A packet sendPacket reports as sent is one packet for the server, with the  *)
(* fields of the request, however many writes it took.                       *)
RequestIsRead ==
  pc = "sent" /\ ~spoiled =>
    /\ Len(received) > 1
    /\ Len(received) = 1 + DecodeLength(Tail(received)).size + Len(BodyOf(received))
    /\ ServerReads(received) = request

(* A session that is still open has left no part of a packet with the server,  *)
(* but for a subscription that failed.                                       *)
OpenIsFramed == pc = "idle" /\ open /\ ~spoiled => received = <<>>

(* As long as no read gave up inside a packet, the client handles the packets  *)
(* the server sent, in their order and with the fields they had.             *)
PacketsAsSent ==
  pc = "packet" /\ late = 0 => due # <<>> /\ packet = Head(due)

(* Only a packet that is longer than the buffer is refused as too long.        *)
RefusedIsTooLong ==
  pc = "body" /\ TooLong /\ late = 0 => Len(ServerSerialize(Head(due))) > BufferSize

(* The levels of s are what "/" separates.                                    *)
LevelEnd(s, i) == Min({k \in i .. Len(s) + 1 : k = Len(s) + 1 \/ s[k] = Slash})

(* Where the levels of s start; the places behind the last are not in s.       *)
NextLevel(s, i) == IF i > Len(s) + 1 THEN i ELSE LevelEnd(s, i) + 1
LevelStarts(s) ==
  LET start[k \in 1 .. Len(s) + 1] == IF k = 1 THEN 1 ELSE NextLevel(s, start[k - 1])
  IN start

Levels(s) ==
  [k \in {i \in 1 .. Len(s) + 1 : LevelStarts(s)[i] <= Len(s) + 1} |->
     SubSeq(s, LevelStarts(s)[k], LevelEnd(s, LevelStarts(s)[k]) - 1)]

Covers(f, n) ==
  /\ \A i \in DOMAIN f : i \in DOMAIN n /\ f[i] \in {n[i], <<Plus>>, <<Hash>>}
  /\ DOMAIN f = DOMAIN n \/ \E i \in DOMAIN f : f[i] = <<Hash>>

(* The handlers called for a message are those whose filter MQTT says matches   *)
(* its topic; but "a/#" is not taken for a match of "a", as MQTT has it.      *)
HandlersMatch ==
  pc = "packet" /\ packet.type = PUBLISH =>
    LET n == packet.strings[1]
    IN (\A i \in DOMAIN Levels(n) : Levels(n)[i] # <<>>) =>
         Called(n) = {f \in Filters : Covers(Levels(f), Levels(n))}
===============================================================================
