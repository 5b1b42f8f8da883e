-------------------------- MODULE MqttSessionProofs --------------------------
(***************************************************************************)
(* The safety of MqttSession for any topics, any times in the order of the  *)
(* code's, and any number of packets.                                       *)
(*                                                                         *)
(* Whether an answer stands for the question that waits for it depends on    *)
(* what is under way: the requests the server has not answered, the packets  *)
(* in the inbox and the one in the hands of cycle().  The invariants below   *)
(* say what can be under way at each place of the thread.                   *)
(***************************************************************************)
EXTENDS MqttSession, TLAPS, FiniteSetTheorems, SequenceTheorems

(* The thread is inside waitfor or MQTTYield. *)
InLoop == pc \in {"read", "packet", "keepalive"}

(* The packet in readbuf is one that cycle() has not done with. *)
Holds(type) == pc \in {"packet", "keepalive"} /\ packet.type = type
Queued(type) == \E i \in 1 .. Len(inbox) : inbox[i].type = type
UnderWay(type) == Holds(type) \/ Queued(type)
AtMostOne(type) ==
  /\ Holds(type) => ~Queued(type)
  /\ \A i, j \in 1 .. Len(inbox) : inbox[i].type = type /\ inbox[j].type = type => i = j

Subscribes == {Pkt("SUBSCRIBE", t) : t \in TopicSet}
Ping == Pkt("PINGREQ", "")

(* waitfor waits for the SUBACK of a topic there is. *)
TopicAwaited == InLoop /\ await = "SUBACK" => next <= Len(Topics)

(* The CONNECT of a TCP connection is answered once. *)
ConnackOnce ==
  Pkt("CONNECT", "") \in pending => ~isconnected /\ ~UnderWay("CONNACK")

(* An acceptance under way, or taken, is one the server has given.          *)
AcceptanceIsTrue ==
  /\ \A i \in 1 .. Len(inbox) : inbox[i] = Pkt("CONNACK", "accepted") => accepted
  /\ Holds("CONNACK") /\ packet.arg = "accepted" => accepted
  /\ isconnected => accepted

(* Until LiveBooster_Connect sends a SUBSCRIBE there is none, nor an answer. *)
NoneBefore ==
  pc = "subscribe" \/ (InLoop /\ await = "CONNACK") =>
    ~UnderWay("SUBACK") /\ pending \cap Subscribes = {}

(* While it waits there is at most one SUBSCRIBE or SUBACK, for its topic.   *)
SubackIsForNext ==
  InLoop /\ await = "SUBACK" =>
    /\ pending \cap Subscribes \subseteq {Pkt("SUBSCRIBE", Topics[next])}
    /\ UnderWay("SUBACK") => pending \cap Subscribes = {}
    /\ AtMostOne("SUBACK")
    /\ \A i \in 1 .. Len(inbox) :
         inbox[i] = Pkt("SUBACK", "granted") => Topics[next] \in granted
    /\ Holds("SUBACK") /\ packet.arg = "granted" => Topics[next] \in granted

HandlersGranted == handlers \subseteq granted

(* Until its CONNECT is answered a client has sent nothing else and is given  *)
(* nothing that takes time, so it has no reason to ping before waitfor gives  *)
(* up.                                                                      *)
Opening ==
  InLoop /\ await = "CONNACK" =>
    /\ sentLeft = waitLeft + (KeepAlive - AckTimeout)
    /\ granted = {} /\ ~UnderWay("PUBLISH")
    /\ Ping \notin pending /\ ~UnderWay("PINGRESP")

(* PingsInStep, without counting. *)
HoldsPingresp == pc = "packet" /\ packet.type = "PINGRESP"
PingsApart ==
  isconnected =>
    /\ ~ping_outstanding => Ping \notin pending /\ ~Queued("PINGRESP") /\ ~HoldsPingresp
    /\ Ping \in pending => ~Queued("PINGRESP") /\ ~HoldsPingresp
    /\ HoldsPingresp => ~Queued("PINGRESP")
    /\ \A i, j \in 1 .. Len(inbox) :
         inbox[i].type = "PINGRESP" /\ inbox[j].type = "PINGRESP" => i = j

AgreementInv ==
  TypeOK /\ TopicAwaited /\ ConnackOnce /\ AcceptanceIsTrue /\ NoneBefore
    /\ SubackIsForNext /\ (~CharSigned => HandlersGranted)
PingInv == Opening /\ PingsApart

(* Most steps leave what is under way to its packet, or to nothing.         *)
Stays ==
  /\ UNCHANGED <<packet, await, next, inbox, pending, accepted, granted>>
  /\ pc' = "app" \/ pc' = pc \/ (pc = "packet" /\ pc' \in {"read", "keepalive"})
  /\ handlers' \subseteq handlers
  /\ isconnected' => isconnected
  /\ isconnected' => ping_outstanding' = ping_outstanding \/ PacketPingresp
  /\ pc' = "app" \/ MessageAnswered \/ Tick \/ UNCHANGED <<sentLeft, waitLeft>>
-----------------------------------------------------------------------------
(* TypeOK in parts. *)
Places ==
  /\ pc \in {"app", "subscribe", "read", "packet", "keepalive"}
  /\ await \in {"none", "CONNACK", "SUBACK"}
  /\ last \in {"none", "connect", "push", "cycle", "close"}
  /\ ret \in {"negative", "zero", "positive"}
Booleans ==
  /\ isconnected \in BOOLEAN /\ ping_outstanding \in BOOLEAN
  /\ link \in BOOLEAN /\ accepted \in BOOLEAN
Numbers ==
  /\ next \in 1 .. (Len(Topics) + 1)
  /\ sentLeft \in 0 .. KeepAlive
  /\ recvLeft \in 0 .. KeepAlive
  /\ waitLeft \in 0 .. (AckTimeout + YieldTimeout)
  /\ spent \in 0 .. (YieldTimeout + 1)
  /\ lost \in 0 .. MaxLost
TopicSets ==
  /\ handlers \in SUBSET TopicSet
  /\ granted \in SUBSET TopicSet
Traffic ==
  /\ packet \in Packets \cup {Nothing}
  /\ pending \in SUBSET Requests
  /\ inbox \in Seq(Packets)
  /\ Len(inbox) <= InboxSize

LEMMA TypeParts == TypeOK <=> Places /\ Booleans /\ Numbers /\ TopicSets /\ Traffic
  BY DEF TypeOK, Places, Booleans, Numbers, TopicSets, Traffic

(* The packets there are. *)
LEMMA PacketsTyped ==
  /\ Pkt("CONNECT", "") \in Requests /\ Pkt("PINGREQ", "") \in Requests
  /\ \A t \in TopicSet : Pkt("SUBSCRIBE", t) \in Requests
  /\ \A code \in {"accepted", "refused"} : Pkt("CONNACK", code) \in Packets
  /\ \A code \in {"granted", "refused"} : Pkt("SUBACK", code) \in Packets
  /\ Pkt("PINGRESP", "") \in Packets
  /\ Publishes \cup OddPackets \subseteq Packets
  BY DEF Requests, Packets, Connacks, Subacks

LEMMA TopicsTyped == Len(Topics) \in Nat /\ \A i \in 1 .. Len(Topics) : Topics[i] \in TopicSet
<1>1. Len(Topics) \in Nat
  BY TopicsAssumption
<1>2. QED
  BY <1>1 DEF TopicSet

LEMMA Times ==
  /\ KeepAlive \in Nat /\ AckTimeout \in Nat /\ PingTimeout \in Nat /\ YieldTimeout \in Nat
  /\ KeepAlive > 0 /\ AckTimeout > 0 /\ PingTimeout > 0 /\ YieldTimeout > 0
  /\ PingTimeout <= AckTimeout /\ AckTimeout < KeepAlive
  BY TimesAssumption

LEMMA Bounds == MaxLost \in Nat /\ InboxSize \in Nat
  BY BoundsAssumption

-----------------------------------------------------------------------------
(* What becomes of the inbox. *)

LEMMA InboxEmptied ==
  ASSUME inbox' = <<>>
  PROVE  inbox' \in Seq(Packets) /\ Len(inbox') = 0
  BY EmptySeq, Zenon

LEMMA InboxTaken ==
  ASSUME inbox \in Seq(Packets), inbox # <<>>, inbox' = Tail(inbox)
  PROVE  /\ inbox' \in Seq(Packets)
         /\ Len(inbox) \in Nat /\ Len(inbox) > 0 /\ Len(inbox') = Len(inbox) - 1
         /\ Head(inbox) \in Packets /\ Head(inbox) = inbox[1]
         /\ \A i \in 1 .. Len(inbox') : inbox'[i] = inbox[i + 1]
<1>1. /\ inbox' \in Seq(Packets) /\ Len(inbox') = Len(inbox) - 1
      /\ \A i \in 1 .. Len(inbox') : inbox'[i] = inbox[i + 1]
  BY HeadTailProperties, Zenon
<1>2. /\ Len(inbox) \in Nat /\ Len(inbox) > 0
      /\ Head(inbox) \in Packets /\ Head(inbox) = inbox[1]
  OBVIOUS
<1>3. QED
  BY <1>1, <1>2

LEMMA InboxFilled ==
  ASSUME NEW p \in Packets, inbox \in Seq(Packets), inbox' = Append(inbox, p)
  PROVE  /\ inbox' \in Seq(Packets)
         /\ Len(inbox) \in Nat /\ Len(inbox') = Len(inbox) + 1
         /\ \A i \in 1 .. Len(inbox) : inbox'[i] = inbox[i]
         /\ inbox'[Len(inbox) + 1] = p
<1>1. Len(inbox) \in Nat
  OBVIOUS
<1>2. QED
  BY <1>1, AppendProperties, ZenonT(40)


LEMMA BooleansStep == Booleans /\ [Next]_vars => Booleans'
<1> SUFFICES ASSUME Booleans, [Next]_vars
             PROVE  Booleans'
  OBVIOUS
<1>1. CASE ConnectSent
  BY <1>1, ZenonT(20) DEF ConnectSent, MayConnect, Fresh, Booleans
<1>2. CASE ConnectFails
  BY <1>2, ZenonT(20) DEF ConnectFails, MayConnect, Fresh, Return, Booleans
<1>3. CASE SubscribeNext
  BY <1>3, ZenonT(20) DEF SubscribeNext, Sent, clientVars, Booleans
<1>4. CASE SubscribeFails
  BY <1>4, ZenonT(20) DEF SubscribeFails, Return, clientVars, netVars, Booleans
<1>5. CASE ConnectDone
  BY <1>5, ZenonT(20) DEF ConnectDone, PublishSent, PublishFails, CloseSession, Sent,
     Return, clientVars, Booleans
<1>6. CASE CycleStarts
  BY <1>6, ZenonT(20) DEF CycleStarts, CloseSession, Sent, clientVars, Booleans
<1>7. CASE CycleRefused
  BY <1>7, ZenonT(20) DEF CycleRefused, Return, clientVars, timeVars, netVars, Booleans
<1>8. CASE PushData
  BY <1>8, ZenonT(20) DEF PushData, PublishSent, PublishFails, CloseSession, Sent, Return,
     clientVars, Booleans
<1>9. CASE Close
  BY <1>9, ZenonT(20) DEF Close, CloseSession, Return, Booleans
<1>10. CASE WaitTimesOut
  BY <1>10, ZenonT(20) DEF WaitTimesOut, WaitFails, Return, clientVars, timeVars, netVars,
     Booleans
<1>11. CASE ReadNothing
  BY <1>11, ZenonT(20) DEF ReadNothing, Reading, clientVars, timeVars, netVars, Booleans
<1>12. CASE ReadPacket
  BY <1>12, ZenonT(20) DEF ReadPacket, Reading, clientVars, Booleans
<1>13. CASE PacketUnknown
  BY <1>13, ZenonT(20) DEF PacketUnknown, CloseIfConnected, CloseSession, CycleAgain,
     Return, clientVars, timeVars, netVars, Booleans
<1>14. CASE PacketTooLong
  BY <1>14, ZenonT(20) DEF PacketTooLong, CycleFails, CloseIfConnected, CloseSession,
     Return, clientVars, timeVars, netVars, Booleans
<1>15. CASE PacketPingresp
  BY <1>15, ZenonT(20) DEF PacketPingresp, callVars, timeVars, netVars, Booleans
<1>16. CASE PacketAck
  BY <1>16, ZenonT(20) DEF PacketAck, callVars, clientVars, timeVars, netVars, Booleans
<1>17. CASE MessageQuiet
  BY <1>17, ZenonT(20) DEF MessageQuiet, callVars, clientVars, timeVars, netVars, Booleans
<1>18. CASE MessageAnswered
  BY <1>18, ZenonT(20) DEF MessageAnswered, PublishSent, PublishFails, CloseSession, Sent,
     callVars, clientVars, Booleans
<1>19. CASE KeepaliveIdle
  BY <1>19, ZenonT(20) DEF KeepaliveIdle, Answered, ConnectionAnswered,
     SubscriptionAnswered, NotAnswered, CycleAgain, Return, timeVars, netVars, Booleans
<1>20. CASE KeepaliveFails
  BY <1>20, ZenonT(20) DEF KeepaliveFails, CycleFails, CloseIfConnected, CloseSession,
     Return, clientVars, netVars, Booleans
<1>21. CASE KeepalivePings
  BY <1>21, ZenonT(20) DEF KeepalivePings, Quiet, Sent, Answered, ConnectionAnswered,
     SubscriptionAnswered, NotAnswered, CycleAgain, Return, Booleans
<1>22. CASE Tick
  BY <1>22, ZenonT(20) DEF Tick, TakesTime, Less, callVars, clientVars, netVars, Booleans
<1>23. ASSUME NEW code \in {"accepted", "refused"}, ServerConnack(code)
      PROVE  Booleans'
  BY <1>23, ZenonT(20) DEF ServerConnack, Deliver, callVars, clientVars, timeVars, Booleans
<1>24. ASSUME NEW t \in TopicSet, NEW code \in {"granted", "refused"}, ServerSuback(t, code)
      PROVE  Booleans'
  BY <1>24, ZenonT(20) DEF ServerSuback, Deliver, callVars, clientVars, timeVars, Booleans
<1>25. CASE ServerPingresp
  BY <1>25, ZenonT(20) DEF ServerPingresp, Deliver, callVars, clientVars, timeVars, Booleans
<1>26. ASSUME NEW p \in Publishes \cup OddPackets, ServerPublishes(p)
      PROVE  Booleans'
  BY <1>26, ZenonT(20) DEF ServerPublishes, Deliver, callVars, clientVars, timeVars,
     Booleans
<1>27. CASE LinkDies
  BY <1>27, ZenonT(20) DEF LinkDies, callVars, clientVars, timeVars, Booleans
<1>28. CASE UNCHANGED vars
  BY <1>28, ZenonT(20) DEF vars, callVars, clientVars, timeVars, netVars, Booleans
<1>29. QED
  BY <1>1, <1>2, <1>3, <1>4, <1>5, <1>6, <1>7, <1>8, <1>9, <1>10, <1>11, <1>12, <1>13,
     <1>14, <1>15, <1>16, <1>17, <1>18, <1>19, <1>20, <1>21, <1>22, <1>23, <1>24, <1>25,
     <1>26, <1>27, <1>28 DEF Next, Connecting, Cycling, Waiting, Handling, Keepalive, Server

LEMMA PlacesStep == Places /\ [Next]_vars => Places'
<1> SUFFICES ASSUME Places, [Next]_vars
             PROVE  Places'
  OBVIOUS
<1>1. CASE ConnectSent
  BY <1>1 DEF ConnectSent, MayConnect, Fresh, Places
<1>2. CASE ConnectFails
  BY <1>2 DEF ConnectFails, MayConnect, Fresh, Return, Places
<1>3. CASE SubscribeNext
  BY <1>3 DEF SubscribeNext, Sent, clientVars, Places
<1>4. CASE SubscribeFails
  BY <1>4 DEF SubscribeFails, Return, clientVars, netVars, Places
<1>5. CASE ConnectDone
  BY <1>5 DEF ConnectDone, PublishSent, PublishFails, CloseSession, Sent, Return,
     clientVars, Places
<1>6. CASE CycleStarts
  BY <1>6 DEF CycleStarts, CloseSession, Sent, clientVars, Places
<1>7. CASE CycleRefused
  BY <1>7 DEF CycleRefused, Return, clientVars, timeVars, netVars, Places
<1>8. CASE PushData
  BY <1>8 DEF PushData, PublishSent, PublishFails, CloseSession, Sent, Return, clientVars,
     Places
<1>9. CASE Close
  BY <1>9 DEF Close, CloseSession, Return, Places
<1>10. CASE WaitTimesOut
  BY <1>10 DEF WaitTimesOut, WaitFails, Return, clientVars, timeVars, netVars, Places
<1>11. CASE ReadNothing
  BY <1>11 DEF ReadNothing, Reading, clientVars, timeVars, netVars, Places
<1>12. CASE ReadPacket
  BY <1>12 DEF ReadPacket, Reading, clientVars, Places
<1>13. CASE PacketUnknown
  BY <1>13 DEF PacketUnknown, CloseIfConnected, CloseSession, CycleAgain, Return,
     clientVars, timeVars, netVars, Places
<1>14. CASE PacketTooLong
  BY <1>14 DEF PacketTooLong, CycleFails, CloseIfConnected, CloseSession, Return,
     clientVars, timeVars, netVars, Places
<1>15. CASE PacketPingresp
  BY <1>15 DEF PacketPingresp, callVars, timeVars, netVars, Places
<1>16. CASE PacketAck
  BY <1>16 DEF PacketAck, callVars, clientVars, timeVars, netVars, Places
<1>17. CASE MessageQuiet
  BY <1>17 DEF MessageQuiet, callVars, clientVars, timeVars, netVars, Places
<1>18. CASE MessageAnswered
  BY <1>18 DEF MessageAnswered, callVars, Places
<1>19. CASE KeepaliveIdle
  BY <1>19 DEF KeepaliveIdle, Answered, ConnectionAnswered, SubscriptionAnswered,
     NotAnswered, CycleAgain, Return, timeVars, netVars, Places
<1>20. CASE KeepaliveFails
  BY <1>20 DEF KeepaliveFails, CycleFails, CloseIfConnected, CloseSession, Return,
     clientVars, netVars, Places
<1>21. CASE KeepalivePings
  BY <1>21 DEF KeepalivePings, Quiet, Sent, Answered, ConnectionAnswered,
     SubscriptionAnswered, NotAnswered, CycleAgain, Return, Places
<1>22. CASE Tick
  BY <1>22 DEF Tick, TakesTime, Less, callVars, clientVars, netVars, Places
<1>23. ASSUME NEW code \in {"accepted", "refused"}, ServerConnack(code)
      PROVE  Places'
  BY <1>23 DEF ServerConnack, Deliver, callVars, clientVars, timeVars, Places
<1>24. ASSUME NEW t \in TopicSet, NEW code \in {"granted", "refused"}, ServerSuback(t, code)
      PROVE  Places'
  BY <1>24 DEF ServerSuback, Deliver, callVars, clientVars, timeVars, Places
<1>25. CASE ServerPingresp
  BY <1>25 DEF ServerPingresp, Deliver, callVars, clientVars, timeVars, Places
<1>26. ASSUME NEW p \in Publishes \cup OddPackets, ServerPublishes(p)
      PROVE  Places'
  BY <1>26 DEF ServerPublishes, Deliver, callVars, clientVars, timeVars, Places
<1>27. CASE LinkDies
  BY <1>27 DEF LinkDies, callVars, clientVars, timeVars, Places
<1>28. CASE UNCHANGED vars
  BY <1>28 DEF vars, callVars, clientVars, timeVars, netVars, Places
<1>29. QED
  BY <1>1, <1>2, <1>3, <1>4, <1>5, <1>6, <1>7, <1>8, <1>9, <1>10, <1>11, <1>12, <1>13,
     <1>14, <1>15, <1>16, <1>17, <1>18, <1>19, <1>20, <1>21, <1>22, <1>23, <1>24, <1>25,
     <1>26, <1>27, <1>28 DEF Next, Connecting, Cycling, Waiting, Handling, Keepalive, Server

LEMMA NumbersStep == Numbers /\ Places /\ TopicAwaited /\ [Next]_vars => Numbers'
<1> SUFFICES ASSUME Numbers, Places, TopicAwaited, [Next]_vars
             PROVE  Numbers'
  OBVIOUS
<1>1. CASE ConnectSent
  <2>1. /\ next' = 1 /\ sentLeft' = KeepAlive /\ recvLeft' = KeepAlive /\ waitLeft' = AckTimeout
        /\ spent' = 0 /\ lost' = 0
    BY <1>1 DEF ConnectSent, Fresh
  <2>2. QED
    BY <2>1, Times, TopicsTyped, Bounds DEF Numbers
<1>2. CASE ConnectFails
  BY <1>2, Times, TopicsTyped, Bounds DEF ConnectFails, MayConnect, Fresh, Return, Numbers,
     Places, TopicAwaited, InLoop
<1>3. CASE SubscribeNext
  BY <1>3, Times, TopicsTyped, Bounds DEF SubscribeNext, Sent, clientVars, Numbers, Places,
     TopicAwaited, InLoop
<1>4. CASE SubscribeFails
  BY <1>4, Times, TopicsTyped, Bounds DEF SubscribeFails, Return, clientVars, netVars,
     Numbers, Places, TopicAwaited, InLoop
<1>5. CASE ConnectDone
  BY <1>5, Times, TopicsTyped, Bounds DEF ConnectDone, PublishSent, PublishFails,
     CloseSession, Sent, Return, clientVars, Numbers, Places, TopicAwaited, InLoop
<1>6. CASE CycleStarts
  BY <1>6, Times, TopicsTyped, Bounds DEF CycleStarts, CloseSession, Sent, clientVars,
     Numbers, Places, TopicAwaited, InLoop
<1>7. CASE CycleRefused
  BY <1>7, Times, TopicsTyped, Bounds DEF CycleRefused, Return, clientVars, timeVars,
     netVars, Numbers, Places, TopicAwaited, InLoop
<1>8. CASE PushData
  BY <1>8, Times, TopicsTyped, Bounds DEF PushData, PublishSent, PublishFails, CloseSession,
     Sent, Return, clientVars, Numbers, Places, TopicAwaited, InLoop
<1>9. CASE Close
  BY <1>9, Times, TopicsTyped, Bounds DEF Close, CloseSession, Return, Numbers, Places,
     TopicAwaited, InLoop
<1>10. CASE WaitTimesOut
  BY <1>10, Times, TopicsTyped, Bounds DEF WaitTimesOut, WaitFails, Return, clientVars,
     timeVars, netVars, Numbers, Places, TopicAwaited, InLoop
<1>11. CASE ReadNothing
  BY <1>11, Times, TopicsTyped, Bounds DEF ReadNothing, Reading, clientVars, timeVars,
     netVars, Numbers, Places, TopicAwaited, InLoop
<1>12. CASE ReadPacket
  BY <1>12, Times, TopicsTyped, Bounds DEF ReadPacket, Reading, clientVars, Numbers, Places,
     TopicAwaited, InLoop
<1>13. CASE PacketUnknown
  BY <1>13, Times, TopicsTyped, Bounds DEF PacketUnknown, CloseIfConnected, CloseSession,
     CycleAgain, Return, clientVars, timeVars, netVars, Numbers, Places, TopicAwaited,
     InLoop
<1>14. CASE PacketTooLong
  BY <1>14, Times, TopicsTyped, Bounds DEF PacketTooLong, CycleFails, CloseIfConnected,
     CloseSession, Return, clientVars, timeVars, netVars, Numbers, Places, TopicAwaited,
     InLoop
<1>15. CASE PacketPingresp
  BY <1>15, Times, TopicsTyped, Bounds DEF PacketPingresp, callVars, timeVars, netVars,
     Numbers, Places, TopicAwaited, InLoop
<1>16. CASE PacketAck
  BY <1>16, Times, TopicsTyped, Bounds DEF PacketAck, callVars, clientVars, timeVars,
     netVars, Numbers, Places, TopicAwaited, InLoop
<1>17. CASE MessageQuiet
  BY <1>17, Times, TopicsTyped, Bounds DEF MessageQuiet, callVars, clientVars, timeVars,
     netVars, Numbers, Places, TopicAwaited, InLoop
<1>18. CASE MessageAnswered
  BY <1>18, Times, TopicsTyped, Bounds DEF MessageAnswered, PublishSent, PublishFails,
     CloseSession, Sent, callVars, clientVars, Numbers, Places, TopicAwaited, InLoop
<1>19. CASE KeepaliveIdle
  BY <1>19, Times, TopicsTyped, Bounds DEF KeepaliveIdle, Answered, ConnectionAnswered,
     SubscriptionAnswered, NotAnswered, CycleAgain, Return, timeVars, netVars, Numbers,
     Places, TopicAwaited, InLoop
<1>20. CASE KeepaliveFails
  BY <1>20, Times, TopicsTyped, Bounds DEF KeepaliveFails, CycleFails, CloseIfConnected,
     CloseSession, Return, clientVars, netVars, Numbers, Places, TopicAwaited, InLoop
<1>21. CASE KeepalivePings
  <2>1. /\ sentLeft' = KeepAlive /\ waitLeft' = PingTimeout
        /\ recvLeft' = recvLeft /\ spent' = spent
        /\ lost' = lost \/ (lost < MaxLost /\ lost' = lost + 1)
    BY <1>21 DEF KeepalivePings, Sent
  <2>2. next' = next \/ (await = "SUBACK" /\ next' = next + 1)
    BY <1>21 DEF KeepalivePings, Answered, ConnectionAnswered, SubscriptionAnswered, NotAnswered
  <2>3. await = "SUBACK" => next <= Len(Topics)
    BY <1>21 DEF KeepalivePings, TopicAwaited, InLoop
  <2>4. QED
    BY <2>1, <2>2, <2>3, Times, TopicsTyped, Bounds DEF Numbers
<1>22. CASE Tick
  BY <1>22, Times, TopicsTyped, Bounds DEF Tick, TakesTime, Less, callVars, clientVars,
     netVars, Numbers, Places, TopicAwaited, InLoop
<1>23. ASSUME NEW code \in {"accepted", "refused"}, ServerConnack(code)
      PROVE  Numbers'
  BY <1>23, Times, TopicsTyped, Bounds DEF ServerConnack, Deliver, callVars, clientVars,
     timeVars, Numbers, Places, TopicAwaited, InLoop
<1>24. ASSUME NEW t \in TopicSet, NEW code \in {"granted", "refused"}, ServerSuback(t, code)
      PROVE  Numbers'
  BY <1>24, Times, TopicsTyped, Bounds DEF ServerSuback, Deliver, callVars, clientVars,
     timeVars, Numbers, Places, TopicAwaited, InLoop
<1>25. CASE ServerPingresp
  BY <1>25, Times, TopicsTyped, Bounds DEF ServerPingresp, Deliver, callVars, clientVars,
     timeVars, Numbers, Places, TopicAwaited, InLoop
<1>26. ASSUME NEW p \in Publishes \cup OddPackets, ServerPublishes(p)
      PROVE  Numbers'
  BY <1>26, Times, TopicsTyped, Bounds DEF ServerPublishes, Deliver, callVars, clientVars,
     timeVars, Numbers, Places, TopicAwaited, InLoop
<1>27. CASE LinkDies
  BY <1>27, Times, TopicsTyped, Bounds DEF LinkDies, callVars, clientVars, timeVars,
     Numbers, Places, TopicAwaited, InLoop
<1>28. CASE UNCHANGED vars
  BY <1>28, Times, TopicsTyped, Bounds DEF vars, callVars, clientVars, timeVars, netVars,
     Numbers, Places, TopicAwaited, InLoop
<1>29. QED
  BY <1>1, <1>2, <1>3, <1>4, <1>5, <1>6, <1>7, <1>8, <1>9, <1>10, <1>11, <1>12, <1>13,
     <1>14, <1>15, <1>16, <1>17, <1>18, <1>19, <1>20, <1>21, <1>22, <1>23, <1>24, <1>25,
     <1>26, <1>27, <1>28 DEF Next, Connecting, Cycling, Waiting, Handling, Keepalive, Server

LEMMA TopicSetsStep == TopicSets /\ Places /\ Numbers /\ TopicAwaited /\ [Next]_vars => TopicSets'
<1> SUFFICES ASSUME TopicSets, Places, Numbers, TopicAwaited, [Next]_vars
             PROVE  TopicSets'
  OBVIOUS
<1>1. CASE ConnectSent
  BY <1>1, TopicsTyped DEF ConnectSent, MayConnect, Fresh, TopicSets, Numbers, Places,
     TopicAwaited, InLoop
<1>2. CASE ConnectFails
  BY <1>2, TopicsTyped DEF ConnectFails, MayConnect, Fresh, Return, TopicSets, Numbers,
     Places, TopicAwaited, InLoop
<1>3. CASE SubscribeNext
  BY <1>3, TopicsTyped DEF SubscribeNext, Sent, clientVars, TopicSets, Numbers, Places,
     TopicAwaited, InLoop
<1>4. CASE SubscribeFails
  BY <1>4, TopicsTyped DEF SubscribeFails, Return, clientVars, netVars, TopicSets, Numbers,
     Places, TopicAwaited, InLoop
<1>5. CASE ConnectDone
  BY <1>5, TopicsTyped DEF ConnectDone, PublishSent, PublishFails, CloseSession, Sent,
     Return, clientVars, TopicSets, Numbers, Places, TopicAwaited, InLoop
<1>6. CASE CycleStarts
  BY <1>6, TopicsTyped DEF CycleStarts, CloseSession, Sent, clientVars, TopicSets, Numbers,
     Places, TopicAwaited, InLoop
<1>7. CASE CycleRefused
  BY <1>7, TopicsTyped DEF CycleRefused, Return, clientVars, timeVars, netVars, TopicSets,
     Numbers, Places, TopicAwaited, InLoop
<1>8. CASE PushData
  BY <1>8, TopicsTyped DEF PushData, PublishSent, PublishFails, CloseSession, Sent, Return,
     clientVars, TopicSets, Numbers, Places, TopicAwaited, InLoop
<1>9. CASE Close
  BY <1>9, TopicsTyped DEF Close, CloseSession, Return, TopicSets, Numbers, Places,
     TopicAwaited, InLoop
<1>10. CASE WaitTimesOut
  BY <1>10, TopicsTyped DEF WaitTimesOut, WaitFails, Return, clientVars, timeVars, netVars,
     TopicSets, Numbers, Places, TopicAwaited, InLoop
<1>11. CASE ReadNothing
  BY <1>11, TopicsTyped DEF ReadNothing, Reading, clientVars, timeVars, netVars, TopicSets,
     Numbers, Places, TopicAwaited, InLoop
<1>12. CASE ReadPacket
  BY <1>12, TopicsTyped DEF ReadPacket, Reading, clientVars, TopicSets, Numbers, Places,
     TopicAwaited, InLoop
<1>13. CASE PacketUnknown
  BY <1>13, TopicsTyped DEF PacketUnknown, CloseIfConnected, CloseSession, CycleAgain,
     Return, clientVars, timeVars, netVars, TopicSets, Numbers, Places, TopicAwaited, InLoop
<1>14. CASE PacketTooLong
  BY <1>14, TopicsTyped DEF PacketTooLong, CycleFails, CloseIfConnected, CloseSession,
     Return, clientVars, timeVars, netVars, TopicSets, Numbers, Places, TopicAwaited, InLoop
<1>15. CASE PacketPingresp
  BY <1>15, TopicsTyped DEF PacketPingresp, callVars, timeVars, netVars, TopicSets, Numbers,
     Places, TopicAwaited, InLoop
<1>16. CASE PacketAck
  BY <1>16, TopicsTyped DEF PacketAck, callVars, clientVars, timeVars, netVars, TopicSets,
     Numbers, Places, TopicAwaited, InLoop
<1>17. CASE MessageQuiet
  BY <1>17, TopicsTyped DEF MessageQuiet, callVars, clientVars, timeVars, netVars,
     TopicSets, Numbers, Places, TopicAwaited, InLoop
<1>18. CASE MessageAnswered
  BY <1>18, TopicsTyped DEF MessageAnswered, PublishSent, PublishFails, CloseSession, Sent,
     callVars, clientVars, TopicSets, Numbers, Places, TopicAwaited, InLoop
<1>19. CASE KeepaliveIdle
  BY <1>19, TopicsTyped DEF KeepaliveIdle, Answered, ConnectionAnswered,
     SubscriptionAnswered, NotAnswered, CycleAgain, Return, timeVars, netVars, TopicSets,
     Numbers, Places, TopicAwaited, InLoop
<1>20. CASE KeepaliveFails
  BY <1>20, TopicsTyped DEF KeepaliveFails, CycleFails, CloseIfConnected, CloseSession,
     Return, clientVars, netVars, TopicSets, Numbers, Places, TopicAwaited, InLoop
<1>21. CASE KeepalivePings
  <2>1. granted' = granted
    BY <1>21 DEF KeepalivePings
  <2>2. handlers' = handlers \/ (await = "SUBACK" /\ handlers' = handlers \cup {Topics[next]})
    BY <1>21 DEF KeepalivePings, Answered, ConnectionAnswered, SubscriptionAnswered, NotAnswered
  <2>3. await = "SUBACK" => next <= Len(Topics)
    BY <1>21 DEF KeepalivePings, TopicAwaited, InLoop
  <2>4. await = "SUBACK" => next \in 1 .. Len(Topics)
    BY <2>3, TopicsTyped DEF Numbers
  <2>5. QED
    BY <2>1, <2>2, <2>4, TopicsTyped DEF TopicSets
<1>22. CASE Tick
  BY <1>22, TopicsTyped DEF Tick, TakesTime, Less, callVars, clientVars, netVars, TopicSets,
     Numbers, Places, TopicAwaited, InLoop
<1>23. ASSUME NEW code \in {"accepted", "refused"}, ServerConnack(code)
      PROVE  TopicSets'
  BY <1>23, TopicsTyped DEF ServerConnack, Deliver, callVars, clientVars, timeVars,
     TopicSets, Numbers, Places, TopicAwaited, InLoop
<1>24. ASSUME NEW t \in TopicSet, NEW code \in {"granted", "refused"}, ServerSuback(t, code)
      PROVE  TopicSets'
  BY <1>24, TopicsTyped DEF ServerSuback, Deliver, callVars, clientVars, timeVars,
     TopicSets, Numbers, Places, TopicAwaited, InLoop
<1>25. CASE ServerPingresp
  BY <1>25, TopicsTyped DEF ServerPingresp, Deliver, callVars, clientVars, timeVars,
     TopicSets, Numbers, Places, TopicAwaited, InLoop
<1>26. ASSUME NEW p \in Publishes \cup OddPackets, ServerPublishes(p)
      PROVE  TopicSets'
  BY <1>26, TopicsTyped DEF ServerPublishes, Deliver, callVars, clientVars, timeVars,
     TopicSets, Numbers, Places, TopicAwaited, InLoop
<1>27. CASE LinkDies
  BY <1>27, TopicsTyped DEF LinkDies, callVars, clientVars, timeVars, TopicSets, Numbers,
     Places, TopicAwaited, InLoop
<1>28. CASE UNCHANGED vars
  BY <1>28, TopicsTyped DEF vars, callVars, clientVars, timeVars, netVars, TopicSets,
     Numbers, Places, TopicAwaited, InLoop
<1>29. QED
  BY <1>1, <1>2, <1>3, <1>4, <1>5, <1>6, <1>7, <1>8, <1>9, <1>10, <1>11, <1>12, <1>13,
     <1>14, <1>15, <1>16, <1>17, <1>18, <1>19, <1>20, <1>21, <1>22, <1>23, <1>24, <1>25,
     <1>26, <1>27, <1>28 DEF Next, Connecting, Cycling, Waiting, Handling, Keepalive, Server

LEMMA TrafficStep == Traffic /\ Places /\ Numbers /\ [Next]_vars => Traffic'
<1> SUFFICES ASSUME Traffic, Places, Numbers, [Next]_vars
             PROVE  Traffic'
  OBVIOUS
<1>1. CASE ConnectSent
  <2>1. inbox' \in Seq(Packets) /\ Len(inbox') = 0
    BY <1>1, InboxEmptied DEF ConnectSent, Fresh
  <2>2. packet' = packet /\ pending' \in SUBSET Requests
    BY <1>1, PacketsTyped DEF ConnectSent, Fresh
  <2>3. QED
    BY <2>1, <2>2, Bounds DEF Traffic
<1>2. CASE ConnectFails
  <2>1. inbox' \in Seq(Packets) /\ Len(inbox') = 0
    BY <1>2, InboxEmptied DEF ConnectFails, Fresh
  <2>2. packet' = packet /\ pending' \in SUBSET Requests
    BY <1>2, PacketsTyped DEF ConnectFails, Fresh
  <2>3. QED
    BY <2>1, <2>2, Bounds DEF Traffic
<1>3. CASE SubscribeNext
  <2>1. next \in 1 .. Len(Topics)
    BY <1>3, TopicsTyped DEF SubscribeNext, Numbers
  <2>2. Pkt("SUBSCRIBE", Topics[next]) \in Requests
    BY <2>1, PacketsTyped, TopicsTyped
  <2>3. QED
    BY <1>3, <2>2 DEF SubscribeNext, Sent, Traffic
<1>4. CASE SubscribeFails
  BY <1>4, Bounds DEF SubscribeFails, Return, clientVars, netVars, Traffic
<1>5. CASE ConnectDone
  BY <1>5, Bounds DEF ConnectDone, PublishSent, PublishFails, CloseSession, Sent, Return,
     clientVars, Traffic
<1>6. CASE CycleStarts
  BY <1>6, Bounds DEF CycleStarts, CloseSession, Sent, clientVars, Traffic
<1>7. CASE CycleRefused
  BY <1>7, Bounds DEF CycleRefused, Return, clientVars, timeVars, netVars, Traffic
<1>8. CASE PushData
  BY <1>8, Bounds DEF PushData, PublishSent, PublishFails, CloseSession, Sent, Return,
     clientVars, Traffic
<1>9. CASE Close
  BY <1>9, Bounds DEF Close, CloseSession, Return, Traffic
<1>10. CASE WaitTimesOut
  BY <1>10, Bounds DEF WaitTimesOut, WaitFails, Return, clientVars, timeVars, netVars,
     Traffic
<1>11. CASE ReadNothing
  BY <1>11, Bounds DEF ReadNothing, Reading, clientVars, timeVars, netVars, Traffic
<1>12. CASE ReadPacket
  <2>1. inbox # <<>> /\ inbox' = Tail(inbox) /\ packet' = Head(inbox) /\ pending' = pending
    BY <1>12 DEF ReadPacket
  <2>2. QED
    BY <2>1, InboxTaken, Bounds DEF Traffic
<1>13. CASE PacketUnknown
  BY <1>13, Bounds DEF PacketUnknown, CloseIfConnected, CloseSession, CycleAgain, Return,
     clientVars, timeVars, netVars, Traffic
<1>14. CASE PacketTooLong
  BY <1>14, Bounds DEF PacketTooLong, CycleFails, CloseIfConnected, CloseSession, Return,
     clientVars, timeVars, netVars, Traffic
<1>15. CASE PacketPingresp
  BY <1>15, Bounds DEF PacketPingresp, callVars, timeVars, netVars, Traffic
<1>16. CASE PacketAck
  BY <1>16, Bounds DEF PacketAck, callVars, clientVars, timeVars, netVars, Traffic
<1>17. CASE MessageQuiet
  BY <1>17, Bounds DEF MessageQuiet, callVars, clientVars, timeVars, netVars, Traffic
<1>18. CASE MessageAnswered
  BY <1>18, Bounds DEF MessageAnswered, PublishSent, PublishFails, CloseSession, Sent,
     callVars, clientVars, Traffic
<1>19. CASE KeepaliveIdle
  BY <1>19, Bounds DEF KeepaliveIdle, Answered, ConnectionAnswered, SubscriptionAnswered,
     NotAnswered, CycleAgain, Return, timeVars, netVars, Traffic
<1>20. CASE KeepaliveFails
  BY <1>20, Bounds DEF KeepaliveFails, CycleFails, CloseIfConnected, CloseSession, Return,
     clientVars, netVars, Traffic
<1>21. CASE KeepalivePings
  BY <1>21, PacketsTyped DEF KeepalivePings, Sent, Traffic
<1>22. CASE Tick
  BY <1>22, Bounds DEF Tick, TakesTime, Less, callVars, clientVars, netVars, Traffic
<1>23. ASSUME NEW code \in {"accepted", "refused"}, ServerConnack(code)
      PROVE  Traffic'
  <2>1. PICK q \in Packets : inbox' = Append(inbox, q) /\ Len(inbox) < InboxSize
    BY <1>23, PacketsTyped DEF ServerConnack, Deliver
  <2>2. inbox' \in Seq(Packets) /\ Len(inbox') <= InboxSize
    BY <2>1, InboxFilled, Bounds DEF Traffic
  <2>3. packet' = packet /\ pending' \subseteq pending
    BY <1>23 DEF ServerConnack, Deliver, callVars
  <2>4. QED
    BY <2>2, <2>3 DEF Traffic
<1>24. ASSUME NEW t \in TopicSet, NEW code \in {"granted", "refused"}, ServerSuback(t, code)
      PROVE  Traffic'
  <2>1. PICK q \in Packets : inbox' = Append(inbox, q) /\ Len(inbox) < InboxSize
    BY <1>24, PacketsTyped DEF ServerSuback, Deliver
  <2>2. inbox' \in Seq(Packets) /\ Len(inbox') <= InboxSize
    BY <2>1, InboxFilled, Bounds DEF Traffic
  <2>3. packet' = packet /\ pending' \subseteq pending
    BY <1>24 DEF ServerSuback, Deliver, callVars
  <2>4. QED
    BY <2>2, <2>3 DEF Traffic
<1>25. CASE ServerPingresp
  <2>1. PICK q \in Packets : inbox' = Append(inbox, q) /\ Len(inbox) < InboxSize
    BY <1>25, PacketsTyped DEF ServerPingresp, Deliver
  <2>2. inbox' \in Seq(Packets) /\ Len(inbox') <= InboxSize
    BY <2>1, InboxFilled, Bounds DEF Traffic
  <2>3. packet' = packet /\ pending' \subseteq pending
    BY <1>25 DEF ServerPingresp, Deliver, callVars
  <2>4. QED
    BY <2>2, <2>3 DEF Traffic
<1>26. ASSUME NEW p \in Publishes \cup OddPackets, ServerPublishes(p)
      PROVE  Traffic'
  <2>1. PICK q \in Packets : inbox' = Append(inbox, q) /\ Len(inbox) < InboxSize
    BY <1>26, PacketsTyped DEF ServerPublishes, Deliver
  <2>2. inbox' \in Seq(Packets) /\ Len(inbox') <= InboxSize
    BY <2>1, InboxFilled, Bounds DEF Traffic
  <2>3. packet' = packet /\ pending' \subseteq pending
    BY <1>26 DEF ServerPublishes, Deliver, callVars
  <2>4. QED
    BY <2>2, <2>3 DEF Traffic
<1>27. CASE LinkDies
  BY <1>27, Bounds DEF LinkDies, callVars, clientVars, timeVars, Traffic
<1>28. CASE UNCHANGED vars
  BY <1>28, Bounds DEF vars, callVars, clientVars, timeVars, netVars, Traffic
<1>29. QED
  BY <1>1, <1>2, <1>3, <1>4, <1>5, <1>6, <1>7, <1>8, <1>9, <1>10, <1>11, <1>12, <1>13,
     <1>14, <1>15, <1>16, <1>17, <1>18, <1>19, <1>20, <1>21, <1>22, <1>23, <1>24, <1>25,
     <1>26, <1>27, <1>28 DEF Next, Connecting, Cycling, Waiting, Handling, Keepalive, Server

LEMMA TopicStep == Numbers /\ Places /\ TopicAwaited /\ [Next]_vars => TopicAwaited'
<1> SUFFICES ASSUME Numbers, Places, TopicAwaited, [Next]_vars
             PROVE  TopicAwaited'
  OBVIOUS
<1>1. CASE ConnectSent
  BY <1>1, TopicsTyped DEF ConnectSent, MayConnect, Fresh, Numbers, Places, TopicAwaited,
     InLoop
<1>2. CASE ConnectFails
  BY <1>2, TopicsTyped DEF ConnectFails, MayConnect, Fresh, Return, Numbers, Places,
     TopicAwaited, InLoop
<1>3. CASE SubscribeNext
  BY <1>3, TopicsTyped DEF SubscribeNext, Sent, clientVars, Numbers, Places, TopicAwaited,
     InLoop
<1>4. CASE SubscribeFails
  BY <1>4, TopicsTyped DEF SubscribeFails, Return, clientVars, netVars, Numbers, Places,
     TopicAwaited, InLoop
<1>5. CASE ConnectDone
  BY <1>5, TopicsTyped DEF ConnectDone, PublishSent, PublishFails, CloseSession, Sent,
     Return, clientVars, Numbers, Places, TopicAwaited, InLoop
<1>6. CASE CycleStarts
  BY <1>6, TopicsTyped DEF CycleStarts, CloseSession, Sent, clientVars, Numbers, Places,
     TopicAwaited, InLoop
<1>7. CASE CycleRefused
  BY <1>7, TopicsTyped DEF CycleRefused, Return, clientVars, timeVars, netVars, Numbers,
     Places, TopicAwaited, InLoop
<1>8. CASE PushData
  BY <1>8, TopicsTyped DEF PushData, PublishSent, PublishFails, CloseSession, Sent, Return,
     clientVars, Numbers, Places, TopicAwaited, InLoop
<1>9. CASE Close
  BY <1>9, TopicsTyped DEF Close, CloseSession, Return, Numbers, Places, TopicAwaited,
     InLoop
<1>10. CASE WaitTimesOut
  BY <1>10, TopicsTyped DEF WaitTimesOut, WaitFails, Return, clientVars, timeVars, netVars,
     Numbers, Places, TopicAwaited, InLoop
<1>11. CASE ReadNothing
  BY <1>11, TopicsTyped DEF ReadNothing, Reading, clientVars, timeVars, netVars, Numbers,
     Places, TopicAwaited, InLoop
<1>12. CASE ReadPacket
  BY <1>12, TopicsTyped DEF ReadPacket, Reading, clientVars, Numbers, Places, TopicAwaited,
     InLoop
<1>13. CASE PacketUnknown
  BY <1>13, TopicsTyped DEF PacketUnknown, CloseIfConnected, CloseSession, CycleAgain,
     Return, clientVars, timeVars, netVars, Numbers, Places, TopicAwaited, InLoop
<1>14. CASE PacketTooLong
  BY <1>14, TopicsTyped DEF PacketTooLong, CycleFails, CloseIfConnected, CloseSession,
     Return, clientVars, timeVars, netVars, Numbers, Places, TopicAwaited, InLoop
<1>15. CASE PacketPingresp
  BY <1>15, TopicsTyped DEF PacketPingresp, callVars, timeVars, netVars, Numbers, Places,
     TopicAwaited, InLoop
<1>16. CASE PacketAck
  BY <1>16, TopicsTyped DEF PacketAck, callVars, clientVars, timeVars, netVars, Numbers,
     Places, TopicAwaited, InLoop
<1>17. CASE MessageQuiet
  BY <1>17, TopicsTyped DEF MessageQuiet, callVars, clientVars, timeVars, netVars, Numbers,
     Places, TopicAwaited, InLoop
<1>18. CASE MessageAnswered
  BY <1>18, TopicsTyped DEF MessageAnswered, PublishSent, PublishFails, CloseSession, Sent,
     callVars, clientVars, Numbers, Places, TopicAwaited, InLoop
<1>19. CASE KeepaliveIdle
  BY <1>19, TopicsTyped DEF KeepaliveIdle, Answered, ConnectionAnswered,
     SubscriptionAnswered, NotAnswered, CycleAgain, Return, timeVars, netVars, Numbers,
     Places, TopicAwaited, InLoop
<1>20. CASE KeepaliveFails
  BY <1>20, TopicsTyped DEF KeepaliveFails, CycleFails, CloseIfConnected, CloseSession,
     Return, clientVars, netVars, Numbers, Places, TopicAwaited, InLoop
<1>21. CASE KeepalivePings
  BY <1>21, TopicsTyped DEF KeepalivePings, Quiet, Sent, Answered, ConnectionAnswered,
     SubscriptionAnswered, NotAnswered, CycleAgain, Return, Numbers, Places, TopicAwaited,
     InLoop
<1>22. CASE Tick
  BY <1>22, TopicsTyped DEF Tick, TakesTime, Less, callVars, clientVars, netVars, Numbers,
     Places, TopicAwaited, InLoop
<1>23. ASSUME NEW code \in {"accepted", "refused"}, ServerConnack(code)
      PROVE  TopicAwaited'
  BY <1>23, TopicsTyped DEF ServerConnack, Deliver, callVars, clientVars, timeVars, Numbers,
     Places, TopicAwaited, InLoop
<1>24. ASSUME NEW t \in TopicSet, NEW code \in {"granted", "refused"}, ServerSuback(t, code)
      PROVE  TopicAwaited'
  BY <1>24, TopicsTyped DEF ServerSuback, Deliver, callVars, clientVars, timeVars, Numbers,
     Places, TopicAwaited, InLoop
<1>25. CASE ServerPingresp
  BY <1>25, TopicsTyped DEF ServerPingresp, Deliver, callVars, clientVars, timeVars,
     Numbers, Places, TopicAwaited, InLoop
<1>26. ASSUME NEW p \in Publishes \cup OddPackets, ServerPublishes(p)
      PROVE  TopicAwaited'
  BY <1>26, TopicsTyped DEF ServerPublishes, Deliver, callVars, clientVars, timeVars,
     Numbers, Places, TopicAwaited, InLoop
<1>27. CASE LinkDies
  BY <1>27, TopicsTyped DEF LinkDies, callVars, clientVars, timeVars, Numbers, Places,
     TopicAwaited, InLoop
<1>28. CASE UNCHANGED vars
  BY <1>28, TopicsTyped DEF vars, callVars, clientVars, timeVars, netVars, Numbers, Places,
     TopicAwaited, InLoop
<1>29. QED
  BY <1>1, <1>2, <1>3, <1>4, <1>5, <1>6, <1>7, <1>8, <1>9, <1>10, <1>11, <1>12, <1>13,
     <1>14, <1>15, <1>16, <1>17, <1>18, <1>19, <1>20, <1>21, <1>22, <1>23, <1>24, <1>25,
     <1>26, <1>27, <1>28 DEF Next, Connecting, Cycling, Waiting, Handling, Keepalive, Server

LEMMA InitTyped == Init => TypeOK /\ TopicAwaited
<1> SUFFICES ASSUME Init
             PROVE  TypeOK /\ TopicAwaited
  OBVIOUS
<1>1. Places /\ Booleans /\ TopicSets /\ TopicAwaited
  BY DEF Init, Places, Booleans, TopicSets, TopicAwaited, InLoop
<1>2. Numbers
  BY Times, TopicsTyped, Bounds DEF Init, Numbers
<1>3. inbox \in Seq(Packets) /\ Len(inbox) = 0
  BY EmptySeq, Zenon DEF Init
<1>4. Traffic
  BY <1>3, Bounds DEF Init, Traffic
<1>5. QED
  BY <1>1, <1>2, <1>4, TypeParts

LEMMA TypeStep == TypeOK /\ TopicAwaited /\ [Next]_vars => (TypeOK /\ TopicAwaited)'
<1> SUFFICES ASSUME TypeOK, TopicAwaited, [Next]_vars
             PROVE  (TypeOK /\ TopicAwaited)'
  OBVIOUS
<1>1. Places /\ Booleans /\ Numbers /\ TopicSets /\ Traffic
  BY TypeParts
<1>2. Places' /\ Booleans' /\ Numbers' /\ TopicSets' /\ Traffic' /\ TopicAwaited'
  BY <1>1, PlacesStep, BooleansStep, NumbersStep, TopicSetsStep, TrafficStep, TopicStep
<1>3. QED
  BY <1>2 DEF TypeOK, Places, Booleans, Numbers, TopicSets, Traffic

(* Every variable keeps its type, and waitfor never waits for the SUBACK of *)
(* a topic that is not there.                                               *)
THEOREM TypeCorrect == Spec => [](TypeOK /\ TopicAwaited)
  BY InitTyped, TypeStep, PTL DEF Spec

-----------------------------------------------------------------------------
(* What is under way after a packet has arrived, has been read, or a new TCP *)
(* connection was made.                                                      *)

LEMMA QueuedEmptied ==
  ASSUME inbox' = <<>>, NEW type
  PROVE  ~Queued(type)'
  BY InboxEmptied DEF Queued

LEMMA QueuedTaken ==
  ASSUME inbox \in Seq(Packets), inbox # <<>>, inbox' = Tail(inbox), NEW type
  PROVE  /\ Queued(type)' => Queued(type)
         /\ Queued(Head(inbox).type)
<1>1. Queued(type)' => Queued(type)
  BY InboxTaken DEF Queued
<1>2. 1 \in 1 .. Len(inbox) /\ inbox[1] = Head(inbox)
  BY InboxTaken
<1>3. QED
  BY <1>1, <1>2 DEF Queued

LEMMA QueuedFilled ==
  ASSUME NEW p \in Packets, inbox \in Seq(Packets), inbox' = Append(inbox, p), NEW type
  PROVE  Queued(type)' <=> Queued(type) \/ p.type = type
<1>1. ASSUME NEW i \in 1 .. Len(inbox'), inbox'[i].type = type
      PROVE  Queued(type) \/ p.type = type
  <2>1. i \in 1 .. Len(inbox) \/ i = Len(inbox) + 1
    BY InboxFilled
  <2>2. QED
    BY <1>1, <2>1, InboxFilled DEF Queued
<1>2. ASSUME Queued(type)
      PROVE  Queued(type)'
  BY <1>2, InboxFilled DEF Queued
<1>3. ASSUME p.type = type
      PROVE  Queued(type)'
  <2>1. Len(inbox) + 1 \in 1 .. Len(inbox') /\ inbox'[Len(inbox) + 1] = p
    BY InboxFilled
  <2>2. QED
    BY <1>3, <2>1 DEF Queued
<1>4. QED
  BY <1>1, <1>2, <1>3 DEF Queued

LEMMA AfterConnectSent ==
  ASSUME ConnectSent, NEW type
  PROVE  ~UnderWay(type)' /\ ~Holds(type)' /\ pending' = {Pkt("CONNECT", "")}
<1>1. pc' = "read" /\ inbox' = <<>> /\ pending' = {Pkt("CONNECT", "")}
  BY DEF ConnectSent, Fresh
<1>2. QED
  BY <1>1, QueuedEmptied DEF UnderWay, Holds

LEMMA AfterReadNothing ==
  ASSUME ReadNothing, NEW type, type # "nothing"
  PROVE  /\ UnderWay(type)' => UnderWay(type)
         /\ ~Holds(type)'
<1>1. inbox' = inbox /\ packet' = Nothing
  BY DEF ReadNothing, netVars
<1>2. packet'.type = "nothing"
  BY <1>1 DEF Nothing, Pkt
<1>3. QED
  BY <1>1, <1>2 DEF UnderWay, Holds, Queued

LEMMA AfterReadPacket ==
  ASSUME Traffic, ReadPacket, NEW type
  PROVE  /\ UnderWay(type)' => Queued(type)
         /\ Queued(type)' => Queued(type)
         /\ AtMostOne(type) => AtMostOne(type)'
<1>1. /\ pc = "read" /\ pc' = "packet"
      /\ inbox # <<>> /\ inbox' = Tail(inbox) /\ packet' = Head(inbox)
  BY DEF ReadPacket, Reading
<1>2. inbox \in Seq(Packets)
  BY DEF Traffic
<1>3. Queued(type)' => Queued(type)
  BY <1>1, <1>2, QueuedTaken
<1>4. Holds(type)' => Queued(type)
  BY <1>1, <1>2, QueuedTaken DEF Holds
<1>5. ASSUME AtMostOne(type), Holds(type)', Queued(type)'
      PROVE  FALSE
  <2>1. PICK i \in 1 .. Len(inbox') : inbox'[i].type = type
    BY <1>5 DEF Queued
  <2>2. inbox[1].type = type
    BY <1>1, <1>2, <1>5, InboxTaken DEF Holds
  <2>3. inbox[i + 1].type = type /\ i + 1 \in 1 .. Len(inbox) /\ 1 \in 1 .. Len(inbox) /\ i + 1 # 1
    BY <1>1, <1>2, <2>1, InboxTaken
  <2>4. QED
    BY <1>5, <2>2, <2>3 DEF AtMostOne
<1>6. ASSUME AtMostOne(type), NEW i \in 1 .. Len(inbox'), NEW j \in 1 .. Len(inbox'),
             inbox'[i].type = type, inbox'[j].type = type
      PROVE  i = j
  <2>1. /\ i + 1 \in 1 .. Len(inbox) /\ inbox[i + 1].type = type
        /\ j + 1 \in 1 .. Len(inbox) /\ inbox[j + 1].type = type
    BY <1>1, <1>2, <1>6, InboxTaken
  <2>2. i + 1 = j + 1
    BY <1>6, <2>1 DEF AtMostOne
  <2>3. QED
    BY <2>2
<1>7. QED
  BY <1>3, <1>4, <1>5, <1>6 DEF UnderWay, AtMostOne

LEMMA AfterDeliver ==
  ASSUME Traffic, NEW p \in Packets, Deliver(p), NEW type
  PROVE  /\ UnderWay(type)' <=> UnderWay(type) \/ p.type = type
         /\ Holds(type)' <=> Holds(type)
         /\ Queued(type)' <=> Queued(type) \/ p.type = type
         /\ AtMostOne(type) /\ (p.type = type => ~UnderWay(type)) => AtMostOne(type)'
<1>1. inbox \in Seq(Packets) /\ inbox' = Append(inbox, p) /\ pc' = pc /\ packet' = packet
  BY DEF Traffic, Deliver, callVars
<1>2. Queued(type)' <=> Queued(type) \/ p.type = type
  BY <1>1, QueuedFilled
<1>3. Holds(type)' <=> Holds(type)
  BY <1>1 DEF Holds
<1>4. ASSUME AtMostOne(type), p.type = type => ~UnderWay(type),
             NEW i \in 1 .. Len(inbox'), NEW j \in 1 .. Len(inbox'),
             inbox'[i].type = type, inbox'[j].type = type
      PROVE  i = j
  <2>1. \A k \in 1 .. Len(inbox') : k \in 1 .. Len(inbox) \/ k = Len(inbox) + 1
    BY <1>1, InboxFilled
  <2>2. CASE p.type # type
    <3>1. /\ i \in 1 .. Len(inbox) /\ inbox[i].type = type
          /\ j \in 1 .. Len(inbox) /\ inbox[j].type = type
      BY <1>1, <1>4, <2>1, <2>2, InboxFilled
    <3>2. QED
      BY <1>4, <3>1 DEF AtMostOne
  <2>3. CASE p.type = type
    <3>1. \A k \in 1 .. Len(inbox) : inbox'[k].type # type
      BY <1>1, <1>4, <2>3, InboxFilled DEF UnderWay, Queued
    <3>2. QED
      BY <1>4, <2>1, <3>1
  <2>4. QED
    BY <2>2, <2>3
<1>5. QED
  BY <1>2, <1>3, <1>4 DEF UnderWay, AtMostOne

(* The end of cycle(): its caller takes the answer, gives up or goes on.      *)
LEMMA AfterKeepalive ==
  ASSUME KeepaliveIdle \/ KeepalivePings
  PROVE  /\ pc = "keepalive" /\ pc' \in {"app", "read", "subscribe"}
         /\ inbox' = inbox /\ packet' = packet /\ await' = await
         /\ granted' = granted /\ accepted' = accepted
         /\ pending' = pending \/ pending' = pending \cup {Ping}
         /\ pc' = "subscribe" => await # "none" /\ packet.type = await
         /\ pc' = "read" => next' = next /\ handlers' = handlers
         /\ isconnected' =>
              isconnected \/ (await = "CONNACK" /\ Holds("CONNACK") /\ packet.arg = "accepted")
         /\ \A type : ~Holds(type)'
<1>1. PICK ping : Answered(ping)
  BY DEF KeepaliveIdle, KeepalivePings
<1>2. pc' \in {"app", "read", "subscribe"}
  BY <1>1 DEF Answered, ConnectionAnswered, SubscriptionAnswered, NotAnswered, CycleAgain, Return
<1>3. pc' = "subscribe" => await # "none" /\ packet.type = await
  BY <1>1 DEF Answered, ConnectionAnswered, SubscriptionAnswered, NotAnswered, CycleAgain, Return
<1>4. /\ pc = "keepalive" /\ inbox' = inbox /\ packet' = packet /\ await' = await
      /\ granted' = granted /\ accepted' = accepted
  BY DEF KeepaliveIdle, KeepalivePings, netVars
<1>5. pending' = pending \/ pending' = pending \cup {Ping}
  BY DEF KeepaliveIdle, KeepalivePings, netVars, Sent, Ping
<1>6. pc' = "read" => next' = next /\ handlers' = handlers
  BY <1>1 DEF Answered, ConnectionAnswered, SubscriptionAnswered, NotAnswered, Return
<1>7. isconnected' =>
        isconnected \/ (await = "CONNACK" /\ Holds("CONNACK") /\ packet.arg = "accepted")
  BY <1>1, <1>4 DEF Answered, ConnectionAnswered, SubscriptionAnswered, NotAnswered, Return, Holds
<1>8. QED
  BY <1>2, <1>3, <1>4, <1>5, <1>6, <1>7 DEF Holds
-----------------------------------------------------------------------------
(* The steps, for what can be under way. *)
LEMMA StepKinds ==
  ASSUME [Next]_vars
  PROVE  \/ Stays \/ ConnectSent \/ ConnectFails \/ SubscribeNext \/ CycleStarts
         \/ ReadNothing \/ ReadPacket \/ KeepaliveIdle \/ KeepalivePings \/ Server
<1>1. CASE SubscribeFails
  BY <1>1 DEF SubscribeFails, Return, clientVars, netVars, Stays, callVars, timeVars
<1>2. CASE ConnectDone
  BY <1>2 DEF ConnectDone, PublishSent, PublishFails, CloseSession, Sent, Return,
     clientVars, Stays, callVars, netVars, timeVars
<1>3. CASE CycleRefused
  BY <1>3 DEF CycleRefused, Return, clientVars, timeVars, netVars, Stays, callVars
<1>4. CASE PushData
  BY <1>4 DEF PushData, PublishSent, PublishFails, CloseSession, Sent, Return, clientVars,
     Stays, callVars, netVars, timeVars
<1>5. CASE Close
  BY <1>5 DEF Close, CloseSession, Return, Stays, callVars, clientVars, netVars, timeVars
<1>6. CASE WaitTimesOut
  BY <1>6 DEF WaitTimesOut, WaitFails, Return, clientVars, timeVars, netVars, Stays,
     callVars
<1>7. CASE PacketUnknown
  BY <1>7 DEF PacketUnknown, CloseIfConnected, CloseSession, CycleAgain, Return, clientVars,
     timeVars, netVars, Stays, callVars
<1>8. CASE PacketTooLong
  BY <1>8 DEF PacketTooLong, CycleFails, CloseIfConnected, CloseSession, Return, clientVars,
     timeVars, netVars, Stays, callVars
<1>9. CASE PacketPingresp
  BY <1>9 DEF PacketPingresp, callVars, timeVars, netVars, Stays, clientVars
<1>10. CASE PacketAck
  BY <1>10 DEF PacketAck, callVars, clientVars, timeVars, netVars, Stays
<1>11. CASE MessageQuiet
  BY <1>11 DEF MessageQuiet, callVars, clientVars, timeVars, netVars, Stays
<1>12. CASE MessageAnswered
  BY <1>12 DEF MessageAnswered, PublishSent, PublishFails, CloseSession, Sent, callVars,
     clientVars, Stays, netVars, timeVars
<1>13. CASE KeepaliveFails
  BY <1>13 DEF KeepaliveFails, CycleFails, CloseIfConnected, CloseSession, Return,
     clientVars, netVars, Stays, callVars, timeVars
<1>14. CASE Tick
  BY <1>14 DEF Tick, TakesTime, Less, callVars, clientVars, netVars, Stays, timeVars
<1>15. CASE LinkDies
  BY <1>15 DEF LinkDies, callVars, clientVars, timeVars, Stays, netVars
<1>16. CASE UNCHANGED vars
  BY <1>16 DEF vars, callVars, clientVars, timeVars, netVars, Stays
<1>17. QED
  BY <1>1, <1>2, <1>3, <1>4, <1>5, <1>6, <1>7, <1>8, <1>9, <1>10, <1>11, <1>12, <1>13,
     <1>14, <1>15, <1>16 DEF Next, Connecting, Cycling, Waiting, Handling, Keepalive

(* Where no packet comes into the inbox or into readbuf.                     *)
LEMMA NothingArrives ==
  ASSUME packet' = packet, inbox' = inbox,
         pc' \in {"packet", "keepalive"} => pc \in {"packet", "keepalive"}, NEW type
  PROVE  /\ Holds(type)' => Holds(type)
         /\ Queued(type)' <=> Queued(type)
         /\ UnderWay(type)' => UnderWay(type)
         /\ AtMostOne(type) => AtMostOne(type)'
  BY DEF Holds, Queued, UnderWay, AtMostOne

LEMMA AfterStays ==
  ASSUME Stays, NEW type
  PROVE  /\ Holds(type)' => Holds(type)
         /\ Queued(type)' <=> Queued(type)
         /\ UnderWay(type)' => UnderWay(type)
         /\ AtMostOne(type) => AtMostOne(type)'
<1>1. /\ packet' = packet /\ inbox' = inbox
      /\ pc' \in {"packet", "keepalive"} => pc \in {"packet", "keepalive"}
  BY DEF Stays
<1>2. QED
  BY <1>1, NothingArrives

(* A message of the server, or one without a meaning.                        *)
LEMMA MessagesTyped ==
  ASSUME NEW p \in Publishes \cup OddPackets
  PROVE  p \in Packets /\ p.type \in {"PUBLISH", "other", "oversized"}
<1>1. p \in Packets
  BY PacketsTyped
<1>2. CASE p \in Publishes
  <2>1. PICK t \in TopicSet : p = Pkt("PUBLISH", t)
    BY <1>2 DEF Publishes
  <2>2. p.type = "PUBLISH"
    BY <2>1 DEF Pkt
  <2>3. QED
    BY <1>1, <2>2
<1>3. CASE p \in OddPackets
  <2>1. p = Pkt("other", "") \/ p = Pkt("oversized", "")
    BY <1>3 DEF OddPackets
  <2>2. Pkt("other", "").type = "other" /\ Pkt("oversized", "").type = "oversized"
    BY DEF Pkt
  <2>3. QED
    BY <1>1, <2>1, <2>2
<1>4. QED
  BY <1>2, <1>3

LEMMA PacketIsPkt ==
  ASSUME NEW p \in Packets
  PROVE  p = Pkt(p.type, p.arg)
<1>1. \A type, arg : Pkt(type, arg).type = type /\ Pkt(type, arg).arg = arg
  BY DEF Pkt
<1>2. \E type, arg : p = Pkt(type, arg)
  BY DEF Packets, Connacks, Subacks, Publishes, OddPackets
<1>3. QED
  BY <1>1, <1>2

-----------------------------------------------------------------------------
(* CONNECT and its answer. *)
LEMMA ConnackOnceStep == Traffic /\ ConnackOnce /\ [Next]_vars => ConnackOnce'
<1> SUFFICES ASSUME Traffic, ConnackOnce, [Next]_vars
             PROVE  ConnackOnce'
  OBVIOUS
<1> DEFINE Connect == Pkt("CONNECT", "")
<1>0. /\ Connect # Ping
      /\ \A t : Connect # Pkt("SUBSCRIBE", t)
  BY DEF Pkt, Ping
(* No CONNECT is sent, and the rest stays as it is. *)
<1>a. ASSUME pending' \subseteq pending \cup {Ping} \cup Subscribes, isconnected' => isconnected,
             UnderWay("CONNACK")' => UnderWay("CONNACK")
      PROVE  ConnackOnce'
  <2>1. Connect \in pending' => Connect \in pending
    BY <1>0, <1>a DEF Subscribes
  <2>2. QED
    BY <1>a, <2>1 DEF ConnackOnce
<1>1. CASE Stays
  <2>1. pending' = pending /\ (isconnected' => isconnected)
    BY <1>1 DEF Stays
  <2>2. QED
    BY <1>1, <1>a, <2>1, AfterStays
<1>2. CASE ConnectSent
  <2>1. ~UnderWay("CONNACK")'
    BY <1>2, AfterConnectSent
  <2>2. ~isconnected'
    BY <1>2 DEF ConnectSent, Fresh
  <2>3. QED
    BY <2>1, <2>2 DEF ConnackOnce
<1>3. CASE ConnectFails
  <2>1. pending' = {}
    BY <1>3 DEF ConnectFails
  <2>2. QED
    BY <2>1 DEF ConnackOnce
<1>4. CASE SubscribeNext
  <2>1. /\ packet' = packet /\ inbox' = inbox /\ pc' = "read" /\ isconnected' = isconnected
        /\ next <= Len(Topics)
    BY <1>4 DEF SubscribeNext, clientVars
  <2>2. pending' = pending \/ pending' = pending \cup {Pkt("SUBSCRIBE", Topics[next])}
    BY <1>4 DEF SubscribeNext, Sent
  <2>3. Connect \in pending' => Connect \in pending
    <3>1. Connect # Pkt("SUBSCRIBE", Topics[next])
      BY <1>0
    <3>2. QED
      BY <2>2, <3>1
  <2>4. UnderWay("CONNACK")' => UnderWay("CONNACK")
    BY <2>1, NothingArrives
  <2>5. QED
    BY <2>1, <2>3, <2>4 DEF ConnackOnce
<1>5. CASE CycleStarts
  <2>1. /\ packet' = packet /\ inbox' = inbox /\ pc' = "read" /\ pending' = pending
        /\ isconnected' => isconnected
    BY <1>5 DEF CycleStarts, CloseSession, clientVars, Sent
  <2>2. QED
    BY <1>a, <2>1, NothingArrives
<1>6. CASE ReadNothing
  <2>1. pending' = pending /\ isconnected' = isconnected
    BY <1>6 DEF ReadNothing, clientVars, netVars
  <2>2. UnderWay("CONNACK")' => UnderWay("CONNACK")
    BY <1>6, AfterReadNothing
  <2>3. QED
    BY <1>a, <2>1, <2>2
<1>7. CASE ReadPacket
  <2>1. pending' = pending /\ isconnected' = isconnected
    BY <1>7 DEF ReadPacket, clientVars
  <2>2. UnderWay("CONNACK")' => UnderWay("CONNACK")
    BY <1>7, AfterReadPacket DEF UnderWay
  <2>3. QED
    BY <1>a, <2>1, <2>2
<1>8. CASE KeepaliveIdle \/ KeepalivePings
  <2>1. /\ pending' = pending \/ pending' = pending \cup {Ping}
        /\ inbox' = inbox /\ ~Holds("CONNACK")'
        /\ isconnected' => isconnected \/ Holds("CONNACK")
    BY <1>8, AfterKeepalive
  <2>2. UnderWay("CONNACK")' => UnderWay("CONNACK")
    BY <2>1 DEF UnderWay, Queued
  <2>3. Connect \in pending' => Connect \in pending
    BY <2>1, <1>0
  <2>4. QED
    BY <2>1, <2>2, <2>3 DEF ConnackOnce, UnderWay
<1>9. ASSUME NEW code \in {"accepted", "refused"}, ServerConnack(code)
      PROVE  ConnackOnce'
  <2>1. Connect \notin pending'
    BY <1>9 DEF ServerConnack
  <2>2. QED
    BY <2>1 DEF ConnackOnce
(* Another answer or a message is delivered. *)
<1>b. ASSUME NEW p \in Packets, p.type # "CONNACK", Deliver(p), pending' \subseteq pending
      PROVE  ConnackOnce'
  <2>1. UnderWay("CONNACK")' => UnderWay("CONNACK")
    BY <1>b, AfterDeliver
  <2>2. isconnected' = isconnected
    BY <1>b DEF Deliver, clientVars
  <2>3. QED
    BY <1>a, <1>b, <2>1, <2>2
<1>10. ASSUME NEW t \in TopicSet, NEW code \in {"granted", "refused"}, ServerSuback(t, code)
       PROVE  ConnackOnce'
  <2>1. Deliver(Pkt("SUBACK", code)) /\ pending' \subseteq pending
    BY <1>10 DEF ServerSuback
  <2>2. Pkt("SUBACK", code) \in Packets /\ Pkt("SUBACK", code).type # "CONNACK"
    BY PacketsTyped DEF Pkt
  <2>3. QED
    BY <1>b, <2>1, <2>2
<1>11. CASE ServerPingresp
  <2>1. Deliver(Pkt("PINGRESP", "")) /\ pending' \subseteq pending
    BY <1>11 DEF ServerPingresp
  <2>2. Pkt("PINGRESP", "") \in Packets /\ Pkt("PINGRESP", "").type # "CONNACK"
    BY PacketsTyped DEF Pkt
  <2>3. QED
    BY <1>b, <2>1, <2>2
<1>12. ASSUME NEW p \in Publishes \cup OddPackets, ServerPublishes(p)
       PROVE  ConnackOnce'
  <2>1. Deliver(p) /\ pending' = pending
    BY <1>12 DEF ServerPublishes
  <2>2. p \in Packets /\ p.type # "CONNACK"
    BY MessagesTyped
  <2>3. QED
    BY <1>b, <2>1, <2>2
<1>13. QED
  BY <1>1, <1>2, <1>3, <1>4, <1>5, <1>6, <1>7, <1>8, <1>9, <1>10, <1>11, <1>12, StepKinds
     DEF Server

LEMMA AcceptanceStep ==
  Traffic /\ ConnackOnce /\ AcceptanceIsTrue /\ [Next]_vars => AcceptanceIsTrue'
<1> SUFFICES ASSUME Traffic, ConnackOnce, AcceptanceIsTrue, [Next]_vars
             PROVE  AcceptanceIsTrue'
  OBVIOUS
<1> DEFINE Acceptance == Pkt("CONNACK", "accepted")
<1>a. ASSUME accepted' = accepted, inbox' = inbox, packet' = packet,
             Holds("CONNACK")' => Holds("CONNACK"),
             isconnected' => isconnected \/ (Holds("CONNACK") /\ packet.arg = "accepted")
      PROVE  AcceptanceIsTrue'
  BY <1>a DEF AcceptanceIsTrue
<1>1. CASE Stays
  <2>1. accepted' = accepted /\ inbox' = inbox /\ packet' = packet /\ (isconnected' => isconnected)
    BY <1>1 DEF Stays
  <2>2. QED
    BY <1>1, <1>a, <2>1, AfterStays
<1>2. CASE ConnectSent \/ ConnectFails
  <2>1. Len(inbox') = 0 /\ ~Holds("CONNACK")' /\ ~isconnected'
    BY <1>2, InboxEmptied DEF ConnectSent, ConnectFails, Fresh, Return, Holds
  <2>2. QED
    BY <2>1 DEF AcceptanceIsTrue
<1>3. CASE SubscribeNext \/ CycleStarts
  <2>1. /\ accepted' = accepted /\ inbox' = inbox /\ packet' = packet /\ pc' = "read"
        /\ isconnected' => isconnected
    BY <1>3 DEF SubscribeNext, CycleStarts, CloseSession, clientVars
  <2>2. QED
    BY <1>a, <2>1, NothingArrives
<1>4. CASE ReadNothing
  <2>1. ~Holds("CONNACK")'
    BY <1>4, AfterReadNothing
  <2>2. inbox' = inbox /\ accepted' = accepted /\ isconnected' = isconnected
    BY <1>4 DEF ReadNothing, clientVars, netVars
  <2>3. QED
    BY <2>1, <2>2 DEF AcceptanceIsTrue
<1>5. CASE ReadPacket
  <2>1. /\ inbox \in Seq(Packets) /\ inbox # <<>> /\ inbox' = Tail(inbox)
        /\ packet' = Head(inbox) /\ accepted' = accepted /\ isconnected' = isconnected
    BY <1>5 DEF ReadPacket, clientVars, Traffic
  <2>2. \A i \in 1 .. Len(inbox') : inbox'[i] = Acceptance => accepted'
    BY <2>1, InboxTaken DEF AcceptanceIsTrue
  <2>3. packet' \in Packets /\ 1 \in 1 .. Len(inbox) /\ packet' = inbox[1]
    BY <2>1, InboxTaken
  <2>4. packet'.type = "CONNACK" /\ packet'.arg = "accepted" => packet' = Acceptance
    BY <2>3, PacketIsPkt
  <2>5. Holds("CONNACK")' /\ packet'.arg = "accepted" => accepted'
    BY <2>1, <2>3, <2>4 DEF Holds, AcceptanceIsTrue
  <2>6. QED
    BY <2>1, <2>2, <2>5 DEF AcceptanceIsTrue
<1>6. CASE KeepaliveIdle \/ KeepalivePings
  BY <1>6, <1>a, AfterKeepalive
<1>7. ASSUME NEW code \in {"accepted", "refused"}, ServerConnack(code)
      PROVE  AcceptanceIsTrue'
  <2>1. /\ Deliver(Pkt("CONNACK", code)) /\ Pkt("CONNECT", "") \in pending
        /\ accepted' = (code = "accepted")
    BY <1>7 DEF ServerConnack
  <2>2. Pkt("CONNACK", code) \in Packets
    BY <1>7, PacketsTyped
  <2>3. ~isconnected /\ ~UnderWay("CONNACK")
    BY <2>1 DEF ConnackOnce
  <2>4. isconnected' = isconnected /\ inbox' = Append(inbox, Pkt("CONNACK", code))
    BY <2>1 DEF Deliver, clientVars
  <2>5. ~Holds("CONNACK")'
    BY <2>1, <2>2, <2>3, AfterDeliver DEF UnderWay
  <2>6. ASSUME NEW i \in 1 .. Len(inbox'), inbox'[i] = Acceptance
        PROVE  accepted'
    <3>1. inbox \in Seq(Packets)
      BY DEF Traffic
    <3>2. i \in 1 .. Len(inbox) => inbox'[i].type # "CONNACK"
      BY <2>2, <2>3, <2>4, <3>1, InboxFilled DEF UnderWay, Queued
    <3>3. i = Len(inbox) + 1
      BY <2>2, <2>4, <2>6, <3>1, <3>2, InboxFilled DEF Pkt
    <3>4. Pkt("CONNACK", code) = Acceptance
      BY <2>2, <2>4, <2>6, <3>1, <3>3, InboxFilled
    <3>5. QED
      BY <2>1, <3>4 DEF Pkt
  <2>7. QED
    BY <2>3, <2>4, <2>5, <2>6 DEF AcceptanceIsTrue
<1>b. ASSUME NEW p \in Packets, p.type # "CONNACK", Deliver(p), accepted' = accepted
      PROVE  AcceptanceIsTrue'
  <2>1. /\ inbox \in Seq(Packets) /\ inbox' = Append(inbox, p) /\ isconnected' = isconnected
        /\ pc' = pc /\ packet' = packet
    BY <1>b DEF Traffic, Deliver, clientVars, callVars
  <2>2. p # Acceptance
    BY <1>b DEF Pkt
  <2>3. ASSUME NEW i \in 1 .. Len(inbox'), inbox'[i] = Acceptance
        PROVE  accepted'
    <3>1. i \in 1 .. Len(inbox) /\ inbox[i] = Acceptance
      BY <2>1, <2>2, <2>3, InboxFilled
    <3>2. QED
      BY <1>b, <3>1 DEF AcceptanceIsTrue
  <2>4. QED
    BY <1>b, <2>1, <2>3 DEF AcceptanceIsTrue, Holds
<1>8. ASSUME NEW t \in TopicSet, NEW code \in {"granted", "refused"}, ServerSuback(t, code)
      PROVE  AcceptanceIsTrue'
  <2>1. Deliver(Pkt("SUBACK", code)) /\ accepted' = accepted
    BY <1>8 DEF ServerSuback
  <2>2. Pkt("SUBACK", code) \in Packets /\ Pkt("SUBACK", code).type # "CONNACK"
    BY PacketsTyped DEF Pkt
  <2>3. QED
    BY <1>b, <2>1, <2>2
<1>9. CASE ServerPingresp
  <2>1. Deliver(Pkt("PINGRESP", "")) /\ accepted' = accepted
    BY <1>9 DEF ServerPingresp
  <2>2. Pkt("PINGRESP", "") \in Packets /\ Pkt("PINGRESP", "").type # "CONNACK"
    BY PacketsTyped DEF Pkt
  <2>3. QED
    BY <1>b, <2>1, <2>2
<1>10. ASSUME NEW p \in Publishes \cup OddPackets, ServerPublishes(p)
       PROVE  AcceptanceIsTrue'
  <2>1. Deliver(p) /\ accepted' = accepted
    BY <1>10 DEF ServerPublishes
  <2>2. p \in Packets /\ p.type # "CONNACK"
    BY MessagesTyped
  <2>3. QED
    BY <1>b, <2>1, <2>2
<1>11. QED
  BY <1>1, <1>2, <1>3, <1>4, <1>5, <1>6, <1>7, <1>8, <1>9, <1>10, StepKinds DEF Server

-----------------------------------------------------------------------------
(* SUBSCRIBE and its answer. *)
LEMMA NoneBeforeStep ==
  Places /\ Traffic /\ NoneBefore /\ SubackIsForNext /\ [Next]_vars => NoneBefore'
<1> SUFFICES ASSUME Places, Traffic, NoneBefore, SubackIsForNext, [Next]_vars
             PROVE  NoneBefore'
  OBVIOUS
<1> DEFINE Before == pc = "subscribe" \/ (InLoop /\ await = "CONNACK")
<1>a. ASSUME pending' \cap Subscribes \subseteq pending, Before' => Before,
             UnderWay("SUBACK")' => UnderWay("SUBACK")
      PROVE  NoneBefore'
  BY <1>a DEF NoneBefore
<1>b. ~Before' => NoneBefore'
  BY DEF NoneBefore
<1>c. Ping \notin Subscribes /\ Pkt("CONNECT", "") \notin Subscribes
  BY DEF Ping, Subscribes, Pkt
<1>1. CASE Stays
  <2>1. pending' = pending /\ (Before' => Before)
    BY <1>1 DEF Stays, InLoop
  <2>2. QED
    BY <1>1, <1>a, <2>1, AfterStays
<1>2. CASE ConnectSent
  <2>1. ~UnderWay("SUBACK")' /\ pending' \cap Subscribes = {}
    BY <1>2, <1>c, AfterConnectSent
  <2>2. QED
    BY <2>1 DEF NoneBefore
<1>3. CASE ConnectFails
  <2>1. ~Before'
    BY <1>3 DEF ConnectFails, Return, InLoop
  <2>2. QED
    BY <1>b, <2>1
<1>4. CASE SubscribeNext \/ CycleStarts
  <2>1. ~Before'
    BY <1>4 DEF SubscribeNext, CycleStarts, InLoop
  <2>2. QED
    BY <1>b, <2>1
<1>5. CASE ReadNothing
  <2>1. pending' = pending /\ (Before' => Before)
    BY <1>5 DEF ReadNothing, Reading, netVars, InLoop
  <2>2. UnderWay("SUBACK")' => UnderWay("SUBACK")
    BY <1>5, AfterReadNothing
  <2>3. QED
    BY <1>a, <2>1, <2>2
<1>6. CASE ReadPacket
  <2>1. pending' = pending /\ (Before' => Before)
    BY <1>6 DEF ReadPacket, Reading, InLoop
  <2>2. UnderWay("SUBACK")' => UnderWay("SUBACK")
    BY <1>6, AfterReadPacket DEF UnderWay
  <2>3. QED
    BY <1>a, <2>1, <2>2
<1>7. CASE KeepaliveIdle \/ KeepalivePings
  <2>1. /\ pending' = pending \/ pending' = pending \cup {Ping}
        /\ pc = "keepalive" /\ inbox' = inbox /\ ~Holds("SUBACK")' /\ await' = await
        /\ pc' \in {"app", "read", "subscribe"}
        /\ pc' = "subscribe" => await # "none" /\ packet.type = await
    BY <1>7, AfterKeepalive
  <2>2. UnderWay("SUBACK")' => Queued("SUBACK")
    BY <2>1 DEF UnderWay, Queued
  <2>3. pending' \cap Subscribes = pending \cap Subscribes
    BY <2>1, <1>c
  <2>4. CASE await = "CONNACK"
    <3>1. Before
      BY <2>1, <2>4 DEF InLoop
    <3>2. QED
      BY <2>2, <2>3, <3>1 DEF NoneBefore, UnderWay
  <2>5. CASE await # "CONNACK" /\ pc' = "subscribe"
    <3>1. await = "SUBACK" /\ InLoop /\ Holds("SUBACK")
      BY <2>1, <2>5 DEF Places, Holds, InLoop
    <3>2. pending \cap Subscribes = {} /\ ~Queued("SUBACK")
      BY <3>1 DEF SubackIsForNext, AtMostOne, UnderWay
    <3>3. QED
      BY <2>2, <2>3, <3>2 DEF NoneBefore
  <2>6. CASE await # "CONNACK" /\ pc' # "subscribe"
    <3>1. ~Before'
      BY <2>1, <2>6 DEF InLoop
    <3>2. QED
      BY <1>b, <3>1
  <2>7. QED
    BY <2>4, <2>5, <2>6
(* Something but a SUBACK is delivered. *)
<1>d. ASSUME NEW p \in Packets, p.type # "SUBACK", Deliver(p), pending' \subseteq pending
      PROVE  NoneBefore'
  <2>1. UnderWay("SUBACK")' => UnderWay("SUBACK")
    BY <1>d, AfterDeliver
  <2>2. Before' => Before
    BY <1>d DEF Deliver, callVars, InLoop
  <2>3. QED
    BY <1>a, <1>d, <2>1, <2>2
<1>8. ASSUME NEW code \in {"accepted", "refused"}, ServerConnack(code)
      PROVE  NoneBefore'
  <2>1. Deliver(Pkt("CONNACK", code)) /\ pending' \subseteq pending
    BY <1>8 DEF ServerConnack
  <2>2. Pkt("CONNACK", code) \in Packets /\ Pkt("CONNACK", code).type # "SUBACK"
    BY PacketsTyped DEF Pkt
  <2>3. QED
    BY <1>d, <2>1, <2>2
<1>9. ASSUME NEW t \in TopicSet, NEW code \in {"granted", "refused"}, ServerSuback(t, code)
      PROVE  NoneBefore'
  <2>1. Pkt("SUBSCRIBE", t) \in pending \cap Subscribes
    BY <1>9 DEF ServerSuback, Subscribes
  <2>2. ~Before
    BY <2>1 DEF NoneBefore
  <2>3. pc' = pc /\ await' = await
    BY <1>9 DEF ServerSuback, Deliver, callVars
  <2>4. ~Before'
    BY <2>2, <2>3 DEF InLoop
  <2>5. QED
    BY <1>b, <2>4
<1>10. CASE ServerPingresp
  <2>1. Deliver(Pkt("PINGRESP", "")) /\ pending' \subseteq pending
    BY <1>10 DEF ServerPingresp
  <2>2. Pkt("PINGRESP", "") \in Packets /\ Pkt("PINGRESP", "").type # "SUBACK"
    BY PacketsTyped DEF Pkt
  <2>3. QED
    BY <1>d, <2>1, <2>2
<1>11. ASSUME NEW p \in Publishes \cup OddPackets, ServerPublishes(p)
       PROVE  NoneBefore'
  <2>1. Deliver(p) /\ pending' = pending
    BY <1>11 DEF ServerPublishes
  <2>2. p \in Packets /\ p.type # "SUBACK"
    BY MessagesTyped
  <2>3. QED
    BY <1>d, <2>1, <2>2
<1>12. QED
  BY <1>1, <1>2, <1>3, <1>4, <1>5, <1>6, <1>7, <1>8, <1>9, <1>10, <1>11, StepKinds DEF Server

LEMMA SubackStep ==
  Traffic /\ NoneBefore /\ SubackIsForNext /\ [Next]_vars => SubackIsForNext'
<1> SUFFICES ASSUME Traffic, NoneBefore, SubackIsForNext, [Next]_vars,
                    InLoop', await' = "SUBACK"
             PROVE  SubackIsForNext'
  BY DEF SubackIsForNext
<1> DEFINE Grant == Pkt("SUBACK", "granted")
<1>c. Ping \notin Subscribes
  BY DEF Ping, Subscribes, Pkt
(* Nothing about subscriptions is sent, or arrives. *)
<1>a. ASSUME InLoop, await = "SUBACK", next' = next, granted \subseteq granted',
             pending' \cap Subscribes \subseteq pending, AtMostOne("SUBACK")',
             UnderWay("SUBACK")' => UnderWay("SUBACK"),
             \A i \in 1 .. Len(inbox') : inbox'[i] = Grant => Topics[next] \in granted,
             Holds("SUBACK")' /\ packet'.arg = "granted" => Topics[next] \in granted
      PROVE  SubackIsForNext'
  <2>1. pending' \cap Subscribes \subseteq pending \cap Subscribes
    BY <1>a
  <2>2. QED
    BY <1>a, <2>1 DEF SubackIsForNext
<1>1. CASE Stays
  <2>1. /\ packet' = packet /\ await' = await /\ next' = next /\ inbox' = inbox
        /\ pending' = pending /\ granted' = granted
    BY <1>1 DEF Stays
  <2>2. InLoop
    BY <1>1 DEF Stays, InLoop
  <2>3. /\ Holds("SUBACK")' => Holds("SUBACK")
        /\ UnderWay("SUBACK")' => UnderWay("SUBACK")
        /\ AtMostOne("SUBACK") => AtMostOne("SUBACK")'
    BY <1>1, AfterStays
  <2>4. QED
    BY <1>a, <2>1, <2>2, <2>3 DEF SubackIsForNext
<1>2. CASE ConnectSent \/ ConnectFails \/ CycleStarts
  BY <1>2 DEF ConnectSent, ConnectFails, CycleStarts, Return, InLoop
<1>3. CASE SubscribeNext
  <2>1. /\ pc = "subscribe" /\ packet' = packet /\ next' = next /\ inbox' = inbox
        /\ granted' = granted /\ pc' = "read"
    BY <1>3 DEF SubscribeNext
  <2>2. pending' \subseteq pending \cup {Pkt("SUBSCRIBE", Topics[next])}
    BY <1>3 DEF SubscribeNext, Sent
  <2>3. ~UnderWay("SUBACK") /\ pending \cap Subscribes = {}
    BY <2>1 DEF NoneBefore
  <2>4. ~UnderWay("SUBACK")'
    BY <2>1, <2>3, NothingArrives
  <2>5. Grant.type = "SUBACK"
    BY DEF Pkt
  <2>6. \A i \in 1 .. Len(inbox') : inbox'[i].type # "SUBACK"
    BY <2>4 DEF UnderWay, Queued
  <2>7. pending' \cap Subscribes \subseteq {Pkt("SUBSCRIBE", Topics[next'])}
    BY <2>1, <2>2, <2>3
  <2>8. QED
    BY <2>4, <2>5, <2>6, <2>7 DEF SubackIsForNext, AtMostOne, UnderWay
<1>4. CASE ReadNothing
  <2>1. /\ next' = next /\ granted' = granted /\ pending' = pending /\ inbox' = inbox
        /\ await' = await /\ InLoop
    BY <1>4 DEF ReadNothing, Reading, netVars, InLoop
  <2>2. (UnderWay("SUBACK")' => UnderWay("SUBACK")) /\ ~Holds("SUBACK")'
    BY <1>4, AfterReadNothing
  <2>3. AtMostOne("SUBACK")'
    BY <2>1, <2>2 DEF SubackIsForNext, AtMostOne
  <2>4. QED
    BY <1>a, <2>1, <2>2, <2>3 DEF SubackIsForNext
<1>5. CASE ReadPacket
  <2>1. /\ next' = next /\ granted' = granted /\ pending' = pending
        /\ await' = await /\ InLoop
    BY <1>5 DEF ReadPacket, Reading, InLoop
  <2>2. /\ UnderWay("SUBACK")' => UnderWay("SUBACK")
        /\ AtMostOne("SUBACK") => AtMostOne("SUBACK")'
    BY <1>5, AfterReadPacket DEF UnderWay
  <2>3. /\ inbox \in Seq(Packets) /\ inbox # <<>> /\ inbox' = Tail(inbox)
        /\ packet' = Head(inbox)
    BY <1>5 DEF ReadPacket, Traffic
  <2>4. \A i \in 1 .. Len(inbox) : inbox[i] = Grant => Topics[next] \in granted
    BY <2>1 DEF SubackIsForNext
  <2>5. \A i \in 1 .. Len(inbox') : inbox'[i] = Grant => Topics[next] \in granted
    BY <2>3, <2>4, InboxTaken
  <2>6. packet' \in Packets /\ 1 \in 1 .. Len(inbox) /\ packet' = inbox[1]
    BY <2>3, InboxTaken
  <2>7. packet'.type = "SUBACK" /\ packet'.arg = "granted" => packet' = Grant
    BY <2>6, PacketIsPkt
  <2>8. Holds("SUBACK")' /\ packet'.arg = "granted" => Topics[next] \in granted
    BY <2>4, <2>6, <2>7 DEF Holds
  <2>9. QED
    BY <1>a, <2>1, <2>2, <2>5, <2>8 DEF SubackIsForNext
<1>6. CASE KeepaliveIdle \/ KeepalivePings
  <2>1. /\ pending' = pending \/ pending' = pending \cup {Ping}
        /\ pc = "keepalive" /\ inbox' = inbox /\ ~Holds("SUBACK")' /\ await' = await
        /\ pc' \in {"app", "read", "subscribe"} /\ granted' = granted
        /\ pc' = "read" => next' = next
    BY <1>6, AfterKeepalive
  <2>2. InLoop /\ next' = next
    BY <2>1 DEF InLoop
  <2>3. pending' \cap Subscribes \subseteq pending
    BY <2>1, <1>c
  <2>4. UnderWay("SUBACK")' => UnderWay("SUBACK")
    BY <2>1 DEF UnderWay, Queued
  <2>5. AtMostOne("SUBACK")'
    BY <2>1, <2>2 DEF SubackIsForNext, AtMostOne
  <2>6. QED
    BY <1>a, <2>1, <2>2, <2>3, <2>4, <2>5 DEF SubackIsForNext
(* Something but a SUBACK is delivered. *)
<1>d. ASSUME NEW p \in Packets, p.type # "SUBACK", Deliver(p), pending' \subseteq pending,
             granted' = granted
      PROVE  SubackIsForNext'
  <2>1. /\ UnderWay("SUBACK")' => UnderWay("SUBACK")
        /\ Holds("SUBACK")' => Holds("SUBACK")
        /\ AtMostOne("SUBACK") => AtMostOne("SUBACK")'
    BY <1>d, AfterDeliver
  <2>2. /\ next' = next /\ await' = await /\ packet' = packet /\ InLoop
        /\ inbox \in Seq(Packets) /\ inbox' = Append(inbox, p)
    BY <1>d DEF Deliver, callVars, InLoop, Traffic
  <2>3. p # Grant
    BY <1>d DEF Pkt
  <2>4. \A i \in 1 .. Len(inbox) : inbox[i] = Grant => Topics[next] \in granted
    BY <2>2 DEF SubackIsForNext
  <2>5. \A i \in 1 .. Len(inbox') : inbox'[i] = Grant => Topics[next] \in granted
    BY <2>2, <2>3, <2>4, InboxFilled
  <2>6. QED
    BY <1>a, <1>d, <2>1, <2>2, <2>5 DEF SubackIsForNext
<1>7. ASSUME NEW code \in {"accepted", "refused"}, ServerConnack(code)
      PROVE  SubackIsForNext'
  <2>1. Deliver(Pkt("CONNACK", code)) /\ pending' \subseteq pending /\ granted' = granted
    BY <1>7 DEF ServerConnack
  <2>2. Pkt("CONNACK", code) \in Packets /\ Pkt("CONNACK", code).type # "SUBACK"
    BY PacketsTyped DEF Pkt
  <2>3. QED
    BY <1>d, <2>1, <2>2
<1>8. ASSUME NEW t \in TopicSet, NEW code \in {"granted", "refused"}, ServerSuback(t, code)
      PROVE  SubackIsForNext'
  <2>1. /\ Pkt("SUBSCRIBE", t) \in pending
        /\ pending' = pending \ {Pkt("SUBSCRIBE", t)}
        /\ granted' = IF code = "granted" THEN granted \cup {t} ELSE granted
        /\ Deliver(Pkt("SUBACK", code))
    BY <1>8 DEF ServerSuback
  <2>2. /\ next' = next /\ await' = await /\ packet' = packet /\ InLoop
        /\ inbox \in Seq(Packets) /\ inbox' = Append(inbox, Pkt("SUBACK", code))
    BY <2>1 DEF Deliver, callVars, InLoop, Traffic
  <2>3. Pkt("SUBACK", code) \in Packets /\ Pkt("SUBACK", code).type = "SUBACK"
    BY PacketsTyped DEF Pkt
  <2>4. Pkt("SUBSCRIBE", t) \in Subscribes
    BY DEF Subscribes
  <2>5. /\ pending \cap Subscribes \subseteq {Pkt("SUBSCRIBE", Topics[next])}
        /\ ~UnderWay("SUBACK") /\ AtMostOne("SUBACK")
    BY <2>1, <2>2, <2>4 DEF SubackIsForNext
  <2>6. Pkt("SUBSCRIBE", t) = Pkt("SUBSCRIBE", Topics[next])
    BY <2>1, <2>4, <2>5
  <2>7. t = Topics[next]
    BY <2>6 DEF Pkt
  <2>8. pending' \cap Subscribes = {}
    BY <2>1, <2>5, <2>6
  <2>9. ~Holds("SUBACK")' /\ AtMostOne("SUBACK")'
    BY <2>1, <2>3, <2>5, AfterDeliver DEF UnderWay
  <2>10. ASSUME NEW i \in 1 .. Len(inbox'), inbox'[i] = Grant
         PROVE  Topics[next'] \in granted'
    <3>1. Grant.type = "SUBACK" /\ Grant.arg = "granted" /\ Pkt("SUBACK", code).arg = code
      BY DEF Pkt
    <3>2. \A j \in 1 .. Len(inbox) : inbox[j].type # "SUBACK"
      BY <2>5 DEF UnderWay, Queued
    <3>3. i \in 1 .. Len(inbox) \/ i = Len(inbox) + 1
      BY <2>2, <2>3, InboxFilled
    <3>4. inbox'[i] = Pkt("SUBACK", code)
      BY <2>2, <2>3, <2>10, <3>1, <3>2, <3>3, InboxFilled
    <3>5. code = "granted"
      BY <2>10, <3>1, <3>4
    <3>6. QED
      BY <2>1, <2>2, <2>7, <3>5
  <2>11. QED
    BY <2>8, <2>9, <2>10 DEF SubackIsForNext
<1>9. CASE ServerPingresp
  <2>1. Deliver(Pkt("PINGRESP", "")) /\ pending' \subseteq pending /\ granted' = granted
    BY <1>9 DEF ServerPingresp
  <2>2. Pkt("PINGRESP", "") \in Packets /\ Pkt("PINGRESP", "").type # "SUBACK"
    BY PacketsTyped DEF Pkt
  <2>3. QED
    BY <1>d, <2>1, <2>2
<1>10. ASSUME NEW p \in Publishes \cup OddPackets, ServerPublishes(p)
       PROVE  SubackIsForNext'
  <2>1. Deliver(p) /\ pending' = pending /\ granted' = granted
    BY <1>10 DEF ServerPublishes
  <2>2. p \in Packets /\ p.type # "SUBACK"
    BY MessagesTyped
  <2>3. QED
    BY <1>d, <2>1, <2>2
<1>11. QED
  BY <1>1, <1>2, <1>3, <1>4, <1>5, <1>6, <1>7, <1>8, <1>9, <1>10, StepKinds DEF Server

LEMMA GrantedStep ==
  ~CharSigned /\ SubackIsForNext /\ HandlersGranted /\ [Next]_vars => HandlersGranted'
<1> SUFFICES ASSUME ~CharSigned, SubackIsForNext, HandlersGranted, [Next]_vars
             PROVE  HandlersGranted'
  OBVIOUS
<1>a. ASSUME handlers' \subseteq handlers, granted \subseteq granted'
      PROVE  HandlersGranted'
  BY <1>a DEF HandlersGranted
<1>1. CASE Stays
  BY <1>1, <1>a DEF Stays
<1>2. CASE ConnectSent \/ ConnectFails
  BY <1>2 DEF ConnectSent, ConnectFails, Fresh, HandlersGranted
<1>3. CASE SubscribeNext \/ CycleStarts \/ ReadNothing \/ ReadPacket
  BY <1>3, <1>a DEF SubscribeNext, CycleStarts, CloseSession, ReadNothing, ReadPacket, clientVars,
     netVars
<1>4. CASE KeepaliveIdle \/ KeepalivePings
  <2>1. pc = "keepalive" /\ granted' = granted
    BY <1>4, AfterKeepalive
  <2>2. PICK ping : Answered(ping)
    BY <1>4 DEF KeepaliveIdle, KeepalivePings
  <2>3. CASE ConnectionAnswered(ping) \/ NotAnswered(ping)
    BY <2>1, <2>3, <1>a DEF ConnectionAnswered, NotAnswered
  <2>4. CASE SubscriptionAnswered(ping)
    <3>1. Holds("SUBACK") /\ InLoop /\ await = "SUBACK"
      BY <2>1, <2>4 DEF SubscriptionAnswered, Holds, InLoop
    <3>2. packet.arg = "granted" => Topics[next] \in granted
      BY <3>1 DEF SubackIsForNext
    <3>3. handlers' = IF packet.arg = "granted" THEN handlers \cup {Topics[next]} ELSE handlers
      BY <2>4 DEF SubscriptionAnswered
    <3>4. QED
      BY <2>1, <3>2, <3>3 DEF HandlersGranted
  <2>5. QED
    BY <2>2, <2>3, <2>4 DEF Answered
<1>5. CASE Server
  <2>1. handlers' = handlers /\ granted \subseteq granted'
    BY <1>5 DEF Server, ServerConnack, ServerSuback, ServerPingresp, ServerPublishes, Deliver,
       clientVars
  <2>2. QED
    BY <1>a, <2>1
<1>6. QED
  BY <1>1, <1>2, <1>3, <1>4, <1>5, StepKinds

-----------------------------------------------------------------------------
(* Pings. *)
LEMMA OpeningStep ==
  Numbers /\ Traffic /\ NoneBefore /\ Opening /\ [Next]_vars => Opening'
<1> SUFFICES ASSUME Numbers, Traffic, NoneBefore, Opening, [Next]_vars, InLoop', await' = "CONNACK"
             PROVE  Opening'
  BY DEF Opening
<1> DEFINE Opened == InLoop /\ await = "CONNACK"
<1>c. Ping # Pkt("CONNECT", "")
  BY DEF Ping, Pkt
(* The deadlines move together, and nothing of a later stage appears. *)
<1>a. ASSUME Opened, sentLeft' = waitLeft' + (KeepAlive - AckTimeout), granted' = {},
             pending' \subseteq pending,
             \A type \in {"PUBLISH", "PINGRESP"} : UnderWay(type)' => UnderWay(type)
      PROVE  Opening'
  BY <1>a DEF Opening
<1>1. CASE Stays
  <2>1. /\ Opened /\ granted' = granted /\ pending' = pending
        /\ pc' # "app" /\ (MessageAnswered \/ Tick \/ UNCHANGED <<sentLeft, waitLeft>>)
    BY <1>1 DEF Stays, InLoop
  <2>2. /\ sentLeft = waitLeft + (KeepAlive - AckTimeout)
        /\ granted = {} /\ ~UnderWay("PUBLISH")
    BY <2>1 DEF Opening
  <2>3. ~MessageAnswered
    BY <2>2 DEF MessageAnswered, UnderWay, Holds
  <2>4. ASSUME Tick
        PROVE  sentLeft' = waitLeft' + (KeepAlive - AckTimeout)
    <3>1. waitLeft > 0
      BY <2>1, <2>2, <2>4 DEF Tick, TakesTime, InLoop, UnderWay, Holds
    <3>2. sentLeft' = Less(sentLeft) /\ waitLeft' = Less(waitLeft)
      BY <2>4 DEF Tick
    <3>3. sentLeft \in Nat /\ waitLeft \in Nat
      BY Times DEF Numbers
    <3>4. QED
      BY <2>2, <3>1, <3>2, <3>3, Times DEF Less
  <2>5. sentLeft' = waitLeft' + (KeepAlive - AckTimeout)
    BY <2>1, <2>2, <2>3, <2>4
  <2>6. QED
    BY <1>1, <1>a, <2>1, <2>2, <2>5, AfterStays
<1>2. CASE ConnectSent
  <2>1. \A type : ~UnderWay(type)'
    BY <1>2, AfterConnectSent
  <2>2. sentLeft' = KeepAlive /\ waitLeft' = AckTimeout /\ granted' = {}
    BY <1>2 DEF ConnectSent, Fresh
  <2>3. Ping \notin pending'
    BY <1>2, <1>c DEF ConnectSent
  <2>4. KeepAlive = AckTimeout + (KeepAlive - AckTimeout)
    BY Times
  <2>5. QED
    BY <2>1, <2>2, <2>3, <2>4 DEF Opening
<1>3. CASE ConnectFails \/ SubscribeNext \/ CycleStarts
  BY <1>3 DEF ConnectFails, SubscribeNext, CycleStarts, Return, InLoop
<1>4. CASE ReadNothing
  <2>1. /\ Opened /\ granted' = granted /\ pending' = pending
        /\ sentLeft' = sentLeft /\ waitLeft' = waitLeft
    BY <1>4 DEF ReadNothing, Reading, InLoop, netVars, timeVars
  <2>2. \A type \in {"PUBLISH", "PINGRESP"} : UnderWay(type)' => UnderWay(type)
    BY <1>4, AfterReadNothing
  <2>3. QED
    BY <1>a, <2>1, <2>2 DEF Opening
<1>5. CASE ReadPacket
  <2>1. /\ Opened /\ granted' = granted /\ pending' = pending
        /\ sentLeft' = sentLeft /\ waitLeft' = waitLeft
    BY <1>5 DEF ReadPacket, Reading, InLoop
  <2>2. \A type \in {"PUBLISH", "PINGRESP"} : UnderWay(type)' => UnderWay(type)
    BY <1>5, AfterReadPacket DEF UnderWay
  <2>3. QED
    BY <1>a, <2>1, <2>2 DEF Opening
<1>6. CASE KeepaliveIdle
  <2>1. /\ Opened /\ granted' = granted /\ pending' = pending
        /\ sentLeft' = sentLeft /\ waitLeft' = waitLeft /\ inbox' = inbox
        /\ \A type : ~Holds(type)'
    BY <1>6, AfterKeepalive DEF KeepaliveIdle, InLoop, netVars, timeVars
  <2>2. \A type \in {"PUBLISH", "PINGRESP"} : UnderWay(type)' => UnderWay(type)
    BY <2>1 DEF UnderWay, Queued
  <2>3. QED
    BY <1>a, <2>1, <2>2 DEF Opening
<1>7. CASE KeepalivePings
  <2>1. Opened /\ sentLeft = 0
    BY <1>7, AfterKeepalive DEF KeepalivePings, Quiet, InLoop
  <2>2. sentLeft = waitLeft + (KeepAlive - AckTimeout) /\ waitLeft \in Nat
    BY <2>1, Times DEF Opening, Numbers
  <2>3. QED
    BY <2>1, <2>2, Times
(* A CONNACK or a packet without a meaning is delivered. *)
<1>d. ASSUME NEW p \in Packets, p.type \notin {"PUBLISH", "PINGRESP"}, Deliver(p),
             pending' \subseteq pending, granted' = granted
      PROVE  Opening'
  <2>1. Opened /\ sentLeft' = sentLeft /\ waitLeft' = waitLeft
    BY <1>d DEF Deliver, callVars, timeVars, InLoop
  <2>2. \A type \in {"PUBLISH", "PINGRESP"} : UnderWay(type)' => UnderWay(type)
    BY <1>d, AfterDeliver
  <2>3. QED
    BY <1>a, <1>d, <2>1, <2>2 DEF Opening
<1>8. ASSUME NEW code \in {"accepted", "refused"}, ServerConnack(code)
      PROVE  Opening'
  <2>1. Deliver(Pkt("CONNACK", code)) /\ pending' \subseteq pending /\ granted' = granted
    BY <1>8 DEF ServerConnack
  <2>2. Pkt("CONNACK", code) \in Packets /\ Pkt("CONNACK", code).type = "CONNACK"
    BY PacketsTyped DEF Pkt
  <2>3. QED
    BY <1>d, <2>1, <2>2
<1>9. ASSUME NEW t \in TopicSet, NEW code \in {"granted", "refused"}, ServerSuback(t, code)
      PROVE  Opening'
  <2>1. Pkt("SUBSCRIBE", t) \in pending \cap Subscribes
    BY <1>9 DEF ServerSuback, Subscribes
  <2>2. Opened
    BY <1>9 DEF ServerSuback, Deliver, callVars, InLoop
  <2>3. QED
    BY <2>1, <2>2 DEF NoneBefore
<1>10. CASE ServerPingresp
  <2>1. Ping \in pending /\ Opened
    BY <1>10 DEF ServerPingresp, Deliver, callVars, InLoop, Ping
  <2>2. QED
    BY <2>1 DEF Opening
<1>11. ASSUME NEW p \in Publishes \cup OddPackets, ServerPublishes(p)
       PROVE  Opening'
  <2>1. Deliver(p) /\ pending' = pending /\ granted' = granted
    BY <1>11 DEF ServerPublishes
  <2>2. Opened
    BY <2>1 DEF Deliver, callVars, InLoop
  <2>3. p \in OddPackets
    BY <1>11, <2>2 DEF ServerPublishes, Opening
  <2>4. p \in Packets /\ p.type \in {"other", "oversized"}
    <3>1. p \in Packets
      BY MessagesTyped
    <3>2. p = Pkt("other", "") \/ p = Pkt("oversized", "")
      BY <2>3 DEF OddPackets
    <3>3. Pkt("other", "").type = "other" /\ Pkt("oversized", "").type = "oversized"
      BY DEF Pkt
    <3>4. QED
      BY <3>1, <3>2, <3>3
  <2>5. QED
    BY <1>d, <2>1, <2>4
<1>12. QED
  BY <1>1, <1>2, <1>3, <1>4, <1>5, <1>6, <1>7, <1>8, <1>9, <1>10, <1>11, StepKinds DEF Server

(* PINGRESPs of the inbox are told by their places. *)
OnePingresp ==
  \A i, j \in 1 .. Len(inbox) : inbox[i].type = "PINGRESP" /\ inbox[j].type = "PINGRESP" => i = j

LEMMA PingsStep ==
  Booleans /\ Numbers /\ Traffic /\ Opening /\ PingsApart /\ [Next]_vars => PingsApart'
<1> SUFFICES ASSUME Booleans, Numbers, Traffic, Opening, PingsApart, [Next]_vars, isconnected'
             PROVE  PingsApart'
  BY DEF PingsApart
(* No ping is sent and no answer arrives or goes by unnoticed. *)
<1>a. ASSUME isconnected, ping_outstanding' = ping_outstanding, pending' \subseteq pending,
             Queued("PINGRESP")' => Queued("PINGRESP"),
             HoldsPingresp' => HoldsPingresp, OnePingresp => OnePingresp'
      PROVE  PingsApart'
  <2>1. /\ ~ping_outstanding => Ping \notin pending /\ ~Queued("PINGRESP") /\ ~HoldsPingresp
        /\ Ping \in pending => ~Queued("PINGRESP") /\ ~HoldsPingresp
        /\ HoldsPingresp => ~Queued("PINGRESP")
        /\ OnePingresp
    BY <1>a DEF PingsApart, OnePingresp
  <2>2. /\ ~ping_outstanding' => Ping \notin pending' /\ ~Queued("PINGRESP")' /\ ~HoldsPingresp'
        /\ Ping \in pending' => ~Queued("PINGRESP")' /\ ~HoldsPingresp'
        /\ HoldsPingresp' => ~Queued("PINGRESP")'
        /\ OnePingresp'
    BY <1>a, <2>1
  <2>3. QED
    BY <2>2 DEF PingsApart, OnePingresp
(* Nothing is under way. *)
<1>b. ASSUME Ping \notin pending', ~Queued("PINGRESP")', ~HoldsPingresp'
      PROVE  PingsApart'
  BY <1>b DEF PingsApart, Queued
<1>c. ASSUME packet' = packet, inbox' = inbox, pc' = "packet" => pc = "packet"
      PROVE  /\ Queued("PINGRESP")' <=> Queued("PINGRESP")
             /\ HoldsPingresp' => HoldsPingresp
             /\ OnePingresp => OnePingresp'
  BY <1>c DEF Queued, HoldsPingresp, OnePingresp
<1>1. CASE Stays
  <2>1. /\ packet' = packet /\ inbox' = inbox /\ pending' = pending /\ isconnected
        /\ pc' = "packet" => pc = "packet"
        /\ ping_outstanding' = ping_outstanding \/ PacketPingresp
    BY <1>1 DEF Stays
  <2>2. CASE PacketPingresp
    <3>1. HoldsPingresp /\ ~HoldsPingresp'
      BY <2>2 DEF PacketPingresp, HoldsPingresp
    <3>2. Ping \notin pending /\ ~Queued("PINGRESP")
      BY <2>1, <3>1 DEF PingsApart
    <3>3. QED
      BY <1>b, <1>c, <2>1, <3>1, <3>2
  <2>3. CASE ping_outstanding' = ping_outstanding
    BY <1>a, <1>c, <2>1, <2>3
  <2>4. QED
    BY <2>1, <2>2, <2>3
<1>2. CASE ConnectSent \/ ConnectFails
  BY <1>2 DEF ConnectSent, ConnectFails, Fresh
<1>3. CASE SubscribeNext
  <2>1. /\ packet' = packet /\ inbox' = inbox /\ pc' = "read" /\ isconnected' = isconnected
        /\ ping_outstanding' = ping_outstanding
    BY <1>3 DEF SubscribeNext, clientVars
  <2>2. pending' = pending \/ pending' = pending \cup {Pkt("SUBSCRIBE", Topics[next])}
    BY <1>3 DEF SubscribeNext, Sent
  <2>3. Ping # Pkt("SUBSCRIBE", Topics[next])
    BY DEF Ping, Pkt
  <2>4. Ping \in pending' => Ping \in pending
    BY <2>2, <2>3
  <2>5. /\ ~HoldsPingresp'
        /\ Queued("PINGRESP")' <=> Queued("PINGRESP")
        /\ OnePingresp => OnePingresp'
    BY <1>c, <2>1 DEF HoldsPingresp
  <2>6. QED
    BY <2>1, <2>4, <2>5 DEF PingsApart, OnePingresp
<1>4. CASE CycleStarts
  <2>1. /\ packet' = packet /\ inbox' = inbox /\ pc' = "read" /\ pending' = pending
        /\ isconnected /\ ping_outstanding' = ping_outstanding
    BY <1>4 DEF CycleStarts, CloseSession, clientVars, Sent
  <2>2. QED
    BY <1>a, <1>c, <2>1
<1>5. CASE ReadNothing
  <2>1. /\ inbox' = inbox /\ pc' = "keepalive" /\ pending' = pending
        /\ isconnected /\ ping_outstanding' = ping_outstanding
    BY <1>5 DEF ReadNothing, clientVars, netVars
  <2>2. QED
    BY <1>a, <2>1 DEF Queued, HoldsPingresp, OnePingresp
<1>6. CASE ReadPacket
  <2>1. /\ inbox \in Seq(Packets) /\ inbox # <<>> /\ inbox' = Tail(inbox)
        /\ pc = "read" /\ packet' = Head(inbox) /\ pending' = pending
        /\ isconnected /\ ping_outstanding' = ping_outstanding
    BY <1>6 DEF ReadPacket, Reading, clientVars, Traffic
  <2>2. OnePingresp
    BY <2>1 DEF PingsApart, OnePingresp
  <2>3. /\ Queued("PINGRESP")' => Queued("PINGRESP")
        /\ HoldsPingresp' => Queued("PINGRESP")
    BY <2>1, QueuedTaken DEF HoldsPingresp
  <2>4. OnePingresp'
    <3>1. SUFFICES ASSUME NEW i \in 1 .. Len(inbox'), NEW j \in 1 .. Len(inbox'),
                          inbox'[i].type = "PINGRESP", inbox'[j].type = "PINGRESP"
                   PROVE  i = j
      BY DEF OnePingresp
    <3>2. /\ i + 1 \in 1 .. Len(inbox) /\ inbox[i + 1].type = "PINGRESP"
          /\ j + 1 \in 1 .. Len(inbox) /\ inbox[j + 1].type = "PINGRESP"
      BY <2>1, <3>1, InboxTaken
    <3>3. i + 1 = j + 1
      BY <2>2, <3>2 DEF OnePingresp
    <3>4. QED
      BY <3>3
  <2>5. HoldsPingresp' => ~Queued("PINGRESP")'
    <3>1. SUFFICES ASSUME packet'.type = "PINGRESP", NEW i \in 1 .. Len(inbox'),
                          inbox'[i].type = "PINGRESP"
                   PROVE  FALSE
      BY DEF HoldsPingresp, Queued
    <3>2. /\ i + 1 \in 1 .. Len(inbox) /\ inbox[i + 1].type = "PINGRESP" /\ i + 1 # 1
          /\ 1 \in 1 .. Len(inbox) /\ inbox[1].type = "PINGRESP"
      BY <2>1, <3>1, InboxTaken
    <3>3. QED
      BY <2>2, <3>2 DEF OnePingresp
  <2>6. QED
    BY <2>1, <2>3, <2>4, <2>5 DEF PingsApart, OnePingresp
<1>7. CASE KeepaliveIdle
  <2>1. /\ packet' = packet /\ inbox' = inbox /\ pc = "keepalive"
        /\ pc' # "packet"
    BY <1>7, AfterKeepalive
  <2>2. pending' = pending /\ Answered(ping_outstanding)
    BY <1>7 DEF KeepaliveIdle, netVars
  <2>3. CASE ConnectionAnswered(ping_outstanding)
    <3>1. InLoop /\ await = "CONNACK"
      BY <2>1, <2>3 DEF ConnectionAnswered, InLoop
    <3>2. Ping \notin pending /\ ~Queued("PINGRESP")
      BY <3>1 DEF Opening, UnderWay
    <3>3. QED
      BY <1>b, <2>1, <2>2, <3>2 DEF HoldsPingresp, Queued
  <2>4. CASE SubscriptionAnswered(ping_outstanding) \/ NotAnswered(ping_outstanding)
    <3>1. isconnected /\ ping_outstanding' = ping_outstanding
      BY <2>4 DEF SubscriptionAnswered, NotAnswered
    <3>2. QED
      BY <1>a, <1>c, <2>1, <2>2, <3>1
  <2>5. QED
    BY <2>2, <2>3, <2>4 DEF Answered
<1>8. CASE KeepalivePings
  <2>1. /\ packet' = packet /\ inbox' = inbox /\ pc = "keepalive"
        /\ pc' # "packet"
    BY <1>8, AfterKeepalive
  <2>2. ~ping_outstanding /\ sentLeft = 0 /\ Answered(TRUE)
    BY <1>8 DEF KeepalivePings, Quiet
  <2>3. await # "CONNACK"
    <3>1. waitLeft + (KeepAlive - AckTimeout) > 0
      BY Times DEF Numbers
    <3>2. QED
      BY <2>1, <2>2, <3>1 DEF Opening, InLoop
  <2>4. isconnected /\ ping_outstanding'
    BY <2>2, <2>3 DEF Answered, ConnectionAnswered, SubscriptionAnswered, NotAnswered
  <2>5. ~Queued("PINGRESP")' /\ ~HoldsPingresp'
    BY <2>1, <2>2, <2>4 DEF PingsApart, Queued, HoldsPingresp
  <2>6. QED
    BY <2>4, <2>5 DEF PingsApart, Queued
(* Something but a PINGRESP is delivered. *)
<1>d. ASSUME NEW p \in Packets, p.type # "PINGRESP", Deliver(p), pending' \subseteq pending
      PROVE  PingsApart'
  <2>1. /\ inbox \in Seq(Packets) /\ inbox' = Append(inbox, p) /\ isconnected
        /\ ping_outstanding' = ping_outstanding /\ pc' = pc /\ packet' = packet
    BY <1>d DEF Traffic, Deliver, clientVars, callVars
  <2>2. Queued("PINGRESP")' => Queued("PINGRESP")
    BY <1>d, <2>1, QueuedFilled
  <2>3. ASSUME OnePingresp, NEW i \in 1 .. Len(inbox'), NEW j \in 1 .. Len(inbox'),
               inbox'[i].type = "PINGRESP", inbox'[j].type = "PINGRESP"
        PROVE  i = j
    <3>1. /\ i \in 1 .. Len(inbox) /\ inbox[i].type = "PINGRESP"
          /\ j \in 1 .. Len(inbox) /\ inbox[j].type = "PINGRESP"
      BY <1>d, <2>1, <2>3, InboxFilled
    <3>2. QED
      BY <2>3, <3>1 DEF OnePingresp
  <2>4. OnePingresp => OnePingresp'
    BY <2>3 DEF OnePingresp
  <2>5. HoldsPingresp' => HoldsPingresp
    BY <2>1 DEF HoldsPingresp
  <2>6. QED
    BY <1>a, <1>d, <2>1, <2>2, <2>4, <2>5
<1>9. ASSUME NEW code \in {"accepted", "refused"}, ServerConnack(code)
      PROVE  PingsApart'
  <2>1. Deliver(Pkt("CONNACK", code)) /\ pending' \subseteq pending
    BY <1>9 DEF ServerConnack
  <2>2. Pkt("CONNACK", code) \in Packets /\ Pkt("CONNACK", code).type # "PINGRESP"
    BY PacketsTyped DEF Pkt
  <2>3. QED
    BY <1>d, <2>1, <2>2
<1>10. ASSUME NEW t \in TopicSet, NEW code \in {"granted", "refused"}, ServerSuback(t, code)
       PROVE  PingsApart'
  <2>1. Deliver(Pkt("SUBACK", code)) /\ pending' \subseteq pending
    BY <1>10 DEF ServerSuback
  <2>2. Pkt("SUBACK", code) \in Packets /\ Pkt("SUBACK", code).type # "PINGRESP"
    BY PacketsTyped DEF Pkt
  <2>3. QED
    BY <1>d, <2>1, <2>2
<1>11. CASE ServerPingresp
  <2>1. /\ Ping \in pending /\ pending' = pending \ {Ping}
        /\ Deliver(Pkt("PINGRESP", ""))
    BY <1>11 DEF ServerPingresp, Ping
  <2>2. Pkt("PINGRESP", "") \in Packets /\ Pkt("PINGRESP", "").type = "PINGRESP"
    BY PacketsTyped DEF Pkt
  <2>3. /\ inbox \in Seq(Packets) /\ inbox' = Append(inbox, Pkt("PINGRESP", "")) /\ isconnected
        /\ ping_outstanding' = ping_outstanding /\ pc' = pc /\ packet' = packet
    BY <2>1 DEF Traffic, Deliver, clientVars, callVars
  <2>4. ping_outstanding /\ ~Queued("PINGRESP") /\ ~HoldsPingresp
    BY <2>1, <2>3 DEF PingsApart
  <2>5. ~HoldsPingresp' /\ Ping \notin pending' /\ ping_outstanding'
    BY <2>1, <2>3, <2>4 DEF HoldsPingresp
  <2>6. ASSUME NEW i \in 1 .. Len(inbox'), inbox'[i].type = "PINGRESP"
        PROVE  i = Len(inbox) + 1
    <3>1. i \in 1 .. Len(inbox) => inbox'[i] = inbox[i]
      BY <2>2, <2>3, InboxFilled
    <3>2. i \notin 1 .. Len(inbox)
      BY <2>4, <2>6, <3>1 DEF Queued
    <3>3. Len(inbox) \in Nat /\ Len(inbox') = Len(inbox) + 1
      BY <2>2, <2>3, InboxFilled
    <3>4. QED
      BY <3>2, <3>3
  <2>7. QED
    BY <2>5, <2>6 DEF PingsApart
<1>12. ASSUME NEW p \in Publishes \cup OddPackets, ServerPublishes(p)
       PROVE  PingsApart'
  <2>1. Deliver(p) /\ pending' = pending
    BY <1>12 DEF ServerPublishes
  <2>2. p \in Packets /\ p.type # "PINGRESP"
    BY MessagesTyped
  <2>3. QED
    BY <1>d, <2>1, <2>2
<1>13. QED
  BY <1>1, <1>2, <1>3, <1>4, <1>5, <1>6, <1>7, <1>8, <1>9, <1>10, <1>11, <1>12, StepKinds
     DEF Server

-----------------------------------------------------------------------------
(* What the invariants come to. *)
LEMMA InitAgrees == Init => AgreementInv /\ PingInv
<1> SUFFICES ASSUME Init
             PROVE  AgreementInv /\ PingInv
  OBVIOUS
<1>1. TypeOK /\ TopicAwaited
  BY InitTyped
<1>2. Len(inbox) = 0 /\ pc = "app" /\ pending = {} /\ ~isconnected /\ handlers = {}
  BY EmptySeq, Zenon DEF Init
<1>3. \A type : ~UnderWay(type)
  BY <1>2 DEF UnderWay, Holds, Queued
<1>4. ConnackOnce /\ AcceptanceIsTrue /\ NoneBefore /\ SubackIsForNext /\ HandlersGranted
  BY <1>2 DEF ConnackOnce, AcceptanceIsTrue, NoneBefore, SubackIsForNext, HandlersGranted, InLoop,
     Holds
<1>5. Opening /\ PingsApart
  BY <1>2 DEF Opening, PingsApart, InLoop
<1>6. QED
  BY <1>1, <1>4, <1>5 DEF AgreementInv, PingInv

LEMMA AgreementStep == AgreementInv /\ PingInv /\ [Next]_vars => (AgreementInv /\ PingInv)'
<1> SUFFICES ASSUME AgreementInv, PingInv, [Next]_vars
             PROVE  (AgreementInv /\ PingInv)'
  OBVIOUS
<1>1. /\ TypeOK /\ TopicAwaited /\ ConnackOnce /\ AcceptanceIsTrue /\ NoneBefore
      /\ SubackIsForNext /\ (~CharSigned => HandlersGranted) /\ Opening /\ PingsApart
  BY DEF AgreementInv, PingInv
<1>2. Places /\ Booleans /\ Numbers /\ Traffic
  BY <1>1, TypeParts
<1>3. TypeOK' /\ TopicAwaited'
  BY <1>1, TypeStep
<1>4. ConnackOnce' /\ AcceptanceIsTrue' /\ NoneBefore' /\ SubackIsForNext'
  BY <1>1, <1>2, ConnackOnceStep, AcceptanceStep, NoneBeforeStep, SubackStep
<1>5. ~CharSigned => HandlersGranted'
  BY <1>1, GrantedStep
<1>6. Opening' /\ PingsApart'
  BY <1>1, <1>2, OpeningStep, PingsStep
<1>7. QED
  BY <1>3, <1>4, <1>5, <1>6 DEF AgreementInv, PingInv

LEMMA Agreed == Spec => [](AgreementInv /\ PingInv)
  BY InitAgrees, AgreementStep, PTL DEF Spec

(* Where a char is unsigned, as on the boards of the applications, a device *)
(* that takes itself for connected was accepted by the server in this very   *)
(* connection, and each of its handlers stands for a subscription granted    *)
(* there: whatever the server answers, in whatever order and however late.  *)
THEOREM SessionIsAgreed ==
  ASSUME ~CharSigned
  PROVE  Spec => []SessionAgreed
<1>1. AgreementInv => SessionAgreed
  BY DEF AgreementInv, AcceptanceIsTrue, HandlersGranted, SessionAgreed
<1>2. QED
  BY <1>1, Agreed, PTL

(* PingsApart, counted. *)
LEMMA PingsCounted == PingsApart => PingsInStep
<1> SUFFICES ASSUME PingsApart, isconnected
             PROVE  PingsUnderWay <= IF ping_outstanding THEN 1 ELSE 0
  BY DEF PingsInStep
<1> DEFINE Sending == pending \cap {Ping}
           Answers == {i \in 1 .. Len(inbox) : inbox[i].type = "PINGRESP"}
           Held == IF HoldsPingresp THEN 1 ELSE 0
<1>1. /\ Ping \notin pending => Sending = {}
      /\ Ping \in pending => Sending = {Ping}
  OBVIOUS
<1>2. /\ ~Queued("PINGRESP") => Answers = {}
      /\ Queued("PINGRESP") => \E i : Answers = {i}
  <2>1. ~Queued("PINGRESP") => Answers = {}
    BY DEF Queued
  <2>2. ASSUME Queued("PINGRESP")
        PROVE  \E i : Answers = {i}
    <3>1. PICK i \in 1 .. Len(inbox) : inbox[i].type = "PINGRESP"
      BY <2>2 DEF Queued
    <3>2. \A j \in 1 .. Len(inbox) : inbox[j].type = "PINGRESP" => j = i
      BY <3>1 DEF PingsApart
    <3>3. Answers = {i}
      BY <3>1, <3>2
    <3>4. QED
      BY <3>3
  <2>3. QED
    BY <2>1, <2>2
<1>3. Cardinality({}) = 0 /\ \A x : Cardinality({x}) = 1
  BY FS_EmptySet, FS_Singleton
<1>4. /\ Cardinality(Sending) = IF Ping \in pending THEN 1 ELSE 0
      /\ Cardinality(Answers) = IF Queued("PINGRESP") THEN 1 ELSE 0
  BY <1>1, <1>2, <1>3
<1>5. PingsUnderWay = Cardinality(Sending) + Cardinality(Answers) + Held
  BY DEF PingsUnderWay, HoldsPingresp, Ping
<1>6. /\ ~ping_outstanding => Ping \notin pending /\ ~Queued("PINGRESP") /\ ~HoldsPingresp
      /\ Ping \in pending => ~Queued("PINGRESP") /\ ~HoldsPingresp
      /\ HoldsPingresp => ~Queued("PINGRESP")
  BY DEF PingsApart
<1>7. QED
  BY <1>4, <1>5, <1>6

(* While the device is connected, at most one ping or its answer is under    *)
(* way, and only if ping_outstanding says so: whatever the times of the      *)
(* keep-alive and of the waits, and however many packets there are.         *)
THEOREM PingsStayInStep == Spec => []PingsInStep
<1>1. AgreementInv /\ PingInv => PingsInStep
  BY PingsCounted DEF AgreementInv, PingInv
<1>2. QED
  BY <1>1, Agreed, PTL

(* Every variable has its type.                                             *)
THEOREM TypesHold == Spec => []TypeOK
<1>1. TypeOK /\ TopicAwaited => TypeOK
  OBVIOUS
<1>2. QED
  BY <1>1, TypeCorrect, PTL

-----------------------------------------------------------------------------
(* What the calls return. *)

(* LiveBooster_Cycle does not return an error with the session still open,   *)
(* whatever failed in it.                                                   *)
THEOREM ErrorsDisconnect == Spec => []ErrorDisconnects
<1>1. Init => ErrorDisconnects
  BY DEF Init, ErrorDisconnects
<1>2. ErrorDisconnects /\ [Next]_vars => ErrorDisconnects'
  <2> SUFFICES ASSUME ErrorDisconnects, [Next]_vars
               PROVE  ErrorDisconnects'
    OBVIOUS
  <2>1. CASE ConnectSent
    BY <2>1 DEF ConnectSent, MayConnect, Fresh, ErrorDisconnects
  <2>2. CASE ConnectFails
    BY <2>2 DEF ConnectFails, MayConnect, Fresh, Return, ErrorDisconnects
  <2>3. CASE SubscribeNext
    BY <2>3 DEF SubscribeNext, Sent, clientVars, ErrorDisconnects
  <2>4. CASE SubscribeFails
    BY <2>4 DEF SubscribeFails, Return, clientVars, netVars, ErrorDisconnects
  <2>5. CASE ConnectDone
    BY <2>5 DEF ConnectDone, PublishSent, PublishFails, CloseSession, Sent, Return,
       clientVars, ErrorDisconnects
  <2>6. CASE CycleStarts
    BY <2>6 DEF CycleStarts, CloseSession, Sent, clientVars, ErrorDisconnects
  <2>7. CASE CycleRefused
    BY <2>7 DEF CycleRefused, Return, clientVars, timeVars, netVars, ErrorDisconnects
  <2>8. CASE PushData
    BY <2>8 DEF PushData, PublishSent, PublishFails, CloseSession, Sent, Return, clientVars,
       ErrorDisconnects
  <2>9. CASE Close
    BY <2>9 DEF Close, CloseSession, Return, ErrorDisconnects
  <2>10. CASE WaitTimesOut
    BY <2>10 DEF WaitTimesOut, WaitFails, Return, clientVars, timeVars, netVars,
       ErrorDisconnects
  <2>11. CASE ReadNothing
    BY <2>11 DEF ReadNothing, Reading, clientVars, timeVars, netVars, ErrorDisconnects
  <2>12. CASE ReadPacket
    BY <2>12 DEF ReadPacket, Reading, clientVars, ErrorDisconnects
  <2>13. CASE PacketUnknown
    BY <2>13 DEF PacketUnknown, CloseIfConnected, CloseSession, CycleAgain, Return,
       clientVars, timeVars, netVars, ErrorDisconnects
  <2>14. CASE PacketTooLong
    BY <2>14 DEF PacketTooLong, CycleFails, CloseIfConnected, CloseSession, Return,
       clientVars, timeVars, netVars, ErrorDisconnects
  <2>15. CASE PacketPingresp
    BY <2>15 DEF PacketPingresp, callVars, timeVars, netVars, ErrorDisconnects
  <2>16. CASE PacketAck
    BY <2>16 DEF PacketAck, callVars, clientVars, timeVars, netVars, ErrorDisconnects
  <2>17. CASE MessageQuiet
    BY <2>17 DEF MessageQuiet, callVars, clientVars, timeVars, netVars, ErrorDisconnects
  <2>18. CASE MessageAnswered
    BY <2>18 DEF MessageAnswered, PublishSent, PublishFails, CloseSession, Sent, callVars,
       clientVars, ErrorDisconnects
  <2>19. CASE KeepaliveIdle
    BY <2>19 DEF KeepaliveIdle, Answered, ConnectionAnswered, SubscriptionAnswered,
       NotAnswered, CycleAgain, Return, timeVars, netVars, ErrorDisconnects
  <2>20. CASE KeepaliveFails
    BY <2>20 DEF KeepaliveFails, CycleFails, CloseIfConnected, CloseSession, Return,
       clientVars, netVars, ErrorDisconnects
  <2>21. CASE KeepalivePings
    BY <2>21 DEF KeepalivePings, Quiet, Sent, Answered, ConnectionAnswered,
       SubscriptionAnswered, NotAnswered, CycleAgain, Return, ErrorDisconnects
  <2>22. CASE Tick
    BY <2>22 DEF Tick, TakesTime, Less, callVars, clientVars, netVars, ErrorDisconnects
  <2>23. CASE LinkDies
    BY <2>23 DEF LinkDies, callVars, clientVars, timeVars, ErrorDisconnects
  <2>24. CASE UNCHANGED vars
    BY <2>24 DEF vars, callVars, clientVars, timeVars, netVars, ErrorDisconnects
  <2>25. CASE Server
    BY <2>25 DEF Server, ServerConnack, ServerSuback, ServerPingresp, ServerPublishes,
       Deliver, callVars, clientVars, ErrorDisconnects
  <2>26. QED
    BY <2>1, <2>2, <2>3, <2>4, <2>5, <2>6, <2>7, <2>8, <2>9, <2>10, <2>11, <2>12, <2>13,
       <2>14, <2>15, <2>16, <2>17, <2>18, <2>19, <2>20, <2>21, <2>22, <2>23, <2>24, <2>25
       DEF Next, Connecting, Cycling, Waiting, Handling, Keepalive
<1>3. QED
  BY <1>1, <1>2, PTL DEF Spec

(* The device having parameters or resources, LiveBooster_Connect does not   *)
(* return 0 with the session closed, whatever it handled on the way.        *)
THEOREM ConnectedStaysOpen ==
  ASSUME Announces
  PROVE  Spec => []ConnectedIsOpen
<1>1. Init => ConnectedIsOpen
  BY DEF Init, ConnectedIsOpen
<1>2. ConnectedIsOpen /\ [Next]_vars => ConnectedIsOpen'
  <2> SUFFICES ASSUME ConnectedIsOpen, [Next]_vars
               PROVE  ConnectedIsOpen'
    OBVIOUS
  <2>1. CASE ConnectSent
    BY <2>1 DEF ConnectSent, MayConnect, Fresh, ConnectedIsOpen
  <2>2. CASE ConnectFails
    BY <2>2 DEF ConnectFails, MayConnect, Fresh, Return, ConnectedIsOpen
  <2>3. CASE SubscribeNext
    BY <2>3 DEF SubscribeNext, Sent, clientVars, ConnectedIsOpen
  <2>4. CASE SubscribeFails
    BY <2>4 DEF SubscribeFails, Return, clientVars, netVars, ConnectedIsOpen
  <2>5. CASE ConnectDone
    BY <2>5 DEF ConnectDone, PublishSent, PublishFails, CloseSession, Sent, Return,
       clientVars, ConnectedIsOpen
  <2>6. CASE CycleStarts
    BY <2>6 DEF CycleStarts, CloseSession, Sent, clientVars, ConnectedIsOpen
  <2>7. CASE CycleRefused
    BY <2>7 DEF CycleRefused, Return, clientVars, timeVars, netVars, ConnectedIsOpen
  <2>8. CASE PushData
    BY <2>8 DEF PushData, PublishSent, PublishFails, CloseSession, Sent, Return, clientVars,
       ConnectedIsOpen
  <2>9. CASE Close
    BY <2>9 DEF Close, CloseSession, Return, ConnectedIsOpen
  <2>10. CASE WaitTimesOut
    BY <2>10 DEF WaitTimesOut, WaitFails, Return, clientVars, timeVars, netVars,
       ConnectedIsOpen
  <2>11. CASE ReadNothing
    BY <2>11 DEF ReadNothing, Reading, clientVars, timeVars, netVars, ConnectedIsOpen
  <2>12. CASE ReadPacket
    BY <2>12 DEF ReadPacket, Reading, clientVars, ConnectedIsOpen
  <2>13. CASE PacketUnknown
    BY <2>13 DEF PacketUnknown, CloseIfConnected, CloseSession, CycleAgain, Return,
       clientVars, timeVars, netVars, ConnectedIsOpen
  <2>14. CASE PacketTooLong
    BY <2>14 DEF PacketTooLong, CycleFails, CloseIfConnected, CloseSession, Return,
       clientVars, timeVars, netVars, ConnectedIsOpen
  <2>15. CASE PacketPingresp
    BY <2>15 DEF PacketPingresp, callVars, timeVars, netVars, ConnectedIsOpen
  <2>16. CASE PacketAck
    BY <2>16 DEF PacketAck, callVars, clientVars, timeVars, netVars, ConnectedIsOpen
  <2>17. CASE MessageQuiet
    BY <2>17 DEF MessageQuiet, callVars, clientVars, timeVars, netVars, ConnectedIsOpen
  <2>18. CASE MessageAnswered
    BY <2>18 DEF MessageAnswered, PublishSent, PublishFails, CloseSession, Sent, callVars,
       clientVars, ConnectedIsOpen
  <2>19. CASE KeepaliveIdle
    BY <2>19 DEF KeepaliveIdle, Answered, ConnectionAnswered, SubscriptionAnswered,
       NotAnswered, CycleAgain, Return, timeVars, netVars, ConnectedIsOpen
  <2>20. CASE KeepaliveFails
    BY <2>20 DEF KeepaliveFails, CycleFails, CloseIfConnected, CloseSession, Return,
       clientVars, netVars, ConnectedIsOpen
  <2>21. CASE KeepalivePings
    BY <2>21 DEF KeepalivePings, Quiet, Sent, Answered, ConnectionAnswered,
       SubscriptionAnswered, NotAnswered, CycleAgain, Return, ConnectedIsOpen
  <2>22. CASE Tick
    BY <2>22 DEF Tick, TakesTime, Less, callVars, clientVars, netVars, ConnectedIsOpen
  <2>23. CASE LinkDies
    BY <2>23 DEF LinkDies, callVars, clientVars, timeVars, ConnectedIsOpen
  <2>24. CASE UNCHANGED vars
    BY <2>24 DEF vars, callVars, clientVars, timeVars, netVars, ConnectedIsOpen
  <2>25. CASE Server
    BY <2>25 DEF Server, ServerConnack, ServerSuback, ServerPingresp, ServerPublishes,
       Deliver, callVars, clientVars, ConnectedIsOpen
  <2>26. QED
    BY <2>1, <2>2, <2>3, <2>4, <2>5, <2>6, <2>7, <2>8, <2>9, <2>10, <2>11, <2>12, <2>13,
       <2>14, <2>15, <2>16, <2>17, <2>18, <2>19, <2>20, <2>21, <2>22, <2>23, <2>24, <2>25
       DEF Next, Connecting, Cycling, Waiting, Handling, Keepalive
<1>3. QED
  BY <1>1, <1>2, PTL DEF Spec
=============================================================================
