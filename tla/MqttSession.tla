----------------------------- MODULE MqttSession -----------------------------
(***************************************************************************)
(* The MQTT session of the device: MqttClient.c, and the functions of       *)
(* LiveBooster_core.c that open it and keep it (LiveBooster_Connect,         *)
(* LiveBooster_Cycle, LiveBooster_PushData).                                *)
(*                                                                         *)
(* One thread runs the calls of the application; pc says where it is in the  *)
(* loops of MQTTYield and waitfor, which share the deadline timeOutInMs,     *)
(* the read buffer and cycle() with the handlers they call.  The instants    *)
(* lastSentTimeInMs, lastReceivedTimeInMs and timeOutInMs of the client are  *)
(* kept as the time left until each of them; 0 is "not in the future", the   *)
(* only other thing the code asks of an instant.                            *)
(*                                                                         *)
(* Packets arrive whole.  Subscriptions and publications are at QoS 0, the   *)
(* only one LiveBooster_core.c uses.                                        *)
(***************************************************************************)
EXTENDS Naturals, Sequences, FiniteSets

CONSTANTS
  Topics,        (* the topics of LB_TopicSub with a callback, in order     *)
  KeepAlive,     (* LB_MQTT_API_KEEPALIVEINTERVAL_SEC                       *)
  AckTimeout,    (* ACK_COMMAND_TIMEOUT_IN_MS                               *)
  PingTimeout,   (* the second keepalive() gives the peer                   *)
  YieldTimeout,  (* the timeout_ms of LiveBooster_Cycle                     *)
  CharSigned,    (* is a char of the compiler signed?                       *)
  MaxLost,       (* bound: packets the modem takes once the link is dead    *)
  InboxSize      (* bound: packets under way to the device                  *)

ASSUME TopicsAssumption == Topics \in Seq(STRING)
(* 30 s, 20 s, 1 s and, in the applications, 1 s.                           *)
ASSUME TimesAssumption ==
  /\ {KeepAlive, AckTimeout, PingTimeout, YieldTimeout} \subseteq Nat \ {0}
  /\ PingTimeout <= AckTimeout
  /\ AckTimeout < KeepAlive
ASSUME CharAssumption == CharSigned \in BOOLEAN
ASSUME BoundsAssumption == {MaxLost, InboxSize} \subseteq Nat

VARIABLES
  pc,               (* where the thread is                                  *)
  await,            (* the packet waitfor() waits for; "none" in MQTTYield   *)
  next,             (* the topic LiveBooster_Connect subscribes to next     *)
  packet,           (* the packet in readbuf                                *)
  isconnected,
  ping_outstanding,
  handlers,         (* the topics with a message handler                    *)
  sentLeft,         (* until lastSentTimeInMs                               *)
  recvLeft,         (* until lastReceivedTimeInMs                           *)
  waitLeft,         (* until timeOutInMs                                    *)
  last,             (* the last call of the application that returned       *)
  ret,              (* and its sign                                         *)
  spent,            (* the time spent in the MQTTYield under way            *)
  (* the network and the server                                             *)
  link,             (* does the connection carry packets?                   *)
  lost,             (* packets the modem took though it does not            *)
  pending,          (* requests the server has not answered                 *)
  inbox,            (* packets under way to the device                      *)
  accepted,         (* has the server accepted the CONNECT?                 *)
  granted           (* the subscriptions the server granted                 *)

clientVars == <<isconnected, ping_outstanding, handlers>>
timeVars == <<sentLeft, recvLeft, waitLeft, spent>>
callVars == <<await, next, packet, last, ret>>
netVars == <<link, lost, pending, inbox, accepted, granted>>
vars == <<pc, callVars, clientVars, timeVars, netVars>>

TopicSet == {Topics[i] : i \in 1 .. Len(Topics)}

(* Parameters and resources are published on dev/cfg and dev/rsc as soon as *)
(* the device is connected, if they are attached.                           *)
Announces == TopicSet \cap {"dev/cfg/upd", "dev/rsc/upd"} # {}

(* Packets: a type, and the topic or the code that goes with it. *)
Pkt(type, arg) == [type |-> type, arg |-> arg]
Requests == {Pkt("CONNECT", ""), Pkt("PINGREQ", "")} \cup {Pkt("SUBSCRIBE", t) : t \in TopicSet}
Connacks == {Pkt("CONNACK", c) : c \in {"accepted", "refused"}}
Subacks == {Pkt("SUBACK", c) : c \in {"granted", "refused"}}
Publishes == {Pkt("PUBLISH", t) : t \in TopicSet}
(* A packet of a type cycle() has no case for, and one too long for readbuf.*)
OddPackets == {Pkt("other", ""), Pkt("oversized", "")}
Packets == Connacks \cup Subacks \cup Publishes \cup OddPackets \cup {Pkt("PINGRESP", "")}
Nothing == Pkt("nothing", "")

-----------------------------------------------------------------------------
(* LiveBooster_Init, and nothing connected yet.                             *)
Init ==
  /\ pc = "app" /\ await = "none" /\ next = 1 /\ packet = Nothing
  /\ isconnected = FALSE /\ ping_outstanding = FALSE /\ handlers = {}
  /\ sentLeft = 0 /\ recvLeft = 0 /\ waitLeft = 0 /\ spent = 0
  /\ last = "none" /\ ret = "negative"
  /\ link = FALSE /\ lost = 0 /\ pending = {} /\ inbox = <<>>
  /\ accepted = FALSE /\ granted = {}

-----------------------------------------------------------------------------
(* sendPacket: the packet reaches the server, or the modem takes it and the *)
(* dead link loses it, or the modem refuses it.                             *)
Sent(requests) ==
  /\ sentLeft' = KeepAlive
  /\ \/ /\ link
        /\ pending' = pending \cup requests
        /\ UNCHANGED lost
     \/ /\ ~link /\ lost < MaxLost
        /\ lost' = lost + 1
        /\ UNCHANGED pending

(* MQTTCloseSession, cleansession being set. *)
CloseSession ==
  /\ isconnected' = FALSE
  /\ ping_outstanding' = FALSE
  /\ handlers' = {}

CloseIfConnected == IF isconnected THEN CloseSession ELSE UNCHANGED clientVars

(* A call of the application returns. *)
Return(call, sign) ==
  /\ pc' = "app"
  /\ last' = call
  /\ ret' = sign

-----------------------------------------------------------------------------
(* LiveBooster_Connect: MQTTClientInit resets the modem and the client, then *)
(* MQTTConnect opens a TCP connection and sends CONNECT.  The applications   *)
(* call it at first, after an error and, say, after LiveBooster_Close.       *)

MayConnect == pc = "app" /\ (ret = "negative" \/ last = "close")

Fresh ==
  /\ isconnected' = FALSE /\ ping_outstanding' = FALSE /\ handlers' = {}
  /\ lost' = 0 /\ inbox' = <<>> /\ accepted' = FALSE /\ granted' = {}
  /\ spent' = 0 /\ next' = 1

ConnectFails ==
  /\ MayConnect
  /\ Fresh
  /\ sentLeft' = 0
  /\ \/ recvLeft' = 0 /\ waitLeft' = 0                    (* no TCP connection *)
     \/ recvLeft' = KeepAlive /\ waitLeft' = AckTimeout   (* CONNECT not sent  *)
  /\ link' = FALSE /\ pending' = {}
  /\ Return("connect", "negative")
  /\ UNCHANGED <<await, packet>>

ConnectSent ==
  /\ MayConnect
  /\ Fresh
  /\ sentLeft' = KeepAlive /\ recvLeft' = KeepAlive /\ waitLeft' = AckTimeout
  /\ link' = TRUE /\ pending' = {Pkt("CONNECT", "")}
  /\ pc' = "read" /\ await' = "CONNACK"
  /\ UNCHANGED <<packet, last, ret>>

SubscribeNext ==
  /\ pc = "subscribe" /\ next <= Len(Topics)
  /\ isconnected
  /\ waitLeft' = AckTimeout
  /\ Sent({Pkt("SUBSCRIBE", Topics[next])})
  /\ pc' = "read" /\ await' = "SUBACK"
  /\ UNCHANGED <<next, packet, last, ret, clientVars, recvLeft, spent,
                 link, inbox, accepted, granted>>

(* The session was lost on the way, or the packet is not sent; in the second *)
(* case MQTTSubscribe does not close it, its test being for FAILURE alone.  *)
SubscribeFails ==
  /\ pc = "subscribe" /\ next <= Len(Topics)
  /\ waitLeft' = IF isconnected THEN AckTimeout ELSE waitLeft
  /\ Return("connect", "negative")
  /\ UNCHANGED <<await, next, packet, clientVars, sentLeft, recvLeft, spent, netVars>>

(* The publications of MQTTPublish at QoS 0.                                *)
(* Mutant: the deadline moves by, not to. *)
PublishSentExtendsWait ==
  /\ isconnected
  /\ waitLeft' = waitLeft + AckTimeout
  /\ Sent({})
  /\ UNCHANGED clientVars

PublishSent ==
  /\ isconnected
  /\ waitLeft' = AckTimeout
  /\ Sent({})
  /\ UNCHANGED clientVars

PublishFails ==
  /\ waitLeft' = IF isconnected THEN AckTimeout ELSE waitLeft
  /\ CloseSession
  /\ UNCHANGED <<sentLeft, lost, pending>>

(* dev/cfg and dev/rsc are published when all the topics are subscribed.    *)
(* Mutant: the result of the publications is not returned. *)
ConnectDoneAnyhow ==
  /\ pc = "subscribe" /\ next > Len(Topics)
  /\ IF Announces
     THEN PublishSent \/ PublishFails
     ELSE UNCHANGED <<clientVars, sentLeft, waitLeft, lost, pending>>
  /\ Return("connect", "zero")
  /\ UNCHANGED <<await, next, packet, recvLeft, spent, link, inbox, accepted, granted>>

ConnectDone ==
  /\ pc = "subscribe" /\ next > Len(Topics)
  /\ IF Announces
     THEN \/ PublishSent /\ Return("connect", "zero")
          \/ PublishFails /\ Return("connect", "negative")
     ELSE /\ Return("connect", "zero")
          /\ UNCHANGED <<clientVars, sentLeft, waitLeft, lost, pending>>
  /\ UNCHANGED <<await, next, packet, recvLeft, spent, link, inbox, accepted, granted>>

-----------------------------------------------------------------------------
(* LiveBooster_PushData, LiveBooster_Close and LiveBooster_Cycle.           *)

(* Without a message, that of no data set or one too long to be encoded,    *)
(* nothing is published and the session stays as it is.                     *)
PushData ==
  /\ pc = "app" /\ last # "none"
  /\ \/ PublishSent /\ Return("push", "zero")
     \/ PublishFails /\ Return("push", "negative")
     \/ /\ UNCHANGED <<clientVars, sentLeft, waitLeft, lost, pending>>
        /\ Return("push", "negative")
  /\ UNCHANGED <<await, next, packet, recvLeft, spent, link, inbox, accepted, granted>>

(* DISCONNECT is sent if the modem takes it; the TCP connection is closed.  *)
Close ==
  /\ pc = "app" /\ last # "none"
  /\ isconnected
  /\ sentLeft' \in {sentLeft, KeepAlive}
  /\ waitLeft' = AckTimeout
  /\ CloseSession
  /\ link' = FALSE
  /\ Return("close", "zero")
  /\ UNCHANGED <<await, next, packet, recvLeft, spent, lost, pending, inbox, accepted, granted>>

CycleRefused ==
  /\ pc = "app" /\ last # "none"
  /\ ~isconnected
  /\ Return("cycle", "negative")
  /\ UNCHANGED <<await, next, packet, clientVars, timeVars, netVars>>

(* processConfig and processGetRsc may publish before MQTTYield starts; a    *)
(* failure there does not stop the cycle.                                   *)
CycleStarts ==
  /\ pc = "app" /\ last # "none"
  /\ isconnected
  /\ Sent({}) \/ UNCHANGED <<sentLeft, lost, pending>>
  /\ CloseSession \/ UNCHANGED clientVars
  /\ waitLeft' = YieldTimeout /\ spent' = 0
  /\ pc' = "read" /\ await' = "none"
  /\ UNCHANGED <<next, packet, last, ret, recvLeft, link, inbox, accepted, granted>>

-----------------------------------------------------------------------------
(* The loops of waitfor and MQTTYield.                                      *)

(* What the caller of waitfor does when the packet did not come. *)
WaitFails ==
  /\ Return("connect", "negative")
  /\ UNCHANGED <<await, next, clientVars>>

(* waitfor looks at the deadline before each cycle. *)
WaitTimesOut ==
  /\ pc = "read" /\ await # "none"
  /\ waitLeft = 0
  /\ WaitFails
  /\ UNCHANGED <<packet, timeVars, netVars>>

(* Mutant: waitfor looks at no deadline. *)
ReadingForEver == pc = "read"

Reading == pc = "read" /\ (await = "none" \/ waitLeft > 0)

ReadNothing ==
  /\ Reading
  /\ packet' = Nothing
  /\ pc' = "keepalive"
  /\ UNCHANGED <<await, next, last, ret, clientVars, timeVars, netVars>>

ReadPacket ==
  /\ Reading
  /\ inbox # <<>>
  /\ packet' = Head(inbox)
  /\ inbox' = Tail(inbox)
  /\ recvLeft' = IF Head(inbox).type = "oversized" THEN recvLeft ELSE KeepAlive
  /\ pc' = "packet"
  /\ UNCHANGED <<await, next, last, ret, clientVars, sentLeft, waitLeft, spent, link, lost,
                 pending, accepted, granted>>

(* cycle() is over with a negative result. *)
(* Mutant: the session is not closed. *)
CycleFailsOpen ==
  /\ UNCHANGED clientVars
  /\ IF await = "none"
     THEN Return("cycle", "negative")
     ELSE Return("connect", "negative")
  /\ UNCHANGED <<await, next>>

CycleFails ==
  /\ CloseIfConnected
  /\ IF await = "none"
     THEN Return("cycle", "negative")
     ELSE Return("connect", "negative")
  /\ UNCHANGED <<await, next>>

(* cycle() is over with a result that is neither negative nor awaited. *)
CycleAgain ==
  IF await = "none" /\ waitLeft' = 0
  THEN Return("cycle", "zero")
  ELSE pc' = "read" /\ UNCHANGED <<last, ret>>

(* No case of cycle() is for the packet: it closes the session, but its     *)
(* result is the type of the packet and the loop goes on.                   *)
PacketUnknown ==
  /\ pc = "packet" /\ packet.type = "other"
  /\ UNCHANGED <<await, next, packet, timeVars, netVars>>
  /\ CloseIfConnected
  /\ CycleAgain

PacketTooLong ==
  /\ pc = "packet" /\ packet.type = "oversized"
  /\ CycleFails
  /\ UNCHANGED <<packet, timeVars, netVars>>

PacketPingresp ==
  /\ pc = "packet" /\ packet.type = "PINGRESP"
  /\ ping_outstanding' = FALSE
  /\ pc' = "keepalive"
  /\ UNCHANGED <<callVars, isconnected, handlers, timeVars, netVars>>

PacketAck ==
  /\ pc = "packet" /\ packet.type \in {"CONNACK", "SUBACK"}
  /\ pc' = "keepalive"
  /\ UNCHANGED <<callVars, clientVars, timeVars, netVars>>

(* deliverMessage finds no handler, or one that publishes nothing. *)
MessageQuiet ==
  /\ pc = "packet" /\ packet.type = "PUBLISH"
  /\ pc' = "keepalive"
  /\ UNCHANGED <<callVars, clientVars, timeVars, netVars>>

(* The handlers of commands and resources publish their answer.  The result *)
(* of that publication is lost: cycle() goes on even if it closed the       *)
(* session.                                                                 *)
MessageAnswered ==
  /\ pc = "packet" /\ packet.type = "PUBLISH"
  /\ packet.arg \in handlers \ {"dev/cfg/upd"}
  /\ PublishSent \/ PublishFails
  /\ pc' = "keepalive"
  /\ UNCHANGED <<callVars, recvLeft, spent, link, inbox, accepted, granted>>

-----------------------------------------------------------------------------
(* The end of cycle(): keepalive(), and back in the loop of its caller.     *)

(* Mutant: nothing is done while a ping is outstanding. *)
QuietUnlessPinged ==
  sentLeft = 0 /\ recvLeft = 0 /\ ~ping_outstanding

Quiet == sentLeft = 0 /\ recvLeft = 0

(* What the caller of cycle() does with the packet it returns, keepalive()  *)
(* having left ping in ping_outstanding.                                    *)
ConnectionAnswered(ping) ==
  /\ await = "CONNACK" /\ packet.type = "CONNACK"
  /\ IF packet.arg = "accepted"
     THEN /\ isconnected' = TRUE /\ ping_outstanding' = FALSE
          /\ pc' = "subscribe"
          /\ UNCHANGED <<last, ret>>
     ELSE /\ Return("connect", "positive")
          /\ ping_outstanding' = ping
          /\ UNCHANGED isconnected
  /\ UNCHANGED <<next, handlers>>

(* Mutant: the granted QoS is not looked at. *)
SubscriptionAnsweredAnyhow(ping) ==
  /\ await = "SUBACK" /\ packet.type = "SUBACK"
  /\ handlers' = handlers \cup {Topics[next]}
  /\ next' = next + 1
  /\ ping_outstanding' = ping
  /\ pc' = "subscribe"
  /\ UNCHANGED <<isconnected, last, ret>>

(* Where a char is signed the refusal, 0x80, is read as -128, which is not    *)
(* the 0x80 it is compared with.                                            *)
SubscriptionAnswered(ping) ==
  /\ await = "SUBACK" /\ packet.type = "SUBACK"
  /\ handlers' = IF packet.arg = "granted" \/ CharSigned THEN handlers \cup {Topics[next]} ELSE handlers
  /\ next' = next + 1
  /\ ping_outstanding' = ping
  /\ pc' = "subscribe"
  /\ UNCHANGED <<isconnected, last, ret>>

NotAnswered(ping) ==
  /\ packet.type # await
  /\ CycleAgain
  /\ ping_outstanding' = ping
  /\ UNCHANGED <<isconnected, handlers, next>>

Answered(ping) == ConnectionAnswered(ping) \/ SubscriptionAnswered(ping) \/ NotAnswered(ping)

KeepaliveIdle ==
  /\ pc = "keepalive"
  /\ ~Quiet
  /\ UNCHANGED <<await, packet, timeVars, netVars>>
  /\ Answered(ping_outstanding)

KeepaliveFails ==
  /\ pc = "keepalive"
  /\ Quiet
  /\ waitLeft' = IF ping_outstanding THEN waitLeft ELSE PingTimeout
  /\ CycleFails
  /\ UNCHANGED <<packet, sentLeft, recvLeft, spent, netVars>>

(* The deadline of the call under way becomes that of the answer. *)
(* Mutant: ping_outstanding is not set. *)
KeepalivePingsUnnoted ==
  /\ pc = "keepalive"
  /\ Quiet /\ ~ping_outstanding
  /\ waitLeft' = PingTimeout
  /\ Sent({Pkt("PINGREQ", "")})
  /\ Answered(FALSE)
  /\ UNCHANGED <<await, packet, recvLeft, spent, link, inbox, accepted, granted>>

KeepalivePings ==
  /\ pc = "keepalive"
  /\ Quiet /\ ~ping_outstanding
  /\ waitLeft' = PingTimeout
  /\ Sent({Pkt("PINGREQ", "")})
  /\ Answered(TRUE)
  /\ UNCHANGED <<await, packet, recvLeft, spent, link, inbox, accepted, granted>>

-----------------------------------------------------------------------------
(* Time, the network and the server (external).                             *)

Less(left) == IF left = 0 THEN 0 ELSE left - 1

(* Time passes in the application, in the reads, in the writes and in the   *)
(* handlers; not in the handling of the other packets.  A read is given the *)
(* time left until the deadline and gives up by then.                       *)
TakesTime ==
  /\ pc = "read" => waitLeft > 0
  /\ pc \in {"packet", "keepalive"} =>
       packet.type = "PUBLISH" \/ (packet = Nothing /\ waitLeft > 0)

Tick ==
  /\ TakesTime
  /\ sentLeft + recvLeft + waitLeft > 0
  /\ sentLeft' = Less(sentLeft)
  /\ recvLeft' = Less(recvLeft)
  /\ waitLeft' = Less(waitLeft)
  /\ spent' = IF pc # "app" /\ await = "none" /\ spent <= YieldTimeout THEN spent + 1 ELSE spent
  /\ UNCHANGED <<pc, callVars, clientVars, netVars>>

Deliver(p) ==
  /\ link
  /\ Len(inbox) < InboxSize
  /\ inbox' = Append(inbox, p)
  /\ UNCHANGED <<pc, callVars, clientVars, timeVars, link, lost>>

ServerConnack(code) ==
  /\ Pkt("CONNECT", "") \in pending
  /\ pending' = pending \ {Pkt("CONNECT", "")}
  /\ accepted' = (code = "accepted")
  /\ Deliver(Pkt("CONNACK", code))
  /\ UNCHANGED granted

ServerSuback(t, code) ==
  /\ Pkt("SUBSCRIBE", t) \in pending
  /\ pending' = pending \ {Pkt("SUBSCRIBE", t)}
  /\ granted' = IF code = "granted" THEN granted \cup {t} ELSE granted
  /\ Deliver(Pkt("SUBACK", code))
  /\ UNCHANGED accepted

ServerPingresp ==
  /\ Pkt("PINGREQ", "") \in pending
  /\ pending' = pending \ {Pkt("PINGREQ", "")}
  /\ Deliver(Pkt("PINGRESP", ""))
  /\ UNCHANGED <<accepted, granted>>

ServerPublishes(p) ==
  /\ \/ p \in Publishes /\ p.arg \in granted
     \/ p \in OddPackets /\ accepted
  /\ Deliver(p)
  /\ UNCHANGED <<pending, accepted, granted>>

LinkDies ==
  /\ link
  /\ link' = FALSE
  /\ UNCHANGED <<pc, callVars, clientVars, timeVars, lost, pending, inbox, accepted, granted>>

-----------------------------------------------------------------------------
Connecting == ConnectSent \/ ConnectFails \/ SubscribeNext \/ SubscribeFails \/ ConnectDone
Cycling == CycleStarts \/ CycleRefused \/ PushData \/ Close
Waiting == WaitTimesOut \/ ReadNothing \/ ReadPacket
Handling ==
  \/ PacketUnknown \/ PacketTooLong \/ PacketPingresp \/ PacketAck
  \/ MessageQuiet \/ MessageAnswered
Keepalive == KeepaliveIdle \/ KeepaliveFails \/ KeepalivePings

Server ==
  \/ \E code \in {"accepted", "refused"} : ServerConnack(code)
  \/ \E t \in TopicSet, code \in {"granted", "refused"} : ServerSuback(t, code)
  \/ ServerPingresp
  \/ \E p \in Publishes \cup OddPackets : ServerPublishes(p)

Next == Connecting \/ Cycling \/ Waiting \/ Handling \/ Keepalive \/ Tick \/ Server \/ LinkDies

(* Time passes, however many packets come; the thread goes on inside a call; *)
(* the application calls LiveBooster_Cycle for ever.                        *)
Fairness ==
  /\ SF_vars(Tick)
  /\ WF_vars(SubscribeNext \/ SubscribeFails \/ ConnectDone)
  /\ WF_vars(Waiting \/ Handling \/ Keepalive)
  /\ SF_vars(CycleStarts)

Spec == Init /\ [][Next]_vars
FairSpec == Spec /\ Fairness

-----------------------------------------------------------------------------
(* Every variable has its type. *)
TypeOK ==
  /\ pc \in {"app", "subscribe", "read", "packet", "keepalive"}
  /\ await \in {"none", "CONNACK", "SUBACK"}
  /\ next \in 1 .. (Len(Topics) + 1)
  /\ packet \in Packets \cup {Nothing}
  /\ isconnected \in BOOLEAN
  /\ ping_outstanding \in BOOLEAN
  /\ handlers \in SUBSET TopicSet
  /\ sentLeft \in 0 .. KeepAlive
  /\ recvLeft \in 0 .. KeepAlive
  /\ waitLeft \in 0 .. (AckTimeout + YieldTimeout)
  /\ spent \in 0 .. (YieldTimeout + 1)
  /\ last \in {"none", "connect", "push", "cycle", "close"}
  /\ ret \in {"negative", "zero", "positive"}
  /\ link \in BOOLEAN
  /\ lost \in 0 .. MaxLost
  /\ pending \in SUBSET Requests
  /\ inbox \in Seq(Packets)
  /\ Len(inbox) <= InboxSize
  /\ accepted \in BOOLEAN
  /\ granted \in SUBSET TopicSet

(* While the device takes itself for connected, the server has accepted the *)
(* CONNECT of this very TCP connection, and every message handler stands    *)
(* for a subscription the server has granted in it: no packet of an earlier *)
(* connection, no late SUBACK and, unless a char is signed, no refusal is   *)
(* taken for a grant.                                                       *)
SessionAgreed == isconnected => accepted /\ handlers \subseteq granted

(* Pings and their answers do not get out of step: while the device is      *)
(* connected there is at most one PINGREQ or PINGRESP under way, and only   *)
(* when ping_outstanding says so; else an old answer would hide that the    *)
(* server is gone.                                                          *)
PingsUnderWay ==
  Cardinality(pending \cap {Pkt("PINGREQ", "")})
    + Cardinality({i \in 1 .. Len(inbox) : inbox[i].type = "PINGRESP"})
    + (IF pc = "packet" /\ packet.type = "PINGRESP" THEN 1 ELSE 0)

PingsInStep == isconnected => PingsUnderWay <= IF ping_outstanding THEN 1 ELSE 0

(* Docs/UserApplication.md: when LiveBooster_Cycle returns an error "the    *)
(* MQTT is automatically disconnected", whichever of the reads, the         *)
(* keep-alive, the handlers and the publications before MQTTYield failed.   *)
ErrorDisconnects ==
  pc = "app" /\ last = "cycle" /\ ret = "negative" => ~isconnected

(* When LiveBooster_Connect returns 0 the session is still open, although   *)
(* messages were handled, and answered, while it subscribed: the device     *)
(* having resources, their publication at the end fails on a session that   *)
(* an answer has closed.                                                    *)
ConnectedIsOpen == pc = "app" /\ last = "connect" /\ ret = "zero" => isconnected

(* A connection that carries nothing any more is noticed, by the keep-alive *)
(* or by a write that fails, as long as the application calls               *)
(* LiveBooster_Cycle.                                                       *)
SilenceIsDetected == isconnected /\ ~link ~> ~isconnected

(* Every call of the application returns, whatever the server answers and   *)
(* although the keep-alive moves the deadline it waits for, unless messages *)
(* go on coming for ever: the answer to one restarts the 20 s of waitfor,   *)
(* also in MQTTYield, and with slow handlers each of them ends in a ping,    *)
(* which restarts its second.                                               *)
MessageHandled == pc = "packet" /\ packet.type = "PUBLISH"

CallsReturn == <>[]~MessageHandled => (pc # "app" ~> pc = "app")

-----------------------------------------------------------------------------
(* What the documentation says and the code does not do.                    *)

(* Docs/UserApplication.md: LiveBooster_Connect subscribes to the topics    *)
(* that are used, and returns OK when that succeeded.                       *)
ConnectedIsSubscribed ==
  pc = "app" /\ last = "connect" /\ ret = "zero" => handlers = TopicSet

(* LiveBoosterInterface.h: timeout_ms of LiveBooster_Cycle is the "Time in  *)
(* milliseconds to wait for message sent/published by LiveObjects platform"; *)
(* so MQTTYield never waits for an instant behind it.                       *)
YieldWaitsItsTime ==
  pc # "app" /\ await = "none" /\ waitLeft > 0 => spent + waitLeft <= YieldTimeout
=============================================================================
