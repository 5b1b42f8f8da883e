---------------------------- MODULE MCMqttFraming ----------------------------
(* Instances of MqttFraming for TLC, with the sizes of the code: remaining    *)
(* lengths around 127, and packets as long as the buffers and longer.        *)
EXTENDS MqttFraming

a == <<97>>
a_b == <<97, 47, 98>>
ab_c == <<97, 98, 47, 99>>
Payload(n) == [i \in 1 .. n |-> 32]

Publish(topic, qos, n) == Packet(PUBLISH, qos, 0, qos, <<topic>>, Payload(n))

MCRequests ==
  {Packet(CONNECT, 0, 194, 30, <<a, ab_c, a>>, <<>>),
   Packet(CONNECT, 0, 198, 300, <<ab_c, a, <<>>, ab_c, a>>, <<>>),
   Packet(SUBSCRIBE, 1, 0, 0, <<ab_c>>, <<0>>),
   Packet(UNSUBSCRIBE, 1, 0, 0, <<a>>, <<>>),
   Packet(PUBACK, 0, 0, 258, <<>>, <<>>),
   Packet(DISCONNECT, 0, 0, 0, <<>>, <<>>)}
    \cup {Publish(a, 0, n) : n \in {0, 124, 125, 254, 255}} \cup {Publish(ab_c, 1, 3)}

MCReplies ==
  {Packet(CONNACK, 0, 0, 5, <<>>, <<>>), Packet(SUBACK, 0, 0, 258, <<>>, <<128>>),
   Packet(UNSUBACK, 0, 0, 3, <<>>, <<>>), Packet(PINGRESP, 0, 0, 0, <<>>, <<>>),
   Publish(ab_c, 1, 0), Publish(a_b, 0, 1)}
    \cup {Publish(a, 0, n) : n \in {124, 125, 254, 255}}

(* a, a/#, +/c, +                                                             *)
MCFilters == {a, <<97, 47, 35>>, <<43, 47, 99>>, <<43>>}
==============================================================================
