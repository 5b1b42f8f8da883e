--------------------------- MODULE MCMqttSession ---------------------------
(* Instances of MqttSession for TLC. *)
EXTENDS MqttSession

(* Commands and resources are attached: both handlers publish an answer.    *)
MCTopics == <<"dev/cmd", "dev/rsc/upd">>
(* The keep-alive and the waits do not depend on the number of topics.      *)
MCOneTopic == <<"dev/cmd">>
=============================================================================
