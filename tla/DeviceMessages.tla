---------------------------- MODULE DeviceMessages ----------------------------
(***************************************************************************)
(* Configuration parameters, commands and collected data: the handlers and   *)
(* publications of LiveBooster_core.c, and the decoders of                   *)
(* LiveBooster_msg_decode.c they call.                                       *)
(*                                                                         *)
(* The server numbers its updates and commands; the number is the            *)
(* correlation id.  A message is what its decoder makes of it.  Handlers run  *)
(* inside MQTTYield, one message at a time.  A publication may fail before    *)
(* or after the server has it, and closes the session then.                  *)
(***************************************************************************)
EXTENDS Integers, Sequences, FiniteSets, FiniteSetsExt, Base64

CONSTANTS
  Numbers,        (* values of the parameter "number"                         *)
  Binaries,       (* values of the parameter "binary": strings of bytes       *)
  ArgumentCids,   (* values of the arguments of commands named "cid"          *)
  ParamRoom,      (* parameters a packet has room for                         *)
  MaxParsed,      (* LB_MAX_OF_PARSED_PARAMS                                  *)
  Blocks,         (* the requests the heap has memory for                     *)
  Slots,          (* LB_MAX_OF_DATA_SET                                       *)
  MaxEntries,     (* bound: parameters in an update                           *)
  MaxMessages     (* bound: messages of the server                            *)

ASSUME SizesAssumption ==
  {ParamRoom, MaxParsed, Blocks, Slots, MaxEntries, MaxMessages} \subseteq Nat
ASSUME ValuesAssumption ==
  /\ Numbers \subseteq Nat /\ Numbers # {}
  /\ Binaries \subseteq Seq(1 .. 255) /\ Binaries # {}
  /\ ArgumentCids \subseteq Int

ParamNames == {"number", "binary"}
(* The value of a number is its only digit.                                   *)
Values == [number |-> {<<n>> : n \in Numbers}, binary |-> Binaries]
Cids == 1 .. MaxMessages
NotCalled == 1
NoStream == 0

VARIABLES
  pc,               (* "app", or "yield" in MQTTYield                          *)
  isconnected,
  value,            (* the values of the parameters                           *)
  cid, tab,         (* SetUpdatedParam: the update to acknowledge             *)
  lost,             (* blocks that were allocated and not freed               *)
  SetData,          (* the slots of streams: 1 for the first attached, ...    *)
  (* The other side, and what happened.                                      *)
  sent,             (* messages of the server                                 *)
  wanted,           (* the values the server asked for and the user accepted  *)
  after,            (* per update: the parameters named, and wanted then      *)
  acks,             (* what the server has read on dev/cfg                    *)
  verdict,          (* per command: what the callback returned                *)
  answers,          (* what the server has read on dev/cmd/res                *)
  misnamed,         (* the ids taken from arguments instead                   *)
  broken,           (* commands all right but for a malformed argument        *)
  handles           (* the handles given, in the order of the streams         *)

paramVars == <<value, cid, tab, wanted, after, acks>>
commandVars == <<lost, verdict, answers, misnamed, broken>>
dataVars == <<SetData, handles>>
vars == <<pc, isconnected, sent, paramVars, commandVars, dataVars>>

RangeOf(s) == {s[i] : i \in DOMAIN s}
Unnamed == [named |-> {}, values |-> [p \in ParamNames |-> <<>>]]

Init ==
  /\ pc = "app" /\ isconnected = FALSE
  /\ value \in {v \in [ParamNames -> UNION {Values[p] : p \in ParamNames}] :
                \A p \in ParamNames : v[p] \in Values[p]}
  /\ wanted = value
  /\ cid = 0 /\ tab = <<>>
  /\ lost = 0 /\ broken = 0
  /\ SetData = [h \in 0 .. Slots - 1 |-> NoStream]
  /\ sent = 0
  /\ after = [c \in Cids |-> Unnamed] /\ acks = {}
  /\ verdict = [c \in Cids |-> NotCalled] /\ answers = {} /\ misnamed = {}
  /\ handles = <<>>
-----------------------------------------------------------------------------
(* LiveBooster_Connect publishes all the parameters, among other things that   *)
(* may fail.                                                                 *)
ConnectOk ==
  /\ pc = "app" /\ ~isconnected
  /\ Cardinality(ParamNames) <= ParamRoom
  /\ isconnected' = TRUE
  /\ UNCHANGED <<pc, sent, paramVars, commandVars, dataVars>>

ConnectFails ==
  /\ pc = "app" /\ ~isconnected
  /\ UNCHANGED vars

(* The connection breaks, is found broken or is closed.                       *)
SessionLost ==
  /\ isconnected
  /\ isconnected' = FALSE /\ pc' = "app"
  /\ UNCHANGED <<sent, paramVars, commandVars, dataVars>>

(* How a parameter is published: json_add_param, and the server's reading.    *)
Published == [b \in Binaries |-> ServerDecodes(B64Encode(b))]
Shown(p) == IF p = "binary" THEN Published[value[p]] ELSE value[p]

(* The parameters to acknowledge: those of the update, or all of them.        *)
Listed == IF tab = <<>> THEN ParamNames ELSE RangeOf(tab)
AckFits ==
  (IF tab = <<>> THEN Cardinality(ParamNames) ELSE Cardinality(DOMAIN tab)) <= ParamRoom
AckReaches == acks' = acks \union {[cid |-> cid, shown |-> [p \in Listed |-> Shown(p)]]}

(* Mutant: only an update that named a parameter is acknowledged.             *)
AckNamed ==
  /\ pc = "app" /\ isconnected /\ cid # 0 /\ tab # <<>> /\ AckFits
  /\ AckReaches
  /\ cid' = 0
  /\ pc' = "yield"
  /\ UNCHANGED <<isconnected, sent, value, tab, wanted, after, commandVars, dataVars>>

(* LiveBooster_Cycle, with processConfig: an update is acknowledged ...       *)
Ack ==
  /\ pc = "app" /\ isconnected /\ cid # 0 /\ AckFits
  /\ AckReaches
  /\ cid' = 0
  /\ pc' = "yield"
  /\ UNCHANGED <<isconnected, sent, value, tab, wanted, after, commandVars, dataVars>>

(* ... or it fails, and the next session has to.                              *)
AckFails ==
  /\ pc = "app" /\ isconnected /\ cid # 0
  /\ \/ AckFits /\ AckReaches
     \/ UNCHANGED acks
  /\ isconnected' = FALSE
  /\ UNCHANGED <<pc, sent, value, cid, tab, wanted, after, commandVars, dataVars>>

(* ... or the message is too long to be encoded, and the update is forgotten.  *)
AckTooLong ==
  /\ pc = "app" /\ isconnected /\ cid # 0 /\ ~AckFits
  /\ cid' = 0
  /\ pc' = "yield"
  /\ UNCHANGED <<isconnected, sent, value, tab, wanted, after, acks, commandVars, dataVars>>

NothingToAck ==
  /\ pc = "app" /\ isconnected /\ cid = 0
  /\ pc' = "yield"
  /\ UNCHANGED <<isconnected, sent, paramVars, commandVars, dataVars>>

YieldEnds ==
  /\ pc = "yield"
  /\ pc' = "app"
  /\ UNCHANGED <<isconnected, sent, paramVars, commandVars, dataVars>>
-----------------------------------------------------------------------------
Received ==
  /\ pc = "yield" /\ isconnected /\ sent < MaxMessages
  /\ sent' = sent + 1

(* Mutant: the id of the update before is kept until there is another.        *)
UpdateIllegibleOnlyClears ==
  /\ Received
  /\ tab' = <<>>
  /\ UNCHANGED <<pc, isconnected, cid, value, wanted, after, acks, commandVars, dataVars>>

(* messageHandlerDevCfgUpd: an update without an id, that is no JSON, or has   *)
(* more tokens than LB_MAX_OF_PARSED_PARAMS parameters need.                  *)
UpdateIllegible ==
  /\ Received
  /\ cid' = 0 /\ tab' = <<>>
  /\ UNCHANGED <<pc, isconnected, value, wanted, after, acks, commandVars, dataVars>>

(* An entry of an update: a parameter that is attached or not, with a value    *)
(* of its type or not.                                                       *)
Entry(p, v, fits) == [name |-> p, value |-> v, fits |-> fits]
Entries ==
  (UNION {{Entry(p, v, TRUE) : v \in Values[p]} : p \in ParamNames})
    \union {Entry("number", <<>>, FALSE), Entry("unknown", <<>>, TRUE)}
Recognised(e) == e.name \in ParamNames /\ e.fits

(* updateCnfParam: the value given to the callback.                           *)
Carried == [b \in Binaries |-> B64Decode(ServerEncodes(b))]
Decoded(e) == IF e.name = "binary" THEN Carried[e.value] ELSE e.value

(* The parameters once the entries es[i], i \in taken, are set one by one: the  *)
(* last for a parameter stays.                                                *)
Updated(params, es, taken, Given(_)) ==
  [p \in ParamNames |->
     LET last == {i \in taken : es[i].name = p /\ \A j \in taken : es[j].name = p => j <= i}
     IN IF last = {} THEN params[p] ELSE Given(es[CHOOSE i \in last : TRUE])]

(* The entries up to the end of the update, or to the first that is malformed: *)
(* the callback takes some, and those recognised are acknowledged; tab has     *)
(* their names, each at the place of its entry in the update.                 *)
Update(es, taken) ==
  /\ Received
  /\ Len(es) <= MaxParsed
  /\ \A i \in taken : Recognised(es[i])
  /\ cid' = sent'
  /\ tab' = [i \in {j \in DOMAIN es : Recognised(es[j])} |-> es[i].name]
  /\ value' = Updated(value, es, taken, Decoded)
  /\ wanted' = Updated(wanted, es, taken, LAMBDA e : e.value)
  /\ after' = [after EXCEPT ![sent'] = [named |-> RangeOf(tab'), values |-> wanted']]
  /\ UNCHANGED <<pc, isconnected, acks, commandVars, dataVars>>
-----------------------------------------------------------------------------
(* messageHandlerDevCmd: a command without an id is not answered.             *)
CommandIllegible ==
  /\ Received
  /\ UNCHANGED <<pc, isconnected, paramVars, commandVars, dataVars>>

(* get_CorrelationId: the id is the first value named "cid" in the message, be  *)
(* it an argument of the command, or in one.                                  *)
MessageIds == {sent + 1} \union ArgumentCids

(* The answer is published at once, unless the id is 0.                       *)
Answered(id, code) ==
  /\ misnamed' = misnamed \union ({id} \ {sent'})
  /\ \/ isconnected' = isconnected
     \/ id # 0 /\ isconnected' = FALSE
  /\ LET told == IF id = 0 THEN answers ELSE answers \union {[cid |-> id, code |-> code]}
     IN answers' = told \/ (~isconnected' /\ answers' = answers)

(* No request, a command not attached, no callback, no arguments: the codes of *)
(* LiveBooster_msg_decode_cmd_req.                                            *)
CommandRefused(id, code) ==
  /\ Received
  /\ Answered(id, code)
  /\ UNCHANGED <<pc, paramVars, lost, verdict, broken, dataVars>>

(* There is no memory for the request.                                        *)
CommandNoMemory(id, malformed) ==
  /\ Received /\ lost = Blocks
  /\ broken' = IF malformed THEN broken + 1 ELSE broken
  /\ Answered(id, -6)
  /\ UNCHANGED <<pc, paramVars, lost, verdict, dataVars>>

(* The name of an argument is no string, or its value is nested: the block is  *)
(* not freed.                                                                *)
CommandBroken(id) ==
  /\ Received /\ lost < Blocks
  /\ broken' = broken + 1
  /\ lost' = lost + 1
  /\ Answered(id, -2)
  /\ UNCHANGED <<pc, paramVars, verdict, dataVars>>

(* Mutant: the result of the callback is not kept.                            *)
CommandCalledAnyhow(id, result) ==
  /\ Received /\ lost < Blocks
  /\ verdict' = [verdict EXCEPT ![sent'] = result]
  /\ Answered(id, 0)
  /\ UNCHANGED <<pc, paramVars, lost, broken, dataVars>>

(* Mutant: the block is only freed if the callback accepted.                  *)
CommandCalledUnfreed(id, result) ==
  /\ Received /\ lost < Blocks
  /\ verdict' = [verdict EXCEPT ![sent'] = result]
  /\ lost' = IF result < 0 THEN lost + 1 ELSE lost
  /\ Answered(id, result)
  /\ UNCHANGED <<pc, paramVars, broken, dataVars>>

CommandCalled(id, result) ==
  /\ Received /\ lost < Blocks
  /\ verdict' = [verdict EXCEPT ![sent'] = result]
  /\ Answered(id, result)
  /\ UNCHANGED <<pc, paramVars, lost, broken, dataVars>>
-----------------------------------------------------------------------------
FreeSlots == {h \in 0 .. Slots - 1 : SetData[h] = NoStream}

(* Mutant: the search ends at the last slot, free or not.                     *)
AttachLast ==
  /\ pc = "app"
  /\ Len(handles) < Slots
  /\ SetData' = [SetData EXCEPT ![Slots - 1] = Len(handles) + 1]
  /\ handles' = Append(handles, Slots - 1)
  /\ UNCHANGED <<pc, isconnected, sent, paramVars, commandVars>>

(* LiveBooster_AttachData: the first free slot, if there is one.              *)
AttachData ==
  /\ pc = "app"
  /\ FreeSlots # {}
  /\ LET h == Min(FreeSlots) IN
     /\ SetData' = [SetData EXCEPT ![h] = Len(handles) + 1]
     /\ handles' = Append(handles, h)
  /\ UNCHANGED <<pc, isconnected, sent, paramVars, commandVars>>

(* LiveBooster_PushData publishes, which may fail.                            *)
PushData ==
  /\ pc = "app" /\ isconnected /\ handles # <<>>
  /\ isconnected' \in BOOLEAN
  /\ UNCHANGED <<pc, sent, paramVars, commandVars, dataVars>>

Next ==
  \/ ConnectOk \/ ConnectFails \/ SessionLost
  \/ Ack \/ AckFails \/ AckTooLong \/ NothingToAck \/ YieldEnds
  \/ UpdateIllegible
  \/ \E n \in 0 .. MaxEntries : \E es \in [1 .. n -> Entries], taken \in SUBSET (1 .. n) :
       Update(es, taken)
  \/ CommandIllegible
  \/ \E id \in MessageIds :
       \/ \E code \in -4 .. -2 : CommandRefused(id, code)
       \/ \E malformed \in BOOLEAN : CommandNoMemory(id, malformed)
       \/ CommandBroken(id)
       \/ \E result \in {-1, 0} : CommandCalled(id, result)
  \/ AttachData \/ PushData

Spec == Init /\ [][Next]_vars

(* The application goes on calling LiveBooster_Cycle, and LiveBooster_Connect  *)
(* when that fails; now and then the network carries what is sent.            *)
FairSpec ==
  Spec /\ SF_vars(ConnectOk) /\ SF_vars(Ack) /\ WF_vars(NothingToAck) /\ WF_vars(YieldEnds)
-----------------------------------------------------------------------------
(* Every variable stays in its range.                                         *)
TypeOK ==
  /\ pc \in {"app", "yield"} /\ isconnected \in BOOLEAN
  /\ \A p \in ParamNames : value[p] \in Values[p] /\ wanted[p] \in Values[p]
  /\ cid \in 0 .. MaxMessages
  /\ tab \in UNION {[places -> ParamNames] : places \in SUBSET (1 .. MaxParsed)}
  /\ lost \in 0 .. Blocks
  /\ \A h \in 0 .. Slots - 1 : SetData[h] \in 0 .. Slots

(* An acknowledgement says what became of the update whose id it has: the      *)
(* parameters it named, or all when it named none, with the values in force   *)
(* once it was handled, whatever came and failed in between.                  *)
AcksTell ==
  \A a \in acks :
    LET u == after[a.cid] IN
    /\ DOMAIN a.shown = IF u.named = {} THEN ParamNames ELSE u.named
    /\ \A p \in DOMAIN a.shown : a.shown[p] = u.values[p]

(* The answer with the id of a command is the result of the callback if that   *)
(* was called, and an error otherwise, whatever other commands do to the      *)
(* memory and the session; unless another command has an argument "cid" with   *)
(* this very id, and takes it for its own.                                    *)
Truthful(a) ==
  IF verdict[a.cid] = NotCalled THEN a.code < 0 ELSE a.code = verdict[a.cid]

AnswersAreTrue ==
  \A a \in answers : a.cid \in Cids \ misnamed => Truthful(a)

(* Memory is lost by commands with a malformed argument and by nothing else,   *)
(* until there is none left for any command.                                 *)
LostToBroken == lost = IF broken < Blocks THEN broken ELSE Blocks

(* A handle stays that of the stream it was returned for: what is pushed with  *)
(* it is never another stream.                                               *)
HandlesHold == \A i \in DOMAIN handles : SetData[handles[i]] = i

(* An update that fits a packet is acknowledged, across sessions, unless       *)
(* another message on dev/cfg/upd replaces it.                               *)
UpdateSettles == \A c \in Cids : cid = c /\ AckFits ~> cid # c
-----------------------------------------------------------------------------
(* What the documentation says and the code does not do.                      *)

(* LiveBooster_defs.h: cmd_cid is the "Correlation Id (required to set in      *)
(* command response)"; so a response never tells of another command.          *)
AnswersAreOwn ==
  \A a \in answers : a.cid \in Cids => Truthful(a)
===============================================================================
