-------------------------- MODULE ResourceDownload --------------------------
(***************************************************************************)
(* The transfer of a resource from the Live Objects platform:               *)
(* LiveBooster_core.c (messageHandlerDevRscUpd, processGetRsc,              *)
(* LiveBooster_GetResources, and the calls of LiveBooster_Cycle and         *)
(* LiveBooster_Connect around them), LiveBooster_msg_decode_rsc_req, and     *)
(* LiveBooster_http.c.                                                      *)
(*                                                                         *)
(* The library runs in the thread of the application.  pc says where that   *)
(* thread is; between two steps of a call stand the places where user code  *)
(* runs (the notify and data callbacks) and where the network may act.      *)
(*                                                                         *)
(* Requests of the platform are numbered 1, 2, ...; the number is the       *)
(* correlation id.  A body is a number of bytes and the position of the     *)
(* first byte that differs from what the platform computed its MD5 on (0    *)
(* when none does); two bodies have the same MD5 only if they are equal.     *)
(***************************************************************************)
EXTENDS Integers

CONSTANTS
  Rsc,         (* the resources attached by the application                 *)
  NoRsc,       (* the null pointer                                          *)
  Sizes,       (* the sizes a request announces                             *)
  MaxRequests, (* bound: how many requests the platform makes               *)
  MaxExtra,    (* bound: bytes a server may send beyond Content-Length      *)
  MaxReads,    (* bound: calls of LiveBooster_GetResources in a callback    *)
  HasNtfy,     (* is a notify callback attached?                            *)
  HasDataCb    (* is a data callback attached?                              *)

ASSUME RscAssumption == NoRsc \notin Rsc
ASSUME SizesAssumption == Sizes \subseteq Nat
ASSUME BoundsAssumption ==
  /\ MaxRequests \in Nat
  /\ MaxExtra \in Nat
  /\ MaxReads \in Nat
ASSUME CallbacksAssumption == HasNtfy \in BOOLEAN /\ HasDataCb \in BOOLEAN

VARIABLES
  pc,             (* where the thread of the application is                 *)
  session,        (* MQTTIsConnected                                        *)
  ursc_cid,       (* liveBooster.SetUpdatedRsc, field by field; 0 = none    *)
  ursc_obj,
  ursc_size,
  ursc_uri,       (* is the stored URI one http_start accepts?              *)
  ursc_md5,       (* is the stored MD5 that of the resource?                *)
  ursc_connected,
  ursc_offset,
  md5_ctx,        (* bytes digested, and do they all match the resource?    *)
  http,           (* the HTTP connection                                    *)
  cb,             (* the data callback under way: its calls and results     *)
  ntfy,           (* the state the notify callback is called with           *)
  asked,          (* the correlation id of the request being answered       *)
  (* What the outside has seen, request by request. *)
  requests,       (* how many requests have arrived                         *)
  announced,      (* the size each of them announces                        *)
  verdict,        (* the code messageHandlerDevRscUpd decided on            *)
  answer,         (* the result published on dev/rsc/upd/res                *)
  accepted,       (* the requests the notify callback accepted              *)
  opened,         (* the requests an HTTP connection was opened for         *)
  got,            (* the bytes handed to the application, and are they good?*)
  failing,        (* has the callback of the request returned an error?     *)
  outcome,        (* how the transfer ended                                 *)
  report          (* what was published when it ended                       *)

urscVars == <<ursc_cid, ursc_obj, ursc_size, ursc_uri, ursc_md5,
              ursc_connected, ursc_offset, md5_ctx>>
seenVars == <<requests, announced, verdict, answer, accepted, opened, got, failing,
              outcome, report>>
vars == <<pc, session, urscVars, http, cb, ntfy, asked, seenVars>>

Cids == 1 .. MaxRequests

-----------------------------------------------------------------------------
(* The codes of LiveBooster_ResourceRespCode_t.                             *)
OK == "OK"
INTERNAL_ERROR == "INTERNAL_ERROR"
WRONG_SOURCE_VERSION == "WRONG_SOURCE_VERSION"
INVALID_RESOURCE == "INVALID_RESOURCE"
NOT_AUTHORIZED == "NOT_AUTHORIZED"
Codes == {OK, INTERNAL_ERROR, WRONG_SOURCE_VERSION, INVALID_RESOURCE, NOT_AUTHORIZED}

(* lib_rsc_res has one entry more than the enumeration that indexes it.     *)
ResultName(code) ==
  CASE code = OK -> "OK"
    [] code = INTERNAL_ERROR -> "INTERNAL_ERROR"
    [] code = WRONG_SOURCE_VERSION -> "UNKNOWN_RESOURCE"
    [] code = INVALID_RESOURCE -> "WRONG_SOURCE_VERSION"
    [] code = NOT_AUTHORIZED -> "INVALID_RESOURCE"

Names == {ResultName(code) : code \in Codes}

(* A request message: "id" names an attached resource, an unknown one       *)
(* (NoRsc), or is not a string, and then no field is read; badTail is a     *)
(* message whose fields stop being well formed after some were stored.      *)
NoField == [rsc |-> NoRsc, size |-> 0, uri |-> FALSE, md5 |-> FALSE]
Requests ==
  {[fields |-> f, form |-> form] :
     f \in [rsc : Rsc \cup {NoRsc}, size : Sizes, uri : BOOLEAN, md5 : BOOLEAN],
     form \in {"good", "badTail"}}
    \cup {[fields |-> NoField, form |-> "badId"]}

(* The MD5 context once MD5Init has run, and before.                        *)
NoByte == [n |-> 0, good |-> TRUE]
NoContext == [n |-> 0, good |-> FALSE]

(* The connection of the HTTP client: up between connect and stop, peer     *)
(* while the server holds its end, pos bytes read of len, badAt the first   *)
(* wrong byte.                                                              *)
Closed == [up |-> FALSE, peer |-> FALSE, pos |-> 0, len |-> 0, badAt |-> 0]

Left == http.len - http.pos

(* The server's end goes away, and with it some of the bytes not yet read.  *)
Cut == \E k \in http.pos .. http.len : http' = [http EXCEPT !.peer = FALSE, !.len = k]

(* Are the next k bytes of the connection those of the resource? *)
IntactPiece(k) == http.badAt \notin (http.pos + 1) .. (http.pos + k)

NoCallback == [calls |-> 0, total |-> 0, last |-> 0]

-----------------------------------------------------------------------------
Init ==
  /\ pc = "app"
  /\ session = TRUE
  /\ ursc_cid = 0
  /\ ursc_obj = NoRsc
  /\ ursc_size = 0
  /\ ursc_uri = FALSE
  /\ ursc_md5 = FALSE
  /\ ursc_connected = FALSE
  /\ ursc_offset = 0
  /\ md5_ctx = NoContext
  /\ http = Closed
  /\ cb = NoCallback
  /\ ntfy = 0
  /\ asked = 0
  /\ requests = 0
  /\ announced = [i \in Cids |-> 0]
  /\ verdict = [i \in Cids |-> "none"]
  /\ answer = [i \in Cids |-> "none"]
  /\ accepted = {}
  /\ opened = {}
  /\ got = [i \in Cids |-> NoByte]
  /\ failing = {}
  /\ outcome = [i \in Cids |-> "none"]
  /\ report = [i \in Cids |-> "none"]

(* A publication fails when the transport does, and a failed one closes the *)
(* session.                                                                 *)
MayLoseSession == session' \in {session, FALSE}

-----------------------------------------------------------------------------
(* The application loop: LiveBooster_Cycle, LiveBooster_Connect and, when    *)
(* the application publishes data, LiveBooster_PushData.                    *)

(* processConfig comes first in the cycle; a failing publication there does *)
(* not keep processGetRsc from running.                                     *)
CycleEnter ==
  /\ pc = "app"
  /\ session
  /\ pc' = "process"
  /\ MayLoseSession
  /\ UNCHANGED <<urscVars, http, cb, ntfy, asked, seenVars>>

SessionLost ==
  /\ pc \in {"app", "yield"}
  /\ session
  /\ session' = FALSE
  /\ UNCHANGED <<pc, urscVars, http, cb, ntfy, asked, seenVars>>

(* MQTTClientInit resets the modem, which drops the HTTP connection without *)
(* the HTTP client noticing: what its FIFO holds can still be read.  When   *)
(* the modem does not answer, the connection is left alone.                 *)
Reconnect(success) ==
  /\ pc = "app"
  /\ session' = success
  /\ \/ UNCHANGED http
     \/ /\ http.up
        /\ Cut
  /\ UNCHANGED <<pc, urscVars, cb, ntfy, asked, seenVars>>

-----------------------------------------------------------------------------
(* processGetRsc.                                                           *)

InProgress == ursc_cid # 0 /\ ursc_obj # NoRsc

ProcessNothing ==
  /\ pc = "process"
  /\ ~InProgress \/ ~HasDataCb
  /\ pc' = "yield"
  /\ UNCHANGED <<session, urscVars, http, cb, ntfy, asked, seenVars>>

(* Mutant: the request is not forgotten when its transfer is over. *)
ReleaseKeepsRequest ==
  /\ ursc_connected' = FALSE
  /\ UNCHANGED <<ursc_cid, ursc_obj, ursc_size, ursc_uri, ursc_md5, ursc_offset, md5_ctx>>

(* The end of processGetRsc when rc is negative. *)
Release ==
  /\ ursc_cid' = 0
  /\ ursc_obj' = NoRsc
  /\ ursc_connected' = FALSE
  /\ UNCHANGED <<ursc_size, ursc_uri, ursc_md5, ursc_offset, md5_ctx>>

(* LiveBooster_http_start refuses the URI or the size, cannot connect, or   *)
(* does not like the answer; in the last case it stops the connection.      *)
StartFails ==
  /\ pc = "process"
  /\ InProgress /\ HasDataCb /\ ~ursc_connected
  /\ pc' = "yield"
  /\ Release
  /\ report' = [report EXCEPT ![ursc_cid] = "err"]
  /\ outcome' = [outcome EXCEPT ![ursc_cid] = "httpError"]
  /\ MayLoseSession
  /\ \/ /\ UNCHANGED <<http, opened>>
     \/ /\ ursc_uri /\ ursc_offset < ursc_size
        /\ http' = Closed
        /\ opened' = opened \cup {ursc_cid}
  /\ UNCHANGED <<cb, ntfy, asked, requests, announced, verdict, answer, accepted, got, failing>>

(* The server announces as many bytes as the request did and may send more. *)
StartSucceeds ==
  /\ pc = "process"
  /\ InProgress /\ HasDataCb /\ ~ursc_connected
  /\ ursc_uri /\ ursc_offset < ursc_size
  /\ pc' = "yield"
  /\ \E x \in 0 .. MaxExtra, at \in 0 .. (ursc_size - ursc_offset) :
       http' = [up |-> TRUE, peer |-> TRUE, pos |-> 0,
                len |-> ursc_size - ursc_offset + x, badAt |-> at]
  /\ ursc_connected' = TRUE
  /\ md5_ctx' = IF ursc_offset = 0 THEN NoByte ELSE md5_ctx
  /\ opened' = opened \cup {ursc_cid}
  /\ UNCHANGED <<session, ursc_cid, ursc_obj, ursc_size, ursc_uri, ursc_md5,
                 ursc_offset, cb, ntfy, asked, requests, announced, verdict, answer,
                 accepted, got, failing, outcome, report>>

(* The data callback of the application is called. *)
DataCallback ==
  /\ pc = "process"
  /\ InProgress /\ HasDataCb /\ ursc_connected
  /\ pc' = "data"
  /\ cb' = NoCallback
  /\ UNCHANGED <<session, urscVars, http, ntfy, asked, seenVars>>

-----------------------------------------------------------------------------
(* LiveBooster_GetResources, called by the data callback.                   *)

Called(result) ==
  cb' = [calls |-> cb.calls + 1,
         total |-> IF result > 0 THEN cb.total + result ELSE cb.total,
         last |-> result]

GetBytes(k) ==
  /\ pc = "data"
  /\ cb.calls < MaxReads
  /\ http.up
  /\ k <= Left
  /\ md5_ctx' = [n |-> md5_ctx.n + k, good |-> md5_ctx.good /\ IntactPiece(k)]
  /\ ursc_offset' = ursc_offset + k
  /\ http' = [http EXCEPT !.pos = @ + k]
  /\ got' = [got EXCEPT ![ursc_cid] = [n |-> @.n + k, good |-> @.good /\ IntactPiece(k)]]
  /\ Called(k)
  /\ UNCHANGED <<pc, session, ursc_cid, ursc_obj, ursc_size, ursc_uri, ursc_md5,
                 ursc_connected, ntfy, asked, requests, announced, verdict, answer,
                 accepted, opened, failing, outcome, report>>

(* No byte was read in time (0), or the server has gone and nothing is left *)
(* (ERR_LB_HTTP_DATA_DISCONNECTED).  After a close the TCP client may still *)
(* believe that bytes are available, and then 0 is the result again.        *)
GetNothing ==
  /\ pc = "data"
  /\ cb.calls < MaxReads
  /\ \/ Called(0)
     \/ ~http.peer /\ Left = 0 /\ Called(-1)
  /\ UNCHANGED <<pc, session, urscVars, http, ntfy, asked, seenVars>>

(* Called with another resource: the running connection is closed. *)
GetOther ==
  /\ pc = "data"
  /\ cb.calls < MaxReads
  /\ http' = Closed
  /\ Called(-1)
  /\ UNCHANGED <<pc, session, urscVars, ntfy, asked, seenVars>>

(* The server closes; the bytes that are still on their way are lost.       *)
ServerCloses ==
  /\ http.up /\ http.peer
  /\ Cut
  /\ UNCHANGED <<pc, session, urscVars, cb, ntfy, asked, seenVars>>

-----------------------------------------------------------------------------
(* The data callback returns: what it read, what its last call returned, or *)
(* an error of its own.                                                     *)
Results == {cb.total, cb.last, -1}

(* Mutant: the digests are not compared. *)
DigestUncompared == 1

(* 1 when the digest of the bytes read is the one announced, else 2.        *)
DigestState == IF ursc_md5 /\ md5_ctx = [n |-> ursc_size, good |-> TRUE] THEN 1 ELSE 2

NoteError(rc) == failing' = IF rc <= 0 THEN failing \cup {ursc_cid} ELSE failing

(* Mutant: a callback that reads nothing does not end the transfer. *)
CallbackAlwaysGoesOn ==
  /\ pc = "data"
  /\ \E rc \in Results : NoteError(rc)
  /\ ursc_offset # ursc_size
  /\ pc' = "yield"
  /\ cb' = NoCallback
  /\ UNCHANGED <<session, urscVars, http, ntfy, asked, requests, announced, verdict,
                 answer, accepted, opened, got, outcome, report>>

CallbackGoesOn ==
  /\ pc = "data"
  /\ \E rc \in Results : rc > 0 /\ NoteError(rc)
  /\ ursc_offset # ursc_size
  /\ pc' = "yield"
  /\ cb' = NoCallback
  /\ UNCHANGED <<session, urscVars, http, ntfy, asked, requests, announced, verdict,
                 answer, accepted, opened, got, outcome, report>>

(* Mutant: the connection stays open when the callback gives up. *)
CallbackStopsWithoutClose ==
  /\ pc = "data"
  /\ ursc_offset # ursc_size
  /\ \E rc \in Results : rc <= 0 /\ NoteError(rc)
  /\ outcome' = [outcome EXCEPT ![ursc_cid] = "aborted"]
  /\ pc' = "yield"
  /\ cb' = NoCallback
  /\ Release
  /\ UNCHANGED <<session, http, ntfy, asked, requests, announced, verdict, answer,
                 accepted, opened, got, report>>

CallbackStops ==
  /\ pc = "data"
  /\ ursc_offset # ursc_size
  /\ \E rc \in Results :
       /\ rc <= 0
       /\ NoteError(rc)
       /\ IF rc = 0
          THEN /\ report' = [report EXCEPT ![ursc_cid] = "err"]
               /\ outcome' = [outcome EXCEPT ![ursc_cid] = "shortData"]
               /\ MayLoseSession
          ELSE /\ outcome' = [outcome EXCEPT ![ursc_cid] = "aborted"]
               /\ UNCHANGED <<session, report>>
  /\ pc' = "yield"
  /\ cb' = NoCallback
  /\ http' = Closed
  /\ Release
  /\ UNCHANGED <<ntfy, asked, requests, announced, verdict, answer, accepted, opened, got>>

(* All the bytes are there: the digests are compared and the application is *)
(* told, whatever the data callback has returned.                           *)
Outcome(state) == IF state = 1 THEN "complete" ELSE "md5Error"

(* Mutant: a completed transfer leaves its connection open. *)
CallbackCompletesWithoutClose ==
  /\ pc = "data"
  /\ ursc_offset = ursc_size
  /\ \E rc \in Results : NoteError(rc)
  /\ cb' = NoCallback
  /\ outcome' = [outcome EXCEPT ![ursc_cid] = Outcome(DigestState)]
  /\ pc' = "yield"
  /\ Release
  /\ UNCHANGED <<session, http, ntfy, asked, requests, announced, verdict, answer,
                 accepted, opened, got, report>>

CallbackCompletes ==
  /\ pc = "data"
  /\ ursc_offset = ursc_size
  /\ \E rc \in Results : NoteError(rc)
  /\ cb' = NoCallback
  /\ outcome' = [outcome EXCEPT ![ursc_cid] = Outcome(DigestState)]
  /\ \/ /\ HasNtfy
        /\ pc' = "ntfy"
        /\ ntfy' = DigestState
        /\ UNCHANGED <<urscVars, http>>
     \/ /\ ~HasNtfy
        /\ pc' = "yield"
        /\ http' = Closed
        /\ Release
        /\ UNCHANGED ntfy
  /\ UNCHANGED <<session, asked, requests, announced, verdict, answer, accepted, opened,
                 got, report>>

(* The notify callback returns: the versions of the resources are published *)
(* when it returns RSC_RSP_OK, else an error is.                            *)
CompletionNotified ==
  /\ pc = "ntfy"
  /\ \E code \in Codes :
       report' = [report EXCEPT ![ursc_cid] = IF code = OK THEN "rsc" ELSE "err"]
  /\ MayLoseSession
  /\ pc' = "yield"
  /\ ntfy' = 0
  /\ http' = Closed
  /\ Release
  /\ UNCHANGED <<cb, asked, requests, announced, verdict, answer, accepted, opened, got,
                 failing, outcome>>

-----------------------------------------------------------------------------
(* MQTTYield and messageHandlerDevRscUpd.                                   *)

(* Mutant: the name published is taken for the code. *)
AnswerTakesName(i, code) ==
  /\ verdict' = [verdict EXCEPT ![i] = ResultName(code)]
  /\ answer' = [answer EXCEPT ![i] = ResultName(code)]
  /\ MayLoseSession

(* The handler publishes the result it has decided on. *)
Answer(i, code) ==
  /\ verdict' = [verdict EXCEPT ![i] = code]
  /\ answer' = [answer EXCEPT ![i] = ResultName(code)]
  /\ MayLoseSession

RequestWhileBusy ==
  /\ pc = "yield" /\ session
  /\ requests < MaxRequests
  /\ requests' = requests + 1
  /\ ursc_cid # 0
  /\ Answer(requests + 1, NOT_AUTHORIZED)
  /\ UNCHANGED <<pc, urscVars, http, cb, ntfy, asked, announced, accepted, opened, got,
                 failing, outcome, report>>

(* Mutant: SetUpdatedRsc is not cleared before the message is decoded. *)
StoreWithoutClearing(i, req) ==
  /\ ursc_cid' = i
  /\ ursc_obj' = req.fields.rsc
  /\ ursc_size' = req.fields.size
  /\ ursc_uri' = req.fields.uri
  /\ ursc_md5' = req.fields.md5
  /\ UNCHANGED <<ursc_connected, ursc_offset, md5_ctx>>
  /\ announced' = [announced EXCEPT ![i] = req.fields.size]

(* SetUpdatedRsc is cleared, then filled in as the message is decoded. *)
Store(i, req) ==
  /\ ursc_cid' = i
  /\ ursc_obj' = req.fields.rsc
  /\ ursc_size' = req.fields.size
  /\ ursc_uri' = req.fields.uri
  /\ ursc_md5' = req.fields.md5
  /\ ursc_connected' = FALSE
  /\ ursc_offset' = 0
  /\ md5_ctx' = NoContext
  /\ announced' = [announced EXCEPT ![i] = req.fields.size]

RequestIllFormed(req) ==
  /\ pc = "yield" /\ session
  /\ requests < MaxRequests
  /\ requests' = requests + 1
  /\ ursc_cid = 0
  /\ req.form # "good"
  /\ Store(requests + 1, req)
  /\ Answer(requests + 1, INTERNAL_ERROR)
  /\ UNCHANGED <<pc, http, cb, ntfy, asked, accepted, opened, got, failing,
                 outcome, report>>

(* Mutant: the device is not busy until it is connected. *)
RequestUnaskedUnlessConnected(req) ==
  /\ pc = "yield" /\ session
  /\ requests < MaxRequests
  /\ requests' = requests + 1
  /\ ~ursc_connected
  /\ req.form = "good"
  /\ ~HasNtfy
  /\ Store(requests + 1, req)
  /\ Answer(requests + 1, OK)
  /\ UNCHANGED <<pc, http, cb, ntfy, asked, accepted, opened, got, failing,
                 outcome, report>>

(* Without a notify callback a well-formed request is accepted at once.     *)
RequestUnasked(req) ==
  /\ pc = "yield" /\ session
  /\ requests < MaxRequests
  /\ requests' = requests + 1
  /\ ursc_cid = 0
  /\ req.form = "good"
  /\ ~HasNtfy
  /\ Store(requests + 1, req)
  /\ Answer(requests + 1, OK)
  /\ UNCHANGED <<pc, http, cb, ntfy, asked, accepted, opened, got, failing,
                 outcome, report>>

(* Mutant: the device is not busy until it is connected. *)
RequestAskedUnlessConnected(req) ==
  /\ pc = "yield" /\ session
  /\ requests < MaxRequests
  /\ requests' = requests + 1
  /\ ~ursc_connected
  /\ req.form = "good"
  /\ HasNtfy
  /\ Store(requests + 1, req)
  /\ asked' = requests + 1
  /\ pc' = "ask"
  /\ UNCHANGED <<session, http, cb, ntfy, verdict, answer, accepted, opened,
                 got, failing, outcome, report>>

RequestAsked(req) ==
  /\ pc = "yield" /\ session
  /\ requests < MaxRequests
  /\ requests' = requests + 1
  /\ ursc_cid = 0
  /\ req.form = "good"
  /\ HasNtfy
  /\ Store(requests + 1, req)
  /\ asked' = requests + 1
  /\ pc' = "ask"
  /\ UNCHANGED <<session, http, cb, ntfy, verdict, answer, accepted, opened,
                 got, failing, outcome, report>>

(* The applications of the repository refuse a resource they do not know.   *)
UserAccepts ==
  /\ pc = "ask"
  /\ ursc_obj # NoRsc
  /\ accepted' = accepted \cup {asked}
  /\ Answer(asked, OK)
  /\ ursc_connected' = FALSE
  /\ ursc_offset' = 0
  /\ asked' = 0
  /\ pc' = "yield"
  /\ UNCHANGED <<ursc_cid, ursc_obj, ursc_size, ursc_uri, ursc_md5, md5_ctx,
                 http, cb, ntfy, requests, announced, opened, got, failing, outcome, report>>

(* Mutant: a refused request is answered but not forgotten. *)
UserRefusesOnlyAnswers ==
  /\ pc = "ask"
  /\ \E code \in Codes \ {OK} : Answer(asked, code)
  /\ asked' = 0
  /\ pc' = "yield"
  /\ UNCHANGED <<urscVars, http, cb, ntfy, requests, announced, accepted, opened, got,
                 failing, outcome, report>>

UserRefuses ==
  /\ pc = "ask"
  /\ \E code \in Codes \ {OK} : Answer(asked, code)
  /\ ursc_cid' = 0
  /\ ursc_obj' = NoRsc
  /\ asked' = 0
  /\ pc' = "yield"
  /\ UNCHANGED <<ursc_size, ursc_uri, ursc_md5, ursc_connected, ursc_offset,
                 md5_ctx, http, cb, ntfy, requests, announced, accepted, opened, got,
                 failing, outcome, report>>

YieldEnds ==
  /\ pc = "yield"
  /\ pc' = "app"
  /\ UNCHANGED <<session, urscVars, http, cb, ntfy, asked, seenVars>>

-----------------------------------------------------------------------------
Application ==
  \/ CycleEnter
  \/ SessionLost
  \/ \E success \in BOOLEAN : Reconnect(success)

Process ==
  \/ ProcessNothing
  \/ StartFails
  \/ StartSucceeds
  \/ DataCallback

Callback ==
  \/ \E k \in 1 .. Left : GetBytes(k)
  \/ GetNothing
  \/ GetOther
  \/ CallbackGoesOn
  \/ CallbackStops
  \/ CallbackCompletes
  \/ CompletionNotified

Yield ==
  \/ RequestWhileBusy
  \/ \E req \in Requests :
       \/ RequestIllFormed(req)
       \/ RequestUnasked(req)
       \/ RequestAsked(req)
  \/ UserAccepts
  \/ UserRefuses
  \/ YieldEnds

Next == Application \/ Process \/ Callback \/ Yield \/ ServerCloses

(* Calls return: the thread does not stop inside LiveBooster_Cycle.  The    *)
(* application keeps calling it, and calls LiveBooster_Connect when there   *)
(* is no session, until the network lets it have one, as the loops of       *)
(* Linux_test.c, Mbed_test.cpp and the Arduino sketch do.                   *)
Fairness ==
  /\ WF_vars(Process \/ Callback \/ Yield)
  /\ WF_vars(Reconnect(TRUE))
  /\ SF_vars(CycleEnter)

Spec == Init /\ [][Next]_vars
FairSpec == Spec /\ Fairness

-----------------------------------------------------------------------------
Bytes == [n : Nat, good : BOOLEAN]
Connections == [up : BOOLEAN, peer : BOOLEAN, pos : Nat, len : Nat, badAt : Nat]
Calls == [calls : Nat, total : Nat, last : Int]

(* Every variable has its type. *)
TypeOK ==
  /\ pc \in {"app", "process", "data", "ntfy", "yield", "ask"}
  /\ session \in BOOLEAN
  /\ ursc_cid \in Cids \cup {0}
  /\ ursc_obj \in Rsc \cup {NoRsc}
  /\ ursc_size \in Nat
  /\ ursc_uri \in BOOLEAN
  /\ ursc_md5 \in BOOLEAN
  /\ ursc_connected \in BOOLEAN
  /\ ursc_offset \in Nat
  /\ md5_ctx \in Bytes
  /\ http \in Connections
  /\ cb \in Calls
  /\ ntfy \in 0 .. 2
  /\ asked \in Cids \cup {0}
  /\ requests \in 0 .. MaxRequests
  /\ announced \in [Cids -> Nat]
  /\ verdict \in [Cids -> Codes \cup {"none"}]
  /\ answer \in [Cids -> Names \cup {"none"}]
  /\ accepted \in SUBSET Cids
  /\ opened \in SUBSET Cids
  /\ got \in [Cids -> Bytes]
  /\ failing \in SUBSET Cids
  /\ outcome \in [Cids -> {"none", "complete", "md5Error", "httpError", "shortData", "aborted"}]
  /\ report \in [Cids -> {"none", "rsc", "err"}]

(* The application is told that a resource is complete only when the bytes  *)
(* LiveBooster_GetResources gave it since it accepted the request are all    *)
(* those of the announced resource and no others, however the reads were    *)
(* cut, and whatever closed or reconnected in between.                      *)
CompletedIsIntact ==
  \A i \in Cids : outcome[i] = "complete" => got[i] = [n |-> announced[i], good |-> TRUE]

(* While a connection is open, the MD5 context and ursc_offset cover        *)
(* exactly the bytes given to the application for this request; while none  *)
(* is, nothing has been read yet: no transfer is ever resumed half-way, so  *)
(* the branches for ursc_offset > 0 in processGetRsc and in the HTTP query  *)
(* are never taken.                                                         *)
DigestCoversDelivery ==
  ursc_cid # 0 =>
    /\ got[ursc_cid].n = ursc_offset
    /\ IF ursc_connected THEN got[ursc_cid] = md5_ctx ELSE ursc_offset = 0

(* An HTTP connection is open only on behalf of the transfer in progress:   *)
(* every way a transfer ends also closes its connection.                    *)
ConnectionHasOwner == http.up => ursc_connected /\ InProgress /\ ursc_cid \in opened

(* A request the device refused, because it was busy or because the         *)
(* application said so, is never connected to nor read from.                *)
RefusedIsNotTransferred ==
  \A i \in Cids :
    verdict[i] \notin {"none", OK, INTERNAL_ERROR} =>
      i \notin opened /\ got[i].n = 0 /\ outcome[i] = "none"

(* From the moment a request is stored to the moment its transfer is over,  *)
(* no other message changes which resource is fetched, from where, how long *)
(* it is or what its digest must be, and a transfer that is over neither    *)
(* ends a second time nor gives the application another byte.               *)
TransferIsExclusive ==
  [][/\ ursc_cid # 0 =>
          \/ ursc_cid' = 0
          \/ UNCHANGED <<ursc_cid, ursc_obj, ursc_size, ursc_uri, ursc_md5>>
     /\ \A i \in Cids :
          outcome[i] # "none" => outcome'[i] = outcome[i] /\ got'[i] = got[i]]_vars

(* The transfer as its abstract specification sees it. *)
PhaseOf(i) ==
  CASE outcome[i] = "complete" -> "complete"
    [] outcome[i] \in {"md5Error", "httpError", "shortData", "aborted"} -> "failed"
    [] outcome[i] = "none" /\ i = ursc_cid /\ ursc_obj # NoRsc ->
         (IF ursc_connected THEN "open" ELSE "waiting")
    [] outcome[i] = "none" /\ ~(i = ursc_cid /\ ursc_obj # NoRsc) ->
         (IF i <= requests THEN "dropped" ELSE "new")
Phase == [i \in Cids |-> PhaseOf(i)]

Transfer == INSTANCE ResourceTransfer WITH phase <- Phase

(* The handlers, callbacks and reconnections together implement the         *)
(* abstract transfer.                                                       *)
ImplementsTransfer == Transfer!Spec

(* Every request the application accepted is settled, whether the server    *)
(* sends everything, too little or nothing, or the session is lost.         *)
AcceptedIsSettled == \A i \in Cids : i \in accepted ~> outcome[i] # "none"

-----------------------------------------------------------------------------
(* What the documentation says and the code does not do.                    *)

(* LiveBooster_defs.h, on the data callback: "Negative value or 0 is an     *)
(* error stopping the download"; so such a download is not complete.        *)
ErrorStopsDownload == \A i \in failing : outcome[i] # "complete"

(* LiveBooster_defs.h, on what the notify callback returns when the         *)
(* transfer is completed: "no meaning"; so what is published depends only   *)
(* on how the transfer ended.                                               *)
CompletionResultHasNoMeaning ==
  \A i \in Cids :
    report[i] # "none" => (report[i] = "rsc" <=> outcome[i] = "complete")

(* Docs/Resources.md: the connection is opened "If the resources are        *)
(* accepted by the device".                                                 *)
OpenedWasAccepted == opened \subseteq accepted

(* LiveBooster_defs.h, the enumeration of the codes: the result published   *)
(* is the name of the code the handler returned.                            *)
AnswerNamesTheCode == \A i \in Cids : answer[i] = verdict[i]

(* LiveBooster_defs.h: RSC_RSP_ERR_NOT_AUTHORIZED is the answer when the    *)
(* transfer is not allowed because the device is "busy"; so a request is    *)
(* refused without asking the application only while a transfer is waiting  *)
(* or running.                                                              *)
BusyIsTransferring ==
  [][\A i \in Cids :
       pc = "yield" /\ verdict[i] = "none" /\ verdict'[i] = NOT_AUTHORIZED
         => InProgress]_vars
=============================================================================
