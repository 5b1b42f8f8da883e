----------------------- MODULE ResourceDownloadProofs -----------------------
(***************************************************************************)
(* The safety of ResourceDownload for every set of resources, every set of  *)
(* announced sizes, any number of requests and every pattern of reads.      *)
(*                                                                         *)
(* The invariants the runs check are not inductive.  What they need is how  *)
(* the fields of SetUpdatedRsc, the connection and the call the thread is   *)
(* in go together, which Inv adds.                                          *)
(***************************************************************************)
EXTENDS ResourceDownload, TLAPS

(* Nothing has happened to a request that has not arrived. *)
FutureIsBlank ==
  \A i \in Cids :
    i > requests => /\ verdict[i] = "none" /\ outcome[i] = "none"
                    /\ got[i] = NoByte
                    /\ i \notin opened /\ i # ursc_cid

(* The request stored in SetUpdatedRsc is not over (but for the call that   *)
(* tells so to the application), and was not refused.                       *)
StoredIsCurrent ==
  ursc_cid # 0 =>
    /\ announced[ursc_cid] = ursc_size
    /\ pc # "ntfy" => outcome[ursc_cid] = "none"
    /\ pc # "ask" => verdict[ursc_cid] \in {OK, INTERNAL_ERROR}
    /\ ursc_connected => ursc_obj # NoRsc /\ ursc_cid \in opened
    /\ ~ursc_connected => got[ursc_cid] = NoByte /\ ursc_cid \notin opened

(* What holds where the thread is in user code, and when nothing is stored. *)
ThreadIsWithin ==
  /\ pc \in {"data", "ntfy"} => ursc_cid # 0 /\ ursc_connected
  /\ pc = "ask" => ursc_cid # 0 /\ asked = ursc_cid /\ ~ursc_connected
                     /\ verdict[ursc_cid] = "none"
  /\ ursc_cid = 0 => ~ursc_connected

Inv ==
  /\ TypeOK
  /\ FutureIsBlank
  /\ StoredIsCurrent
  /\ ThreadIsWithin
  /\ DigestCoversDelivery
  /\ ConnectionHasOwner
  /\ CompletedIsIntact
  /\ RefusedIsNotTransferred

-----------------------------------------------------------------------------
(* The data a step moves about. *)

LEMMA ConstantsTyped ==
  /\ Closed \in Connections
  /\ NoCallback \in Calls
  /\ NoByte \in Bytes
  /\ NoContext \in Bytes
  BY DEF Closed, Connections, NoCallback, Calls, NoByte, NoContext, Bytes

LEMMA RequestTyped ==
  ASSUME NEW req \in Requests
  PROVE  /\ req.fields.rsc \in Rsc \cup {NoRsc}
         /\ req.fields.size \in Nat
         /\ req.fields.uri \in BOOLEAN
         /\ req.fields.md5 \in BOOLEAN
<1>1. CASE req = [fields |-> NoField, form |-> "badId"]
  BY <1>1 DEF NoField
<1>2. CASE req # [fields |-> NoField, form |-> "badId"]
  <2>1. PICK f \in [rsc : Rsc \cup {NoRsc}, size : Sizes, uri : BOOLEAN, md5 : BOOLEAN],
             form \in {"good", "badTail"} : req = [fields |-> f, form |-> form]
    BY <1>2 DEF Requests
  <2>2. req.fields = f
    BY <2>1
  <2>3. QED
    BY <2>2, SizesAssumption
<1>3. QED
  BY <1>1, <1>2

LEMMA CutTyped ==
  ASSUME TypeOK, Cut
  PROVE  http' \in Connections /\ (http'.up => http.up)
<1>1. PICK k \in http.pos .. http.len : http' = [http EXCEPT !.peer = FALSE, !.len = k]
  BY DEF Cut
<1>2. k \in Nat
  BY DEF TypeOK, Connections
<1>3. QED
  BY <1>1, <1>2 DEF TypeOK, Connections

LEMMA CalledTyped ==
  ASSUME TypeOK, NEW n \in Int, Called(n)
  PROVE  cb' \in Calls
<1>1. cb.total + n \in Int /\ (n > 0 => cb.total + n \in Nat)
  BY DEF TypeOK, Calls
<1>2. QED
  BY <1>1 DEF TypeOK, Calls, Called

-----------------------------------------------------------------------------
(* One lemma for each action: it keeps the invariant. *)

LEMMA CycleEnterKeeps ==
  ASSUME Inv, CycleEnter
  PROVE  Inv'
<1>1. TypeOK'
  BY BoundsAssumption DEF Inv, TypeOK, Cids, ThreadIsWithin, CycleEnter, MayLoseSession,
       urscVars, seenVars
<1>2. FutureIsBlank'
  BY BoundsAssumption DEF Inv, TypeOK, Cids, StoredIsCurrent, OK, INTERNAL_ERROR, NoByte,
       ThreadIsWithin, FutureIsBlank, CycleEnter, MayLoseSession, urscVars, seenVars
<1>3. StoredIsCurrent'
  BY BoundsAssumption DEF Inv, TypeOK, Cids, ThreadIsWithin, FutureIsBlank, NoByte,
       StoredIsCurrent, OK, INTERNAL_ERROR, CycleEnter, MayLoseSession, urscVars, seenVars
<1>4. ThreadIsWithin'
  BY BoundsAssumption DEF Inv, TypeOK, Cids, StoredIsCurrent, OK, INTERNAL_ERROR, NoByte,
       FutureIsBlank, ThreadIsWithin, CycleEnter, MayLoseSession, urscVars, seenVars
<1>5. DigestCoversDelivery'
  BY BoundsAssumption DEF Inv, TypeOK, Cids, StoredIsCurrent, OK, INTERNAL_ERROR, NoByte,
       ThreadIsWithin, FutureIsBlank, DigestCoversDelivery, CycleEnter, MayLoseSession,
       urscVars, seenVars
<1>6. ConnectionHasOwner'
  BY BoundsAssumption DEF Inv, TypeOK, Cids, StoredIsCurrent, OK, INTERNAL_ERROR, NoByte,
       ThreadIsWithin, ConnectionHasOwner, InProgress, CycleEnter, MayLoseSession, urscVars,
       seenVars
<1>7. CompletedIsIntact'
  BY BoundsAssumption DEF Inv, TypeOK, Cids, StoredIsCurrent, OK, INTERNAL_ERROR, NoByte,
       ThreadIsWithin, FutureIsBlank, CompletedIsIntact, CycleEnter, MayLoseSession,
       urscVars, seenVars
<1>8. RefusedIsNotTransferred'
  BY BoundsAssumption DEF Inv, TypeOK, Cids, StoredIsCurrent, OK, INTERNAL_ERROR, NoByte,
       ThreadIsWithin, FutureIsBlank, RefusedIsNotTransferred, CycleEnter, MayLoseSession,
       urscVars, seenVars
<1>9. QED
  BY <1>1, <1>2, <1>3, <1>4, <1>5, <1>6, <1>7, <1>8 DEF Inv

LEMMA SessionLostKeeps ==
  ASSUME Inv, SessionLost
  PROVE  Inv'
<1>1. TypeOK'
  BY BoundsAssumption DEF Inv, TypeOK, Cids, ThreadIsWithin, SessionLost, urscVars, seenVars
<1>2. FutureIsBlank'
  BY BoundsAssumption DEF Inv, TypeOK, Cids, StoredIsCurrent, OK, INTERNAL_ERROR, NoByte,
       ThreadIsWithin, FutureIsBlank, SessionLost, urscVars, seenVars
<1>3. StoredIsCurrent'
  BY BoundsAssumption DEF Inv, TypeOK, Cids, ThreadIsWithin, FutureIsBlank, NoByte,
       StoredIsCurrent, OK, INTERNAL_ERROR, SessionLost, urscVars, seenVars
<1>4. ThreadIsWithin'
  BY BoundsAssumption DEF Inv, TypeOK, Cids, StoredIsCurrent, OK, INTERNAL_ERROR, NoByte,
       FutureIsBlank, ThreadIsWithin, SessionLost, urscVars, seenVars
<1>5. DigestCoversDelivery'
  BY BoundsAssumption DEF Inv, TypeOK, Cids, StoredIsCurrent, OK, INTERNAL_ERROR, NoByte,
       ThreadIsWithin, FutureIsBlank, DigestCoversDelivery, SessionLost, urscVars, seenVars
<1>6. ConnectionHasOwner'
  BY BoundsAssumption DEF Inv, TypeOK, Cids, StoredIsCurrent, OK, INTERNAL_ERROR, NoByte,
       ThreadIsWithin, ConnectionHasOwner, InProgress, SessionLost, urscVars, seenVars
<1>7. CompletedIsIntact'
  BY BoundsAssumption DEF Inv, TypeOK, Cids, StoredIsCurrent, OK, INTERNAL_ERROR, NoByte,
       ThreadIsWithin, FutureIsBlank, CompletedIsIntact, SessionLost, urscVars, seenVars
<1>8. RefusedIsNotTransferred'
  BY BoundsAssumption DEF Inv, TypeOK, Cids, StoredIsCurrent, OK, INTERNAL_ERROR, NoByte,
       ThreadIsWithin, FutureIsBlank, RefusedIsNotTransferred, SessionLost, urscVars,
       seenVars
<1>9. QED
  BY <1>1, <1>2, <1>3, <1>4, <1>5, <1>6, <1>7, <1>8 DEF Inv

LEMMA ReconnectKeeps ==
  ASSUME Inv, NEW success \in BOOLEAN, Reconnect(success)
  PROVE  Inv'
<1>1. http' \in Connections /\ (http'.up => http.up)
  BY CutTyped DEF Inv, TypeOK, Reconnect
<1>2. TypeOK'
  BY <1>1, BoundsAssumption DEF Inv, TypeOK, Cids, ThreadIsWithin, Reconnect, Cut, urscVars,
       seenVars
<1>3. FutureIsBlank'
  BY <1>1, BoundsAssumption DEF Inv, TypeOK, Cids, StoredIsCurrent, OK, INTERNAL_ERROR,
       NoByte, ThreadIsWithin, FutureIsBlank, Reconnect, Cut, urscVars, seenVars
<1>4. StoredIsCurrent'
  BY <1>1, BoundsAssumption DEF Inv, TypeOK, Cids, ThreadIsWithin, FutureIsBlank, NoByte,
       StoredIsCurrent, OK, INTERNAL_ERROR, Reconnect, Cut, urscVars, seenVars
<1>5. ThreadIsWithin'
  BY <1>1, BoundsAssumption DEF Inv, TypeOK, Cids, StoredIsCurrent, OK, INTERNAL_ERROR,
       NoByte, FutureIsBlank, ThreadIsWithin, Reconnect, Cut, urscVars, seenVars
<1>6. DigestCoversDelivery'
  BY <1>1, BoundsAssumption DEF Inv, TypeOK, Cids, StoredIsCurrent, OK, INTERNAL_ERROR,
       NoByte, ThreadIsWithin, FutureIsBlank, DigestCoversDelivery, Reconnect, Cut,
       urscVars, seenVars
<1>7. ConnectionHasOwner'
  BY <1>1, BoundsAssumption DEF Inv, TypeOK, Cids, StoredIsCurrent, OK, INTERNAL_ERROR,
       NoByte, ThreadIsWithin, ConnectionHasOwner, InProgress, Reconnect, Cut, urscVars,
       seenVars
<1>8. CompletedIsIntact'
  BY <1>1, BoundsAssumption DEF Inv, TypeOK, Cids, StoredIsCurrent, OK, INTERNAL_ERROR,
       NoByte, ThreadIsWithin, FutureIsBlank, CompletedIsIntact, Reconnect, Cut, urscVars,
       seenVars
<1>9. RefusedIsNotTransferred'
  BY <1>1, BoundsAssumption DEF Inv, TypeOK, Cids, StoredIsCurrent, OK, INTERNAL_ERROR,
       NoByte, ThreadIsWithin, FutureIsBlank, RefusedIsNotTransferred, Reconnect, Cut,
       urscVars, seenVars
<1>10. QED
  BY <1>2, <1>3, <1>4, <1>5, <1>6, <1>7, <1>8, <1>9 DEF Inv

LEMMA ProcessNothingKeeps ==
  ASSUME Inv, ProcessNothing
  PROVE  Inv'
<1>1. TypeOK'
  BY BoundsAssumption DEF Inv, TypeOK, Cids, ThreadIsWithin, ProcessNothing, InProgress,
       urscVars, seenVars
<1>2. FutureIsBlank'
  BY BoundsAssumption DEF Inv, TypeOK, Cids, StoredIsCurrent, OK, INTERNAL_ERROR, NoByte,
       ThreadIsWithin, FutureIsBlank, ProcessNothing, InProgress, urscVars, seenVars
<1>3. StoredIsCurrent'
  BY BoundsAssumption DEF Inv, TypeOK, Cids, ThreadIsWithin, FutureIsBlank, NoByte,
       StoredIsCurrent, OK, INTERNAL_ERROR, ProcessNothing, InProgress, urscVars, seenVars
<1>4. ThreadIsWithin'
  BY BoundsAssumption DEF Inv, TypeOK, Cids, StoredIsCurrent, OK, INTERNAL_ERROR, NoByte,
       FutureIsBlank, ThreadIsWithin, ProcessNothing, InProgress, urscVars, seenVars
<1>5. DigestCoversDelivery'
  BY BoundsAssumption DEF Inv, TypeOK, Cids, StoredIsCurrent, OK, INTERNAL_ERROR, NoByte,
       ThreadIsWithin, FutureIsBlank, DigestCoversDelivery, ProcessNothing, InProgress,
       urscVars, seenVars
<1>6. ConnectionHasOwner'
  BY BoundsAssumption DEF Inv, TypeOK, Cids, StoredIsCurrent, OK, INTERNAL_ERROR, NoByte,
       ThreadIsWithin, ConnectionHasOwner, InProgress, ProcessNothing, urscVars, seenVars
<1>7. CompletedIsIntact'
  BY BoundsAssumption DEF Inv, TypeOK, Cids, StoredIsCurrent, OK, INTERNAL_ERROR, NoByte,
       ThreadIsWithin, FutureIsBlank, CompletedIsIntact, ProcessNothing, InProgress,
       urscVars, seenVars
<1>8. RefusedIsNotTransferred'
  BY BoundsAssumption DEF Inv, TypeOK, Cids, StoredIsCurrent, OK, INTERNAL_ERROR, NoByte,
       ThreadIsWithin, FutureIsBlank, RefusedIsNotTransferred, ProcessNothing, InProgress,
       urscVars, seenVars
<1>9. QED
  BY <1>1, <1>2, <1>3, <1>4, <1>5, <1>6, <1>7, <1>8 DEF Inv

LEMMA StartFailsKeeps ==
  ASSUME Inv, StartFails
  PROVE  Inv'
<1>1. ursc_cid \in Cids /\ ursc_cid # 0
  BY DEF Inv, TypeOK, StartFails, InProgress
<1>2. /\ outcome' \in [Cids -> {"none", "complete", "md5Error", "httpError", "shortData", "aborted"}]
      /\ outcome'[ursc_cid] = "httpError"
      /\ \A i \in Cids \ {ursc_cid} : outcome'[i] = outcome[i]
  BY <1>1 DEF Inv, TypeOK, StartFails
<1>3. http' \in Connections
  BY ConstantsTyped DEF Inv, TypeOK, StartFails
<1>4. TypeOK'
  BY <1>1, <1>2, <1>3, BoundsAssumption DEF Inv, TypeOK, Cids, ThreadIsWithin, StartFails,
       InProgress, Release, MayLoseSession, Closed
<1>5. FutureIsBlank'
  BY <1>1, <1>2, <1>3, BoundsAssumption DEF Inv, TypeOK, Cids, StoredIsCurrent, OK,
       INTERNAL_ERROR, NoByte, ThreadIsWithin, FutureIsBlank, StartFails, InProgress,
       Release, MayLoseSession, Closed
<1>6. StoredIsCurrent'
  BY <1>1, <1>2, <1>3, BoundsAssumption DEF Inv, TypeOK, Cids, ThreadIsWithin,
       FutureIsBlank, NoByte, StoredIsCurrent, OK, INTERNAL_ERROR, StartFails, InProgress,
       Release, MayLoseSession, Closed
<1>7. ThreadIsWithin'
  BY <1>1, <1>2, <1>3, BoundsAssumption DEF Inv, TypeOK, Cids, StoredIsCurrent, OK,
       INTERNAL_ERROR, NoByte, FutureIsBlank, ThreadIsWithin, StartFails, InProgress,
       Release, MayLoseSession, Closed
<1>8. DigestCoversDelivery'
  BY <1>1, <1>2, <1>3, BoundsAssumption DEF Inv, TypeOK, Cids, StoredIsCurrent, OK,
       INTERNAL_ERROR, NoByte, ThreadIsWithin, FutureIsBlank, DigestCoversDelivery,
       StartFails, InProgress, Release, MayLoseSession, Closed
<1>9. ConnectionHasOwner'
  BY <1>1, <1>2, <1>3, BoundsAssumption DEF Inv, TypeOK, Cids, StoredIsCurrent, OK,
       INTERNAL_ERROR, NoByte, ThreadIsWithin, ConnectionHasOwner, InProgress, StartFails,
       Release, MayLoseSession, Closed
<1>10. CompletedIsIntact'
  BY <1>1, <1>2, <1>3, BoundsAssumption DEF Inv, TypeOK, Cids, StoredIsCurrent, OK,
       INTERNAL_ERROR, NoByte, ThreadIsWithin, FutureIsBlank, CompletedIsIntact, StartFails,
       InProgress, Release, MayLoseSession, Closed
<1>11. RefusedIsNotTransferred'
  BY <1>1, <1>2, <1>3, BoundsAssumption DEF Inv, TypeOK, Cids, StoredIsCurrent, OK,
       INTERNAL_ERROR, NoByte, ThreadIsWithin, FutureIsBlank, RefusedIsNotTransferred,
       StartFails, InProgress, Release, MayLoseSession, Closed
<1>12. QED
  BY <1>4, <1>5, <1>6, <1>7, <1>8, <1>9, <1>10, <1>11 DEF Inv

LEMMA StartSucceedsKeeps ==
  ASSUME Inv, StartSucceeds
  PROVE  Inv'
<1>1. ursc_size - ursc_offset \in Nat
  BY DEF Inv, TypeOK, StartSucceeds
<1>2. http' \in Connections
  BY <1>1, BoundsAssumption DEF StartSucceeds, Connections
<1>3. md5_ctx' \in Bytes
  BY ConstantsTyped DEF Inv, TypeOK, StartSucceeds
<1>4. TypeOK'
  BY <1>1, <1>2, <1>3, BoundsAssumption DEF Inv, TypeOK, Cids, ThreadIsWithin,
       StartSucceeds, InProgress, NoByte
<1>5. FutureIsBlank'
  BY <1>1, <1>2, <1>3, BoundsAssumption DEF Inv, TypeOK, Cids, StoredIsCurrent, OK,
       INTERNAL_ERROR, NoByte, ThreadIsWithin, FutureIsBlank, StartSucceeds, InProgress
<1>6. StoredIsCurrent'
  BY <1>1, <1>2, <1>3, BoundsAssumption DEF Inv, TypeOK, Cids, ThreadIsWithin,
       FutureIsBlank, NoByte, StoredIsCurrent, OK, INTERNAL_ERROR, StartSucceeds, InProgress
<1>7. ThreadIsWithin'
  BY <1>1, <1>2, <1>3, BoundsAssumption DEF Inv, TypeOK, Cids, StoredIsCurrent, OK,
       INTERNAL_ERROR, NoByte, FutureIsBlank, ThreadIsWithin, StartSucceeds, InProgress
<1>8. DigestCoversDelivery'
  BY <1>1, <1>2, <1>3, BoundsAssumption DEF Inv, TypeOK, Cids, StoredIsCurrent, OK,
       INTERNAL_ERROR, NoByte, ThreadIsWithin, FutureIsBlank, DigestCoversDelivery,
       StartSucceeds, InProgress
<1>9. ConnectionHasOwner'
  BY <1>1, <1>2, <1>3, BoundsAssumption DEF Inv, TypeOK, Cids, StoredIsCurrent, OK,
       INTERNAL_ERROR, NoByte, ThreadIsWithin, ConnectionHasOwner, InProgress, StartSucceeds
<1>10. CompletedIsIntact'
  BY <1>1, <1>2, <1>3, BoundsAssumption DEF Inv, TypeOK, Cids, StoredIsCurrent, OK,
       INTERNAL_ERROR, NoByte, ThreadIsWithin, FutureIsBlank, CompletedIsIntact,
       StartSucceeds, InProgress
<1>11. RefusedIsNotTransferred'
  BY <1>1, <1>2, <1>3, BoundsAssumption DEF Inv, TypeOK, Cids, StoredIsCurrent, OK,
       INTERNAL_ERROR, NoByte, ThreadIsWithin, FutureIsBlank, RefusedIsNotTransferred,
       StartSucceeds, InProgress
<1>12. QED
  BY <1>4, <1>5, <1>6, <1>7, <1>8, <1>9, <1>10, <1>11 DEF Inv

LEMMA DataCallbackKeeps ==
  ASSUME Inv, DataCallback
  PROVE  Inv'
<1>1. cb' \in Calls
  BY ConstantsTyped DEF DataCallback
<1>2. TypeOK'
  BY <1>1, BoundsAssumption DEF Inv, TypeOK, Cids, ThreadIsWithin, DataCallback, InProgress,
       NoCallback, urscVars, seenVars
<1>3. FutureIsBlank'
  BY <1>1, BoundsAssumption DEF Inv, TypeOK, Cids, StoredIsCurrent, OK, INTERNAL_ERROR,
       NoByte, ThreadIsWithin, FutureIsBlank, DataCallback, InProgress, NoCallback,
       urscVars, seenVars
<1>4. StoredIsCurrent'
  BY <1>1, BoundsAssumption DEF Inv, TypeOK, Cids, ThreadIsWithin, FutureIsBlank, NoByte,
       StoredIsCurrent, OK, INTERNAL_ERROR, DataCallback, InProgress, NoCallback, urscVars,
       seenVars
<1>5. ThreadIsWithin'
  BY <1>1, BoundsAssumption DEF Inv, TypeOK, Cids, StoredIsCurrent, OK, INTERNAL_ERROR,
       NoByte, FutureIsBlank, ThreadIsWithin, DataCallback, InProgress, NoCallback,
       urscVars, seenVars
<1>6. DigestCoversDelivery'
  BY <1>1, BoundsAssumption DEF Inv, TypeOK, Cids, StoredIsCurrent, OK, INTERNAL_ERROR,
       NoByte, ThreadIsWithin, FutureIsBlank, DigestCoversDelivery, DataCallback,
       InProgress, NoCallback, urscVars, seenVars
<1>7. ConnectionHasOwner'
  BY <1>1, BoundsAssumption DEF Inv, TypeOK, Cids, StoredIsCurrent, OK, INTERNAL_ERROR,
       NoByte, ThreadIsWithin, ConnectionHasOwner, InProgress, DataCallback, NoCallback,
       urscVars, seenVars
<1>8. CompletedIsIntact'
  BY <1>1, BoundsAssumption DEF Inv, TypeOK, Cids, StoredIsCurrent, OK, INTERNAL_ERROR,
       NoByte, ThreadIsWithin, FutureIsBlank, CompletedIsIntact, DataCallback, InProgress,
       NoCallback, urscVars, seenVars
<1>9. RefusedIsNotTransferred'
  BY <1>1, BoundsAssumption DEF Inv, TypeOK, Cids, StoredIsCurrent, OK, INTERNAL_ERROR,
       NoByte, ThreadIsWithin, FutureIsBlank, RefusedIsNotTransferred, DataCallback,
       InProgress, NoCallback, urscVars, seenVars
<1>10. QED
  BY <1>2, <1>3, <1>4, <1>5, <1>6, <1>7, <1>8, <1>9 DEF Inv

LEMMA GetBytesKeeps ==
  ASSUME Inv, NEW k \in 1 .. Left, GetBytes(k)
  PROVE  Inv'
<1>1. k \in Nat /\ k > 0 /\ ursc_cid \in Cids
  BY DEF Inv, TypeOK, ThreadIsWithin, GetBytes, Left, Connections
<1>2. /\ got' \in [Cids -> Bytes]
      /\ got'[ursc_cid] = [n |-> got[ursc_cid].n + k,
                           good |-> got[ursc_cid].good /\ IntactPiece(k)]
      /\ \A i \in Cids \ {ursc_cid} : got'[i] = got[i]
  BY <1>1 DEF Inv, TypeOK, GetBytes, Bytes, IntactPiece
<1>3. md5_ctx' = [n |-> md5_ctx.n + k, good |-> md5_ctx.good /\ IntactPiece(k)]
      /\ md5_ctx' \in Bytes
  BY <1>1 DEF Inv, TypeOK, GetBytes, Bytes, IntactPiece
<1>4. http' \in Connections /\ http'.up
  BY <1>1 DEF Inv, TypeOK, GetBytes, Connections
<1>5. cb' \in Calls
  BY <1>1, CalledTyped DEF Inv, GetBytes
<1>6. TypeOK'
  BY <1>1, <1>2, <1>3, <1>4, <1>5, BoundsAssumption, SMTT(40) DEF Inv, TypeOK, Cids, ThreadIsWithin,
       GetBytes
<1>7. FutureIsBlank'
  BY <1>1, <1>2, <1>3, <1>4, <1>5, BoundsAssumption DEF Inv, TypeOK, Cids, StoredIsCurrent,
       OK, INTERNAL_ERROR, NoByte, ThreadIsWithin, FutureIsBlank, GetBytes, Left,
       IntactPiece, Called
<1>8. StoredIsCurrent'
  BY <1>1, <1>2, <1>3, <1>4, <1>5, BoundsAssumption DEF Inv, TypeOK, Cids, ThreadIsWithin,
       FutureIsBlank, NoByte, StoredIsCurrent, OK, INTERNAL_ERROR, GetBytes, Left,
       IntactPiece, Called
<1>9. ThreadIsWithin'
  BY <1>1, <1>2, <1>3, <1>4, <1>5, BoundsAssumption DEF Inv, TypeOK, Cids, StoredIsCurrent,
       OK, INTERNAL_ERROR, NoByte, FutureIsBlank, ThreadIsWithin, GetBytes, Left,
       IntactPiece, Called
<1>10. DigestCoversDelivery'
  BY <1>1, <1>2, <1>3, <1>4, <1>5, BoundsAssumption DEF Inv, TypeOK, Cids, StoredIsCurrent,
       OK, INTERNAL_ERROR, NoByte, ThreadIsWithin, FutureIsBlank, DigestCoversDelivery,
       GetBytes, Left, IntactPiece, Called
<1>11. ConnectionHasOwner'
  BY <1>1, <1>2, <1>3, <1>4, <1>5, BoundsAssumption DEF Inv, TypeOK, Cids, StoredIsCurrent,
       OK, INTERNAL_ERROR, NoByte, ThreadIsWithin, ConnectionHasOwner, InProgress, GetBytes,
       Left, IntactPiece, Called
<1>12. CompletedIsIntact'
  BY <1>1, <1>2, <1>3, <1>4, <1>5, BoundsAssumption DEF Inv, TypeOK, Cids, StoredIsCurrent,
       OK, INTERNAL_ERROR, NoByte, ThreadIsWithin, FutureIsBlank, CompletedIsIntact,
       GetBytes, Left, IntactPiece, Called
<1>13. RefusedIsNotTransferred'
  BY <1>1, <1>2, <1>3, <1>4, <1>5, BoundsAssumption DEF Inv, TypeOK, Cids, StoredIsCurrent,
       OK, INTERNAL_ERROR, NoByte, ThreadIsWithin, FutureIsBlank, RefusedIsNotTransferred,
       GetBytes, Left, IntactPiece, Called
<1>14. QED
  BY <1>6, <1>7, <1>8, <1>9, <1>10, <1>11, <1>12, <1>13 DEF Inv

LEMMA GetNothingKeeps ==
  ASSUME Inv, GetNothing
  PROVE  Inv'
<1>1. cb' \in Calls
  BY CalledTyped DEF Inv, GetNothing
<1>2. TypeOK'
  BY <1>1, BoundsAssumption DEF Inv, TypeOK, Cids, ThreadIsWithin, GetNothing, Called, Left,
       urscVars, seenVars
<1>3. FutureIsBlank'
  BY <1>1, BoundsAssumption DEF Inv, TypeOK, Cids, StoredIsCurrent, OK, INTERNAL_ERROR,
       NoByte, ThreadIsWithin, FutureIsBlank, GetNothing, Called, Left, urscVars, seenVars
<1>4. StoredIsCurrent'
  BY <1>1, BoundsAssumption DEF Inv, TypeOK, Cids, ThreadIsWithin, FutureIsBlank, NoByte,
       StoredIsCurrent, OK, INTERNAL_ERROR, GetNothing, Called, Left, urscVars, seenVars
<1>5. ThreadIsWithin'
  BY <1>1, BoundsAssumption DEF Inv, TypeOK, Cids, StoredIsCurrent, OK, INTERNAL_ERROR,
       NoByte, FutureIsBlank, ThreadIsWithin, GetNothing, Called, Left, urscVars, seenVars
<1>6. DigestCoversDelivery'
  BY <1>1, BoundsAssumption DEF Inv, TypeOK, Cids, StoredIsCurrent, OK, INTERNAL_ERROR,
       NoByte, ThreadIsWithin, FutureIsBlank, DigestCoversDelivery, GetNothing, Called,
       Left, urscVars, seenVars
<1>7. ConnectionHasOwner'
  BY <1>1, BoundsAssumption DEF Inv, TypeOK, Cids, StoredIsCurrent, OK, INTERNAL_ERROR,
       NoByte, ThreadIsWithin, ConnectionHasOwner, InProgress, GetNothing, Called, Left,
       urscVars, seenVars
<1>8. CompletedIsIntact'
  BY <1>1, BoundsAssumption DEF Inv, TypeOK, Cids, StoredIsCurrent, OK, INTERNAL_ERROR,
       NoByte, ThreadIsWithin, FutureIsBlank, CompletedIsIntact, GetNothing, Called, Left,
       urscVars, seenVars
<1>9. RefusedIsNotTransferred'
  BY <1>1, BoundsAssumption DEF Inv, TypeOK, Cids, StoredIsCurrent, OK, INTERNAL_ERROR,
       NoByte, ThreadIsWithin, FutureIsBlank, RefusedIsNotTransferred, GetNothing, Called,
       Left, urscVars, seenVars
<1>10. QED
  BY <1>2, <1>3, <1>4, <1>5, <1>6, <1>7, <1>8, <1>9 DEF Inv

LEMMA GetOtherKeeps ==
  ASSUME Inv, GetOther
  PROVE  Inv'
<1>1. cb' \in Calls
  BY CalledTyped DEF Inv, GetOther
<1>2. http' \in Connections /\ ~http'.up
  BY ConstantsTyped DEF GetOther, Closed
<1>3. TypeOK'
  BY <1>1, <1>2, BoundsAssumption DEF Inv, TypeOK, Cids, ThreadIsWithin, GetOther, Closed,
       Called, urscVars, seenVars
<1>4. FutureIsBlank'
  BY <1>1, <1>2, BoundsAssumption DEF Inv, TypeOK, Cids, StoredIsCurrent, OK,
       INTERNAL_ERROR, NoByte, ThreadIsWithin, FutureIsBlank, GetOther, Closed, Called,
       urscVars, seenVars
<1>5. StoredIsCurrent'
  BY <1>1, <1>2, BoundsAssumption DEF Inv, TypeOK, Cids, ThreadIsWithin, FutureIsBlank,
       NoByte, StoredIsCurrent, OK, INTERNAL_ERROR, GetOther, Closed, Called, urscVars,
       seenVars
<1>6. ThreadIsWithin'
  BY <1>1, <1>2, BoundsAssumption DEF Inv, TypeOK, Cids, StoredIsCurrent, OK,
       INTERNAL_ERROR, NoByte, FutureIsBlank, ThreadIsWithin, GetOther, Closed, Called,
       urscVars, seenVars
<1>7. DigestCoversDelivery'
  BY <1>1, <1>2, BoundsAssumption DEF Inv, TypeOK, Cids, StoredIsCurrent, OK,
       INTERNAL_ERROR, NoByte, ThreadIsWithin, FutureIsBlank, DigestCoversDelivery,
       GetOther, Closed, Called, urscVars, seenVars
<1>8. ConnectionHasOwner'
  BY <1>1, <1>2, BoundsAssumption DEF Inv, TypeOK, Cids, StoredIsCurrent, OK,
       INTERNAL_ERROR, NoByte, ThreadIsWithin, ConnectionHasOwner, InProgress, GetOther,
       Closed, Called, urscVars, seenVars
<1>9. CompletedIsIntact'
  BY <1>1, <1>2, BoundsAssumption DEF Inv, TypeOK, Cids, StoredIsCurrent, OK,
       INTERNAL_ERROR, NoByte, ThreadIsWithin, FutureIsBlank, CompletedIsIntact, GetOther,
       Closed, Called, urscVars, seenVars
<1>10. RefusedIsNotTransferred'
  BY <1>1, <1>2, BoundsAssumption DEF Inv, TypeOK, Cids, StoredIsCurrent, OK,
       INTERNAL_ERROR, NoByte, ThreadIsWithin, FutureIsBlank, RefusedIsNotTransferred,
       GetOther, Closed, Called, urscVars, seenVars
<1>11. QED
  BY <1>3, <1>4, <1>5, <1>6, <1>7, <1>8, <1>9, <1>10 DEF Inv

LEMMA ServerClosesKeeps ==
  ASSUME Inv, ServerCloses
  PROVE  Inv'
<1>1. http' \in Connections /\ (http'.up => http.up)
  BY CutTyped DEF Inv, ServerCloses
<1>2. TypeOK'
  BY <1>1, BoundsAssumption DEF Inv, TypeOK, Cids, ThreadIsWithin, ServerCloses, Cut,
       urscVars, seenVars
<1>3. FutureIsBlank'
  BY <1>1, BoundsAssumption DEF Inv, TypeOK, Cids, StoredIsCurrent, OK, INTERNAL_ERROR,
       NoByte, ThreadIsWithin, FutureIsBlank, ServerCloses, Cut, urscVars, seenVars
<1>4. StoredIsCurrent'
  BY <1>1, BoundsAssumption DEF Inv, TypeOK, Cids, ThreadIsWithin, FutureIsBlank, NoByte,
       StoredIsCurrent, OK, INTERNAL_ERROR, ServerCloses, Cut, urscVars, seenVars
<1>5. ThreadIsWithin'
  BY <1>1, BoundsAssumption DEF Inv, TypeOK, Cids, StoredIsCurrent, OK, INTERNAL_ERROR,
       NoByte, FutureIsBlank, ThreadIsWithin, ServerCloses, Cut, urscVars, seenVars
<1>6. DigestCoversDelivery'
  BY <1>1, BoundsAssumption DEF Inv, TypeOK, Cids, StoredIsCurrent, OK, INTERNAL_ERROR,
       NoByte, ThreadIsWithin, FutureIsBlank, DigestCoversDelivery, ServerCloses, Cut,
       urscVars, seenVars
<1>7. ConnectionHasOwner'
  BY <1>1, BoundsAssumption DEF Inv, TypeOK, Cids, StoredIsCurrent, OK, INTERNAL_ERROR,
       NoByte, ThreadIsWithin, ConnectionHasOwner, InProgress, ServerCloses, Cut, urscVars,
       seenVars
<1>8. CompletedIsIntact'
  BY <1>1, BoundsAssumption DEF Inv, TypeOK, Cids, StoredIsCurrent, OK, INTERNAL_ERROR,
       NoByte, ThreadIsWithin, FutureIsBlank, CompletedIsIntact, ServerCloses, Cut,
       urscVars, seenVars
<1>9. RefusedIsNotTransferred'
  BY <1>1, BoundsAssumption DEF Inv, TypeOK, Cids, StoredIsCurrent, OK, INTERNAL_ERROR,
       NoByte, ThreadIsWithin, FutureIsBlank, RefusedIsNotTransferred, ServerCloses, Cut,
       urscVars, seenVars
<1>10. QED
  BY <1>2, <1>3, <1>4, <1>5, <1>6, <1>7, <1>8, <1>9 DEF Inv

LEMMA CallbackGoesOnKeeps ==
  ASSUME Inv, CallbackGoesOn
  PROVE  Inv'
<1>1. ursc_cid \in Cids
  BY DEF Inv, TypeOK, ThreadIsWithin, CallbackGoesOn
<1>2. cb' \in Calls
  BY ConstantsTyped DEF CallbackGoesOn
<1>3. failing' \in SUBSET Cids
  BY <1>1 DEF Inv, TypeOK, CallbackGoesOn, NoteError
<1>4. TypeOK'
  BY <1>1, <1>2, <1>3, BoundsAssumption DEF Inv, TypeOK, Cids, ThreadIsWithin,
       CallbackGoesOn, Results, NoteError, NoCallback, urscVars
<1>5. FutureIsBlank'
  BY <1>1, <1>2, <1>3, BoundsAssumption DEF Inv, TypeOK, Cids, StoredIsCurrent, OK,
       INTERNAL_ERROR, NoByte, ThreadIsWithin, FutureIsBlank, CallbackGoesOn, Results,
       NoteError, NoCallback, urscVars
<1>6. StoredIsCurrent'
  BY <1>1, <1>2, <1>3, BoundsAssumption DEF Inv, TypeOK, Cids, ThreadIsWithin,
       FutureIsBlank, NoByte, StoredIsCurrent, OK, INTERNAL_ERROR, CallbackGoesOn, Results,
       NoteError, NoCallback, urscVars
<1>7. ThreadIsWithin'
  BY <1>1, <1>2, <1>3, BoundsAssumption DEF Inv, TypeOK, Cids, StoredIsCurrent, OK,
       INTERNAL_ERROR, NoByte, FutureIsBlank, ThreadIsWithin, CallbackGoesOn, Results,
       NoteError, NoCallback, urscVars
<1>8. DigestCoversDelivery'
  BY <1>1, <1>2, <1>3, BoundsAssumption DEF Inv, TypeOK, Cids, StoredIsCurrent, OK,
       INTERNAL_ERROR, NoByte, ThreadIsWithin, FutureIsBlank, DigestCoversDelivery,
       CallbackGoesOn, Results, NoteError, NoCallback, urscVars
<1>9. ConnectionHasOwner'
  BY <1>1, <1>2, <1>3, BoundsAssumption DEF Inv, TypeOK, Cids, StoredIsCurrent, OK,
       INTERNAL_ERROR, NoByte, ThreadIsWithin, ConnectionHasOwner, InProgress,
       CallbackGoesOn, Results, NoteError, NoCallback, urscVars
<1>10. CompletedIsIntact'
  BY <1>1, <1>2, <1>3, BoundsAssumption DEF Inv, TypeOK, Cids, StoredIsCurrent, OK,
       INTERNAL_ERROR, NoByte, ThreadIsWithin, FutureIsBlank, CompletedIsIntact,
       CallbackGoesOn, Results, NoteError, NoCallback, urscVars
<1>11. RefusedIsNotTransferred'
  BY <1>1, <1>2, <1>3, BoundsAssumption DEF Inv, TypeOK, Cids, StoredIsCurrent, OK,
       INTERNAL_ERROR, NoByte, ThreadIsWithin, FutureIsBlank, RefusedIsNotTransferred,
       CallbackGoesOn, Results, NoteError, NoCallback, urscVars
<1>12. QED
  BY <1>4, <1>5, <1>6, <1>7, <1>8, <1>9, <1>10, <1>11 DEF Inv

LEMMA CallbackStopsKeeps ==
  ASSUME Inv, CallbackStops
  PROVE  Inv'
<1>1. ursc_cid \in Cids /\ outcome[ursc_cid] = "none"
  BY DEF Inv, TypeOK, ThreadIsWithin, StoredIsCurrent, CallbackStops
<1>2. cb' \in Calls /\ http' \in Connections /\ ~http'.up
  BY ConstantsTyped DEF CallbackStops, Closed
<1>3. failing' \in SUBSET Cids
  BY <1>1 DEF Inv, TypeOK, CallbackStops, NoteError
<1>4. PICK how \in {"shortData", "aborted"} : outcome' = [outcome EXCEPT ![ursc_cid] = how]
  BY DEF CallbackStops
<1>5. report' \in [Cids -> {"none", "rsc", "err"}] /\ session' \in BOOLEAN
  BY <1>1 DEF Inv, TypeOK, CallbackStops, MayLoseSession
<1>6. /\ outcome' \in [Cids -> {"none", "complete", "md5Error", "httpError", "shortData", "aborted"}]
      /\ outcome'[ursc_cid] # "complete"
      /\ \A i \in Cids \ {ursc_cid} : outcome'[i] = outcome[i]
  BY <1>1, <1>4 DEF Inv, TypeOK
<1>7. TypeOK'
  BY <1>1, <1>2, <1>3, <1>4, <1>5, <1>6, BoundsAssumption DEF Inv, TypeOK, Cids,
       ThreadIsWithin, CallbackStops, Results, NoteError, MayLoseSession, NoCallback,
       Closed, Release
<1>8. FutureIsBlank'
  BY <1>1, <1>2, <1>3, <1>4, <1>5, <1>6, BoundsAssumption DEF Inv, TypeOK, Cids,
       StoredIsCurrent, OK, INTERNAL_ERROR, NoByte, ThreadIsWithin, FutureIsBlank,
       CallbackStops, Results, NoteError, MayLoseSession, NoCallback, Closed, Release
<1>9. StoredIsCurrent'
  BY <1>1, <1>2, <1>3, <1>4, <1>5, <1>6, BoundsAssumption DEF Inv, TypeOK, Cids,
       ThreadIsWithin, FutureIsBlank, NoByte, StoredIsCurrent, OK, INTERNAL_ERROR,
       CallbackStops, Results, NoteError, MayLoseSession, NoCallback, Closed, Release
<1>10. ThreadIsWithin'
  BY <1>1, <1>2, <1>3, <1>4, <1>5, <1>6, BoundsAssumption DEF Inv, TypeOK, Cids,
       StoredIsCurrent, OK, INTERNAL_ERROR, NoByte, FutureIsBlank, ThreadIsWithin,
       CallbackStops, Results, NoteError, MayLoseSession, NoCallback, Closed, Release
<1>11. DigestCoversDelivery'
  BY <1>1, <1>2, <1>3, <1>4, <1>5, <1>6, BoundsAssumption DEF Inv, TypeOK, Cids,
       StoredIsCurrent, OK, INTERNAL_ERROR, NoByte, ThreadIsWithin, FutureIsBlank,
       DigestCoversDelivery, CallbackStops, Results, NoteError, MayLoseSession, NoCallback,
       Closed, Release
<1>12. ConnectionHasOwner'
  BY <1>1, <1>2, <1>3, <1>4, <1>5, <1>6, BoundsAssumption DEF Inv, TypeOK, Cids,
       StoredIsCurrent, OK, INTERNAL_ERROR, NoByte, ThreadIsWithin, ConnectionHasOwner,
       InProgress, CallbackStops, Results, NoteError, MayLoseSession, NoCallback, Closed,
       Release
<1>13. CompletedIsIntact'
  BY <1>1, <1>2, <1>3, <1>4, <1>5, <1>6, BoundsAssumption DEF Inv, TypeOK, Cids,
       StoredIsCurrent, OK, INTERNAL_ERROR, NoByte, ThreadIsWithin, FutureIsBlank,
       CompletedIsIntact, CallbackStops, Results, NoteError, MayLoseSession, NoCallback,
       Closed, Release
<1>14. RefusedIsNotTransferred'
  BY <1>1, <1>2, <1>3, <1>4, <1>5, <1>6, BoundsAssumption DEF Inv, TypeOK, Cids,
       StoredIsCurrent, OK, INTERNAL_ERROR, NoByte, ThreadIsWithin, FutureIsBlank,
       RefusedIsNotTransferred, CallbackStops, Results, NoteError, MayLoseSession,
       NoCallback, Closed, Release
<1>15. QED
  BY <1>7, <1>8, <1>9, <1>10, <1>11, <1>12, <1>13, <1>14 DEF Inv

LEMMA CallbackCompletesKeeps ==
  ASSUME Inv, CallbackCompletes
  PROVE  Inv'
<1>1. ursc_cid \in Cids /\ outcome[ursc_cid] = "none" /\ ursc_connected
  BY DEF Inv, TypeOK, ThreadIsWithin, StoredIsCurrent, CallbackCompletes
<1>2. cb' \in Calls
  BY ConstantsTyped DEF CallbackCompletes
<1>3. failing' \in SUBSET Cids
  BY <1>1 DEF Inv, TypeOK, CallbackCompletes, NoteError
<1>4. outcome' = [outcome EXCEPT ![ursc_cid] = Outcome(DigestState)]
  BY DEF CallbackCompletes
<1>5. Outcome(DigestState) \in {"complete", "md5Error"}
  BY DEF Outcome
<1>6. Outcome(DigestState) = "complete" => md5_ctx = [n |-> ursc_size, good |-> TRUE]
  BY DEF Outcome, DigestState
<1>7. got[ursc_cid] = md5_ctx /\ announced[ursc_cid] = ursc_size
  BY <1>1 DEF Inv, TypeOK, StoredIsCurrent, DigestCoversDelivery, Cids
<1>8. /\ outcome' \in [Cids -> {"none", "complete", "md5Error", "httpError", "shortData", "aborted"}]
      /\ outcome'[ursc_cid] = "complete" => got[ursc_cid] = [n |-> announced[ursc_cid], good |-> TRUE]
      /\ \A i \in Cids \ {ursc_cid} : outcome'[i] = outcome[i]
  BY <1>1, <1>4, <1>5, <1>6, <1>7 DEF Inv, TypeOK
<1>9. http' \in Connections /\ DigestState \in 0 .. 2
  BY ConstantsTyped DEF Inv, TypeOK, CallbackCompletes, DigestState
<1>10. \/ /\ pc' = "ntfy" /\ ntfy' \in 0 .. 2
         /\ UNCHANGED <<urscVars, http>>
      \/ /\ pc' = "yield" /\ ntfy' = ntfy /\ http' = Closed /\ Release
  BY <1>9 DEF CallbackCompletes
<1>11. UNCHANGED <<session, asked, requests, announced, verdict, answer, accepted, opened, got,
                  report>>
  BY DEF CallbackCompletes
<1>12. TypeOK'
  BY <1>1, <1>2, <1>3, <1>4, <1>5, <1>6, <1>7, <1>8, <1>9, <1>10, <1>11, BoundsAssumption DEF
       Inv, TypeOK, Cids, ThreadIsWithin, urscVars, Release
<1>13. FutureIsBlank'
  <2>1. \A i \in Cids : i > requests => i # ursc_cid /\ i # 0
    BY BoundsAssumption DEF Inv, FutureIsBlank, Cids
  <2>2. ursc_cid' \in {ursc_cid, 0}
    BY <1>10 DEF urscVars, Release
  <2>3. QED
    BY <1>8, <1>11, <2>1, <2>2 DEF Inv, FutureIsBlank
<1>14. StoredIsCurrent'
  BY <1>1, <1>2, <1>3, <1>4, <1>5, <1>6, <1>7, <1>8, <1>9, <1>10, <1>11, BoundsAssumption DEF
       Inv, TypeOK, Cids, ThreadIsWithin, FutureIsBlank, NoByte, StoredIsCurrent, OK,
       INTERNAL_ERROR, urscVars, Release
<1>15. ThreadIsWithin'
  BY <1>1, <1>2, <1>3, <1>4, <1>5, <1>6, <1>7, <1>8, <1>9, <1>10, <1>11, BoundsAssumption DEF
       Inv, TypeOK, Cids, StoredIsCurrent, OK, INTERNAL_ERROR, NoByte, FutureIsBlank,
       ThreadIsWithin, urscVars, Release
<1>16. DigestCoversDelivery'
  BY <1>1, <1>2, <1>3, <1>4, <1>5, <1>6, <1>7, <1>8, <1>9, <1>10, <1>11, BoundsAssumption DEF
       Inv, TypeOK, Cids, StoredIsCurrent, OK, INTERNAL_ERROR, NoByte, ThreadIsWithin,
       FutureIsBlank, DigestCoversDelivery, urscVars, Release
<1>17. ConnectionHasOwner'
  <2>1. CASE UNCHANGED <<urscVars, http>>
    BY <1>11, <2>1 DEF Inv, ConnectionHasOwner, InProgress, urscVars
  <2>2. CASE http' = Closed
    BY <2>2 DEF ConnectionHasOwner, Closed
  <2>3. QED
    BY <1>10, <2>1, <2>2
<1>18. CompletedIsIntact'
  BY <1>1, <1>2, <1>3, <1>4, <1>5, <1>6, <1>7, <1>8, <1>9, <1>10, <1>11, BoundsAssumption DEF
       Inv, TypeOK, Cids, StoredIsCurrent, OK, INTERNAL_ERROR, NoByte, ThreadIsWithin,
       FutureIsBlank, CompletedIsIntact, urscVars, Release
<1>19. RefusedIsNotTransferred'
  BY <1>1, <1>2, <1>3, <1>4, <1>5, <1>6, <1>7, <1>8, <1>9, <1>10, <1>11, BoundsAssumption DEF
       Inv, TypeOK, Cids, StoredIsCurrent, OK, INTERNAL_ERROR, NoByte, ThreadIsWithin,
       FutureIsBlank, RefusedIsNotTransferred, urscVars, Release
<1>20. QED
  BY <1>12, <1>13, <1>14, <1>15, <1>16, <1>17, <1>18, <1>19 DEF Inv

LEMMA CompletionNotifiedKeeps ==
  ASSUME Inv, CompletionNotified
  PROVE  Inv'
<1>1. ursc_cid \in Cids
  BY DEF Inv, TypeOK, ThreadIsWithin, CompletionNotified
<1>2. http' \in Connections /\ ~http'.up
  BY ConstantsTyped DEF CompletionNotified, Closed
<1>3. report' \in [Cids -> {"none", "rsc", "err"}]
  BY <1>1 DEF Inv, TypeOK, CompletionNotified
<1>4. session' \in BOOLEAN
  BY DEF Inv, TypeOK, CompletionNotified, MayLoseSession
<1>5. TypeOK'
  <2>1. /\ pc' = "yield" /\ ntfy' \in 0 .. 2 /\ Release
        /\ UNCHANGED <<cb, asked, requests, announced, verdict, answer, accepted, opened, got,
                       failing, outcome>>
    BY DEF CompletionNotified
  <2>2. QED
    BY <1>2, <1>3, <1>4, <2>1 DEF Inv, TypeOK, Release
<1>6. FutureIsBlank'
  BY <1>1, <1>2, <1>3, <1>4, BoundsAssumption DEF Inv, TypeOK, Cids, StoredIsCurrent, OK,
       INTERNAL_ERROR, NoByte, ThreadIsWithin, FutureIsBlank, CompletionNotified, Codes,
       MayLoseSession, Closed, Release, WRONG_SOURCE_VERSION, INVALID_RESOURCE,
       NOT_AUTHORIZED
<1>7. StoredIsCurrent'
  BY <1>1, <1>2, <1>3, <1>4, BoundsAssumption DEF Inv, TypeOK, Cids, ThreadIsWithin,
       FutureIsBlank, NoByte, StoredIsCurrent, OK, INTERNAL_ERROR, CompletionNotified,
       Codes, MayLoseSession, Closed, Release, WRONG_SOURCE_VERSION, INVALID_RESOURCE,
       NOT_AUTHORIZED
<1>8. ThreadIsWithin'
  BY <1>1, <1>2, <1>3, <1>4, BoundsAssumption DEF Inv, TypeOK, Cids, StoredIsCurrent, OK,
       INTERNAL_ERROR, NoByte, FutureIsBlank, ThreadIsWithin, CompletionNotified, Codes,
       MayLoseSession, Closed, Release, WRONG_SOURCE_VERSION, INVALID_RESOURCE,
       NOT_AUTHORIZED
<1>9. DigestCoversDelivery'
  BY <1>1, <1>2, <1>3, <1>4, BoundsAssumption DEF Inv, TypeOK, Cids, StoredIsCurrent, OK,
       INTERNAL_ERROR, NoByte, ThreadIsWithin, FutureIsBlank, DigestCoversDelivery,
       CompletionNotified, Codes, MayLoseSession, Closed, Release, WRONG_SOURCE_VERSION,
       INVALID_RESOURCE, NOT_AUTHORIZED
<1>10. ConnectionHasOwner'
  BY <1>1, <1>2, <1>3, <1>4, BoundsAssumption DEF Inv, TypeOK, Cids, StoredIsCurrent, OK,
       INTERNAL_ERROR, NoByte, ThreadIsWithin, ConnectionHasOwner, InProgress,
       CompletionNotified, Codes, MayLoseSession, Closed, Release, WRONG_SOURCE_VERSION,
       INVALID_RESOURCE, NOT_AUTHORIZED
<1>11. CompletedIsIntact'
  BY <1>1, <1>2, <1>3, <1>4, BoundsAssumption DEF Inv, TypeOK, Cids, StoredIsCurrent, OK,
       INTERNAL_ERROR, NoByte, ThreadIsWithin, FutureIsBlank, CompletedIsIntact,
       CompletionNotified, Codes, MayLoseSession, Closed, Release, WRONG_SOURCE_VERSION,
       INVALID_RESOURCE, NOT_AUTHORIZED
<1>12. RefusedIsNotTransferred'
  BY <1>1, <1>2, <1>3, <1>4, BoundsAssumption DEF Inv, TypeOK, Cids, StoredIsCurrent, OK,
       INTERNAL_ERROR, NoByte, ThreadIsWithin, FutureIsBlank, RefusedIsNotTransferred,
       CompletionNotified, Codes, MayLoseSession, Closed, Release, WRONG_SOURCE_VERSION,
       INVALID_RESOURCE, NOT_AUTHORIZED
<1>13. QED
  BY <1>5, <1>6, <1>7, <1>8, <1>9, <1>10, <1>11, <1>12 DEF Inv

LEMMA RequestWhileBusyKeeps ==
  ASSUME Inv, RequestWhileBusy
  PROVE  Inv'
<1>1. session' \in BOOLEAN
  BY DEF Inv, TypeOK, RequestWhileBusy, Answer, MayLoseSession
<1>2. /\ requests + 1 \in Cids /\ requests + 1 \in 0 .. MaxRequests
      /\ ursc_cid # requests + 1
  BY BoundsAssumption DEF Inv, TypeOK, FutureIsBlank, RequestWhileBusy, Cids
<1>3. /\ verdict' \in [Cids -> Codes \cup {"none"}] /\ answer' \in [Cids -> Names \cup {"none"}]
      /\ \A i \in Cids : i # requests + 1 => verdict'[i] = verdict[i]
  BY <1>2 DEF Inv, TypeOK, RequestWhileBusy, Answer, Codes, Names
<1>4. TypeOK'
  BY <1>1, <1>2, <1>3, BoundsAssumption DEF Inv, TypeOK, Cids, ThreadIsWithin,
       RequestWhileBusy, Answer, urscVars, MayLoseSession
<1>5. FutureIsBlank'
  BY <1>1, <1>2, <1>3, BoundsAssumption DEF Inv, TypeOK, Cids, StoredIsCurrent, OK,
       INTERNAL_ERROR, NoByte, ThreadIsWithin, FutureIsBlank, RequestWhileBusy, Answer,
       NOT_AUTHORIZED, urscVars, ResultName, MayLoseSession, WRONG_SOURCE_VERSION,
       INVALID_RESOURCE
<1>6. StoredIsCurrent'
  BY <1>1, <1>2, <1>3, BoundsAssumption DEF Inv, TypeOK, Cids, ThreadIsWithin,
       FutureIsBlank, NoByte, StoredIsCurrent, OK, INTERNAL_ERROR, RequestWhileBusy, Answer,
       NOT_AUTHORIZED, urscVars, ResultName, MayLoseSession, WRONG_SOURCE_VERSION,
       INVALID_RESOURCE
<1>7. ThreadIsWithin'
  BY <1>1, <1>2, <1>3, BoundsAssumption DEF Inv, TypeOK, Cids, StoredIsCurrent, OK,
       INTERNAL_ERROR, NoByte, FutureIsBlank, ThreadIsWithin, RequestWhileBusy, Answer,
       NOT_AUTHORIZED, urscVars, ResultName, MayLoseSession, WRONG_SOURCE_VERSION,
       INVALID_RESOURCE
<1>8. DigestCoversDelivery'
  BY <1>1, <1>2, <1>3, BoundsAssumption DEF Inv, TypeOK, Cids, StoredIsCurrent, OK,
       INTERNAL_ERROR, NoByte, ThreadIsWithin, FutureIsBlank, DigestCoversDelivery,
       RequestWhileBusy, Answer, NOT_AUTHORIZED, urscVars, ResultName, MayLoseSession,
       WRONG_SOURCE_VERSION, INVALID_RESOURCE
<1>9. ConnectionHasOwner'
  BY <1>1, <1>2, <1>3, BoundsAssumption DEF Inv, TypeOK, Cids, StoredIsCurrent, OK,
       INTERNAL_ERROR, NoByte, ThreadIsWithin, ConnectionHasOwner, InProgress,
       RequestWhileBusy, Answer, NOT_AUTHORIZED, urscVars, ResultName, MayLoseSession,
       WRONG_SOURCE_VERSION, INVALID_RESOURCE
<1>10. CompletedIsIntact'
  BY <1>1, <1>2, <1>3, BoundsAssumption DEF Inv, TypeOK, Cids, StoredIsCurrent, OK,
       INTERNAL_ERROR, NoByte, ThreadIsWithin, FutureIsBlank, CompletedIsIntact,
       RequestWhileBusy, Answer, NOT_AUTHORIZED, urscVars, ResultName, MayLoseSession,
       WRONG_SOURCE_VERSION, INVALID_RESOURCE
<1>11. RefusedIsNotTransferred'
  BY <1>1, <1>2, <1>3, BoundsAssumption, SMTT(40) DEF Inv, TypeOK, Cids, StoredIsCurrent, OK,
       INTERNAL_ERROR, NoByte, ThreadIsWithin, FutureIsBlank, RefusedIsNotTransferred,
       RequestWhileBusy, Answer, NOT_AUTHORIZED, urscVars, ResultName, MayLoseSession,
       WRONG_SOURCE_VERSION, INVALID_RESOURCE
<1>12. QED
  BY <1>4, <1>5, <1>6, <1>7, <1>8, <1>9, <1>10, <1>11 DEF Inv

LEMMA RequestIllFormedKeeps ==
  ASSUME Inv, NEW req \in Requests, RequestIllFormed(req)
  PROVE  Inv'
<1>1. requests + 1 \in Cids /\ requests + 1 \in 0 .. MaxRequests
  BY BoundsAssumption DEF Inv, TypeOK, RequestIllFormed, Cids
<1>2. /\ verdict[requests + 1] = "none" /\ outcome[requests + 1] = "none"
      /\ got[requests + 1] = NoByte /\ requests + 1 \notin opened
  BY <1>1 DEF Inv, TypeOK, FutureIsBlank
<1>3. /\ announced' \in [Cids -> Nat]
      /\ announced'[requests + 1] = req.fields.size
  BY <1>1, RequestTyped DEF Inv, TypeOK, RequestIllFormed, Store
<1>4. /\ verdict' \in [Cids -> Codes \cup {"none"}] /\ answer' \in [Cids -> Names \cup {"none"}]
      /\ verdict'[requests + 1] = INTERNAL_ERROR
      /\ \A i \in Cids : i # requests + 1 => verdict'[i] = verdict[i]
  BY <1>1 DEF Inv, TypeOK, RequestIllFormed, Answer, Codes, Names
<1>5. session' \in BOOLEAN
  BY DEF Inv, TypeOK, RequestIllFormed, Answer, MayLoseSession
<1>6. md5_ctx' \in Bytes /\ ursc_obj' \in Rsc \cup {NoRsc} /\ ursc_size' \in Nat
      /\ ursc_uri' \in BOOLEAN /\ ursc_md5' \in BOOLEAN
  BY RequestTyped, ConstantsTyped DEF RequestIllFormed, Store
<1>7. TypeOK'
  BY <1>1, <1>2, <1>3, <1>4, <1>5, <1>6, BoundsAssumption DEF Inv, TypeOK, Cids,
       ThreadIsWithin, RequestIllFormed, Store, Answer, MayLoseSession
<1>8. FutureIsBlank'
  BY <1>1, <1>2, <1>3, <1>4, <1>5, <1>6, BoundsAssumption DEF Inv, TypeOK, Cids,
       StoredIsCurrent, OK, INTERNAL_ERROR, NoByte, ThreadIsWithin, FutureIsBlank,
       RequestIllFormed, Store, Answer, NoContext, ResultName, MayLoseSession,
       WRONG_SOURCE_VERSION, INVALID_RESOURCE, NOT_AUTHORIZED
<1>9. StoredIsCurrent'
  BY <1>1, <1>2, <1>3, <1>4, <1>5, <1>6, BoundsAssumption DEF Inv, TypeOK, Cids,
       ThreadIsWithin, FutureIsBlank, NoByte, StoredIsCurrent, OK, INTERNAL_ERROR,
       RequestIllFormed, Store, Answer, NoContext, ResultName, MayLoseSession,
       WRONG_SOURCE_VERSION, INVALID_RESOURCE, NOT_AUTHORIZED
<1>10. ThreadIsWithin'
  BY <1>1, <1>2, <1>3, <1>4, <1>5, <1>6, BoundsAssumption DEF Inv, TypeOK, Cids,
       StoredIsCurrent, OK, INTERNAL_ERROR, NoByte, FutureIsBlank, ThreadIsWithin,
       RequestIllFormed, Store, Answer, NoContext, ResultName, MayLoseSession,
       WRONG_SOURCE_VERSION, INVALID_RESOURCE, NOT_AUTHORIZED
<1>11. DigestCoversDelivery'
  BY <1>1, <1>2, <1>3, <1>4, <1>5, <1>6, BoundsAssumption DEF Inv, TypeOK, Cids,
       StoredIsCurrent, OK, INTERNAL_ERROR, NoByte, ThreadIsWithin, FutureIsBlank,
       DigestCoversDelivery, RequestIllFormed, Store, Answer, NoContext, ResultName,
       MayLoseSession, WRONG_SOURCE_VERSION, INVALID_RESOURCE, NOT_AUTHORIZED
<1>12. ConnectionHasOwner'
  BY <1>1, <1>2, <1>3, <1>4, <1>5, <1>6, BoundsAssumption DEF Inv, TypeOK, Cids,
       StoredIsCurrent, OK, INTERNAL_ERROR, NoByte, ThreadIsWithin, ConnectionHasOwner,
       InProgress, RequestIllFormed, Store, Answer, NoContext, ResultName, MayLoseSession,
       WRONG_SOURCE_VERSION, INVALID_RESOURCE, NOT_AUTHORIZED
<1>13. CompletedIsIntact'
  BY <1>1, <1>2, <1>3, <1>4, <1>5, <1>6, BoundsAssumption DEF Inv, TypeOK, Cids,
       StoredIsCurrent, OK, INTERNAL_ERROR, NoByte, ThreadIsWithin, FutureIsBlank,
       CompletedIsIntact, RequestIllFormed, Store, Answer, NoContext, ResultName,
       MayLoseSession, WRONG_SOURCE_VERSION, INVALID_RESOURCE, NOT_AUTHORIZED
<1>14. RefusedIsNotTransferred'
  BY <1>1, <1>2, <1>3, <1>4, <1>5, <1>6, BoundsAssumption DEF Inv, TypeOK, Cids,
       StoredIsCurrent, OK, INTERNAL_ERROR, NoByte, ThreadIsWithin, FutureIsBlank,
       RefusedIsNotTransferred, RequestIllFormed, Store, Answer, NoContext, ResultName,
       MayLoseSession, WRONG_SOURCE_VERSION, INVALID_RESOURCE, NOT_AUTHORIZED
<1>15. QED
  BY <1>7, <1>8, <1>9, <1>10, <1>11, <1>12, <1>13, <1>14 DEF Inv

LEMMA RequestUnaskedKeeps ==
  ASSUME Inv, NEW req \in Requests, RequestUnasked(req)
  PROVE  Inv'
<1>1. requests + 1 \in Cids /\ requests + 1 \in 0 .. MaxRequests
  BY BoundsAssumption DEF Inv, TypeOK, RequestUnasked, Cids
<1>2. /\ verdict[requests + 1] = "none" /\ outcome[requests + 1] = "none"
      /\ got[requests + 1] = NoByte /\ requests + 1 \notin opened
  BY <1>1 DEF Inv, TypeOK, FutureIsBlank
<1>3. /\ announced' \in [Cids -> Nat]
      /\ announced'[requests + 1] = req.fields.size
  BY <1>1, RequestTyped DEF Inv, TypeOK, RequestUnasked, Store
<1>4. /\ verdict' \in [Cids -> Codes \cup {"none"}] /\ answer' \in [Cids -> Names \cup {"none"}]
      /\ verdict'[requests + 1] = OK
      /\ \A i \in Cids : i # requests + 1 => verdict'[i] = verdict[i]
  BY <1>1 DEF Inv, TypeOK, RequestUnasked, Answer, Codes, Names
<1>5. session' \in BOOLEAN
  BY DEF Inv, TypeOK, RequestUnasked, Answer, MayLoseSession
<1>6. md5_ctx' \in Bytes /\ ursc_obj' \in Rsc \cup {NoRsc} /\ ursc_size' \in Nat
      /\ ursc_uri' \in BOOLEAN /\ ursc_md5' \in BOOLEAN
  BY RequestTyped, ConstantsTyped DEF RequestUnasked, Store
<1>7. TypeOK'
  BY <1>1, <1>2, <1>3, <1>4, <1>5, <1>6, BoundsAssumption DEF Inv, TypeOK, Cids,
       ThreadIsWithin, RequestUnasked, Store, Answer, MayLoseSession
<1>8. FutureIsBlank'
  BY <1>1, <1>2, <1>3, <1>4, <1>5, <1>6, BoundsAssumption DEF Inv, TypeOK, Cids,
       StoredIsCurrent, OK, INTERNAL_ERROR, NoByte, ThreadIsWithin, FutureIsBlank,
       RequestUnasked, Store, Answer, NoContext, ResultName, MayLoseSession,
       WRONG_SOURCE_VERSION, INVALID_RESOURCE, NOT_AUTHORIZED
<1>9. StoredIsCurrent'
  BY <1>1, <1>2, <1>3, <1>4, <1>5, <1>6, BoundsAssumption DEF Inv, TypeOK, Cids,
       ThreadIsWithin, FutureIsBlank, NoByte, StoredIsCurrent, OK, INTERNAL_ERROR,
       RequestUnasked, Store, Answer, NoContext, ResultName, MayLoseSession,
       WRONG_SOURCE_VERSION, INVALID_RESOURCE, NOT_AUTHORIZED
<1>10. ThreadIsWithin'
  BY <1>1, <1>2, <1>3, <1>4, <1>5, <1>6, BoundsAssumption DEF Inv, TypeOK, Cids,
       StoredIsCurrent, OK, INTERNAL_ERROR, NoByte, FutureIsBlank, ThreadIsWithin,
       RequestUnasked, Store, Answer, NoContext, ResultName, MayLoseSession,
       WRONG_SOURCE_VERSION, INVALID_RESOURCE, NOT_AUTHORIZED
<1>11. DigestCoversDelivery'
  BY <1>1, <1>2, <1>3, <1>4, <1>5, <1>6, BoundsAssumption DEF Inv, TypeOK, Cids,
       StoredIsCurrent, OK, INTERNAL_ERROR, NoByte, ThreadIsWithin, FutureIsBlank,
       DigestCoversDelivery, RequestUnasked, Store, Answer, NoContext, ResultName,
       MayLoseSession, WRONG_SOURCE_VERSION, INVALID_RESOURCE, NOT_AUTHORIZED
<1>12. ConnectionHasOwner'
  BY <1>1, <1>2, <1>3, <1>4, <1>5, <1>6, BoundsAssumption DEF Inv, TypeOK, Cids,
       StoredIsCurrent, OK, INTERNAL_ERROR, NoByte, ThreadIsWithin, ConnectionHasOwner,
       InProgress, RequestUnasked, Store, Answer, NoContext, ResultName, MayLoseSession,
       WRONG_SOURCE_VERSION, INVALID_RESOURCE, NOT_AUTHORIZED
<1>13. CompletedIsIntact'
  BY <1>1, <1>2, <1>3, <1>4, <1>5, <1>6, BoundsAssumption DEF Inv, TypeOK, Cids,
       StoredIsCurrent, OK, INTERNAL_ERROR, NoByte, ThreadIsWithin, FutureIsBlank,
       CompletedIsIntact, RequestUnasked, Store, Answer, NoContext, ResultName,
       MayLoseSession, WRONG_SOURCE_VERSION, INVALID_RESOURCE, NOT_AUTHORIZED
<1>14. RefusedIsNotTransferred'
  BY <1>1, <1>2, <1>3, <1>4, <1>5, <1>6, BoundsAssumption DEF Inv, TypeOK, Cids,
       StoredIsCurrent, OK, INTERNAL_ERROR, NoByte, ThreadIsWithin, FutureIsBlank,
       RefusedIsNotTransferred, RequestUnasked, Store, Answer, NoContext, ResultName,
       MayLoseSession, WRONG_SOURCE_VERSION, INVALID_RESOURCE, NOT_AUTHORIZED
<1>15. QED
  BY <1>7, <1>8, <1>9, <1>10, <1>11, <1>12, <1>13, <1>14 DEF Inv

LEMMA RequestAskedKeeps ==
  ASSUME Inv, NEW req \in Requests, RequestAsked(req)
  PROVE  Inv'
<1>1. requests + 1 \in Cids /\ requests + 1 \in 0 .. MaxRequests
  BY BoundsAssumption DEF Inv, TypeOK, RequestAsked, Cids
<1>2. /\ verdict[requests + 1] = "none" /\ outcome[requests + 1] = "none"
      /\ got[requests + 1] = NoByte /\ requests + 1 \notin opened
  BY <1>1 DEF Inv, TypeOK, FutureIsBlank
<1>3. /\ announced' \in [Cids -> Nat]
      /\ announced'[requests + 1] = req.fields.size
  BY <1>1, RequestTyped DEF Inv, TypeOK, RequestAsked, Store
<1>4. session' \in BOOLEAN
  BY DEF Inv, TypeOK, RequestAsked
<1>5. md5_ctx' \in Bytes /\ ursc_obj' \in Rsc \cup {NoRsc} /\ ursc_size' \in Nat
      /\ ursc_uri' \in BOOLEAN /\ ursc_md5' \in BOOLEAN
  BY RequestTyped, ConstantsTyped DEF RequestAsked, Store
<1>6. TypeOK'
  BY <1>1, <1>2, <1>3, <1>4, <1>5, BoundsAssumption DEF Inv, TypeOK, Cids, ThreadIsWithin,
       RequestAsked, Store
<1>7. FutureIsBlank'
  BY <1>1, <1>2, <1>3, <1>4, <1>5, BoundsAssumption DEF Inv, TypeOK, Cids, StoredIsCurrent,
       OK, INTERNAL_ERROR, NoByte, ThreadIsWithin, FutureIsBlank, RequestAsked, Store,
       NoContext
<1>8. StoredIsCurrent'
  BY <1>1, <1>2, <1>3, <1>4, <1>5, BoundsAssumption DEF Inv, TypeOK, Cids, ThreadIsWithin,
       FutureIsBlank, NoByte, StoredIsCurrent, OK, INTERNAL_ERROR, RequestAsked, Store,
       NoContext
<1>9. ThreadIsWithin'
  BY <1>1, <1>2, <1>3, <1>4, <1>5, BoundsAssumption DEF Inv, TypeOK, Cids, StoredIsCurrent,
       OK, INTERNAL_ERROR, NoByte, FutureIsBlank, ThreadIsWithin, RequestAsked, Store,
       NoContext
<1>10. DigestCoversDelivery'
  BY <1>1, <1>2, <1>3, <1>4, <1>5, BoundsAssumption DEF Inv, TypeOK, Cids, StoredIsCurrent,
       OK, INTERNAL_ERROR, NoByte, ThreadIsWithin, FutureIsBlank, DigestCoversDelivery,
       RequestAsked, Store, NoContext
<1>11. ConnectionHasOwner'
  BY <1>1, <1>2, <1>3, <1>4, <1>5, BoundsAssumption DEF Inv, TypeOK, Cids, StoredIsCurrent,
       OK, INTERNAL_ERROR, NoByte, ThreadIsWithin, ConnectionHasOwner, InProgress,
       RequestAsked, Store, NoContext
<1>12. CompletedIsIntact'
  BY <1>1, <1>2, <1>3, <1>4, <1>5, BoundsAssumption DEF Inv, TypeOK, Cids, StoredIsCurrent,
       OK, INTERNAL_ERROR, NoByte, ThreadIsWithin, FutureIsBlank, CompletedIsIntact,
       RequestAsked, Store, NoContext
<1>13. RefusedIsNotTransferred'
  BY <1>1, <1>2, <1>3, <1>4, <1>5, BoundsAssumption DEF Inv, TypeOK, Cids, StoredIsCurrent,
       OK, INTERNAL_ERROR, NoByte, ThreadIsWithin, FutureIsBlank, RefusedIsNotTransferred,
       RequestAsked, Store, NoContext
<1>14. QED
  BY <1>6, <1>7, <1>8, <1>9, <1>10, <1>11, <1>12, <1>13 DEF Inv

LEMMA UserAcceptsKeeps ==
  ASSUME Inv, UserAccepts
  PROVE  Inv'
<1>1. asked \in Cids /\ ursc_cid = asked
  BY DEF Inv, TypeOK, ThreadIsWithin, UserAccepts
<1>2. /\ verdict' \in [Cids -> Codes \cup {"none"}] /\ answer' \in [Cids -> Names \cup {"none"}]
      /\ verdict'[asked] = OK
      /\ \A i \in Cids \ {asked} : verdict'[i] = verdict[i]
  BY <1>1 DEF Inv, TypeOK, UserAccepts, Answer, Codes, Names
<1>3. TypeOK'
  BY <1>1, <1>2, BoundsAssumption DEF Inv, TypeOK, Cids, ThreadIsWithin, UserAccepts,
       Answer, OK, ResultName, MayLoseSession, INTERNAL_ERROR, WRONG_SOURCE_VERSION,
       INVALID_RESOURCE, NOT_AUTHORIZED
<1>4. FutureIsBlank'
  BY <1>1, <1>2, BoundsAssumption DEF Inv, TypeOK, Cids, StoredIsCurrent, OK,
       INTERNAL_ERROR, NoByte, ThreadIsWithin, FutureIsBlank, UserAccepts, Answer,
       ResultName, MayLoseSession, WRONG_SOURCE_VERSION, INVALID_RESOURCE, NOT_AUTHORIZED
<1>5. StoredIsCurrent'
  BY <1>1, <1>2, BoundsAssumption DEF Inv, TypeOK, Cids, ThreadIsWithin, FutureIsBlank,
       NoByte, StoredIsCurrent, OK, INTERNAL_ERROR, UserAccepts, Answer, ResultName,
       MayLoseSession, WRONG_SOURCE_VERSION, INVALID_RESOURCE, NOT_AUTHORIZED
<1>6. ThreadIsWithin'
  BY <1>1, <1>2, BoundsAssumption DEF Inv, TypeOK, Cids, StoredIsCurrent, OK,
       INTERNAL_ERROR, NoByte, FutureIsBlank, ThreadIsWithin, UserAccepts, Answer,
       ResultName, MayLoseSession, WRONG_SOURCE_VERSION, INVALID_RESOURCE, NOT_AUTHORIZED
<1>7. DigestCoversDelivery'
  BY <1>1, <1>2, BoundsAssumption DEF Inv, TypeOK, Cids, StoredIsCurrent, OK,
       INTERNAL_ERROR, NoByte, ThreadIsWithin, FutureIsBlank, DigestCoversDelivery,
       UserAccepts, Answer, ResultName, MayLoseSession, WRONG_SOURCE_VERSION,
       INVALID_RESOURCE, NOT_AUTHORIZED
<1>8. ConnectionHasOwner'
  BY <1>1, <1>2, BoundsAssumption DEF Inv, TypeOK, Cids, StoredIsCurrent, OK,
       INTERNAL_ERROR, NoByte, ThreadIsWithin, ConnectionHasOwner, InProgress, UserAccepts,
       Answer, ResultName, MayLoseSession, WRONG_SOURCE_VERSION, INVALID_RESOURCE,
       NOT_AUTHORIZED
<1>9. CompletedIsIntact'
  BY <1>1, <1>2, BoundsAssumption DEF Inv, TypeOK, Cids, StoredIsCurrent, OK,
       INTERNAL_ERROR, NoByte, ThreadIsWithin, FutureIsBlank, CompletedIsIntact,
       UserAccepts, Answer, ResultName, MayLoseSession, WRONG_SOURCE_VERSION,
       INVALID_RESOURCE, NOT_AUTHORIZED
<1>10. RefusedIsNotTransferred'
  BY <1>1, <1>2, BoundsAssumption DEF Inv, TypeOK, Cids, StoredIsCurrent, OK,
       INTERNAL_ERROR, NoByte, ThreadIsWithin, FutureIsBlank, RefusedIsNotTransferred,
       UserAccepts, Answer, ResultName, MayLoseSession, WRONG_SOURCE_VERSION,
       INVALID_RESOURCE, NOT_AUTHORIZED
<1>11. QED
  BY <1>3, <1>4, <1>5, <1>6, <1>7, <1>8, <1>9, <1>10 DEF Inv

LEMMA UserRefusesKeeps ==
  ASSUME Inv, UserRefuses
  PROVE  Inv'
<1>1. asked \in Cids /\ ursc_cid = asked
  BY DEF Inv, TypeOK, ThreadIsWithin, UserRefuses
<1>2. /\ verdict' \in [Cids -> Codes \cup {"none"}] /\ answer' \in [Cids -> Names \cup {"none"}]
      /\ \A i \in Cids \ {asked} : verdict'[i] = verdict[i]
  BY <1>1 DEF Inv, TypeOK, UserRefuses, Answer, Codes, Names
<1>3. TypeOK'
  BY <1>1, <1>2, BoundsAssumption DEF Inv, TypeOK, Cids, ThreadIsWithin, UserRefuses, Codes,
       OK, Answer, INTERNAL_ERROR, WRONG_SOURCE_VERSION, INVALID_RESOURCE, NOT_AUTHORIZED,
       ResultName, MayLoseSession
<1>4. FutureIsBlank'
  BY <1>1, <1>2, BoundsAssumption DEF Inv, TypeOK, Cids, StoredIsCurrent, OK,
       INTERNAL_ERROR, NoByte, ThreadIsWithin, FutureIsBlank, UserRefuses, Codes, Answer,
       WRONG_SOURCE_VERSION, INVALID_RESOURCE, NOT_AUTHORIZED, ResultName, MayLoseSession
<1>5. StoredIsCurrent'
  BY <1>1, <1>2, BoundsAssumption DEF Inv, TypeOK, Cids, ThreadIsWithin, FutureIsBlank,
       NoByte, StoredIsCurrent, OK, INTERNAL_ERROR, UserRefuses, Codes, Answer,
       WRONG_SOURCE_VERSION, INVALID_RESOURCE, NOT_AUTHORIZED, ResultName, MayLoseSession
<1>6. ThreadIsWithin'
  BY <1>1, <1>2, BoundsAssumption DEF Inv, TypeOK, Cids, StoredIsCurrent, OK,
       INTERNAL_ERROR, NoByte, FutureIsBlank, ThreadIsWithin, UserRefuses, Codes, Answer,
       WRONG_SOURCE_VERSION, INVALID_RESOURCE, NOT_AUTHORIZED, ResultName, MayLoseSession
<1>7. DigestCoversDelivery'
  BY <1>1, <1>2, BoundsAssumption DEF Inv, TypeOK, Cids, StoredIsCurrent, OK,
       INTERNAL_ERROR, NoByte, ThreadIsWithin, FutureIsBlank, DigestCoversDelivery,
       UserRefuses, Codes, Answer, WRONG_SOURCE_VERSION, INVALID_RESOURCE, NOT_AUTHORIZED,
       ResultName, MayLoseSession
<1>8. ConnectionHasOwner'
  BY <1>1, <1>2, BoundsAssumption DEF Inv, TypeOK, Cids, StoredIsCurrent, OK,
       INTERNAL_ERROR, NoByte, ThreadIsWithin, ConnectionHasOwner, InProgress, UserRefuses,
       Codes, Answer, WRONG_SOURCE_VERSION, INVALID_RESOURCE, NOT_AUTHORIZED, ResultName,
       MayLoseSession
<1>9. CompletedIsIntact'
  BY <1>1, <1>2, BoundsAssumption DEF Inv, TypeOK, Cids, StoredIsCurrent, OK,
       INTERNAL_ERROR, NoByte, ThreadIsWithin, FutureIsBlank, CompletedIsIntact,
       UserRefuses, Codes, Answer, WRONG_SOURCE_VERSION, INVALID_RESOURCE, NOT_AUTHORIZED,
       ResultName, MayLoseSession
<1>10. RefusedIsNotTransferred'
  BY <1>1, <1>2, BoundsAssumption DEF Inv, TypeOK, Cids, StoredIsCurrent, OK,
       INTERNAL_ERROR, NoByte, ThreadIsWithin, FutureIsBlank, RefusedIsNotTransferred,
       UserRefuses, Codes, Answer, WRONG_SOURCE_VERSION, INVALID_RESOURCE, NOT_AUTHORIZED,
       ResultName, MayLoseSession
<1>11. QED
  BY <1>3, <1>4, <1>5, <1>6, <1>7, <1>8, <1>9, <1>10 DEF Inv

LEMMA YieldEndsKeeps ==
  ASSUME Inv, YieldEnds
  PROVE  Inv'
<1>1. TypeOK'
  BY BoundsAssumption DEF Inv, TypeOK, Cids, ThreadIsWithin, YieldEnds, urscVars, seenVars
<1>2. FutureIsBlank'
  BY BoundsAssumption DEF Inv, TypeOK, Cids, StoredIsCurrent, OK, INTERNAL_ERROR, NoByte,
       ThreadIsWithin, FutureIsBlank, YieldEnds, urscVars, seenVars
<1>3. StoredIsCurrent'
  BY BoundsAssumption DEF Inv, TypeOK, Cids, ThreadIsWithin, FutureIsBlank, NoByte,
       StoredIsCurrent, OK, INTERNAL_ERROR, YieldEnds, urscVars, seenVars
<1>4. ThreadIsWithin'
  BY BoundsAssumption DEF Inv, TypeOK, Cids, StoredIsCurrent, OK, INTERNAL_ERROR, NoByte,
       FutureIsBlank, ThreadIsWithin, YieldEnds, urscVars, seenVars
<1>5. DigestCoversDelivery'
  BY BoundsAssumption DEF Inv, TypeOK, Cids, StoredIsCurrent, OK, INTERNAL_ERROR, NoByte,
       ThreadIsWithin, FutureIsBlank, DigestCoversDelivery, YieldEnds, urscVars, seenVars
<1>6. ConnectionHasOwner'
  BY BoundsAssumption DEF Inv, TypeOK, Cids, StoredIsCurrent, OK, INTERNAL_ERROR, NoByte,
       ThreadIsWithin, ConnectionHasOwner, InProgress, YieldEnds, urscVars, seenVars
<1>7. CompletedIsIntact'
  BY BoundsAssumption DEF Inv, TypeOK, Cids, StoredIsCurrent, OK, INTERNAL_ERROR, NoByte,
       ThreadIsWithin, FutureIsBlank, CompletedIsIntact, YieldEnds, urscVars, seenVars
<1>8. RefusedIsNotTransferred'
  BY BoundsAssumption DEF Inv, TypeOK, Cids, StoredIsCurrent, OK, INTERNAL_ERROR, NoByte,
       ThreadIsWithin, FutureIsBlank, RefusedIsNotTransferred, YieldEnds, urscVars, seenVars
<1>9. QED
  BY <1>1, <1>2, <1>3, <1>4, <1>5, <1>6, <1>7, <1>8 DEF Inv

-----------------------------------------------------------------------------
LEMMA InitInv == Init => Inv
<1> SUFFICES ASSUME Init
             PROVE  Inv
  OBVIOUS
<1>1. TypeOK
  <2>1. /\ got \in [Cids -> Bytes] /\ md5_ctx \in Bytes
        /\ http \in Connections /\ cb \in Calls
    BY ConstantsTyped DEF Init
  <2>2. /\ verdict \in [Cids -> Codes \cup {"none"}]
        /\ answer \in [Cids -> Names \cup {"none"}]
        /\ announced \in [Cids -> Nat]
        /\ outcome \in [Cids -> {"none", "complete", "md5Error", "httpError", "shortData", "aborted"}]
        /\ report \in [Cids -> {"none", "rsc", "err"}]
    BY DEF Init
  <2>3. requests \in 0 .. MaxRequests /\ ntfy \in 0 .. 2
    BY BoundsAssumption DEF Init
  <2>4. QED
    BY <2>1, <2>2, <2>3 DEF Init, TypeOK
<1>2. FutureIsBlank /\ StoredIsCurrent /\ ThreadIsWithin
  BY DEF Init, Cids, FutureIsBlank, StoredIsCurrent, ThreadIsWithin
<1>3. DigestCoversDelivery /\ ConnectionHasOwner /\ CompletedIsIntact
  BY DEF Init, DigestCoversDelivery, ConnectionHasOwner, CompletedIsIntact, Closed
<1>4. RefusedIsNotTransferred
  BY DEF Init, RefusedIsNotTransferred
<1>5. QED
  BY <1>1, <1>2, <1>3, <1>4 DEF Inv

LEMMA StutterKeeps == Inv /\ UNCHANGED vars => Inv'
<1> SUFFICES ASSUME Inv, UNCHANGED vars
             PROVE  Inv'
  OBVIOUS
<1>1. TypeOK' /\ FutureIsBlank'
  BY DEF Inv, TypeOK, FutureIsBlank, vars, urscVars, seenVars
<1>2. StoredIsCurrent' /\ ThreadIsWithin' /\ DigestCoversDelivery'
  BY DEF Inv, StoredIsCurrent, ThreadIsWithin, DigestCoversDelivery, vars, urscVars, seenVars
<1>3. ConnectionHasOwner' /\ CompletedIsIntact' /\ RefusedIsNotTransferred'
  BY DEF Inv, ConnectionHasOwner, InProgress, CompletedIsIntact, RefusedIsNotTransferred,
         vars, urscVars, seenVars
<1>4. QED
  BY <1>1, <1>2, <1>3 DEF Inv

LEMMA NextKeeps == Inv /\ [Next]_vars => Inv'
<1> SUFFICES ASSUME Inv, [Next]_vars
             PROVE  Inv'
  OBVIOUS
<1>1. CASE Application
  BY <1>1, CycleEnterKeeps, SessionLostKeeps, ReconnectKeeps DEF Application
<1>2. CASE Process
  BY <1>2, ProcessNothingKeeps, StartFailsKeeps, StartSucceedsKeeps, DataCallbackKeeps
     DEF Process
<1>3. CASE Callback
  BY <1>3, GetBytesKeeps, GetNothingKeeps, GetOtherKeeps, CallbackGoesOnKeeps,
     CallbackStopsKeeps, CallbackCompletesKeeps, CompletionNotifiedKeeps
     DEF Callback
<1>4. CASE Yield
  BY <1>4, RequestWhileBusyKeeps, RequestIllFormedKeeps, RequestUnaskedKeeps,
     RequestAskedKeeps, UserAcceptsKeeps, UserRefusesKeeps, YieldEndsKeeps
     DEF Yield
<1>5. CASE ServerCloses
  BY <1>5, ServerClosesKeeps
<1>6. CASE UNCHANGED vars
  BY <1>6, StutterKeeps
<1>7. QED
  BY <1>1, <1>2, <1>3, <1>4, <1>5, <1>6 DEF Next

(* The inductive invariant holds in every state the library can reach.      *)
THEOREM InvHolds == Spec => []Inv
  BY InitInv, NextKeeps, PTL DEF Spec

-----------------------------------------------------------------------------
(* Type correctness. *)
THEOREM TypeCorrect == Spec => []TypeOK
<1>1. Inv => TypeOK
  BY DEF Inv
<1>2. QED
  BY <1>1, InvHolds, PTL

(* A transfer reported complete has given the application the whole         *)
(* resource and nothing else, whatever the network, the callbacks and the   *)
(* reconnections did.                                                       *)
THEOREM CompleteMeansIntact == Spec => []CompletedIsIntact
<1>1. Inv => CompletedIsIntact
  BY DEF Inv
<1>2. QED
  BY <1>1, InvHolds, PTL

(* The digest and the offset follow the bytes given to the application, and *)
(* no transfer is resumed half-way.                                         *)
THEOREM DigestIsOfDelivery == Spec => []DigestCoversDelivery
<1>1. Inv => DigestCoversDelivery
  BY DEF Inv
<1>2. QED
  BY <1>1, InvHolds, PTL

(* No HTTP connection outlives its transfer. *)
THEOREM NoOrphanConnection == Spec => []ConnectionHasOwner
<1>1. Inv => ConnectionHasOwner
  BY DEF Inv
<1>2. QED
  BY <1>1, InvHolds, PTL

(* A refused request is neither connected to, nor read, nor ended. *)
THEOREM RefusalIsFinal == Spec => []RefusedIsNotTransferred
<1>1. Inv => RefusedIsNotTransferred
  BY DEF Inv
<1>2. QED
  BY <1>1, InvHolds, PTL

-----------------------------------------------------------------------------
(* What a step may do to the stored request and to a transfer that is over. *)
ExclusiveStep ==
  /\ ursc_cid # 0 =>
       \/ ursc_cid' = 0
       \/ UNCHANGED <<ursc_cid, ursc_obj, ursc_size, ursc_uri, ursc_md5>>
  /\ \A i \in Cids :
       outcome[i] # "none" => outcome'[i] = outcome[i] /\ got'[i] = got[i]

LEMMA StepIsExclusive == Inv /\ Next => ExclusiveStep
<1> SUFFICES ASSUME Inv, Next
             PROVE  ExclusiveStep
  OBVIOUS
<1>1. CASE CycleEnter
  BY <1>1 DEF ExclusiveStep, CycleEnter, urscVars, seenVars
<1>2. CASE SessionLost
  BY <1>2 DEF ExclusiveStep, SessionLost, urscVars, seenVars
<1>3. ASSUME NEW success \in BOOLEAN, Reconnect(success)
      PROVE  ExclusiveStep
  BY <1>3 DEF ExclusiveStep, Reconnect, urscVars, seenVars
<1>4. CASE ProcessNothing
  BY <1>4 DEF ExclusiveStep, ProcessNothing, InProgress, urscVars, seenVars
<1>5. CASE StartFails
  BY <1>5 DEF ExclusiveStep, Inv, TypeOK, StoredIsCurrent, ThreadIsWithin, StartFails,
       InProgress, Release
<1>6. CASE StartSucceeds
  BY <1>6 DEF ExclusiveStep, StartSucceeds, InProgress
<1>7. CASE DataCallback
  BY <1>7 DEF ExclusiveStep, DataCallback, InProgress, urscVars, seenVars
<1>8. ASSUME NEW k \in 1 .. Left, GetBytes(k)
      PROVE  ExclusiveStep
  BY <1>8 DEF ExclusiveStep, Inv, TypeOK, StoredIsCurrent, ThreadIsWithin, GetBytes
<1>9. CASE GetNothing
  BY <1>9 DEF ExclusiveStep, GetNothing, urscVars, seenVars
<1>10. CASE GetOther
  BY <1>10 DEF ExclusiveStep, GetOther, urscVars, seenVars
<1>11. CASE ServerCloses
  BY <1>11 DEF ExclusiveStep, ServerCloses, urscVars, seenVars
<1>12. CASE CallbackGoesOn
  BY <1>12 DEF ExclusiveStep, CallbackGoesOn, urscVars
<1>13. CASE CallbackStops
  BY <1>13 DEF ExclusiveStep, Inv, TypeOK, StoredIsCurrent, ThreadIsWithin, CallbackStops,
       Release
<1>14. CASE CallbackCompletes
  BY <1>14 DEF ExclusiveStep, Inv, TypeOK, StoredIsCurrent, ThreadIsWithin,
       CallbackCompletes, urscVars, Release
<1>15. CASE CompletionNotified
  BY <1>15 DEF ExclusiveStep, CompletionNotified, Release
<1>16. CASE RequestWhileBusy
  BY <1>16 DEF ExclusiveStep, RequestWhileBusy, Answer, urscVars
<1>17. ASSUME NEW req \in Requests, RequestIllFormed(req)
      PROVE  ExclusiveStep
  BY <1>17 DEF ExclusiveStep, RequestIllFormed, Store, Answer
<1>18. ASSUME NEW req \in Requests, RequestUnasked(req)
      PROVE  ExclusiveStep
  BY <1>18 DEF ExclusiveStep, RequestUnasked, Store, Answer
<1>19. ASSUME NEW req \in Requests, RequestAsked(req)
      PROVE  ExclusiveStep
  BY <1>19 DEF ExclusiveStep, RequestAsked, Store
<1>20. CASE UserAccepts
  BY <1>20 DEF ExclusiveStep, UserAccepts, Answer
<1>21. CASE UserRefuses
  BY <1>21 DEF ExclusiveStep, UserRefuses, Answer
<1>22. CASE YieldEnds
  BY <1>22 DEF ExclusiveStep, YieldEnds, urscVars, seenVars
<1>23. QED
  BY <1>1, <1>2, <1>3, <1>4, <1>5, <1>6, <1>7, <1>8, <1>9, <1>10, <1>11, <1>12, <1>13, <1>14, <1>15, <1>16, <1>17, <1>18, <1>19, <1>20, <1>21, <1>22
     DEF Next, Application, Process, Callback, Yield

(* From its arrival to its end a transfer is not touched by another message, *)
(* and it ends once.                                                         *)
THEOREM OneTransferAtATime == Spec => TransferIsExclusive
<1>1. Inv /\ [Next]_vars => [ExclusiveStep]_vars
  BY StepIsExclusive
<1>2. QED
  BY <1>1, InvHolds, PTL DEF Spec, TransferIsExclusive, ExclusiveStep
-----------------------------------------------------------------------------
(* ResourceDownload implements ResourceTransfer, for any resources, sizes,    *)
(* number of requests and pattern of reads.  Each action of the device is one *)
(* step of the abstract transfer of one request, or none; the phases of the   *)
(* other requests stay because only the stored one, and the one that arrives, *)
(* can change (Untouched).                                                   *)


(* How a transfer can end that does not complete.                             *)
Failures == {"md5Error", "httpError", "shortData", "aborted"}
Outcomes == {"none", "complete"} \union Failures

(* The request is the one in SetUpdatedRsc, and names a resource.             *)
Stored(i) == i = ursc_cid /\ ursc_obj # NoRsc

(* What Inv leaves out: the request is over once the application is told so,   *)
(* and the sizes to come are unknown.                                         *)
TransferInv ==
  /\ \A i \in Cids : i > requests => announced[i] = 0
  /\ pc = "ntfy" => outcome[ursc_cid] # "none"

(* The phase of a request, case by case.                                      *)
PhaseIs(i) ==
  /\ outcome[i] = "complete" => Phase[i] = "complete"
  /\ outcome[i] \in Failures => Phase[i] = "failed"
  /\ outcome[i] = "none" /\ Stored(i) /\ ursc_connected => Phase[i] = "open"
  /\ outcome[i] = "none" /\ Stored(i) /\ ~ursc_connected => Phase[i] = "waiting"
  /\ outcome[i] = "none" /\ ~Stored(i) /\ i <= requests => Phase[i] = "dropped"
  /\ outcome[i] = "none" /\ ~Stored(i) /\ ~(i <= requests) => Phase[i] = "new"

LEMMA PhaseCases ==
  ASSUME NEW i \in Cids
  PROVE  PhaseIs(i)
<1>1. Phase[i] = PhaseOf(i)
  BY Zenon DEF Phase
<1>2. QED
  BY <1>1 DEF PhaseIs, PhaseOf, Stored, Failures

LEMMA PhaseCasesNext ==
  ASSUME NEW i \in Cids
  PROVE  PhaseIs(i)'
<1>1. Phase'[i] = PhaseOf(i)'
  BY Zenon DEF Phase
<1>2. QED
  BY <1>1 DEF PhaseIs, PhaseOf, Stored, Failures

(* A request whose outcome, storage and arrival a step leaves alone.           *)
Untouched(i) ==
  /\ outcome'[i] = outcome[i]
  /\ \/ outcome[i] # "none"
     \/ /\ Stored(i)' <=> Stored(i)
        /\ Stored(i) => (ursc_connected' <=> ursc_connected)
        /\ i <= requests' <=> i <= requests

LEMMA PhaseKeeps ==
  ASSUME NEW i \in Cids, outcome[i] \in Outcomes, Untouched(i)
  PROVE  Phase'[i] = Phase[i]
<1>1. PhaseIs(i) /\ PhaseIs(i)'
  BY PhaseCases, PhaseCasesNext
<1>2. CASE outcome[i] # "none"
  <2>1. outcome[i] = "complete" \/ outcome[i] \in Failures
    BY <1>2, Zenon DEF Outcomes
  <2>2. outcome'[i] = outcome[i]
    BY Zenon DEF Untouched
  <2>3. QED
    BY <1>1, <2>1, <2>2 DEF PhaseIs
<1>3. CASE outcome[i] = "none"
  BY <1>1, <1>3, Zenon DEF PhaseIs, Untouched
<1>4. QED
  BY <1>2, <1>3

LEMMA PhaseMoves ==
  ASSUME NEW i \in Cids, NEW p, Phase'[i] = p, \A j \in Cids : j # i => Phase'[j] = Phase[j]
  PROVE  Phase' = [Phase EXCEPT ![i] = p]
<1>1. Phase' = [j \in Cids |-> Phase'[j]] /\ Phase = [j \in Cids |-> Phase[j]]
  BY Zenon DEF Phase
<1>2. QED
  BY <1>1

LEMMA OutcomesTyped == Inv => outcome \in [Cids -> Outcomes]
  BY DEF Inv, TypeOK, Outcomes, Failures

(* The device as the abstract transfer sees it does nothing.                   *)
LEMMA PhaseStays ==
  ASSUME Inv, \A i \in Cids : Untouched(i)
  PROVE  Phase' = Phase
<1>1. \A i \in Cids : Phase'[i] = Phase[i]
  BY PhaseKeeps, OutcomesTyped
<1>2. Phase' = [j \in Cids |-> Phase'[j]] /\ Phase = [j \in Cids |-> Phase[j]]
  BY Zenon DEF Phase
<1>3. QED
  BY <1>1, <1>2

LEMMA SilentSteps ==
  ASSUME Inv, \/ CycleEnter \/ SessionLost \/ (\E success \in BOOLEAN : Reconnect(success))
              \/ ProcessNothing \/ DataCallback \/ GetNothing \/ GetOther \/ ServerCloses
              \/ CallbackGoesOn \/ YieldEnds \/ UserAccepts \/ UNCHANGED vars
  PROVE  UNCHANGED <<Phase, announced, got>>
<1>1. /\ UNCHANGED <<ursc_cid, ursc_obj, outcome, requests, announced, got>>
      /\ ursc_connected' <=> ursc_connected
  <2>1. CASE UserAccepts
    BY <2>1 DEF UserAccepts, Inv, ThreadIsWithin
  <2>2. CASE CycleEnter \/ SessionLost \/ (\E success \in BOOLEAN : Reconnect(success))
    BY <2>2 DEF CycleEnter, SessionLost, Reconnect, urscVars, seenVars
  <2>3. CASE ProcessNothing \/ DataCallback
    BY <2>3 DEF ProcessNothing, DataCallback, urscVars, seenVars
  <2>6. CASE GetNothing
    BY <2>6 DEF GetNothing, urscVars, seenVars
  <2>7. CASE GetOther
    BY <2>7 DEF GetOther, urscVars, seenVars
  <2>4. CASE ServerCloses \/ YieldEnds \/ UNCHANGED vars
    BY <2>4 DEF ServerCloses, YieldEnds, vars, urscVars, seenVars
  <2>5. CASE CallbackGoesOn
    BY <2>5, Zenon DEF CallbackGoesOn, urscVars
  <2>8. QED
    BY <2>1, <2>2, <2>3, <2>4, <2>5, <2>6, <2>7, Zenon
<1>2. \A i \in Cids : Untouched(i)
  BY <1>1, Zenon DEF Untouched, Stored
<1>3. QED
  BY <1>1, <1>2, PhaseStays

(* The request that is stored, as long as its outcome is open.                 *)
LEMMA StoredPhase ==
  ASSUME Inv, ursc_cid # 0, ursc_obj # NoRsc, outcome[ursc_cid] = "none"
  PROVE  /\ ursc_cid \in Cids
         /\ Phase[ursc_cid] = IF ursc_connected THEN "open" ELSE "waiting"
<1>1. ursc_cid \in Cids
  BY DEF Inv, TypeOK
<1>2. PhaseIs(ursc_cid)
  BY <1>1, PhaseCases
<1>3. QED
  BY <1>1, <1>2, Zenon DEF PhaseIs, Stored

(* The transfer of the stored request ends.                                   *)
LEMMA Ending ==
  ASSUME Inv, NEW result \in Outcomes \ {"none"}, ursc_cid # 0, ursc_obj # NoRsc,
         outcome' = [outcome EXCEPT ![ursc_cid] = result], requests' = requests,
         UNCHANGED <<ursc_cid, ursc_obj, ursc_connected>> \/ Release
  PROVE  Phase' = [Phase EXCEPT ![ursc_cid] = IF result = "complete" THEN "complete" ELSE "failed"]
<1>1. ursc_cid \in Cids /\ ursc_cid \in Nat
  BY BoundsAssumption DEF Inv, TypeOK, Cids
<1>2. outcome'[ursc_cid] = result
  BY <1>1, OutcomesTyped
<1>3. ASSUME NEW j \in Cids, j # ursc_cid
      PROVE  Phase'[j] = Phase[j]
  <2>1. outcome'[j] = outcome[j] /\ outcome[j] \in Outcomes
    BY <1>1, <1>3, OutcomesTyped
  <2>2. ~Stored(j)
    BY <1>3, Zenon DEF Stored
  <2>3. ~Stored(j)'
    BY <1>3, Zenon DEF Stored, Release
  <2>4. Untouched(j)
    BY <2>1, <2>2, <2>3, Zenon DEF Untouched
  <2>5. QED
    BY <2>1, <2>4, PhaseKeeps
<1>4. Phase'[ursc_cid] = IF result = "complete" THEN "complete" ELSE "failed"
  <2>1. PICK c \in Cids : c = ursc_cid
    BY <1>1
  <2>2. PhaseIs(c)'
    BY PhaseCasesNext
  <2>3. outcome'[c] = result
    BY <1>2, <2>1
  <2>4. Phase'[c] = IF result = "complete" THEN "complete" ELSE "failed"
    BY <2>2, <2>3 DEF PhaseIs, Outcomes, Failures
  <2>5. QED
    BY <2>1, <2>4
<1>5. QED
  BY <1>1, <1>3, <1>4, PhaseMoves

LEMMA InitImplements == Init => Transfer!Init /\ TransferInv
<1> SUFFICES ASSUME Init
             PROVE  Transfer!Init /\ TransferInv
  OBVIOUS
<1>1. /\ requests = 0 /\ ursc_cid = 0 /\ outcome = [i \in Cids |-> "none"]
      /\ announced = [i \in Cids |-> 0] /\ got = [i \in Cids |-> [n |-> 0, good |-> TRUE]]
      /\ pc = "app"
  BY DEF Init, NoByte
<1>2. ASSUME NEW i \in Cids
      PROVE  Phase[i] = "new"
  <2>1. outcome[i] = "none" /\ ~Stored(i) /\ ~(i <= requests)
    BY <1>1, BoundsAssumption DEF Stored, Cids
  <2>2. QED
    BY <2>1, PhaseCases, Zenon DEF PhaseIs
<1>3. Phase = [i \in Cids |-> "new"]
  <2>1. Phase = [i \in Cids |-> Phase[i]]
    BY Zenon DEF Phase
  <2>2. QED
    BY <1>2, <2>1
<1>4. QED
  BY <1>1, <1>3 DEF Transfer!Init, TransferInv

(* Transfers that have begun and are not over are the one that is stored.       *)
LEMMA ActiveIsStored ==
  ASSUME Inv, NEW i \in Transfer!Active
  PROVE  i = ursc_cid
<1>1. i \in Cids /\ Phase[i] \in {"waiting", "open"}
  BY DEF Transfer!Active
<1>2. PhaseIs(i) /\ outcome[i] \in Outcomes
  BY <1>1, PhaseCases, OutcomesTyped
<1>3. Stored(i)
  BY <1>1, <1>2 DEF PhaseIs, Outcomes, Failures
<1>4. QED
  BY <1>3 DEF Stored

LEMMA StartStep ==
  ASSUME Inv, StartSucceeds
  PROVE  \E i \in Cids : Transfer!Open(i)
<1>1. /\ ursc_cid # 0 /\ ursc_obj # NoRsc /\ ~ursc_connected /\ ursc_connected' = TRUE
      /\ UNCHANGED <<ursc_cid, ursc_obj, outcome, requests, announced, got>> /\ pc = "process"
  BY Zenon DEF StartSucceeds, InProgress
<1>2. outcome[ursc_cid] = "none"
  BY <1>1 DEF Inv, StoredIsCurrent
<1>3. PICK c \in Cids : c = ursc_cid
  BY <1>1 DEF Inv, TypeOK
<1>4. Phase[c] = "waiting"
  BY <1>1, <1>2, <1>3, StoredPhase
<1>5. Phase'[c] = "open"
  <2>1. Stored(c)'
    BY <1>1, <1>3, Zenon DEF Stored
  <2>2. outcome'[c] = "none"
    BY <1>1, <1>2, <1>3
  <2>3. QED
    BY <1>1, <2>1, <2>2, PhaseCasesNext DEF PhaseIs
<1>6. ASSUME NEW j \in Cids, j # c
      PROVE  Phase'[j] = Phase[j]
  <2>1. Untouched(j)
    BY <1>1, <1>3, <1>6, Zenon DEF Untouched, Stored
  <2>2. QED
    BY <2>1, PhaseKeeps, OutcomesTyped
<1>7. Phase' = [Phase EXCEPT ![c] = "open"]
  BY <1>5, <1>6, PhaseMoves
<1>8. QED
  BY <1>1, <1>4, <1>7 DEF Transfer!Open

LEMMA ReadStep ==
  ASSUME Inv, NEW k \in 1 .. Left, GetBytes(k)
  PROVE  \E i \in Cids : Transfer!Hand(i)
<1>1. /\ pc = "data"
      /\ UNCHANGED <<ursc_cid, ursc_obj, ursc_connected, outcome, requests, announced>>
      /\ got' = [got EXCEPT ![ursc_cid] = [n |-> @.n + k, good |-> @.good /\ IntactPiece(k)]]
  BY Zenon DEF GetBytes
<1>2. /\ ursc_cid # 0 /\ ursc_obj # NoRsc /\ ursc_connected /\ outcome[ursc_cid] = "none"
  BY <1>1 DEF Inv, StoredIsCurrent, ThreadIsWithin
<1>3. PICK c \in Cids : c = ursc_cid
  BY <1>2 DEF Inv, TypeOK
<1>4. Phase[c] = "open"
  BY <1>2, <1>3, StoredPhase
<1>5. Phase' = Phase
  <2>1. \A i \in Cids : Untouched(i)
    BY <1>1, Zenon DEF Untouched, Stored
  <2>2. QED
    BY <2>1, PhaseStays
<1>6. got \in [Cids -> [n : Nat, good : BOOLEAN]] /\ k \in Nat /\ k > 0
  <2>1. http.len \in Nat /\ http.pos \in Nat
    BY DEF Inv, TypeOK, Connections
  <2>2. QED
    BY <2>1 DEF Inv, TypeOK, Bytes, Left
<1>7. PICK g : g = (got[c].good /\ IntactPiece(k))
  OBVIOUS
<1>8. g \in BOOLEAN /\ (g => got[c].good)
  BY <1>7
<1>9. PICK b : b = [n |-> got[c].n + k, good |-> g]
  OBVIOUS
<1>10. /\ b \in [n : Nat, good : BOOLEAN] /\ b.n > got[c].n
       /\ b.good => got[c].good
  BY <1>6, <1>8, <1>9
<1>11. got' = [got EXCEPT ![c] = b]
  BY <1>1, <1>3, <1>7, <1>9
<1>12. /\ got' \in [Cids -> [n : Nat, good : BOOLEAN]] /\ got'[c] = b
       /\ \A j \in Cids \ {c} : got'[j] = got[j]
  BY <1>6, <1>10, <1>11
<1>13. QED
  BY <1>1, <1>4, <1>5, <1>10, <1>12, Zenon DEF Transfer!Hand

(* The transfer ends, well or not.                                            *)
LEMMA EndStep ==
  ASSUME Inv, NEW result \in Outcomes \ {"none"}, ursc_cid # 0, ursc_obj # NoRsc,
         outcome[ursc_cid] = "none",
         result = "complete" => /\ ursc_connected
                                /\ got[ursc_cid] = [n |-> announced[ursc_cid], good |-> TRUE],
         outcome' = [outcome EXCEPT ![ursc_cid] = result],
         UNCHANGED <<requests, announced, got>>,
         UNCHANGED <<ursc_cid, ursc_obj, ursc_connected>> \/ Release
  PROVE  \E i \in Cids : Transfer!Complete(i) \/ Transfer!Fail(i)
<1>1. PICK c \in Cids : c = ursc_cid
  BY DEF Inv, TypeOK
<1>2. Phase[c] = IF ursc_connected THEN "open" ELSE "waiting"
  BY <1>1, StoredPhase
<1>3. Phase' = [Phase EXCEPT ![c] = IF result = "complete" THEN "complete" ELSE "failed"]
  BY <1>1, Ending
<1>4. CASE result = "complete"
  BY <1>1, <1>2, <1>3, <1>4 DEF Transfer!Complete
<1>5. CASE result # "complete"
  <2>1. Phase' = [Phase EXCEPT ![c] = "failed"] /\ Phase[c] \in {"waiting", "open"}
    BY <1>2, <1>3, <1>5
  <2>2. QED
    BY <1>1, <2>1, Zenon DEF Transfer!Fail
<1>6. QED
  BY <1>4, <1>5

LEMMA StartFailsStep ==
  ASSUME Inv, StartFails
  PROVE  \E i \in Cids : Transfer!Complete(i) \/ Transfer!Fail(i)
<1>1. /\ pc = "process" /\ ursc_cid # 0 /\ ursc_obj # NoRsc
      /\ outcome' = [outcome EXCEPT ![ursc_cid] = "httpError"]
      /\ UNCHANGED <<requests, announced, got>> /\ Release
  BY Zenon DEF StartFails, InProgress
<1>2. outcome[ursc_cid] = "none"
  BY <1>1 DEF Inv, StoredIsCurrent
<1>3. "httpError" \in Outcomes \ {"none"} /\ "httpError" # "complete"
  BY DEF Outcomes, Failures
<1>4. QED
  BY <1>1, <1>2, <1>3, EndStep

(* Inside a call of the data callback there is a transfer.                     *)
LEMMA WithinData ==
  ASSUME Inv, pc = "data"
  PROVE  /\ ursc_cid # 0 /\ ursc_obj # NoRsc /\ ursc_connected
         /\ outcome[ursc_cid] = "none" /\ announced[ursc_cid] = ursc_size
         /\ got[ursc_cid] = md5_ctx
  BY DEF Inv, StoredIsCurrent, ThreadIsWithin, DigestCoversDelivery

LEMMA StopsStep ==
  ASSUME Inv, CallbackStops
  PROVE  \E i \in Cids : Transfer!Complete(i) \/ Transfer!Fail(i)
<1>1. PICK result \in {"shortData", "aborted"} : outcome' = [outcome EXCEPT ![ursc_cid] = result]
  BY Zenon DEF CallbackStops
<1>2. pc = "data" /\ UNCHANGED <<requests, announced, got>> /\ Release
  BY Zenon DEF CallbackStops
<1>3. result \in Outcomes \ {"none"} /\ result # "complete"
  BY DEF Outcomes, Failures
<1>4. QED
  BY <1>1, <1>2, <1>3, WithinData, EndStep

LEMMA CompletesStep ==
  ASSUME Inv, CallbackCompletes
  PROVE  \E i \in Cids : Transfer!Complete(i) \/ Transfer!Fail(i)
<1>1. /\ pc = "data"
      /\ outcome' = [outcome EXCEPT ![ursc_cid] = Outcome(DigestState)]
      /\ UNCHANGED <<requests, announced, got>>
      /\ UNCHANGED <<ursc_cid, ursc_obj, ursc_connected>> \/ Release
  BY Zenon DEF CallbackCompletes, urscVars
<1>2. Outcome(DigestState) \in Outcomes \ {"none"}
  BY DEF Outcome, Outcomes, Failures
<1>3. Outcome(DigestState) = "complete" => md5_ctx = [n |-> ursc_size, good |-> TRUE]
  BY DEF Outcome, DigestState
<1>4. PICK result \in Outcomes \ {"none"} : result = Outcome(DigestState)
  BY <1>2
<1>5. QED
  BY <1>1, <1>3, <1>4, WithinData, EndStep

LEMMA NotifiedStep ==
  ASSUME Inv, TransferInv, CompletionNotified
  PROVE  UNCHANGED <<Phase, announced, got>>
<1>1. /\ pc = "ntfy" /\ UNCHANGED <<requests, announced, got, outcome>>
      /\ ursc_cid' = 0
  BY Zenon DEF CompletionNotified, Release
<1>2. ASSUME NEW i \in Cids
      PROVE  Untouched(i)
  <2>1. CASE i = ursc_cid
    BY <1>1, <2>1 DEF Untouched, TransferInv
  <2>2. CASE i # ursc_cid
    <3>1. i # 0
      BY BoundsAssumption DEF Cids
    <3>2. QED
      BY <1>1, <2>2, <3>1, Zenon DEF Untouched, Stored
  <2>3. QED
    BY <2>1, <2>2
<1>3. QED
  BY <1>1, <1>2, PhaseStays
-----------------------------------------------------------------------------
(* A request that arrives is new.                                              *)
LEMMA Arriving ==
  ASSUME Inv, TransferInv, requests < MaxRequests
  PROVE  /\ requests + 1 \in Cids /\ Phase[requests + 1] = "new"
         /\ outcome[requests + 1] = "none" /\ announced[requests + 1] = 0
         /\ requests + 1 # ursc_cid
<1>1. requests \in Nat /\ MaxRequests \in Nat
  BY BoundsAssumption DEF Inv, TypeOK
<1>2. requests + 1 \in Cids /\ requests + 1 > requests /\ ~(requests + 1 <= requests)
  BY <1>1 DEF Cids
<1>3. /\ outcome[requests + 1] = "none" /\ announced[requests + 1] = 0
      /\ requests + 1 # ursc_cid
  BY <1>2 DEF Inv, FutureIsBlank, TransferInv
<1>4. Phase[requests + 1] = "new"
  BY <1>2, <1>3, PhaseCases DEF PhaseIs, Stored
<1>5. QED
  BY <1>2, <1>3, <1>4

(* The others do not change when one arrives and nothing was stored, or         *)
(* nothing is stored anew.                                                     *)
LEMMA OthersStay ==
  ASSUME Inv, requests < MaxRequests, requests' = requests + 1, outcome' = outcome,
         \/ ursc_cid = 0 /\ ursc_cid' = requests + 1
         \/ UNCHANGED <<ursc_cid, ursc_obj, ursc_connected>>,
         NEW j \in Cids, j # requests + 1
  PROVE  Phase'[j] = Phase[j]
<1>1. requests \in Nat /\ j \in Nat /\ j # 0
  BY BoundsAssumption DEF Inv, TypeOK, Cids
<1>2. j <= requests' <=> j <= requests
  BY <1>1
<1>3. Untouched(j)
  <2>1. CASE ursc_cid = 0 /\ ursc_cid' = requests + 1
    <3>1. ~Stored(j) /\ ~Stored(j)'
      BY <1>1, <2>1, Zenon DEF Stored
    <3>2. QED
      BY <1>2, <3>1, Zenon DEF Untouched
  <2>2. CASE UNCHANGED <<ursc_cid, ursc_obj, ursc_connected>>
    BY <1>2, <2>2, Zenon DEF Untouched, Stored
  <2>3. QED
    BY <2>1, <2>2
<1>4. QED
  BY <1>3, PhaseKeeps, OutcomesTyped

LEMMA BusyStep ==
  ASSUME Inv, TransferInv, RequestWhileBusy
  PROVE  \E i \in Cids : Transfer!Drop(i)
<1>1. /\ requests < MaxRequests /\ requests' = requests + 1
      /\ UNCHANGED <<ursc_cid, ursc_obj, ursc_connected, outcome, announced, got>>
  BY Zenon DEF RequestWhileBusy, urscVars
<1>2. PICK c \in Cids : c = requests + 1
  BY <1>1, Arriving
<1>3. Phase[c] = "new" /\ outcome[c] = "none" /\ c # ursc_cid
  BY <1>1, <1>2, Arriving
<1>4. c <= requests'
  BY <1>1, <1>2 DEF Inv, TypeOK
<1>5. Phase'[c] = "dropped"
  BY <1>1, <1>3, <1>4, PhaseCasesNext DEF PhaseIs, Stored
<1>6. Phase' = [Phase EXCEPT ![c] = "dropped"]
  BY <1>1, <1>2, <1>5, OthersStay, PhaseMoves
<1>7. announced' = [announced EXCEPT ![c] = announced[c]]
  BY <1>1 DEF Inv, TypeOK
<1>8. QED
  BY <1>1, <1>3, <1>6, <1>7 DEF Transfer!Drop

(* A message is stored: its transfer will start if it names a resource.        *)
LEMMA StoreStep ==
  ASSUME Inv, TransferInv, NEW req \in Requests, requests < MaxRequests, requests' = requests + 1,
         ursc_cid = 0, Store(requests + 1, req), UNCHANGED <<outcome, got>>
  PROVE  \E i \in Cids : Transfer!Take(i) \/ Transfer!Drop(i)
<1>1. /\ ursc_cid' = requests + 1 /\ ursc_obj' = req.fields.rsc /\ ursc_connected' = FALSE
      /\ announced' = [announced EXCEPT ![requests + 1] = req.fields.size]
  BY Zenon DEF Store
<1>2. PICK c \in Cids : c = requests + 1
  BY Arriving
<1>3. Phase[c] = "new" /\ outcome[c] = "none" /\ announced[c] = 0
  BY <1>2, Arriving
<1>4. c <= requests'
  BY <1>2 DEF Inv, TypeOK
<1>5. \A j \in Cids : j # c => Phase'[j] = Phase[j]
  BY <1>1, <1>2, OthersStay
<1>6. req.fields.size \in Sizes \/ (req.fields.rsc = NoRsc /\ req.fields.size = 0)
  <2>1. CASE req = [fields |-> NoField, form |-> "badId"]
    BY <2>1 DEF NoField
  <2>2. CASE req # [fields |-> NoField, form |-> "badId"]
    <3>1. PICK f \in [rsc : Rsc \cup {NoRsc}, size : Sizes, uri : BOOLEAN, md5 : BOOLEAN],
               form \in {"good", "badTail"} : req = [fields |-> f, form |-> form]
      BY <2>2 DEF Requests
    <3>2. QED
      BY <3>1
  <2>3. QED
    BY <2>1, <2>2
<1>7. CASE req.fields.rsc # NoRsc
  <2>1. Phase'[c] = "waiting"
    BY <1>1, <1>2, <1>3, <1>7, PhaseCasesNext DEF PhaseIs, Stored
  <2>2. Phase' = [Phase EXCEPT ![c] = "waiting"]
    BY <1>5, <2>1, PhaseMoves
  <2>3. Transfer!Active = {}
    <3>1. \A i \in Transfer!Active : i \in Cids /\ i = ursc_cid
      BY ActiveIsStored, Zenon DEF Transfer!Active
    <3>2. 0 \notin Cids
      BY DEF Cids
    <3>3. QED
      BY <3>1, <3>2
  <2>4. QED
    BY <1>1, <1>2, <1>3, <1>6, <1>7, <2>2, <2>3, Zenon DEF Transfer!Take
<1>8. CASE req.fields.rsc = NoRsc
  <2>1. Phase'[c] = "dropped"
    BY <1>1, <1>3, <1>4, <1>8, PhaseCasesNext DEF PhaseIs, Stored
  <2>2. Phase' = [Phase EXCEPT ![c] = "dropped"]
    BY <1>5, <2>1, PhaseMoves
  <2>3. req.fields.size \in Sizes \cup {announced[c]}
    BY <1>3, <1>6
  <2>4. QED
    BY <1>1, <1>2, <1>3, <2>2, <2>3, Zenon DEF Transfer!Drop
<1>9. QED
  BY <1>7, <1>8

LEMMA RefusesStep ==
  ASSUME Inv, UserRefuses
  PROVE  (\E i \in Cids : Transfer!Drop(i)) \/ UNCHANGED <<Phase, announced, got>>
<1>1. /\ pc = "ask" /\ ursc_cid' = 0 /\ ursc_obj' = NoRsc
      /\ UNCHANGED <<requests, ursc_connected, outcome, announced, got>>
  BY Zenon DEF UserRefuses
<1>2. /\ ursc_cid # 0 /\ ~ursc_connected /\ outcome[ursc_cid] = "none"
  BY <1>1 DEF Inv, ThreadIsWithin, StoredIsCurrent
<1>3. PICK c \in Cids : c = ursc_cid
  BY <1>2 DEF Inv, TypeOK
<1>4. \A j \in Cids : ~Stored(j)'
  BY <1>1, Zenon DEF Stored
<1>5. CASE ursc_obj = NoRsc
  <2>1. \A j \in Cids : Untouched(j)
    BY <1>1, <1>4, <1>5, Zenon DEF Untouched, Stored
  <2>2. QED
    BY <1>1, <2>1, PhaseStays
<1>6. CASE ursc_obj # NoRsc
  <2>1. Phase[c] = "waiting"
    BY <1>2, <1>3, <1>6, StoredPhase
  <2>2. c <= requests
    <3>1. ~(c > requests)
      BY <1>3, Zenon DEF Inv, FutureIsBlank
    <3>2. c \in Int /\ requests \in Int
      BY BoundsAssumption DEF Inv, TypeOK, Cids
    <3>3. QED
      BY <3>1, <3>2
  <2>3. Phase'[c] = "dropped"
    BY <1>1, <1>2, <1>3, <1>4, <2>2, PhaseCasesNext DEF PhaseIs
  <2>4. ASSUME NEW j \in Cids, j # c
        PROVE  Phase'[j] = Phase[j]
    <3>1. Untouched(j)
      BY <1>1, <1>3, <1>4, <2>4, Zenon DEF Untouched, Stored
    <3>2. QED
      BY <3>1, PhaseKeeps, OutcomesTyped
  <2>5. Phase' = [Phase EXCEPT ![c] = "dropped"]
    BY <2>3, <2>4, PhaseMoves
  <2>6. announced' = [announced EXCEPT ![c] = announced[c]]
    BY <1>1 DEF Inv, TypeOK
  <2>7. QED
    BY <1>1, <2>1, <2>5, <2>6 DEF Transfer!Drop
<1>7. QED
  BY <1>5, <1>6
-----------------------------------------------------------------------------
LEMMA TransferInvKeeps ==
  ASSUME Inv, TransferInv, [Next]_vars
  PROVE  TransferInv'
<1>1. CASE \/ CycleEnter \/ (\E success \in BOOLEAN : Reconnect(success)) \/ ProcessNothing
           \/ StartFails \/ StartSucceeds \/ DataCallback
  <2>1. UNCHANGED <<requests, announced>> /\ pc' # "ntfy"
    <3>1. CASE CycleEnter \/ ProcessNothing \/ DataCallback
      BY <3>1 DEF CycleEnter, ProcessNothing, DataCallback, seenVars
    <3>2. ASSUME NEW success \in BOOLEAN, Reconnect(success)
          PROVE  UNCHANGED <<requests, announced>> /\ pc' # "ntfy"
      BY <3>2 DEF Reconnect, seenVars
    <3>3. CASE StartFails \/ StartSucceeds
      BY <3>3 DEF StartFails, StartSucceeds
    <3>4. QED
      BY <1>1, <3>1, <3>2, <3>3, Zenon
  <2>2. QED
    BY <2>1 DEF TransferInv
<1>2. CASE CallbackGoesOn \/ CallbackStops \/ CompletionNotified \/ YieldEnds \/ UserAccepts \/ UserRefuses
  <2>1. UNCHANGED <<requests, announced>> /\ pc' # "ntfy"
    <3>1. CASE CallbackGoesOn \/ CallbackStops \/ CompletionNotified
      BY <3>1 DEF CallbackGoesOn, CallbackStops, CompletionNotified
    <3>2. CASE YieldEnds \/ UserAccepts \/ UserRefuses
      BY <3>2 DEF YieldEnds, UserAccepts, UserRefuses, seenVars
    <3>3. QED
      BY <1>2, <3>1, <3>2
  <2>2. QED
    BY <2>1 DEF TransferInv
<1>3. CASE SessionLost \/ GetNothing \/ GetOther \/ ServerCloses \/ UNCHANGED vars
  <2>1. UNCHANGED <<pc, ursc_cid, outcome, requests, announced>>
    <3>1. CASE SessionLost \/ GetNothing \/ UNCHANGED vars
      BY <3>1 DEF SessionLost, GetNothing, vars, urscVars, seenVars
    <3>2. CASE GetOther \/ ServerCloses
      BY <3>2 DEF GetOther, ServerCloses, urscVars, seenVars
    <3>3. QED
      BY <1>3, <3>1, <3>2
  <2>2. QED
    BY <2>1 DEF TransferInv
<1>4. ASSUME NEW k, GetBytes(k)
      PROVE  TransferInv'
  BY <1>4 DEF GetBytes, TransferInv
<1>5. CASE CallbackCompletes
  <2>1. /\ pc = "data" /\ UNCHANGED <<requests, announced>>
        /\ outcome' = [outcome EXCEPT ![ursc_cid] = Outcome(DigestState)]
        /\ pc' = "ntfy" => ursc_cid' = ursc_cid
    BY <1>5 DEF CallbackCompletes, urscVars
  <2>2. Outcome(DigestState) # "none"
    BY DEF Outcome
  <2>3. ursc_cid \in Cids
    BY <2>1, WithinData DEF Inv, TypeOK
  <2>4. outcome'[ursc_cid] # "none"
    BY <2>1, <2>2, <2>3, OutcomesTyped
  <2>5. QED
    BY <2>1, <2>4 DEF TransferInv
<1>6. ASSUME requests' = requests + 1, requests < MaxRequests, pc' # "ntfy",
             NEW size, announced' = announced \/ announced' = [announced EXCEPT ![requests + 1] = size]
      PROVE  TransferInv'
  <2>1. requests \in Nat
    BY DEF Inv, TypeOK
  <2>2. ASSUME NEW i \in Cids, i > requests'
        PROVE  i > requests /\ i # requests + 1
    BY <1>6, <2>1, <2>2 DEF Cids
  <2>3. ASSUME NEW i \in Cids, i > requests'
        PROVE  announced'[i] = announced[i]
    BY <1>6, <2>2, <2>3 DEF Inv, TypeOK
  <2>4. QED
    BY <1>6, <2>2, <2>3 DEF TransferInv
<1>7. CASE RequestWhileBusy
  <2>1. requests' = requests + 1 /\ requests < MaxRequests /\ pc' # "ntfy" /\ announced' = announced
    BY <1>7 DEF RequestWhileBusy
  <2>2. QED
    BY <1>6, <2>1
<1>8. ASSUME NEW req, RequestIllFormed(req) \/ RequestUnasked(req) \/ RequestAsked(req)
      PROVE  TransferInv'
  <2>1. /\ requests' = requests + 1 /\ requests < MaxRequests /\ pc' # "ntfy"
        /\ announced' = [announced EXCEPT ![requests + 1] = req.fields.size]
    BY <1>8 DEF RequestIllFormed, RequestUnasked, RequestAsked, Store
  <2>2. QED
    BY <1>6, <2>1
<1>9. QED
  BY <1>1, <1>2, <1>3, <1>4, <1>5, <1>7, <1>8, Zenon DEF Next, Application, Process, Callback, Yield

LEMMA StepImplements ==
  ASSUME Inv, TransferInv, [Next]_vars
  PROVE  [Transfer!Next]_(Transfer!vars)
<1>1. ASSUME UNCHANGED <<Phase, announced, got>>
      PROVE  UNCHANGED Transfer!vars
  BY <1>1 DEF Transfer!vars
<1>2. CASE \/ CycleEnter \/ SessionLost \/ (\E success \in BOOLEAN : Reconnect(success))
           \/ ProcessNothing \/ DataCallback \/ GetNothing \/ GetOther \/ ServerCloses
           \/ CallbackGoesOn \/ YieldEnds \/ UserAccepts \/ UNCHANGED vars
  BY <1>1, <1>2, SilentSteps, Zenon
<1>3. CASE StartFails \/ CallbackStops \/ CallbackCompletes
  BY <1>3, StartFailsStep, StopsStep, CompletesStep, Zenon DEF Transfer!Next
<1>4. CASE StartSucceeds
  BY <1>4, StartStep, Zenon DEF Transfer!Next
<1>5. ASSUME NEW k \in 1 .. Left, GetBytes(k)
      PROVE  Transfer!Next
  BY <1>5, ReadStep, Zenon DEF Transfer!Next
<1>6. CASE CompletionNotified
  BY <1>1, <1>6, NotifiedStep, Zenon
<1>7. CASE RequestWhileBusy
  BY <1>7, BusyStep, Zenon DEF Transfer!Next
<1>8. ASSUME NEW req \in Requests, RequestIllFormed(req) \/ RequestUnasked(req) \/ RequestAsked(req)
      PROVE  Transfer!Next
  <2>1. /\ requests < MaxRequests /\ requests' = requests + 1 /\ ursc_cid = 0
        /\ Store(requests + 1, req) /\ UNCHANGED <<outcome, got>>
    BY <1>8, Zenon DEF RequestIllFormed, RequestUnasked, RequestAsked
  <2>2. QED
    BY <2>1, StoreStep, Zenon DEF Transfer!Next
<1>9. CASE UserRefuses
  BY <1>1, <1>9, RefusesStep, Zenon DEF Transfer!Next
<1>10. QED
  BY <1>2, <1>3, <1>4, <1>5, <1>6, <1>7, <1>8, <1>9, Zenon
     DEF Next, Application, Process, Callback, Yield

(* The device implements the abstract transfer: every handler, callback and     *)
(* call of the library takes at most one step of ResourceTransfer, so at most   *)
(* one transfer is under way, what is handed over grows, it is complete only    *)
(* when it is the whole resource that was announced, and what is over stays so. *)
THEOREM DeviceImplementsTransfer == Spec => ImplementsTransfer
<1>1. Init => Transfer!Init /\ TransferInv
  BY InitImplements
<1>2. Inv /\ TransferInv /\ [Next]_vars => TransferInv'
  BY TransferInvKeeps
<1>3. Inv /\ TransferInv /\ [Next]_vars => [Transfer!Next]_(Transfer!vars)
  BY StepImplements
<1>4. QED
  BY <1>1, <1>2, <1>3, InvHolds, PTL DEF Spec, ImplementsTransfer, Transfer!Spec
=============================================================================
