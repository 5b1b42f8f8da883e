-------------------------- MODULE ResourceTransfer --------------------------
(***************************************************************************)
(* What the transfer of resources promises, request by request, with no     *)
(* regard to how the device does it.  At most one transfer is under way.    *)
(* It hands the application consecutive pieces of the body it reads, and    *)
(* it is complete only when the application holds every byte of the         *)
(* resource that was announced and no other.  What is over stays over.      *)
(* ResourceDownload implements this specification.                          *)
(***************************************************************************)
EXTENDS Integers

CONSTANTS
  Cids,      (* the requests                                                *)
  Sizes      (* the sizes a request may announce                            *)

VARIABLES
  phase,     (* of a request: how far its transfer is                       *)
  announced, (* of a request: the size it announces                         *)
  got        (* of a request: bytes handed over, and are they the           *)
             (* resource's?                                                 *)

vars == <<phase, announced, got>>

Phases == {"new", "waiting", "open", "complete", "failed", "dropped"}

Active == {i \in Cids : phase[i] \in {"waiting", "open"}}

TypeOK ==
  /\ phase \in [Cids -> Phases]
  /\ announced \in [Cids -> Nat]
  /\ got \in [Cids -> [n : Nat, good : BOOLEAN]]

Init ==
  /\ phase = [i \in Cids |-> "new"]
  /\ announced = [i \in Cids |-> 0]
  /\ got = [i \in Cids |-> [n |-> 0, good |-> TRUE]]

(* The request names a resource of the device and its transfer will start.  *)
Take(i) ==
  /\ phase[i] = "new"
  /\ Active = {}
  /\ phase' = [phase EXCEPT ![i] = "waiting"]
  /\ \E size \in Sizes : announced' = [announced EXCEPT ![i] = size]
  /\ UNCHANGED got

(* The request will never be transferred. *)
Drop(i) ==
  /\ phase[i] \in {"new", "waiting"}
  /\ phase' = [phase EXCEPT ![i] = "dropped"]
  /\ \E size \in Sizes \cup {announced[i]} :
       announced' = [announced EXCEPT ![i] = size]
  /\ UNCHANGED got

Open(i) ==
  /\ phase[i] = "waiting"
  /\ phase' = [phase EXCEPT ![i] = "open"]
  /\ UNCHANGED <<announced, got>>

Hand(i) ==
  /\ phase[i] = "open"
  /\ got' \in [Cids -> [n : Nat, good : BOOLEAN]]
  /\ got'[i].n > got[i].n
  /\ got'[i].good => got[i].good
  /\ \A j \in Cids \ {i} : got'[j] = got[j]
  /\ UNCHANGED <<phase, announced>>

Complete(i) ==
  /\ phase[i] = "open"
  /\ got[i] = [n |-> announced[i], good |-> TRUE]
  /\ phase' = [phase EXCEPT ![i] = "complete"]
  /\ UNCHANGED <<announced, got>>

Fail(i) ==
  /\ phase[i] \in {"waiting", "open"}
  /\ phase' = [phase EXCEPT ![i] = "failed"]
  /\ UNCHANGED <<announced, got>>

Next ==
  \E i \in Cids :
    Take(i) \/ Drop(i) \/ Open(i) \/ Hand(i) \/ Complete(i) \/ Fail(i)

Spec == Init /\ [][Next]_vars
=============================================================================
