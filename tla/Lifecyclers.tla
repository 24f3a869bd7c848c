---------------------------- MODULE Lifecyclers ----------------------------
(***************************************************************************)
(* The instances of a ring have one kind of lifecycler or the other,       *)
(* conf.kind: the two share the ring, the store's failures and the tokens  *)
(* file.                                                                   *)
(***************************************************************************)
EXTENDS Lifecycler, BasicLifecycler

ASSUME KindAssumption == \A c \in Confs : c.kind \in {"full", "basic"}

allVars == <<storeVars, lc, transfer, bl>>

LifecyclersInit == Init /\ BasicInit

LifecyclersNext ==
  \/ conf.kind = "full" /\ Next /\ UNCHANGED bl
  \/ conf.kind = "basic" /\ BasicNext /\ UNCHANGED <<lc, transfer>>

LifecyclersSpec == LifecyclersInit /\ [][LifecyclersNext]_allVars /\ Fairness /\ BasicFairness

-----------------------------------------------------------------------------
\* Every variable of either kind holds a value of its kind.
LifecyclersTypeOK == TypeOK /\ BasicTypeOK

(***************************************************************************)
(* A lifecycler of either kind that is stopped ends: whatever becomes of   *)
(* its handover to another instance, whether its delegate's update or its  *)
(* own heartbeats fail, and if the ring it wants to leave is gone.         *)
(***************************************************************************)
Leaves ==
  \A i \in Instances : (lc[i].pc = "stopping" \/ bl[i].pc = "stopping") ~> (~Up(i) /\ IsDown(i))

(***************************************************************************)
(* Tokens in the ring and in the lifecyclers agree: a token has one owner, *)
(* who knows it, and one that is lost while it is observed is replaced;    *)
(* through joins, handovers, failing updates and restarts.                 *)
(***************************************************************************)
TokensAreKept == LifecyclersTypeOK /\ TokensHaveOneOwner /\ ActiveKnowsTokens /\ LostTokensAreReplaced

(***************************************************************************)
(* No update undoes what an entry of the ring says: when the instance was  *)
(* registered, that it is LEAVING while it stops, and, when it has         *)
(* reported itself ready, that it has tokens.                              *)
(***************************************************************************)
EntriesAreKept == RegistrationIsKept /\ LeavingStays /\ ReadyHasTokens

(***************************************************************************)
(* An instance gets into the ring, and back into it: one that joins        *)
(* becomes ACTIVE, and one that was forgotten, or whose ring was lost, is  *)
(* there again after a heartbeat.                                          *)
(***************************************************************************)
GetsIntoRing == Joins /\ ComesBack
=============================================================================
