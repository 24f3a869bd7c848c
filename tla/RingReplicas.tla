--------------------------- MODULE RingReplicas ---------------------------
(***************************************************************************)
(* What the comment on Mergeable.Merge (kv/memberlist/mergeable.go) asks   *)
(* of a merge function, for Desc.Merge: replicas merge updates and each    *)
(* other's states, in any order and any number of times.                   *)
(*                                                                         *)
(* The updates are what instances publish about themselves: an entry per   *)
(* second at most (memberlist's CAS waits for the next second when Merge   *)
(* sees no change), or the tombstone of the last one, in the same second.  *)
(***************************************************************************)
EXTENDS RingDesc

CONSTANTS
  Replicas,
  Updates     \* descriptors of one instance each

ASSUME UpdatesAssumption == \A u \in Updates : IsDesc(u)

(***************************************************************************)
(* What an instance has published in one second is one entry, or one and   *)
(* its tombstone, whose tokens do not count.                               *)
(***************************************************************************)
ASSUME OncePerSecond ==
  \A u, v \in Updates : \A i \in DOMAIN u \cap DOMAIN v :
    Rank(u, i) = Rank(v, i) => Normalize(u)[i] = Normalize(v)[i]

VARIABLES
  desc,       \* the descriptor of each replica
  got         \* the updates merged into it, directly or through others

replicaVars == <<desc, got>>

ReplicasInit ==
  /\ desc = [r \in Replicas |-> NewDesc]
  /\ got = [r \in Replicas |-> {}]

(***************************************************************************)
(* r merges o, which carries the updates us.  (Only localCAS uses a time.) *)
(***************************************************************************)
Apply(r, o, us) ==
  /\ desc' = [desc EXCEPT ![r] = Merged(@, o, FALSE, 0)]
  /\ got' = [got EXCEPT ![r] = @ \cup us]

Receive(r, u) == Apply(r, u, {u})

PushPull(r, q) == r # q /\ Apply(r, desc[q], got[q])

ReplicasNext ==
  \E r \in Replicas :
    \/ \E u \in Updates : Receive(r, u)
    \/ \E q \in Replicas : PushPull(r, q)

ReplicasSpec == ReplicasInit /\ [][ReplicasNext]_replicaVars

-----------------------------------------------------------------------------
(***************************************************************************)
(* Descriptors are well formed and normalised ("The function guarantees    *)
(* that the receiver will be left in this normalised state").              *)
(***************************************************************************)
ReplicasTypeOK ==
  \A r \in Replicas :
    /\ IsDesc(desc[r])
    /\ \A i \in DOMAIN desc[r] : desc[r][i].state = "LEFT" => desc[r][i].tokens = {}

(***************************************************************************)
(* Idempotency: a replica that merges anything again that it has merged    *)
(* stays as it is, and "only first Merge will return non-empty change".    *)
(***************************************************************************)
MergeIdempotent ==
  \A r \in Replicas : \A u \in got[r] :
    /\ MergeChange(desc[r], u, FALSE, 0) = NewDesc
    /\ Merged(desc[r], u, FALSE, 0) = desc[r]

(***************************************************************************)
(* The tokens that more than one instance registers in the updates us.     *)
(***************************************************************************)
Disputed(us) ==
  {t \in Tokens : \E u, v \in us : \E i \in DOMAIN u, j \in DOMAIN v :
                   i # j /\ t \in u[i].tokens /\ t \in v[j].tokens}

(***************************************************************************)
(* Replicas that have merged the same updates, in whatever order and       *)
(* grouping, know the same instances with the same timestamps and states,  *)
(* and agree on the owner of every token only one instance has registered. *)
(* (They may differ in the others: resolveConflicts takes tokens away from *)
(* an instance under an unchanged timestamp.)                              *)
(***************************************************************************)
SameUpdatesAgree ==
  \A r, q \in Replicas : got[r] = got[q] =>
    /\ DOMAIN desc[r] = DOMAIN desc[q]
    /\ \A i \in DOMAIN desc[r] :
         /\ desc[r][i].ts = desc[q][i].ts /\ desc[r][i].state = desc[q][i].state
         /\ desc[r][i].tokens \ Disputed(got[r]) = desc[q][i].tokens \ Disputed(got[r])

(***************************************************************************)
(* "In order for state merging to work correctly, Merge function must" be  *)
(* commutative and associative: the same updates give the same descriptor, *)
(* disputed tokens included.                                               *)
(***************************************************************************)
MergeOrderDoesNotMatter == \A r, q \in Replicas : got[r] = got[q] => desc[r] = desc[q]

(***************************************************************************)
(* No merge replaces what is known of an instance by something older, so a *)
(* late message never resurrects an instance that has left.                *)
(***************************************************************************)
NeverGoesBack ==
  [][\A r \in Replicas, i \in Instances : Rank(desc[r], i) <= Rank(desc'[r], i)]_replicaVars

(***************************************************************************)
(* No two instances of a replica's descriptor own the same token.          *)
(***************************************************************************)
ReplicasHaveOneOwner ==
  \A r \in Replicas : ~conflictingTokensExist(desc[r])

(***************************************************************************)
(* What merging leaves, in whatever order and grouping, is a normalised    *)
(* descriptor that merging what it has got does not change, and in which   *)
(* every token has one owner.                                              *)
(***************************************************************************)
ReplicaIsSound == ReplicasTypeOK /\ MergeIdempotent /\ ReplicasHaveOneOwner
=============================================================================
