-------------------------- MODULE QuorumOpsProofs --------------------------
(***************************************************************************)
(* What holds of DoBatch and ReplicationSet.Do for any ring, any number of *)
(* keys and whatever replication sets the ring gives for them: DoBatch     *)
(* answers once and rightly, cleanup comes last, and Do's loop never       *)
(* blocks.                                                                 *)
(***************************************************************************)
EXTENDS QuorumOps, FiniteSetTheorems, WellFoundedInduction, TLAPS

-----------------------------------------------------------------------------
(***************************************************************************)
(* DoBatch.  Left(i) are the keys that the goroutine of i has yet to count *)
(* in the keys' own counters; those counters count who is done.            *)
(***************************************************************************)
Deciding(i) == rpc[i].pc \in {"batch", "send"}
Left(i) == IF Deciding(i) THEN rpc[i].todo \ {Item(i)} ELSE rpc[i].todo

OkAt(k) == {i \in DOMAIN rpc : rpc[i].ok /\ k \in IndexesOf(i) \ Left(i)}
ErrAt(k) == {i \in DOMAIN rpc : ~rpc[i].ok /\ k \in IndexesOf(i) \ Left(i)}

\* The keys with enough successes, and the goroutines that have yet to count or to send such an outcome.
OkKeys == {k \in BatchKeys : minSuccess(k) >= 1 /\ succeeded[k] >= minSuccess(k)}
Counting == {i \in DOMAIN rpc : rpc[i].pc = "batch" /\ rpc[i].ok}
SendingDone == {i \in DOMAIN rpc : rpc[i].pc = "send" /\ rpc[i].ok}
SendingErr == {i \in DOMAIN rpc : rpc[i].pc = "send" /\ ~rpc[i].ok}

Spread == caller \in {"waiting", "nil", "error", "ctx"}

RpcOK(i) ==
  /\ rpc[i] \in [pc : {"calling", "item", "batch", "send", "finished"}, ok : BOOLEAN, todo : SUBSET BatchKeys]
  /\ rpc[i].todo \subseteq IndexesOf(i)
  /\ rpc[i].pc = "calling" => rpc[i].todo = IndexesOf(i) /\ ~rpc[i].ok
  /\ rpc[i].todo = {} <=> rpc[i].pc = "finished"
  /\ Deciding(i) => LET k == Item(i) IN IF rpc[i].ok THEN k \in OkKeys ELSE failed[k] > maxFailures(k)

KeyOK(k) == succeeded[k] = Cardinality(OkAt(k)) /\ failed[k] = Cardinality(ErrAt(k))

(***************************************************************************)
(* rpcsPending is the number of keys without enough successes and of those *)
(* not yet counted; the one that makes it 0, and the first failed key,     *)
(* are sent.                                                               *)
(***************************************************************************)
CountersOK ==
  /\ rpcsPending = numKeys - Cardinality(OkKeys) + Cardinality(Counting) /\ rpcsPending <= numKeys
  /\ doneSent + Cardinality(SendingDone) = (IF numKeys > 0 /\ rpcsPending = 0 THEN 1 ELSE 0)
  /\ errSent + Cardinality(SendingErr) = (IF rpcsFailed > 0 THEN 1 ELSE 0)
  /\ rpcsFailed > 0 => \E k \in BatchKeys : failed[k] > maxFailures(k)

BatchTypes ==
  /\ caller \in {"idle", "lookup", "waiting", "refused", "error", "nil", "ctx", "over"}
  /\ numKeys \in Nat /\ sets \in Seq(ToSet(sets)) /\ Len(sets) <= numKeys
  /\ rpc = [i \in DOMAIN rpc |-> rpc[i]]
  /\ rpcsPending \in Int /\ rpcsFailed \in Nat /\ errSent \in Nat /\ doneSent \in Nat /\ cleanups \in {0, 1}
  /\ caller = "idle" => Len(ring.keys) \in Nat

Quiet ==
  /\ DOMAIN rpc = {} /\ rpcsPending = 0 /\ rpcsFailed = 0 /\ errSent = 0 /\ doneSent = 0
  /\ caller = "idle" => sets = << >>
  /\ caller \in {"idle", "lookup"} => cleanups = 0

Working ==
  /\ Len(sets) = numKeys /\ DOMAIN rpc = Involved
  /\ succeeded \in [BatchKeys -> Nat] /\ failed \in [BatchKeys -> Nat]
  /\ \A i \in DOMAIN rpc : RpcOK(i)
  /\ \A k \in BatchKeys : KeyOK(k)
  /\ CountersOK
  /\ caller = "nil" => \A k \in BatchKeys : Cardinality(acked[k]) >= minSuccess(k)
  /\ caller = "error" => errSent > 0
  /\ cleanups = 1 => \A i \in DOMAIN rpc : rpc[i].pc = "finished"

BatchInv == BatchTypes /\ IF Spread THEN Working ELSE Quiet

-----------------------------------------------------------------------------
(***************************************************************************)
(* Do: a result is received once, and every start in forceStart stands for *)
(* an error that was received.                                             *)
(***************************************************************************)
Heard(i) == i \in DOMAIN req /\ req[i] = "answered"

DoInv ==
  /\ forceStart \in Nat /\ IsFiniteSet(gotErr)
  /\ doPc = "idle" => gotErr = {} /\ ch = {} /\ forceStart = 0 /\ DOMAIN req = {}
  /\ \A r \in ch : Heard(r.from) /\ r.from \notin gotErr
  /\ \A r, s \in ch : r.from = s.from => r = s
  /\ \A i \in gotErr : Heard(i)
  /\ forceStart + (IF doPc = "force" THEN 1 ELSE 0) <= Cardinality(gotErr)
  /\ doPc = "force" => Cardinality(gotErr) <= rset.maxErrors

Inv == BatchInv /\ DoInv

-----------------------------------------------------------------------------
(***************************************************************************)
(* Finite sets and sequences.                                              *)
(***************************************************************************)
\* The least element of a set of natural numbers is one of them.
LEMMA MinIn ==
  ASSUME NEW S \in SUBSET Nat, S # {}
  PROVE  Min(S) \in S
<1> DEFINE R == {ss \in Nat \X Nat : ss[1] < ss[2]}
<1>1. IsWellFoundedOn(R, Nat)
  BY NatLessThanWellFounded DEF OpToRel
<1> HIDE DEF R
<1>2. PICK x \in S : \A y \in S : ~(<<y, x>> \in R)
  BY <1>1, WFMin
<1>3. ASSUME NEW y \in S PROVE x <= y
  <2>1. x \in Nat /\ y \in Nat
    OBVIOUS
  <2>2. y < x => <<y, x>> \in R
    BY <2>1 DEF R
  <2> QED
    BY <1>2, <2>1, <2>2
<1> QED
  BY <1>3 DEF Min

\* The elements of a sequence are finitely many, and no more than its length.
LEMMA ToSetFinite ==
  ASSUME NEW s, NEW n \in Nat, DOMAIN s = 1..n
  PROVE  IsFiniteSet(ToSet(s)) /\ Cardinality(ToSet(s)) <= n
<1> DEFINE f == [x \in 1..n |-> s[x]]
<1>1. f \in Surjection(1..n, ToSet(s))
  BY DEF Surjection, ToSet
<1>2. IsFiniteSet(1..n) /\ Cardinality(1..n) = n
  BY FS_Interval
<1> QED
  BY <1>1, <1>2, FS_Surjection

\* A sequence is one over its own elements.
LEMMA SeqOfItsElements ==
  ASSUME NEW S, NEW s \in Seq(S)
  PROVE  s \in Seq(ToSet(s)) /\ Len(s) \in Nat /\ DOMAIN s = 1..Len(s)
<1>1. Len(s) \in Nat /\ DOMAIN s = 1..Len(s) /\ s = [x \in 1..Len(s) |-> s[x]]
  OBVIOUS
<1>2. \A x \in 1..Len(s) : s[x] \in ToSet(s)
  BY <1>1 DEF ToSet
<1> QED
  BY <1>1, <1>2

\* The instances of a replication set are finitely many.
LEMMA ReplicasFinite ==
  ASSUME NEW rs, IsReplicationSet(rs)
  PROVE  /\ Len(rs.instances) \in Nat /\ rs.maxErrors \in Int
         /\ IsFiniteSet(ToSet(rs.instances)) /\ Cardinality(ToSet(rs.instances)) <= Len(rs.instances)
<1>1. rs.instances \in Seq(ToSet(rs.instances)) /\ rs.maxErrors \in Int
  BY DEF IsReplicationSet
<1>2. Len(rs.instances) \in Nat /\ DOMAIN rs.instances = 1..Len(rs.instances)
  BY <1>1, SeqOfItsElements
<1> QED
  BY <1>1, <1>2, ToSetFinite

\* Two disjoint parts of a finite set are together no larger than it.
LEMMA DisjointParts ==
  ASSUME NEW S, IsFiniteSet(S), NEW A \in SUBSET S, NEW B \in SUBSET S, A \cap B = {}
  PROVE  /\ IsFiniteSet(A) /\ IsFiniteSet(B) /\ Cardinality(A) \in Nat /\ Cardinality(B) \in Nat
         /\ Cardinality(A) + Cardinality(B) <= Cardinality(S)
<1>1. IsFiniteSet(A) /\ IsFiniteSet(B)
  BY FS_Subset
<1>2. Cardinality(A) \in Nat /\ Cardinality(B) \in Nat /\ Cardinality(S) \in Nat
  BY <1>1, FS_CardinalityType
<1>3. Cardinality(A \cup B) = Cardinality(A) + Cardinality(B) - Cardinality(A \cap B)
  BY <1>1, FS_Union
<1>4. Cardinality(A \cap B) = 0
  BY FS_EmptySet
<1>5. Cardinality(A \cup B) <= Cardinality(S)
  BY FS_Subset
<1> QED
  BY <1>1, <1>2, <1>3, <1>4, <1>5

-----------------------------------------------------------------------------
(***************************************************************************)
(* DoBatch at work.                                                        *)
(***************************************************************************)
\* The replication sets of the keys are typed: what is assumed of the ring's lookups.
Typed == \A k \in BatchKeys : IsReplicationSet(sets[k])

\* The keys and the goroutines are finitely many.
LEMMA BatchFinite ==
  ASSUME BatchTypes, Typed
  PROVE  /\ Len(sets) \in Nat /\ BatchKeys \subseteq Nat
         /\ IsFiniteSet(BatchKeys) /\ Cardinality(BatchKeys) = Len(sets)
         /\ IsFiniteSet(Involved)
<1>1. Len(sets) \in Nat
  BY SeqOfItsElements DEF BatchTypes
<1>2. IsFiniteSet(BatchKeys) /\ Cardinality(BatchKeys) = Len(sets)
  BY <1>1, FS_Interval DEF BatchKeys
<1> DEFINE f == [k \in BatchKeys |-> ToSet(sets[k].instances)]
           F == {ToSet(sets[k].instances) : k \in BatchKeys}
<1>3. f \in Surjection(BatchKeys, F)
  BY DEF Surjection
<1>4. IsFiniteSet(F)
  BY <1>2, <1>3, FS_Surjection
<1>5. \A T \in F : IsFiniteSet(T)
  BY ReplicasFinite DEF Typed
<1>6. IsFiniteSet(UNION F)
  BY <1>4, <1>5, FS_UNION
<1>7. IsFiniteSet(Involved)
  BY <1>6 DEF Involved
<1> QED
  BY <1>1, <1>2, <1>7 DEF BatchKeys

(***************************************************************************)
(* A key's counters count different replicas of it: a key with too many    *)
(* failures for a quorum has too few successes for one, and the reverse.   *)
(***************************************************************************)
LEMMA OutcomesExclude ==
  ASSUME BatchTypes, Working, Typed, NEW k \in BatchKeys
  PROVE  /\ IsFiniteSet(OkAt(k)) /\ IsFiniteSet(ErrAt(k))
         /\ minSuccess(k) \in Int /\ maxFailures(k) \in Int
         /\ succeeded[k] \in Nat /\ failed[k] \in Nat
         /\ succeeded[k] + failed[k] <= minSuccess(k) + maxFailures(k)
<1> DEFINE S == ToSet(sets[k].instances)
<1>1. /\ IsFiniteSet(S) /\ Cardinality(S) <= Len(sets[k].instances)
      /\ Len(sets[k].instances) \in Nat /\ sets[k].maxErrors \in Int
  BY ReplicasFinite DEF Typed
<1>2. OkAt(k) \subseteq S /\ ErrAt(k) \subseteq S /\ OkAt(k) \cap ErrAt(k) = {}
  BY DEF OkAt, ErrAt, IndexesOf
<1>3. /\ IsFiniteSet(OkAt(k)) /\ IsFiniteSet(ErrAt(k)) /\ Cardinality(OkAt(k)) \in Nat
      /\ Cardinality(ErrAt(k)) \in Nat /\ Cardinality(OkAt(k)) + Cardinality(ErrAt(k)) <= Cardinality(S)
  BY <1>1, <1>2, DisjointParts
<1>4. succeeded[k] = Cardinality(OkAt(k)) /\ failed[k] = Cardinality(ErrAt(k))
  BY DEF Working, KeyOK
<1>5. Cardinality(S) \in Nat
  BY <1>1, FS_CardinalityType
<1> HIDE DEF S
<1> QED
  BY <1>1, <1>3, <1>4, <1>5 DEF minSuccess, maxFailures

\* The goroutines and the keys in question are finitely many.
LEMMA CountsFinite ==
  ASSUME BatchTypes, Working, Typed
  PROVE  /\ IsFiniteSet(Counting) /\ Cardinality(Counting) \in Nat
         /\ IsFiniteSet(SendingDone) /\ Cardinality(SendingDone) \in Nat
         /\ IsFiniteSet(SendingErr) /\ Cardinality(SendingErr) \in Nat
         /\ IsFiniteSet(OkKeys) /\ Cardinality(OkKeys) \in Nat /\ Cardinality(OkKeys) <= numKeys
<1>1. IsFiniteSet(DOMAIN rpc)
  BY BatchFinite DEF Working
<1>2. Counting \subseteq DOMAIN rpc /\ SendingDone \subseteq DOMAIN rpc /\ SendingErr \subseteq DOMAIN rpc
  BY DEF Counting, SendingDone, SendingErr
<1>3. IsFiniteSet(BatchKeys) /\ Cardinality(BatchKeys) = numKeys
  BY BatchFinite DEF Working
<1>4. OkKeys \subseteq BatchKeys
  BY DEF OkKeys
<1>5. IsFiniteSet(OkKeys) /\ Cardinality(OkKeys) <= numKeys
  BY <1>3, <1>4, FS_Subset
<1>6. IsFiniteSet(Counting) /\ IsFiniteSet(SendingDone) /\ IsFiniteSet(SendingErr)
  BY <1>1, <1>2, FS_Subset
<1> QED
  BY <1>5, <1>6, FS_CardinalityType

\* When no key is pending, each has enough successes.
LEMMA NothingPending ==
  ASSUME BatchTypes, Working, Typed, rpcsPending = 0
  PROVE  /\ \A k \in BatchKeys : succeeded[k] >= minSuccess(k)
         /\ rpcsFailed = 0
<1>1. Cardinality(OkKeys) = numKeys
  <2>1. rpcsPending = numKeys - Cardinality(OkKeys) + Cardinality(Counting)
    BY DEF Working, CountersOK
  <2> QED
    BY <2>1, CountsFinite DEF BatchTypes
<1>2. OkKeys \subseteq BatchKeys /\ IsFiniteSet(BatchKeys) /\ Cardinality(BatchKeys) = numKeys
  BY BatchFinite DEF OkKeys, Working
<1>3. OkKeys = BatchKeys
  BY <1>1, <1>2, FS_Subset
<1>4. \A k \in BatchKeys : succeeded[k] >= minSuccess(k)
  BY <1>3 DEF OkKeys
<1>5. ASSUME rpcsFailed > 0 PROVE FALSE
  <2>1. PICK k \in BatchKeys : failed[k] > maxFailures(k)
    BY <1>5 DEF Working, CountersOK
  <2> QED
    BY <1>4, <2>1, OutcomesExclude
<1> QED
  BY <1>4, <1>5 DEF BatchTypes

(***************************************************************************)
(* One answer: an error is sent only for a key that then never has a       *)
(* quorum, and done only when every key has one.                           *)
(***************************************************************************)
LEMMA AnswersOnce ==
  ASSUME BatchInv, Typed
  PROVE  OneAnswer
<1> DEFINE Senders == {i \in DOMAIN rpc : rpc[i].pc = "send"}
<1> USE DEF BatchInv
<1>1. CASE ~Spread
  <2>1. Senders = {} /\ errSent = 0 /\ doneSent = 0
    BY <1>1 DEF Quiet
  <2>2. Cardinality(Senders) = 0
    BY <2>1, FS_EmptySet
  <2> HIDE DEF Senders
  <2>3. errSent + doneSent + Cardinality(Senders) <= 1
    BY <2>1, <2>2
  <2> QED
    BY <2>1, <2>3 DEF OneAnswer, Senders
<1>2. CASE Spread
  <2>1. BatchTypes /\ Working
    BY <1>2
  <2>2. Senders = SendingDone \cup SendingErr
    BY <2>1 DEF SendingDone, SendingErr, Working, RpcOK
  <2>3. /\ IsFiniteSet(SendingDone) /\ IsFiniteSet(SendingErr)
        /\ Cardinality(SendingDone) \in Nat /\ Cardinality(SendingErr) \in Nat
    BY <2>1, CountsFinite
  <2>4. SendingDone \cap SendingErr = {}
    BY DEF SendingDone, SendingErr
  <2>5. Cardinality(Senders) = Cardinality(SendingDone) + Cardinality(SendingErr) - Cardinality(SendingDone \cap SendingErr)
    BY <2>2, <2>3, FS_Union
  <2>6. Cardinality(SendingDone \cap SendingErr) = 0
    BY <2>4, FS_EmptySet
  <2>7. /\ doneSent + Cardinality(SendingDone) <= 1 /\ errSent + Cardinality(SendingErr) <= 1
        /\ rpcsPending # 0 => doneSent + Cardinality(SendingDone) = 0
        /\ ~(rpcsFailed > 0) => errSent + Cardinality(SendingErr) = 0
    BY <2>1 DEF Working, CountersOK
  <2>8. rpcsPending = 0 => rpcsFailed = 0
    BY <2>1, NothingPending
  <2>9. errSent \in Nat /\ doneSent \in Nat /\ rpcsFailed \in Nat
    BY <2>1 DEF BatchTypes
  <2> HIDE DEF Senders
  <2>10. errSent + doneSent + Cardinality(Senders) <= 1 /\ (doneSent = 1 => rpcsFailed = 0)
    BY <2>3, <2>5, <2>6, <2>7, <2>8, <2>9
  <2> QED
    BY <2>10 DEF OneAnswer, Senders
<1> QED
  BY <1>1, <1>2

\* The answer is right, and cleanup comes last.
LEMMA AnswersRightly ==
  ASSUME BatchInv, Typed
  PROVE  BatchTypeOK /\ AnswerIsRight /\ CleanupIsLast
<1> USE DEF BatchInv
<1>1. CASE ~Spread
  <2>1. caller # "nil" /\ caller # "error" /\ DOMAIN rpc = {} /\ rpcsPending = 0 /\ rpcsFailed = 0
    BY <1>1 DEF Spread, Quiet
  <2>2. BatchTypes
    OBVIOUS
  <2>3. BatchTypeOK
    BY <2>1, <2>2 DEF BatchTypes, BatchTypeOK
  <2>4. CleanupIsLast
    BY <2>1, <2>2 DEF BatchTypes, CleanupIsLast
  <2> QED
    BY <2>1, <2>3, <2>4 DEF AnswerIsRight
<1>2. CASE Spread
  <2>1. BatchTypes /\ Working
    BY <1>2
  <2>2. rpcsPending \in 0..numKeys
    <3>1. rpcsPending = numKeys - Cardinality(OkKeys) + Cardinality(Counting) /\ rpcsPending <= numKeys
      BY <2>1 DEF Working, CountersOK
    <3> QED
      BY <2>1, <3>1, CountsFinite DEF BatchTypes
  <2>3. \A i \in DOMAIN rpc :
          /\ rpc[i].pc \in {"calling", "item", "batch", "send", "finished"}
          /\ rpc[i].todo \subseteq BatchKeys /\ rpc[i].ok \in BOOLEAN
    BY <2>1 DEF Working, RpcOK
  <2>4. BatchTypeOK
    BY <2>1, <2>2, <2>3 DEF BatchTypes, BatchTypeOK
  <2>5. CleanupIsLast
    BY <2>1 DEF BatchTypes, Working, CleanupIsLast
  <2>6. ASSUME caller = "error" PROVE \E k \in BatchKeys : Cardinality(Nacks(k)) > maxFailures(k)
    <3>1. rpcsFailed > 0
      <4>1. errSent > 0 /\ (~(rpcsFailed > 0) => errSent + Cardinality(SendingErr) = 0)
        BY <2>1, <2>6 DEF Working, CountersOK
      <4>2. Cardinality(SendingErr) \in Nat /\ errSent \in Nat
        BY <2>1, CountsFinite DEF BatchTypes
      <4> QED
        BY <4>1, <4>2
    <3>2. PICK k \in BatchKeys : failed[k] > maxFailures(k)
      BY <2>1, <3>1 DEF Working, CountersOK
    <3>3. ErrAt(k) \subseteq Nacks(k)
      <4>1. ASSUME NEW i \in ErrAt(k) PROVE i \in Nacks(k)
        <5>1. i \in DOMAIN rpc /\ ~rpc[i].ok /\ k \in IndexesOf(i) /\ k \notin Left(i)
          BY <4>1 DEF ErrAt
        <5>2. rpc[i].pc = "calling" => Left(i) = IndexesOf(i)
          BY <2>1, <5>1 DEF Working, RpcOK, Left, Deciding
        <5>3. i \in ToSet(sets[k].instances)
          BY <5>1 DEF IndexesOf
        <5> QED
          BY <5>1, <5>2, <5>3 DEF Nacks
      <4> QED
        BY <4>1
    <3>4. IsFiniteSet(Nacks(k))
      <4>1. IsFiniteSet(DOMAIN rpc)
        BY <2>1, BatchFinite DEF Working
      <4>2. Nacks(k) \subseteq DOMAIN rpc
        BY DEF Nacks
      <4> QED
        BY <4>1, <4>2, FS_Subset
    <3>5. Cardinality(ErrAt(k)) <= Cardinality(Nacks(k))
      BY <3>3, <3>4, FS_Subset
    <3>6. Cardinality(Nacks(k)) \in Nat
      BY <3>4, FS_CardinalityType
    <3>7. failed[k] = Cardinality(ErrAt(k))
      BY <2>1 DEF Working, KeyOK
    <3> QED
      BY <2>1, <3>2, <3>5, <3>6, <3>7, OutcomesExclude
  <2> QED
    BY <2>1, <2>4, <2>5, <2>6 DEF Working, AnswerIsRight
<1> QED
  BY <1>1, <1>2

-----------------------------------------------------------------------------
(***************************************************************************)
(* The steps of the goroutines.  Each changes the record of one of them.   *)
(***************************************************************************)
Becomes(i, r) == rpc' = [j \in DOMAIN rpc |-> IF j = i THEN r ELSE rpc[j]]

\* What a step of goroutine i that leaves the replication sets alone does not touch.
SameForOthers(i) ==
  /\ DOMAIN rpc' = DOMAIN rpc /\ BatchKeys' = BatchKeys /\ Involved' = Involved
  /\ \A j \in DOMAIN rpc : j # i => rpc'[j] = rpc[j] /\ Left(j)' = Left(j)
  /\ \A j \in DOMAIN rpc : IndexesOf(j)' = IndexesOf(j)
  /\ \A k \in BatchKeys : minSuccess(k)' = minSuccess(k) /\ maxFailures(k)' = maxFailures(k)

\* A step of i is none of the others.
LEMMA OthersAreSame ==
  ASSUME NEW i \in DOMAIN rpc, NEW r, Becomes(i, r), UNCHANGED sets
  PROVE  SameForOthers(i) /\ rpc'[i] = r
<1>1. DOMAIN rpc' = DOMAIN rpc /\ rpc'[i] = r /\ \A j \in DOMAIN rpc : j # i => rpc'[j] = rpc[j]
  BY DEF Becomes
<1>2. BatchKeys' = BatchKeys /\ Involved' = Involved
  BY DEF BatchKeys, Involved
<1>3. \A j : IndexesOf(j)' = IndexesOf(j)
  BY <1>2 DEF IndexesOf
<1>4. ASSUME NEW j \in DOMAIN rpc, j # i PROVE Left(j)' = Left(j)
  <2>1. rpc'[j] = rpc[j]
    BY <1>1, <1>4
  <2> QED
    BY <2>1 DEF Left, Deciding, Item
<1>5. \A k : minSuccess(k)' = minSuccess(k) /\ maxFailures(k)' = maxFailures(k)
  BY DEF minSuccess, maxFailures
<1> QED
  BY <1>1, <1>2, <1>3, <1>4, <1>5 DEF SameForOthers

\* The key that a goroutine is at is one of its own.
LEMMA ItemIsOwn ==
  ASSUME BatchTypes, Working, Typed, NEW i \in DOMAIN rpc, rpc[i].pc # "finished"
  PROVE  Item(i) \in rpc[i].todo /\ Item(i) \in BatchKeys /\ Item(i) \in IndexesOf(i)
<1>1. rpc[i].todo # {} /\ rpc[i].todo \subseteq BatchKeys /\ rpc[i].todo \subseteq IndexesOf(i)
  BY DEF Working, RpcOK
<1>2. BatchKeys \subseteq Nat
  BY BatchFinite
<1>3. rpc[i].todo \in SUBSET Nat
  BY <1>1, <1>2
<1> QED
  BY <1>1, <1>3, MinIn DEF Item

\* The record of goroutine i after it is done with its key.
Done(i) ==
  [pc |-> IF rpc[i].todo \ {Item(i)} = {} THEN "finished" ELSE "item",
   ok |-> rpc[i].ok, todo |-> rpc[i].todo \ {Item(i)}]

\* NextItem in terms of that record.
LEMMA NextItemBecomes ==
  ASSUME BatchTypes, Working, NEW i \in DOMAIN rpc, rpc' = NextItem(i)
  PROVE  Becomes(i, Done(i))
<1>1. rpc = [j \in DOMAIN rpc |-> rpc[j]]
  BY DEF BatchTypes
<1>2. rpc[i] = [pc |-> rpc[i].pc, ok |-> rpc[i].ok, todo |-> rpc[i].todo]
  BY DEF Working, RpcOK
<1> DEFINE rest == rpc[i].todo \ {Item(i)}
           p == IF rest = {} THEN "finished" ELSE "item"
<1>3. NextItem(i) = [rpc EXCEPT ![i].todo = rest, ![i].pc = p]
  BY DEF NextItem
<1>4. Done(i) = [pc |-> p, ok |-> rpc[i].ok, todo |-> rest]
  BY DEF Done
<1> HIDE DEF rest, p
<1> QED
  BY <1>1, <1>2, <1>3, <1>4 DEF Becomes

\* A step to another place in the code, with the keys left as they are.
LEMMA PcBecomes ==
  ASSUME BatchTypes, Working, NEW i \in DOMAIN rpc, NEW p, rpc' = [rpc EXCEPT ![i].pc = p]
  PROVE  Becomes(i, [pc |-> p, ok |-> rpc[i].ok, todo |-> rpc[i].todo])
<1>1. rpc = [j \in DOMAIN rpc |-> rpc[j]]
  BY DEF BatchTypes
<1>2. rpc[i] = [pc |-> rpc[i].pc, ok |-> rpc[i].ok, todo |-> rpc[i].todo]
  BY DEF Working, RpcOK
<1> DEFINE r == [pc |-> p, ok |-> rpc[i].ok, todo |-> rpc[i].todo]
<1>3. [rpc[i] EXCEPT !.pc = p] = r
  BY <1>2
<1>4. [rpc EXCEPT ![i].pc = p] = [rpc EXCEPT ![i] = [rpc[i] EXCEPT !.pc = p]]
  BY <1>1
<1> HIDE DEF r
<1>5. rpc' = [rpc EXCEPT ![i] = r]
  BY <1>3, <1>4
<1>6. Becomes(i, r)
  BY <1>1, <1>5 DEF Becomes
<1> QED
  BY <1>6 DEF r

\* The counters after a step: they are typed and have not gone back.
CountersGrow ==
  /\ succeeded' \in [BatchKeys -> Nat] /\ failed' \in [BatchKeys -> Nat]
  /\ \A k \in BatchKeys : succeeded'[k] >= succeeded[k] /\ failed'[k] >= failed[k]
  /\ rpcsPending' \in Int /\ rpcsFailed' \in Nat /\ errSent' \in Nat /\ doneSent' \in Nat /\ errSent' >= errSent

\* What one goroutine has decided stays decided when another one goes on.
LEMMA OthersStayOK ==
  ASSUME BatchTypes, Working, Typed, NEW i \in DOMAIN rpc, SameForOthers(i), CountersGrow, UNCHANGED sets,
         NEW j \in DOMAIN rpc, j # i
  PROVE  RpcOK(j)'
<1>1. RpcOK(j)
  BY DEF Working
<1>2. rpc'[j] = rpc[j] /\ IndexesOf(j)' = IndexesOf(j) /\ BatchKeys' = BatchKeys
  BY DEF SameForOthers
<1>3. (Deciding(j)' <=> Deciding(j)) /\ Item(j)' = Item(j)
  BY <1>2 DEF Deciding, Item
<1>4. ASSUME Deciding(j), rpc[j].ok PROVE Item(j) \in OkKeys'
  <2>1. Item(j) \in OkKeys
    BY <1>1, <1>4 DEF RpcOK
  <2>2. PICK k \in BatchKeys : k = Item(j) /\ minSuccess(k) >= 1 /\ succeeded[k] >= minSuccess(k)
    BY <2>1 DEF OkKeys
  <2>3. minSuccess(k)' = minSuccess(k)
    BY DEF SameForOthers
  <2>4. succeeded'[k] >= succeeded[k] /\ succeeded'[k] \in Nat
    BY DEF CountersGrow
  <2>5. minSuccess(k) \in Int /\ succeeded[k] \in Nat
    BY OutcomesExclude
  <2>6. succeeded'[k] >= minSuccess(k)
    BY <2>2, <2>4, <2>5
  <2> QED
    BY <1>2, <2>2, <2>3, <2>6 DEF OkKeys
<1>5. ASSUME Deciding(j), ~rpc[j].ok PROVE failed'[Item(j)] > maxFailures(Item(j))'
  <2>1. failed[Item(j)] > maxFailures(Item(j))
    BY <1>1, <1>5 DEF RpcOK
  <2>2. PICK k \in BatchKeys : k = Item(j)
    BY <1>5, ItemIsOwn DEF Deciding
  <2>3. maxFailures(k)' = maxFailures(k) /\ maxFailures(k) \in Int /\ failed[k] \in Nat
    BY OutcomesExclude DEF SameForOthers
  <2>4. failed'[k] >= failed[k] /\ failed'[k] \in Nat
    BY DEF CountersGrow
  <2>5. failed'[k] > maxFailures(k)
    BY <2>1, <2>2, <2>3, <2>4
  <2> QED
    BY <1>3, <2>2, <2>3, <2>5
<1> QED
  BY <1>1, <1>2, <1>3, <1>4, <1>5 DEF RpcOK

\* What a step of a goroutine leaves alone.
BatchRest == <<caller, numKeys, sets, cleanups, acked>>

(***************************************************************************)
(* A step of goroutine i preserves the invariant if it does for its own    *)
(* record and for the counters.                                            *)
(***************************************************************************)
LEMMA GoroutineStep ==
  ASSUME BatchInv, Typed, NEW i \in DOMAIN rpc, rpc[i].pc # "finished", NEW r, Becomes(i, r),
         UNCHANGED BatchRest, UNCHANGED ring, CountersGrow, RpcOK(i)', \A k \in BatchKeys : KeyOK(k)', CountersOK'
  PROVE  BatchInv'
<1>1. Spread /\ Working /\ BatchTypes
  BY DEF BatchInv, Quiet
<1>2. UNCHANGED sets /\ UNCHANGED caller /\ UNCHANGED numKeys /\ UNCHANGED cleanups /\ UNCHANGED acked
  BY DEF BatchRest
<1>3. SameForOthers(i)
  BY <1>2, OthersAreSame
<1>4. BatchTypes'
  <2>1. rpc' = [j \in DOMAIN rpc' |-> rpc'[j]]
    BY DEF Becomes
  <2>2. rpcsPending' \in Int /\ rpcsFailed' \in Nat /\ errSent' \in Nat /\ doneSent' \in Nat
    BY DEF CountersGrow
  <2> QED
    BY <1>1, <1>2, <2>1, <2>2 DEF BatchTypes
<1>5. \A j \in DOMAIN rpc' : RpcOK(j)'
  BY <1>1, <1>2, <1>3, OthersStayOK DEF SameForOthers
<1>6. BatchKeys' = BatchKeys /\ DOMAIN rpc' = DOMAIN rpc /\ Involved' = Involved
  BY <1>3 DEF SameForOthers
<1>7. cleanups' # 1
  BY <1>1, <1>2 DEF Working
<1>8. caller' = "nil" => \A k \in BatchKeys' : Cardinality(acked'[k]) >= minSuccess(k)'
  BY <1>1, <1>2, <1>3, <1>6 DEF Working, SameForOthers
<1>9. caller' = "error" => errSent' > 0
  <2>1. caller' = "error" => errSent > 0
    BY <1>1, <1>2 DEF Working
  <2>2. errSent \in Nat /\ errSent' \in Nat /\ errSent' >= errSent
    BY <1>1 DEF BatchTypes, CountersGrow
  <2> QED
    BY <2>1, <2>2
<1>10. Len(sets') = numKeys' /\ DOMAIN rpc' = Involved'
  BY <1>1, <1>2, <1>6 DEF Working
<1>11. succeeded' \in [BatchKeys' -> Nat] /\ failed' \in [BatchKeys' -> Nat]
  BY <1>6 DEF CountersGrow
<1>12. \A k \in BatchKeys' : KeyOK(k)'
  BY <1>6
<1>13. Working'
  BY <1>5, <1>7, <1>8, <1>9, <1>10, <1>11, <1>12 DEF Working
<1>14. Spread'
  BY <1>1, <1>2 DEF Spread
<1> QED
  BY <1>4, <1>13, <1>14 DEF BatchInv

\* The counters of the keys still count who is done with them.
LEMMA SameOutcomes ==
  ASSUME BatchTypes, Working, NEW i \in DOMAIN rpc, NEW r, Becomes(i, r), UNCHANGED sets,
         UNCHANGED <<succeeded, failed>>,
         Left(i)' = Left(i), Left(i) = IndexesOf(i) \/ r.ok = rpc[i].ok
  PROVE  \A k \in BatchKeys : KeyOK(k)'
<1>1. SameForOthers(i) /\ rpc'[i] = r
  BY OthersAreSame
<1>2. ASSUME NEW k \in BatchKeys PROVE OkAt(k)' = OkAt(k) /\ ErrAt(k)' = ErrAt(k)
  <2>1. ASSUME NEW j \in DOMAIN rpc, k \in IndexesOf(j) \ Left(j) PROVE rpc'[j].ok = rpc[j].ok
    BY <1>1, <2>1 DEF SameForOthers
  <2>2. \A j \in DOMAIN rpc : (IndexesOf(j) \ Left(j))' = IndexesOf(j) \ Left(j)
    BY <1>1 DEF SameForOthers
  <2>3. DOMAIN rpc' = DOMAIN rpc
    BY <1>1 DEF SameForOthers
  <2> QED
    BY <2>1, <2>2, <2>3 DEF OkAt, ErrAt
<1>3. \A k \in BatchKeys : KeyOK(k)
  BY DEF Working
<1> QED
  BY <1>2, <1>3 DEF KeyOK

\* The goroutines that count or send, after a step of i from place to place.
LEMMA PlacesAfter ==
  ASSUME NEW i \in DOMAIN rpc, NEW r, Becomes(i, r), rpc[i].ok \in BOOLEAN, r.ok = rpc[i].ok \/ rpc[i].pc \notin {"batch", "send"}
  PROVE  /\ Counting' = IF r.pc = "batch" /\ r.ok THEN Counting \cup {i} ELSE Counting \ {i}
         /\ SendingDone' = IF r.pc = "send" /\ r.ok THEN SendingDone \cup {i} ELSE SendingDone \ {i}
         /\ SendingErr' = IF r.pc = "send" /\ ~r.ok THEN SendingErr \cup {i} ELSE SendingErr \ {i}
<1>1. DOMAIN rpc' = DOMAIN rpc /\ rpc'[i] = r /\ \A j \in DOMAIN rpc : j # i => rpc'[j] = rpc[j]
  BY DEF Becomes
<1> QED
  BY <1>1 DEF Counting, SendingDone, SendingErr

\* The successful keys depend on the counters only.
LEMMA SameKeys ==
  ASSUME UNCHANGED <<sets, succeeded>>
  PROVE  OkKeys' = OkKeys
<1>1. BatchKeys' = BatchKeys /\ \A k : minSuccess(k)' = minSuccess(k)
  BY DEF BatchKeys, minSuccess
<1> QED
  BY <1>1 DEF OkKeys

\* The keys' failures are still there.
LEMMA SameFailures ==
  ASSUME UNCHANGED <<sets, failed>>, \E k \in BatchKeys : failed[k] > maxFailures(k)
  PROVE  (\E k \in BatchKeys : failed[k] > maxFailures(k))'
<1>1. BatchKeys' = BatchKeys /\ \A k : maxFailures(k)' = maxFailures(k)
  BY DEF BatchKeys, maxFailures
<1> QED
  BY <1>1

\* The callback of instance i returns.
LEMMA CallbackKeeps ==
  ASSUME BatchInv, Typed, NEW i \in DOMAIN rpc, NEW ok \in BOOLEAN, CallbackReturns(i, ok), UNCHANGED ring
  PROVE  BatchInv'
<1>1. /\ Working /\ BatchTypes
      /\ rpc[i].pc = "calling" /\ UNCHANGED BatchRest /\ UNCHANGED trackers
  BY DEF BatchInv, Quiet, CallbackReturns, BatchRest
<1>2. UNCHANGED sets /\ UNCHANGED numKeys /\ UNCHANGED <<succeeded, failed>> /\ UNCHANGED <<rpcsPending, rpcsFailed, errSent, doneSent>>
  BY <1>1 DEF BatchRest, trackers
<1> DEFINE r == [rpc[i] EXCEPT !.pc = "item", !.ok = ok]
<1>3. Becomes(i, r)
  <2>1. rpc = [j \in DOMAIN rpc |-> rpc[j]]
    BY <1>1 DEF BatchTypes
  <2>2. rpc' = [rpc EXCEPT ![i].pc = "item", ![i].ok = ok]
    BY DEF CallbackReturns
  <2> QED
    BY <2>1, <2>2 DEF Becomes
<1>4. SameForOthers(i) /\ rpc'[i] = r
  BY <1>2, <1>3, OthersAreSame
<1>5. /\ rpc[i].todo = IndexesOf(i) /\ rpc[i].todo # {} /\ rpc[i].todo \in SUBSET BatchKeys /\ ~rpc[i].ok
      /\ rpc[i].ok \in BOOLEAN
  BY <1>1 DEF Working, RpcOK
<1>6. r.pc = "item" /\ r.ok = ok /\ r.todo = rpc[i].todo
      /\ r \in [pc : {"calling", "item", "batch", "send", "finished"}, ok : BOOLEAN, todo : SUBSET BatchKeys]
  <2>1. rpc[i] \in [pc : {"calling", "item", "batch", "send", "finished"}, ok : BOOLEAN, todo : SUBSET BatchKeys]
    BY <1>1 DEF Working, RpcOK
  <2> QED
    BY <2>1
<1> HIDE DEF r
<1>7. ~Deciding(i) /\ ~Deciding(i)' /\ Left(i) = IndexesOf(i) /\ Left(i)' = Left(i)
  BY <1>1, <1>4, <1>5, <1>6 DEF Deciding, Left
<1>8. RpcOK(i)'
  BY <1>4, <1>5, <1>6, <1>7 DEF RpcOK, SameForOthers
<1>9. \A k \in BatchKeys : KeyOK(k)'
  BY <1>1, <1>2, <1>3, <1>7, SameOutcomes
<1>10. Counting' = Counting /\ SendingDone' = SendingDone /\ SendingErr' = SendingErr
  BY <1>1, <1>3, <1>5, <1>6, PlacesAfter DEF Counting, SendingDone, SendingErr
<1>11. OkKeys' = OkKeys
  BY <1>2, SameKeys
<1>12. CountersOK'
  BY <1>1, <1>2, <1>10, <1>11, SameFailures DEF Working, CountersOK
<1>13. CountersGrow
  BY <1>1, <1>2, OutcomesExclude DEF CountersGrow, BatchTypes, Working
<1> QED
  BY <1>1, <1>3, <1>8, <1>9, <1>12, <1>13, GoroutineStep

\* A goroutine that is done with its key has the keys left that it had.
LEMMA DoneIsOK ==
  ASSUME BatchTypes, Working, Typed, NEW i \in DOMAIN rpc, rpc[i].pc # "finished", rpc[i].pc # "calling",
         Becomes(i, Done(i)), UNCHANGED sets
  PROVE  RpcOK(i)' /\ Left(i)' = rpc[i].todo \ {Item(i)}
<1>1. SameForOthers(i) /\ rpc'[i] = Done(i)
  BY OthersAreSame
<1>2. rpc[i].todo \in SUBSET BatchKeys /\ rpc[i].todo \subseteq IndexesOf(i) /\ rpc[i].ok \in BOOLEAN
  BY DEF Working, RpcOK
<1>3. /\ Done(i) \in [pc : {"calling", "item", "batch", "send", "finished"}, ok : BOOLEAN, todo : SUBSET BatchKeys]
      /\ Done(i).todo = rpc[i].todo \ {Item(i)} /\ Done(i).pc \in {"item", "finished"}
      /\ Done(i).todo = {} <=> Done(i).pc = "finished"
  BY <1>2 DEF Done
<1>4. ~Deciding(i)' /\ Left(i)' = rpc[i].todo \ {Item(i)}
  BY <1>1, <1>3 DEF Deciding, Left
<1>5. BatchKeys' = BatchKeys /\ IndexesOf(i)' = IndexesOf(i)
  BY <1>1 DEF SameForOthers
<1> QED
  BY <1>1, <1>2, <1>3, <1>4, <1>5 DEF RpcOK

\* Cardinalities of a finite set with one element more or less.
LEMMA OneMoreOrLess ==
  ASSUME NEW S, IsFiniteSet(S), NEW x
  PROVE  /\ Cardinality(S) \in Nat
         /\ x \notin S => Cardinality(S \cup {x}) = Cardinality(S) + 1 /\ S \ {x} = S
         /\ x \in S => Cardinality(S \ {x}) = Cardinality(S) - 1 /\ S \cup {x} = S /\ Cardinality(S) >= 1
<1>1. Cardinality(S) \in Nat
  BY FS_CardinalityType
<1>2. x \notin S => Cardinality(S \cup {x}) = Cardinality(S) + 1
  BY FS_AddElement
<1>3. x \in S => Cardinality(S \ {x}) = Cardinality(S) - 1 /\ Cardinality(S \ {x}) \in Nat
  BY FS_RemoveElement, FS_CardinalityType
<1> QED
  BY <1>1, <1>2, <1>3

\* A goroutine hands its answer to the caller.
LEMMA RecordSendKeeps ==
  ASSUME BatchInv, Typed, NEW i \in DOMAIN rpc, RecordSend(i), UNCHANGED ring
  PROVE  BatchInv'
<1>1. /\ Working /\ BatchTypes
      /\ rpc[i].pc = "send" /\ UNCHANGED BatchRest
  BY DEF BatchInv, Quiet, RecordSend, BatchRest
<1>2. /\ UNCHANGED sets /\ UNCHANGED numKeys /\ UNCHANGED <<succeeded, failed>> /\ UNCHANGED <<rpcsPending, rpcsFailed>>
      /\ doneSent' = (IF rpc[i].ok THEN doneSent + 1 ELSE doneSent)
      /\ errSent' = (IF rpc[i].ok THEN errSent ELSE errSent + 1)
  BY DEF RecordSend
<1>3. Becomes(i, Done(i))
  BY <1>1, NextItemBecomes DEF RecordSend
<1>4. RpcOK(i)' /\ Left(i)' = Left(i)
  BY <1>1, <1>2, <1>3, DoneIsOK DEF Left, Deciding
<1>5. rpc[i].ok \in BOOLEAN /\ Done(i).ok = rpc[i].ok /\ Done(i).pc \in {"item", "finished"}
  BY <1>1 DEF Working, RpcOK, Done
<1>6. \A k \in BatchKeys : KeyOK(k)'
  BY <1>1, <1>2, <1>3, <1>4, <1>5, SameOutcomes
<1>7. Counting' = Counting \ {i} /\ SendingDone' = SendingDone \ {i} /\ SendingErr' = SendingErr \ {i}
  BY <1>3, <1>5, PlacesAfter
<1>8. i \notin Counting /\ (i \in SendingDone <=> rpc[i].ok) /\ (i \in SendingErr <=> ~rpc[i].ok)
  BY <1>1, <1>5 DEF Counting, SendingDone, SendingErr
<1>9. OkKeys' = OkKeys
  BY <1>2, SameKeys
<1>10. Counting' = Counting
  BY <1>7, <1>8
<1>11. /\ doneSent' + Cardinality(SendingDone') = doneSent + Cardinality(SendingDone)
       /\ errSent' + Cardinality(SendingErr') = errSent + Cardinality(SendingErr)
  <2>1. IsFiniteSet(SendingDone) /\ IsFiniteSet(SendingErr)
    BY <1>1, CountsFinite
  <2>2. /\ Cardinality(SendingDone) \in Nat /\ Cardinality(SendingErr) \in Nat
        /\ rpc[i].ok => Cardinality(SendingDone \ {i}) = Cardinality(SendingDone) - 1 /\ SendingErr \ {i} = SendingErr
        /\ ~rpc[i].ok => Cardinality(SendingErr \ {i}) = Cardinality(SendingErr) - 1 /\ SendingDone \ {i} = SendingDone
    BY <1>8, <2>1, OneMoreOrLess
  <2>3. doneSent \in Nat /\ errSent \in Nat
    BY <1>1 DEF BatchTypes
  <2>4. CASE rpc[i].ok
    <3>1. doneSent' = doneSent + 1 /\ errSent' = errSent
      BY <1>2, <2>4
    <3>2. Cardinality(SendingDone') = Cardinality(SendingDone) - 1 /\ Cardinality(SendingErr') = Cardinality(SendingErr)
      BY <1>7, <2>2, <2>4, Zenon
    <3> QED
      BY <2>2, <2>3, <3>1, <3>2
  <2>5. CASE ~rpc[i].ok
    <3>1. doneSent' = doneSent /\ errSent' = errSent + 1
      BY <1>2, <2>5
    <3>2. Cardinality(SendingDone') = Cardinality(SendingDone) /\ Cardinality(SendingErr') = Cardinality(SendingErr) - 1
      BY <1>7, <2>2, <2>5, Zenon
    <3> QED
      BY <2>2, <2>3, <3>1, <3>2
  <2> QED
    BY <2>4, <2>5
<1>12. CountersOK'
  BY <1>1, <1>2, <1>9, <1>10, <1>11, SameFailures DEF Working, CountersOK
<1>13. CountersGrow
  BY <1>1, <1>2, OutcomesExclude DEF CountersGrow, BatchTypes, Working
<1> QED
  BY <1>1, <1>3, <1>4, <1>6, <1>12, <1>13, GoroutineStep

\* A goroutine goes from one part of record to the next, at the same key.
LEMMA DecidingIsOK ==
  ASSUME BatchTypes, Working, Typed, NEW i \in DOMAIN rpc, NEW p \in {"batch", "send"},
         rpc[i].pc \in {"item", "batch"},
         Becomes(i, [pc |-> p, ok |-> rpc[i].ok, todo |-> rpc[i].todo]), UNCHANGED sets,
         rpc[i].ok => Item(i) \in OkKeys',
         ~rpc[i].ok => failed'[Item(i)] > maxFailures(Item(i))
  PROVE  RpcOK(i)' /\ Left(i)' = rpc[i].todo \ {Item(i)}
<1> DEFINE r == [pc |-> p, ok |-> rpc[i].ok, todo |-> rpc[i].todo]
<1>1. SameForOthers(i) /\ rpc'[i] = r
  BY OthersAreSame
<1>2. rpc[i].todo \in SUBSET BatchKeys /\ rpc[i].todo \subseteq IndexesOf(i) /\ rpc[i].ok \in BOOLEAN /\ rpc[i].todo # {}
  BY DEF Working, RpcOK
<1>3. /\ r \in [pc : {"calling", "item", "batch", "send", "finished"}, ok : BOOLEAN, todo : SUBSET BatchKeys]
      /\ r.todo = rpc[i].todo /\ r.pc = p /\ r.ok = rpc[i].ok
  BY <1>2
<1> HIDE DEF r
<1>4. Deciding(i)' /\ Item(i)' = Item(i)
  BY <1>1, <1>3 DEF Deciding, Item
<1>5. Left(i)' = rpc[i].todo \ {Item(i)}
  BY <1>1, <1>3, <1>4 DEF Left
<1>6. BatchKeys' = BatchKeys /\ IndexesOf(i)' = IndexesOf(i)
  BY <1>1 DEF SameForOthers
<1>7. maxFailures(Item(i))' = maxFailures(Item(i))
  <2>1. Item(i) \in BatchKeys
    BY ItemIsOwn
  <2> QED
    BY <1>1, <1>4, <2>1 DEF SameForOthers, maxFailures
<1>8. rpc[i].ok => Item(i)' \in OkKeys'
  BY <1>4
<1>9. ~rpc[i].ok => failed'[Item(i)'] > maxFailures(Item(i))'
  BY <1>4, <1>7
<1> QED
  BY <1>1, <1>2, <1>3, <1>4, <1>5, <1>6, <1>8, <1>9 DEF RpcOK

(***************************************************************************)
(* The batch's counter: the step that makes rpcsPending 0, and the first   *)
(* failed key, go on to send.                                              *)
(***************************************************************************)
LEMMA RecordBatchKeeps ==
  ASSUME BatchInv, Typed, NEW i \in DOMAIN rpc, RecordBatch(i), UNCHANGED ring
  PROVE  BatchInv'
<1>1. /\ Working /\ BatchTypes
      /\ rpc[i].pc = "batch" /\ UNCHANGED BatchRest
  BY DEF BatchInv, Quiet, RecordBatch, BatchRest
<1>2. /\ UNCHANGED sets /\ UNCHANGED numKeys /\ UNCHANGED <<succeeded, failed>> /\ UNCHANGED <<errSent, doneSent>>
      /\ rpcsPending' = (IF rpc[i].ok THEN rpcsPending - 1 ELSE rpcsPending)
      /\ rpcsFailed' = (IF rpc[i].ok THEN rpcsFailed ELSE rpcsFailed + 1)
  BY DEF RecordBatch
<1>3. OkKeys' = OkKeys
  BY <1>2, SameKeys
<1>4. rpc[i].ok \in BOOLEAN /\ Item(i) \in BatchKeys
  BY <1>1, ItemIsOwn DEF Working, RpcOK
<1>5. /\ rpc[i].ok => Item(i) \in OkKeys
      /\ ~rpc[i].ok => failed[Item(i)] > maxFailures(Item(i))
  BY <1>1 DEF Working, RpcOK, Deciding
<1>6. \E r : /\ Becomes(i, r) /\ r.ok = rpc[i].ok /\ r.pc # "batch" /\ (r.pc = "send" <=> EndsBatch(i))
             /\ RpcOK(i)' /\ Left(i)' = Left(i)
  <2>1. Left(i) = rpc[i].todo \ {Item(i)}
    BY <1>1 DEF Left, Deciding
  <2>2. CASE EndsBatch(i)
    <3> DEFINE r == [pc |-> "send", ok |-> rpc[i].ok, todo |-> rpc[i].todo]
    <3>1. rpc' = [rpc EXCEPT ![i].pc = "send"]
      BY <2>2 DEF RecordBatch
    <3>2. Becomes(i, r)
      BY <1>1, <3>1, PcBecomes
    <3>3. RpcOK(i)' /\ Left(i)' = Left(i)
      BY <1>1, <1>2, <1>3, <1>5, <2>1, <3>2, DecidingIsOK
    <3>4. r.pc = "send" /\ r.ok = rpc[i].ok
      OBVIOUS
    <3> HIDE DEF r
    <3> QED
      BY <2>2, <3>2, <3>3, <3>4
  <2>3. CASE ~EndsBatch(i)
    <3>1. rpc' = NextItem(i)
      BY <2>3 DEF RecordBatch
    <3>2. Becomes(i, Done(i))
      BY <1>1, <3>1, NextItemBecomes
    <3>3. RpcOK(i)' /\ Left(i)' = Left(i)
      BY <1>1, <1>2, <2>1, <3>2, DoneIsOK
    <3>4. Done(i).pc \in {"item", "finished"} /\ Done(i).ok = rpc[i].ok
      BY DEF Done
    <3> QED
      BY <2>3, <3>2, <3>3, <3>4
  <2> QED
    BY <2>2, <2>3
<1>7. PICK r : /\ Becomes(i, r) /\ r.ok = rpc[i].ok /\ r.pc # "batch" /\ (r.pc = "send" <=> EndsBatch(i))
               /\ RpcOK(i)' /\ Left(i)' = Left(i)
  BY <1>6
<1>8. \A k \in BatchKeys : KeyOK(k)'
  BY <1>1, <1>2, <1>7, SameOutcomes
<1>9. /\ Counting' = Counting \ {i}
      /\ SendingDone' = IF EndsBatch(i) /\ rpc[i].ok THEN SendingDone \cup {i} ELSE SendingDone \ {i}
      /\ SendingErr' = IF EndsBatch(i) /\ ~rpc[i].ok THEN SendingErr \cup {i} ELSE SendingErr \ {i}
  BY <1>4, <1>7, PlacesAfter
<1>10. (i \in Counting <=> rpc[i].ok) /\ i \notin SendingDone /\ i \notin SendingErr
  BY <1>1 DEF Counting, SendingDone, SendingErr
<1>11. /\ IsFiniteSet(Counting) /\ IsFiniteSet(SendingDone) /\ IsFiniteSet(SendingErr)
       /\ Cardinality(OkKeys) \in Nat /\ Cardinality(OkKeys) <= numKeys /\ numKeys \in Nat /\ rpcsPending \in Int
       /\ rpcsFailed \in Nat /\ errSent \in Nat /\ doneSent \in Nat
  BY <1>1, CountsFinite DEF BatchTypes
<1>12. numKeys > 0
  BY <1>1, <1>4, BatchFinite DEF Working, BatchKeys
<1>13. /\ rpcsPending = numKeys - Cardinality(OkKeys) + Cardinality(Counting) /\ rpcsPending <= numKeys
       /\ doneSent + Cardinality(SendingDone) = (IF numKeys > 0 /\ rpcsPending = 0 THEN 1 ELSE 0)
       /\ errSent + Cardinality(SendingErr) = (IF rpcsFailed > 0 THEN 1 ELSE 0)
       /\ rpcsFailed > 0 => \E k \in BatchKeys : failed[k] > maxFailures(k)
  BY <1>1 DEF Working, CountersOK
<1>14. ASSUME rpc[i].ok PROVE CountersOK'
  <2>1. Cardinality(Counting') = Cardinality(Counting) - 1 /\ Cardinality(Counting) \in Nat /\ Cardinality(Counting) >= 1
    BY <1>9, <1>10, <1>11, <1>14, OneMoreOrLess
  <2>2. rpcsPending' = rpcsPending - 1 /\ rpcsFailed' = rpcsFailed /\ (EndsBatch(i) <=> rpcsPending' = 0)
    BY <1>2, <1>14 DEF EndsBatch
  <2>3. SendingErr' = SendingErr /\ Cardinality(SendingErr) \in Nat
    BY <1>9, <1>10, <1>11, <1>14, OneMoreOrLess
  <2>4. rpcsPending >= 1
    BY <1>11, <1>13, <2>1
  <2>5. Cardinality(SendingDone) = 0 /\ doneSent = 0
    <3>1. Cardinality(SendingDone) \in Nat /\ doneSent + Cardinality(SendingDone) = 0
      BY <1>11, <1>13, <2>4, FS_CardinalityType
    <3> QED
      BY <1>11, <3>1
  <2>6. Cardinality(SendingDone') = (IF rpcsPending' = 0 THEN 1 ELSE 0)
    <3>1. EndsBatch(i) => Cardinality(SendingDone \cup {i}) = Cardinality(SendingDone) + 1
      BY <1>10, <1>11, OneMoreOrLess
    <3>2. ~EndsBatch(i) => SendingDone' = SendingDone
      BY <1>9, <1>10
    <3>3. EndsBatch(i) => SendingDone' = SendingDone \cup {i}
      BY <1>9, <1>14
    <3> QED
      BY <2>2, <2>5, <3>1, <3>2, <3>3
  <2>7. doneSent' + Cardinality(SendingDone') = (IF numKeys' > 0 /\ rpcsPending' = 0 THEN 1 ELSE 0)
    BY <1>2, <1>12, <2>5, <2>6
  <2>8. rpcsPending' = numKeys' - Cardinality(OkKeys') + Cardinality(Counting') /\ rpcsPending' <= numKeys'
    BY <1>2, <1>3, <1>11, <1>13, <2>1, <2>2
  <2>9. errSent' + Cardinality(SendingErr') = (IF rpcsFailed' > 0 THEN 1 ELSE 0)
    BY <1>2, <1>13, <2>2, <2>3
  <2> QED
    BY <1>2, <1>13, <2>2, <2>7, <2>8, <2>9, SameFailures DEF CountersOK
<1>15. ASSUME ~rpc[i].ok PROVE CountersOK'
  <2>1. Counting' = Counting /\ SendingDone' = SendingDone
    BY <1>9, <1>10, <1>15
  <2>2. rpcsPending' = rpcsPending /\ rpcsFailed' = rpcsFailed + 1 /\ (EndsBatch(i) <=> rpcsFailed = 0)
    BY <1>2, <1>11, <1>15 DEF EndsBatch
  <2>3. errSent' + Cardinality(SendingErr') = 1
    <3>1. EndsBatch(i) => Cardinality(SendingErr \cup {i}) = Cardinality(SendingErr) + 1
      BY <1>10, <1>11, OneMoreOrLess
    <3>2. ~EndsBatch(i) => SendingErr' = SendingErr
      BY <1>9, <1>10
    <3>3. EndsBatch(i) => SendingErr' = SendingErr \cup {i}
      BY <1>9, <1>15
    <3>4. Cardinality(SendingErr) \in Nat /\ errSent' = errSent
      BY <1>2, <1>11, FS_CardinalityType
    <3>5. CASE EndsBatch(i)
      <4>1. errSent + Cardinality(SendingErr) = 0
        BY <1>11, <1>13, <2>2, <3>5
      <4>2. Cardinality(SendingErr') = Cardinality(SendingErr) + 1
        BY <3>1, <3>3, <3>5, Zenon
      <4> QED
        BY <1>11, <3>4, <4>1, <4>2
    <3>6. CASE ~EndsBatch(i)
      BY <1>11, <1>13, <2>2, <3>2, <3>4, <3>6
    <3> QED
      BY <3>5, <3>6
  <2>4. \E k \in BatchKeys : failed[k] > maxFailures(k)
    BY <1>4, <1>5, <1>15
  <2>5. errSent' + Cardinality(SendingErr') = (IF rpcsFailed' > 0 THEN 1 ELSE 0)
    BY <1>11, <2>2, <2>3
  <2>6. /\ rpcsPending' = numKeys' - Cardinality(OkKeys') + Cardinality(Counting') /\ rpcsPending' <= numKeys'
        /\ doneSent' + Cardinality(SendingDone') = (IF numKeys' > 0 /\ rpcsPending' = 0 THEN 1 ELSE 0)
    BY <1>2, <1>3, <1>13, <2>1, <2>2
  <2> QED
    BY <1>2, <2>4, <2>5, <2>6, SameFailures DEF CountersOK
<1>16. CountersOK'
  BY <1>14, <1>15
<1>17. CountersGrow
  BY <1>1, <1>2, <1>11, OutcomesExclude DEF CountersGrow, Working
<1> QED
  BY <1>1, <1>7, <1>8, <1>16, <1>17, GoroutineStep

\* The places of goroutine i, its key and what it has left, after record's first part.
ItemStep(i, r) ==
  /\ Becomes(i, r) /\ r.ok = rpc[i].ok /\ r.pc # "send" /\ (r.pc = "batch" <=> ReachesLimit(i, Item(i)))
  /\ RpcOK(i)' /\ Left(i)' = Left(i) \ {Item(i)}

\* The key's counter, and who is done with the key.
LEMMA ItemCounted ==
  ASSUME BatchTypes, Working, Typed, NEW i \in DOMAIN rpc, rpc[i].pc = "item", NEW r, ItemStep(i, r), UNCHANGED sets,
         succeeded' = IF rpc[i].ok THEN [succeeded EXCEPT ![Item(i)] = @ + 1] ELSE succeeded,
         failed' = IF rpc[i].ok THEN failed ELSE [failed EXCEPT ![Item(i)] = @ + 1]
  PROVE  \A k \in BatchKeys : KeyOK(k)'
<1>1. SameForOthers(i) /\ rpc'[i] = r /\ r.ok = rpc[i].ok
  BY OthersAreSame DEF ItemStep
<1>2. Item(i) \in rpc[i].todo /\ Item(i) \in BatchKeys /\ Item(i) \in IndexesOf(i)
  BY ItemIsOwn
<1>3. Left(i) = rpc[i].todo /\ Left(i)' = Left(i) \ {Item(i)}
  BY DEF Left, Deciding, ItemStep
<1> SUFFICES ASSUME NEW k \in BatchKeys PROVE KeyOK(k)'
  OBVIOUS
<1>4. KeyOK(k) /\ succeeded \in [BatchKeys -> Nat] /\ failed \in [BatchKeys -> Nat] /\ rpc[i].ok \in BOOLEAN
  BY DEF Working, RpcOK
<1>5. /\ DOMAIN rpc' = DOMAIN rpc
      /\ \A j \in DOMAIN rpc : rpc'[j].ok = rpc[j].ok
      /\ \A j \in DOMAIN rpc : j # i => (IndexesOf(j) \ Left(j))' = IndexesOf(j) \ Left(j)
      /\ IndexesOf(i)' = IndexesOf(i)
  BY <1>1 DEF SameForOthers
<1>6. IsFiniteSet(OkAt(k)) /\ IsFiniteSet(ErrAt(k))
  BY OutcomesExclude
<1>7. CASE k # Item(i)
  <2>1. \A j \in DOMAIN rpc : k \in (IndexesOf(j) \ Left(j))' <=> k \in IndexesOf(j) \ Left(j)
    BY <1>3, <1>5, <1>7
  <2>2. OkAt(k)' = OkAt(k) /\ ErrAt(k)' = ErrAt(k)
    BY <1>5, <2>1 DEF OkAt, ErrAt
  <2>3. succeeded'[k] = succeeded[k] /\ failed'[k] = failed[k]
    BY <1>4, <1>7
  <2> QED
    BY <1>4, <2>2, <2>3 DEF KeyOK
<1>8. CASE k = Item(i)
  <2>1. k \notin IndexesOf(i) \ Left(i) /\ k \in (IndexesOf(i) \ Left(i))'
    BY <1>2, <1>3, <1>5, <1>8
  <2>2. i \notin OkAt(k) /\ i \notin ErrAt(k)
    BY <2>1 DEF OkAt, ErrAt
  <2>3. CASE rpc[i].ok
    <3>1. OkAt(k)' = OkAt(k) \cup {i} /\ ErrAt(k)' = ErrAt(k)
      BY <1>5, <2>1, <2>3 DEF OkAt, ErrAt
    <3>2. Cardinality(OkAt(k) \cup {i}) = Cardinality(OkAt(k)) + 1
      BY <1>6, <2>2, OneMoreOrLess
    <3>3. succeeded'[k] = succeeded[k] + 1 /\ failed'[k] = failed[k]
      BY <1>4, <1>8, <2>3
    <3>4. succeeded[k] = Cardinality(OkAt(k)) /\ failed[k] = Cardinality(ErrAt(k))
      BY <1>4 DEF KeyOK
    <3>5. succeeded'[k] = Cardinality(OkAt(k)') /\ failed'[k] = Cardinality(ErrAt(k)')
      BY <3>1, <3>2, <3>3, <3>4, Zenon
    <3> QED
      BY <3>5 DEF KeyOK
  <2>4. CASE ~rpc[i].ok
    <3>1. ErrAt(k)' = ErrAt(k) \cup {i} /\ OkAt(k)' = OkAt(k)
      BY <1>5, <2>1, <2>4 DEF OkAt, ErrAt
    <3>2. Cardinality(ErrAt(k) \cup {i}) = Cardinality(ErrAt(k)) + 1
      BY <1>6, <2>2, OneMoreOrLess
    <3>3. failed'[k] = failed[k] + 1 /\ succeeded'[k] = succeeded[k]
      BY <1>4, <1>8, <2>4
    <3>4. succeeded[k] = Cardinality(OkAt(k)) /\ failed[k] = Cardinality(ErrAt(k))
      BY <1>4 DEF KeyOK
    <3>5. succeeded'[k] = Cardinality(OkAt(k)') /\ failed'[k] = Cardinality(ErrAt(k)')
      BY <3>1, <3>2, <3>3, <3>4, Zenon
    <3> QED
      BY <3>5 DEF KeyOK
  <2> QED
    BY <2>3, <2>4
<1> QED
  BY <1>7, <1>8

\* A key's successes make it one of OkKeys exactly when they reach minSuccess.
LEMMA KeysAfterItem ==
  ASSUME BatchTypes, Working, Typed, UNCHANGED sets, NEW i, NEW k \in BatchKeys, rpc[i].ok \in BOOLEAN,
         succeeded' = IF rpc[i].ok THEN [succeeded EXCEPT ![k] = @ + 1] ELSE succeeded
  PROVE  /\ rpc[i].ok /\ ReachesLimit(i, k) => OkKeys' = OkKeys \cup {k} /\ k \notin OkKeys
         /\ ~(rpc[i].ok /\ ReachesLimit(i, k)) => OkKeys' = OkKeys
<1>1. BatchKeys' = BatchKeys /\ \A l : minSuccess(l)' = minSuccess(l)
  BY DEF BatchKeys, minSuccess
<1>2. succeeded \in [BatchKeys -> Nat] /\ \A l \in BatchKeys : minSuccess(l) \in Int
  BY OutcomesExclude DEF Working
<1>3. \A l \in BatchKeys : l \in OkKeys' <=> minSuccess(l) >= 1 /\ succeeded'[l] >= minSuccess(l)
  BY <1>1 DEF OkKeys
<1>4. \A l \in BatchKeys : l \in OkKeys <=> minSuccess(l) >= 1 /\ succeeded[l] >= minSuccess(l)
  BY DEF OkKeys
<1>5. OkKeys \subseteq BatchKeys /\ OkKeys' \subseteq BatchKeys
  BY <1>1 DEF OkKeys
<1>6. CASE ~rpc[i].ok
  BY <1>3, <1>4, <1>5, <1>6
<1>7. CASE rpc[i].ok
  <2>1. succeeded'[k] = succeeded[k] + 1 /\ \A l \in BatchKeys : l # k => succeeded'[l] = succeeded[l]
    BY <1>2, <1>7
  <2>2. ReachesLimit(i, k) <=> succeeded[k] + 1 = minSuccess(k)
    BY <1>7 DEF ReachesLimit
  <2>3. \A l \in BatchKeys : l # k => (l \in OkKeys' <=> l \in OkKeys)
    BY <1>3, <1>4, <2>1
  <2>4. succeeded[k] \in Nat /\ minSuccess(k) \in Int
    BY <1>2
  <2>5. CASE ReachesLimit(i, k)
    <3>1. k \in OkKeys' /\ k \notin OkKeys
      BY <1>3, <1>4, <2>1, <2>2, <2>4, <2>5
    <3>2. \A l : l \in OkKeys' <=> l \in OkKeys \cup {k}
      BY <1>5, <2>3, <3>1
    <3>3. OkKeys' = OkKeys \cup {k}
      BY <3>2
    <3> QED
      BY <1>7, <2>5, <3>1, <3>3
  <2>6. CASE ~ReachesLimit(i, k)
    <3>1. k \in OkKeys' <=> k \in OkKeys
      BY <1>3, <1>4, <2>1, <2>2, <2>4, <2>6
    <3>2. \A l : l \in OkKeys' <=> l \in OkKeys
      BY <1>5, <2>3, <3>1
    <3>3. OkKeys' = OkKeys
      BY <3>2
    <3> QED
      BY <2>6, <3>3
  <2> QED
    BY <2>5, <2>6
<1> QED
  BY <1>6, <1>7

(***************************************************************************)
(* The key's counter: the outcome that decides the key goes on to the      *)
(* batch's counter, any other is done with.                                *)
(***************************************************************************)
LEMMA RecordItemKeeps ==
  ASSUME BatchInv, Typed, NEW i \in DOMAIN rpc, RecordItem(i), UNCHANGED ring
  PROVE  BatchInv'
<1>1. /\ Working /\ BatchTypes
      /\ rpc[i].pc = "item" /\ UNCHANGED BatchRest
  BY DEF BatchInv, Quiet, RecordItem, BatchRest
<1>2. /\ UNCHANGED sets /\ UNCHANGED numKeys /\ UNCHANGED <<rpcsPending, rpcsFailed, errSent, doneSent>>
      /\ succeeded' = IF rpc[i].ok THEN [succeeded EXCEPT ![Item(i)] = @ + 1] ELSE succeeded
      /\ failed' = IF rpc[i].ok THEN failed ELSE [failed EXCEPT ![Item(i)] = @ + 1]
      /\ rpc' = IF ReachesLimit(i, Item(i)) THEN [rpc EXCEPT ![i].pc = "batch"] ELSE NextItem(i)
  BY DEF RecordItem
<1>3. rpc[i].ok \in BOOLEAN /\ Item(i) \in BatchKeys
  BY <1>1, ItemIsOwn DEF Working, RpcOK
<1>4. /\ rpc[i].ok /\ ReachesLimit(i, Item(i)) => OkKeys' = OkKeys \cup {Item(i)} /\ Item(i) \notin OkKeys
      /\ ~(rpc[i].ok /\ ReachesLimit(i, Item(i))) => OkKeys' = OkKeys
  BY <1>1, <1>2, <1>3, KeysAfterItem
<1>5. succeeded \in [BatchKeys -> Nat] /\ failed \in [BatchKeys -> Nat] /\ maxFailures(Item(i)) \in Int
  BY <1>1, <1>3, OutcomesExclude DEF Working
<1>6. \E r : ItemStep(i, r)
  <2>1. Left(i) = rpc[i].todo
    BY <1>1 DEF Left, Deciding
  <2>2. CASE ReachesLimit(i, Item(i))
    <3> DEFINE r == [pc |-> "batch", ok |-> rpc[i].ok, todo |-> rpc[i].todo]
    <3>1. Becomes(i, r)
      BY <1>1, <1>2, <2>2, PcBecomes
    <3>2. ~rpc[i].ok => failed'[Item(i)] > maxFailures(Item(i))
      <4>1. ~rpc[i].ok => failed[Item(i)] + 1 > maxFailures(Item(i))
        BY <2>2 DEF ReachesLimit
      <4> QED
        BY <1>2, <1>3, <1>5, <4>1
    <3>3. rpc[i].ok => Item(i) \in OkKeys'
      BY <1>4, <2>2
    <3>4. RpcOK(i)' /\ Left(i)' = rpc[i].todo \ {Item(i)}
      BY <1>1, <1>2, <3>1, <3>2, <3>3, DecidingIsOK
    <3>5. r.pc = "batch" /\ r.ok = rpc[i].ok
      OBVIOUS
    <3> HIDE DEF r
    <3> QED
      BY <2>1, <2>2, <3>1, <3>4, <3>5 DEF ItemStep
  <2>3. CASE ~ReachesLimit(i, Item(i))
    <3>1. Becomes(i, Done(i))
      BY <1>1, <1>2, <2>3, NextItemBecomes
    <3>2. RpcOK(i)' /\ Left(i)' = rpc[i].todo \ {Item(i)}
      BY <1>1, <1>2, <3>1, DoneIsOK
    <3>3. Done(i).pc \in {"item", "finished"} /\ Done(i).ok = rpc[i].ok
      BY DEF Done
    <3> QED
      BY <2>1, <2>3, <3>1, <3>2, <3>3 DEF ItemStep
  <2> QED
    BY <2>2, <2>3
<1>7. PICK r : ItemStep(i, r)
  BY <1>6
<1>8. \A k \in BatchKeys : KeyOK(k)'
  BY <1>1, <1>2, <1>7, ItemCounted
<1>9. Becomes(i, r) /\ r.ok = rpc[i].ok /\ r.pc # "send" /\ (r.pc = "batch" <=> ReachesLimit(i, Item(i))) /\ RpcOK(i)'
  BY <1>7 DEF ItemStep
<1>10. i \notin Counting /\ i \notin SendingDone /\ i \notin SendingErr
  BY <1>1 DEF Counting, SendingDone, SendingErr
<1>11. SendingDone' = SendingDone /\ SendingErr' = SendingErr
  BY <1>3, <1>9, <1>10, PlacesAfter
<1>12. /\ rpc[i].ok /\ ReachesLimit(i, Item(i)) => Counting' = Counting \cup {i}
       /\ ~(rpc[i].ok /\ ReachesLimit(i, Item(i))) => Counting' = Counting
  BY <1>3, <1>9, <1>10, PlacesAfter
<1>13. CountersGrow
  <2>1. /\ succeeded' \in [BatchKeys -> Nat] /\ failed' \in [BatchKeys -> Nat]
        /\ \A k \in BatchKeys : succeeded'[k] >= succeeded[k] /\ failed'[k] >= failed[k]
    BY <1>2, <1>3, <1>5
  <2> QED
    BY <1>1, <1>2, <2>1 DEF CountersGrow, BatchTypes
<1>14. Cardinality(Counting') - Cardinality(OkKeys') = Cardinality(Counting) - Cardinality(OkKeys)
       /\ Cardinality(Counting') \in Nat /\ Cardinality(OkKeys') \in Nat
  <2>1. IsFiniteSet(Counting) /\ IsFiniteSet(OkKeys) /\ Cardinality(Counting) \in Nat /\ Cardinality(OkKeys) \in Nat
    BY <1>1, CountsFinite
  <2>2. CASE rpc[i].ok /\ ReachesLimit(i, Item(i))
    <3>1. Counting' = Counting \cup {i} /\ OkKeys' = OkKeys \cup {Item(i)} /\ Item(i) \notin OkKeys
      BY <1>4, <1>12, <2>2
    <3>2. Cardinality(Counting \cup {i}) = Cardinality(Counting) + 1 /\ Cardinality(OkKeys \cup {Item(i)}) = Cardinality(OkKeys) + 1
      BY <1>10, <2>1, <3>1, OneMoreOrLess
    <3>3. Cardinality(Counting') = Cardinality(Counting) + 1 /\ Cardinality(OkKeys') = Cardinality(OkKeys) + 1
      BY <3>1, <3>2, Zenon
    <3> QED
      BY <2>1, <3>3
  <2>3. CASE ~(rpc[i].ok /\ ReachesLimit(i, Item(i)))
    BY <1>4, <1>12, <2>1, <2>3
  <2> QED
    BY <2>2, <2>3
<1>15. rpcsFailed > 0 => (\E k \in BatchKeys : failed[k] > maxFailures(k))'
  <2>1. ASSUME rpcsFailed > 0 PROVE (\E k \in BatchKeys : failed[k] > maxFailures(k))'
    <3>1. PICK k \in BatchKeys : failed[k] > maxFailures(k)
      BY <1>1, <2>1 DEF Working, CountersOK
    <3>2. maxFailures(k)' = maxFailures(k) /\ BatchKeys' = BatchKeys
      BY <1>2 DEF maxFailures, BatchKeys
    <3>3. failed'[k] >= failed[k] /\ failed'[k] \in Nat /\ failed[k] \in Nat
      BY <1>5, <1>13 DEF CountersGrow
    <3>4. maxFailures(k) \in Int
      BY <1>1, OutcomesExclude
    <3>5. failed'[k] > maxFailures(k)'
      BY <3>1, <3>2, <3>3, <3>4
    <3> QED
      BY <3>2, <3>5
  <2> QED
    BY <2>1
<1>16. CountersOK'
  <2>1. /\ rpcsPending = numKeys - Cardinality(OkKeys) + Cardinality(Counting) /\ rpcsPending <= numKeys
        /\ doneSent + Cardinality(SendingDone) = (IF numKeys > 0 /\ rpcsPending = 0 THEN 1 ELSE 0)
        /\ errSent + Cardinality(SendingErr) = (IF rpcsFailed > 0 THEN 1 ELSE 0)
    BY <1>1 DEF Working, CountersOK
  <2>2. numKeys \in Nat /\ rpcsPending \in Int /\ Cardinality(Counting) \in Nat /\ Cardinality(OkKeys) \in Nat
    BY <1>1, CountsFinite DEF BatchTypes
  <2>3. rpcsPending' = numKeys' - Cardinality(OkKeys') + Cardinality(Counting') /\ rpcsPending' <= numKeys'
    BY <1>2, <1>14, <2>1, <2>2
  <2> QED
    BY <1>2, <1>11, <1>15, <2>1, <2>3 DEF CountersOK
<1> QED
  BY <1>1, <1>8, <1>9, <1>13, <1>16, GoroutineStep

-----------------------------------------------------------------------------
(***************************************************************************)
(* The steps of DoBatch itself.                                            *)
(***************************************************************************)
\* The callbacks are started: nobody has counted anything yet.
LEMMA BatchSpawnKeeps ==
  ASSUME BatchInv, Typed, BatchSpawn, UNCHANGED ring
  PROVE  BatchInv'
<1>1. /\ BatchTypes /\ Quiet /\ caller' = "waiting" /\ Len(sets) = numKeys
      /\ rpcsPending' = numKeys /\ UNCHANGED <<numKeys, sets, rpcsFailed, errSent, doneSent, cleanups, acked>>
      /\ succeeded' = [k \in BatchKeys |-> 0] /\ failed' = [k \in BatchKeys |-> 0]
      /\ rpc' = [i \in Involved |-> [pc |-> "calling", ok |-> FALSE, todo |-> IndexesOf(i)]]
  BY DEF BatchInv, Spread, BatchSpawn
<1>2. /\ rpcsFailed' = 0 /\ errSent' = 0 /\ doneSent' = 0 /\ cleanups' = 0 /\ numKeys \in Nat
  BY <1>1 DEF Quiet, BatchSpawn, BatchTypes
<1>3. /\ BatchKeys' = BatchKeys /\ Involved' = Involved
      /\ \A k : minSuccess(k)' = minSuccess(k) /\ maxFailures(k)' = maxFailures(k)
  BY <1>1 DEF BatchKeys, Involved, minSuccess, maxFailures
<1>4. \A i : IndexesOf(i)' = IndexesOf(i)
  BY <1>1, <1>3 DEF IndexesOf
<1>5. DOMAIN rpc' = Involved
  BY <1>1
<1>6. ASSUME NEW i \in Involved
      PROVE  RpcOK(i)' /\ Left(i)' = IndexesOf(i) /\ rpc'[i].pc = "calling" /\ ~rpc'[i].ok
  <2> DEFINE r == [pc |-> "calling", ok |-> FALSE, todo |-> IndexesOf(i)]
  <2>1. IndexesOf(i) \in SUBSET BatchKeys /\ IndexesOf(i) # {}
    BY DEF IndexesOf, Involved
  <2>2. /\ rpc'[i] = r /\ r.pc = "calling" /\ ~r.ok /\ r.todo = IndexesOf(i)
        /\ r \in [pc : {"calling", "item", "batch", "send", "finished"}, ok : BOOLEAN, todo : SUBSET BatchKeys]
    BY <1>1, <2>1
  <2> HIDE DEF r
  <2>3. ~Deciding(i)' /\ Left(i)' = IndexesOf(i)
    BY <2>2 DEF Deciding, Left
  <2> QED
    BY <1>3, <1>4, <2>1, <2>2, <2>3 DEF RpcOK
<1>7. ASSUME NEW k \in BatchKeys PROVE KeyOK(k)'
  <2>1. OkAt(k)' = {} /\ ErrAt(k)' = {}
    BY <1>4, <1>5, <1>6 DEF OkAt, ErrAt
  <2>2. Cardinality({}) = 0
    BY FS_EmptySet
  <2>3. succeeded'[k] = 0 /\ failed'[k] = 0
    BY <1>1
  <2> QED
    BY <2>1, <2>2, <2>3 DEF KeyOK
<1>8. CountersOK'
  <2>1. Counting' = {} /\ SendingDone' = {} /\ SendingErr' = {}
    BY <1>5, <1>6 DEF Counting, SendingDone, SendingErr
  <2>2. OkKeys' = {}
    <3>1. ASSUME NEW k \in BatchKeys PROVE ~(minSuccess(k) >= 1 /\ succeeded'[k] >= minSuccess(k))
      <4>1. minSuccess(k) \in Int
        BY ReplicasFinite DEF Typed, minSuccess
      <4> QED
        BY <1>1, <4>1
    <3> QED
      BY <1>3, <3>1 DEF OkKeys
  <2>3. Cardinality({}) = 0
    BY FS_EmptySet
  <2>4. /\ rpcsPending' = numKeys' /\ numKeys' = numKeys
        /\ Cardinality(Counting') = 0 /\ Cardinality(SendingDone') = 0 /\ Cardinality(SendingErr') = 0 /\ Cardinality(OkKeys') = 0
    BY <1>1, <2>1, <2>2, <2>3
  <2> QED
    BY <1>2, <2>4 DEF CountersOK
<1>9. BatchTypes'
  <2>1. rpc' = [i \in DOMAIN rpc' |-> rpc'[i]]
    BY <1>1
  <2> QED
    BY <1>1, <1>2, <2>1 DEF BatchTypes
<1>10. succeeded' \in [BatchKeys' -> Nat] /\ failed' \in [BatchKeys' -> Nat]
  BY <1>1, <1>3
<1>11. Working'
  BY <1>1, <1>2, <1>3, <1>5, <1>6, <1>7, <1>8, <1>10 DEF Working
<1> QED
  BY <1>1, <1>9, <1>11 DEF BatchInv, Spread

\* What the answer of a key depends on, unchanged.
LEMMA SameBatch ==
  ASSUME UNCHANGED <<numKeys, sets, rpc, trackers>>
  PROVE  /\ BatchKeys' = BatchKeys /\ \A k : minSuccess(k)' = minSuccess(k)
         /\ Working => /\ Len(sets') = numKeys' /\ DOMAIN rpc' = Involved'
                       /\ succeeded' \in [BatchKeys' -> Nat] /\ failed' \in [BatchKeys' -> Nat]
                       /\ \A i \in DOMAIN rpc' : RpcOK(i)'
                       /\ \A k \in BatchKeys' : KeyOK(k)'
                       /\ CountersOK'
<1> USE DEF trackers
<1>1. /\ BatchKeys' = BatchKeys /\ Involved' = Involved
      /\ \A k : minSuccess(k)' = minSuccess(k) /\ maxFailures(k)' = maxFailures(k)
  BY DEF BatchKeys, Involved, minSuccess, maxFailures
<1>2. \A i : IndexesOf(i)' = IndexesOf(i) /\ Left(i)' = Left(i) /\ Item(i)' = Item(i) /\ (Deciding(i)' <=> Deciding(i))
  BY <1>1 DEF IndexesOf, Left, Item, Deciding
<1>3. OkKeys' = OkKeys /\ Counting' = Counting /\ SendingDone' = SendingDone /\ SendingErr' = SendingErr
  BY <1>1 DEF OkKeys, Counting, SendingDone, SendingErr
<1>4. \A k : OkAt(k)' = OkAt(k) /\ ErrAt(k)' = ErrAt(k)
  BY <1>2 DEF OkAt, ErrAt
<1>5. \A k : KeyOK(k) => KeyOK(k)'
  BY <1>4 DEF KeyOK
<1>6. \A i : RpcOK(i) => RpcOK(i)'
  BY <1>1, <1>2, <1>3 DEF RpcOK, maxFailures
<1>7. CountersOK => CountersOK'
  BY <1>1, <1>3 DEF CountersOK
<1> QED
  BY <1>1, <1>5, <1>6, <1>7 DEF Working

\* DoBatch returns: nil when each key has a quorum, an error when one was sent.
LEMMA BatchReturnsKeeps ==
  ASSUME BatchInv, Typed, NEW result \in {"error", "nil", "ctx"}, BatchReturns(result), UNCHANGED ring
  PROVE  BatchInv'
<1>1. /\ BatchTypes /\ Working /\ caller = "waiting" /\ caller' = result
      /\ UNCHANGED <<numKeys, sets, rpc, trackers>> /\ cleanups' = cleanups
      /\ acked' = [k \in BatchKeys |-> Acks(k)]
  BY DEF BatchInv, Spread, BatchReturns
<1>2. ASSUME result = "nil" PROVE \A k \in BatchKeys : Cardinality(acked'[k]) >= minSuccess(k)
  <2>1. doneSent > 0
    BY <1>1, <1>2 DEF BatchReturns, InDone, BatchTypes
  <2>2. rpcsPending = 0
    <3>1. rpcsPending # 0 => doneSent + Cardinality(SendingDone) = 0
      BY <1>1 DEF Working, CountersOK
    <3> QED
      BY <1>1, <2>1, <3>1, CountsFinite DEF BatchTypes
  <2> SUFFICES ASSUME NEW k \in BatchKeys PROVE Cardinality(acked'[k]) >= minSuccess(k)
    OBVIOUS
  <2>3. succeeded[k] >= minSuccess(k)
    BY <1>1, <2>2, NothingPending
  <2>4. OkAt(k) \subseteq Acks(k) /\ Acks(k) \subseteq DOMAIN rpc
    BY DEF OkAt, Acks, IndexesOf
  <2>5. IsFiniteSet(DOMAIN rpc)
    BY <1>1, BatchFinite DEF Working
  <2>6. IsFiniteSet(Acks(k)) /\ Cardinality(Acks(k)) \in Nat
    BY <2>4, <2>5, FS_Subset, FS_CardinalityType
  <2>7. Cardinality(OkAt(k)) <= Cardinality(Acks(k))
    BY <2>4, <2>6, FS_Subset
  <2>8. acked'[k] = Acks(k)
    BY <1>1
  <2>9. succeeded[k] = Cardinality(OkAt(k))
    BY <1>1 DEF Working, KeyOK
  <2>10. succeeded[k] \in Nat /\ minSuccess(k) \in Int
    BY <1>1, OutcomesExclude
  <2>11. Cardinality(Acks(k)) >= minSuccess(k)
    BY <2>3, <2>6, <2>7, <2>9, <2>10
  <2> QED
    BY <2>8, <2>11
<1>3. result = "error" => errSent' > 0
  BY <1>1 DEF BatchReturns, InErr, BatchTypes, trackers
<1>4. cleanups' = 1 => \A i \in DOMAIN rpc' : rpc'[i].pc = "finished"
  BY <1>1 DEF Working
<1>5. caller' = "nil" => \A k \in BatchKeys' : Cardinality(acked'[k]) >= minSuccess(k)'
  BY <1>1, <1>2, SameBatch
<1>6. Working'
  BY <1>1, <1>3, <1>4, <1>5, SameBatch DEF Working
<1>7. BatchTypes'
  BY <1>1 DEF BatchTypes, trackers
<1> QED
  BY <1>1, <1>6, <1>7 DEF BatchInv, Spread

\* cleanup runs, when all callbacks have.
LEMMA CleanupKeeps ==
  ASSUME BatchInv, Typed, Cleanup, UNCHANGED ring
  PROVE  BatchInv'
<1>1. /\ BatchTypes /\ Working /\ Spread /\ caller' = caller /\ cleanups' = 1 /\ acked' = acked
      /\ UNCHANGED <<numKeys, sets, rpc, trackers>>
      /\ \A i \in DOMAIN rpc : rpc[i].pc = "finished"
  BY DEF BatchInv, Spread, Cleanup
<1>2. caller' = "nil" => \A k \in BatchKeys' : Cardinality(acked'[k]) >= minSuccess(k)'
  BY <1>1, SameBatch DEF Working
<1>3. caller' = "error" => errSent' > 0
  BY <1>1 DEF Working, trackers
<1>4. Working'
  BY <1>1, <1>2, <1>3, SameBatch DEF Working
<1>5. BatchTypes'
  BY <1>1 DEF BatchTypes, trackers
<1> QED
  BY <1>1, <1>4, <1>5 DEF BatchInv, Spread

\* The call: the number of keys is taken down.
LEMMA WriteCallKeeps ==
  ASSUME BatchInv, WriteCall
  PROVE  BatchInv'
<1>1. /\ BatchTypes /\ Quiet /\ caller = "idle" /\ caller' \in {"refused", "lookup"}
      /\ numKeys' = Len(ring.keys) /\ UNCHANGED <<sets, rpc, trackers, acked>>
      /\ caller' = "lookup" => cleanups' = cleanups
      /\ cleanups' \in {cleanups, cleanups + 1}
      /\ cleanups = 0 /\ Len(ring.keys) \in Nat
  BY DEF BatchInv, Spread, WriteCall, BatchCall, Quiet, BatchTypes
<1>2. sets = << >>
  BY <1>1 DEF Quiet
<1>3. BatchTypes'
  BY <1>1, <1>2 DEF BatchTypes, trackers
<1>4. Quiet'
  BY <1>1, <1>2 DEF Quiet, trackers
<1> QED
  BY <1>1, <1>3, <1>4 DEF BatchInv, Spread

\* A lookup gives one more replication set, or ends the call.
LEMMA WriteLookupKeeps ==
  ASSUME BatchInv, WriteLookup
  PROVE  BatchInv'
<1>1. PICK rs : BatchGet(rs) /\ Len(sets) < numKeys /\ UNCHANGED <<ringVars, doVars>>
  BY DEF WriteLookup
<1>2. /\ BatchTypes /\ Quiet /\ caller = "lookup" /\ caller' \in {"lookup", "refused"}
      /\ UNCHANGED <<numKeys, rpc, trackers, acked>>
      /\ caller' = "lookup" => cleanups' = cleanups
      /\ cleanups' \in {cleanups, cleanups + 1} /\ cleanups = 0
      /\ sets' \in {sets, Append(sets, rs)}
  BY <1>1 DEF BatchInv, Spread, BatchGet, Quiet
<1>3. sets \in Seq(ToSet(sets)) /\ numKeys \in Nat
  BY <1>2 DEF BatchTypes
<1> DEFINE S == ToSet(sets) \cup {rs}
<1>4. sets \in Seq(S) /\ Len(sets) \in Nat
  BY <1>3
<1> HIDE DEF S
<1>5. Append(sets, rs) \in Seq(S) /\ Len(Append(sets, rs)) = Len(sets) + 1
  BY <1>4 DEF S
<1>6. sets' \in Seq(ToSet(sets')) /\ Len(sets') <= numKeys
  <2>1. CASE sets' = sets
    BY <1>2, <1>3, <2>1 DEF BatchTypes
  <2>2. CASE sets' = Append(sets, rs)
    <3>1. sets' \in Seq(ToSet(sets'))
      BY <1>5, <2>2, SeqOfItsElements
    <3> QED
      BY <1>1, <1>3, <1>4, <1>5, <2>2, <3>1
  <2> QED
    BY <1>2, <2>1, <2>2
<1>7. BatchTypes'
  BY <1>2, <1>6 DEF BatchTypes, trackers
<1>8. Quiet'
  BY <1>2 DEF Quiet, trackers
<1> QED
  BY <1>2, <1>7, <1>8 DEF BatchInv, Spread

\* DoBatch is over: nothing is left of it.
LEMMA BatchOverKeeps ==
  ASSUME BatchInv, BatchOver
  PROVE  BatchInv'
<1>1. /\ BatchTypes /\ caller' = "over" /\ sets' = << >> /\ rpc' = NoRpc /\ rpcsPending' = 0 /\ rpcsFailed' = 0
      /\ errSent' = 0 /\ doneSent' = 0 /\ numKeys' = 0 /\ cleanups' = 1
  BY DEF BatchInv, BatchOver
<1>2. DOMAIN rpc' = {} /\ rpc' = [i \in DOMAIN rpc' |-> rpc'[i]]
  BY <1>1 DEF NoRpc
<1>3. BatchTypes'
  BY <1>1, <1>2 DEF BatchTypes
<1>4. Quiet'
  BY <1>1, <1>2 DEF Quiet
<1> QED
  BY <1>1, <1>3, <1>4 DEF BatchInv, Spread

\* Steps that leave DoBatch alone; the ring may change once it was called.
LEMMA OtherKeeps ==
  ASSUME BatchInv, UNCHANGED batchVars, caller = "idle" => UNCHANGED ring
  PROVE  BatchInv'
<1>1. UNCHANGED <<numKeys, sets, rpc, trackers>> /\ UNCHANGED caller /\ UNCHANGED cleanups /\ UNCHANGED acked
  BY DEF batchVars
<1>2. BatchTypes => BatchTypes'
  BY <1>1 DEF BatchTypes, trackers
<1>3. Working => Working'
  <2> SUFFICES ASSUME Working PROVE Working'
    OBVIOUS
  <2>1. caller' = "nil" => \A k \in BatchKeys' : Cardinality(acked'[k]) >= minSuccess(k)'
    BY <1>1, SameBatch DEF Working
  <2>2. caller' = "error" => errSent' > 0
    BY <1>1 DEF Working, trackers
  <2>3. cleanups' = 1 => \A i \in DOMAIN rpc' : rpc'[i].pc = "finished"
    BY <1>1 DEF Working
  <2> QED
    BY <1>1, <2>1, <2>2, <2>3, SameBatch DEF Working
<1>4. Quiet => Quiet'
  BY <1>1 DEF Quiet, trackers
<1>5. Spread' <=> Spread
  BY <1>1 DEF Spread
<1> QED
  BY <1>2, <1>3, <1>4, <1>5 DEF BatchInv

-----------------------------------------------------------------------------
(***************************************************************************)
(* The steps of Do.                                                        *)
(***************************************************************************)
\* A goroutine held back starts or ends: none of the results is about it.
LEMMA DelayedKeeps ==
  ASSUME DoInv, NEW i \in DOMAIN req, NEW x, x # "answered", req[i] # "answered", req' = [req EXCEPT ![i] = x],
         UNCHANGED <<doPc, rset, ch, gotErr>>, forceStart' \in Nat, forceStart' <= forceStart
  PROVE  DoInv'
<1>1. \A j : Heard(j) => Heard(j)'
  BY DEF Heard
<1>2. forceStart \in Nat /\ forceStart' \in Nat /\ Cardinality(gotErr) \in Nat
  BY FS_CardinalityType DEF DoInv
<1>3. doPc' = "idle" => forceStart' = 0
  BY <1>2 DEF DoInv
<1>4. forceStart' + (IF doPc' = "force" THEN 1 ELSE 0) <= Cardinality(gotErr')
  BY <1>2 DEF DoInv
<1> QED
  BY <1>1, <1>2, <1>3, <1>4 DEF DoInv

\* A request returns: its result is the first of that instance.
LEMMA AnswersKeeps ==
  ASSUME DoInv, doPc # "idle", NEW i \in DOMAIN req, NEW ok \in BOOLEAN, Answers(i, ok)
  PROVE  DoInv'
<1>1. /\ req[i] = "running" /\ req' = [req EXCEPT ![i] = "answered"]
      /\ ch' = ch \cup {[from |-> i, ok |-> ok]}
      /\ UNCHANGED <<doPc, rset, forceStart, gotErr>>
  BY DEF Answers
<1>2. ~Heard(i) /\ Heard(i)' /\ \A j : Heard(j) => Heard(j)'
  BY <1>1 DEF Heard
<1>3. i \notin gotErr /\ \A r \in ch : r.from # i
  BY <1>2 DEF DoInv
<1> DEFINE n == [from |-> i, ok |-> ok]
<1>4. n.from = i /\ ch' = ch \cup {n}
  BY <1>1
<1> HIDE DEF n
<1>5. \A r \in ch' : Heard(r.from)' /\ r.from \notin gotErr'
  BY <1>1, <1>2, <1>3, <1>4 DEF DoInv
<1>6. \A r, s \in ch' : r.from = s.from => r = s
  BY <1>3, <1>4 DEF DoInv
<1> QED
  BY <1>1, <1>2, <1>5, <1>6 DEF DoInv

(***************************************************************************)
(* A result is received: a start is sent only after an error that is not   *)
(* fatal, so there are never more starts than maxErrors.                   *)
(***************************************************************************)
LEMMA ReceiveKeeps ==
  ASSUME DoInv, IsReplicationSet(rset), NEW r \in ch, Receive(r)
  PROVE  DoInv'
<1>1. /\ doPc = "loop" /\ ch' = ch \ {r} /\ UNCHANGED <<rset, delay, req, forceStart>>
      /\ gotErr' = (IF r.ok THEN gotErr ELSE gotErr \cup {r.from})
      /\ doPc' = (IF r.ok THEN "loop" ELSE AfterError(gotErr'))
  BY DEF Receive
<1>2. \A j : Heard(j) => Heard(j)'
  BY <1>1 DEF Heard
<1>3. /\ r.from \notin gotErr /\ Heard(r.from) /\ forceStart \in Nat /\ IsFiniteSet(gotErr)
      /\ forceStart <= Cardinality(gotErr)
  BY <1>1 DEF DoInv
<1>4. \A s \in ch' : s \in ch /\ s.from # r.from
  BY <1>1 DEF DoInv
<1>5. CASE r.ok
  BY <1>1, <1>2, <1>3, <1>4, <1>5 DEF DoInv
<1>6. CASE ~r.ok
  <2>1. gotErr' = gotErr \cup {r.from} /\ doPc' = AfterError(gotErr')
    BY <1>1, <1>6
  <2>2. Cardinality(gotErr \cup {r.from}) = Cardinality(gotErr) + 1 /\ Cardinality(gotErr) \in Nat
    BY <1>3, OneMoreOrLess
  <2>3. Cardinality(gotErr') = Cardinality(gotErr) + 1
    BY <2>1, <2>2, Zenon
  <2>4. IsFiniteSet(gotErr')
    BY <1>3, <2>1, FS_AddElement
  <2>5. doPc' \in {"failed", "force", "loop"}
    BY <2>1 DEF AfterError
  <2>6. doPc' = "force" => Cardinality(gotErr') <= rset'.maxErrors
    <3>1. ASSUME doPc' = "force" PROVE ~TrackerFailed(gotErr') /\ rset.maxZones = 0
      BY <2>1, <3>1 DEF AfterError, Delays
    <3>2. ASSUME doPc' = "force" PROVE ~(Cardinality(gotErr') > rset.maxErrors)
      BY <3>1, <3>2 DEF TrackerFailed, ByZone
    <3>3. rset.maxErrors \in Int /\ Cardinality(gotErr') \in Nat
      BY <2>4, FS_CardinalityType DEF IsReplicationSet
    <3> QED
      BY <1>1, <3>2, <3>3
  <2>7. forceStart' + (IF doPc' = "force" THEN 1 ELSE 0) <= Cardinality(gotErr')
    BY <1>1, <1>3, <2>2, <2>3
  <2>8. \A s \in ch' : Heard(s.from)' /\ s.from \notin gotErr'
    BY <1>2, <1>4, <2>1 DEF DoInv
  <2>9. \A j \in gotErr' : Heard(j)'
    BY <1>2, <1>3, <2>1 DEF DoInv
  <2>10. \A s, t \in ch' : s.from = t.from => s = t
    BY <1>4 DEF DoInv
  <2> QED
    BY <1>1, <1>3, <2>4, <2>5, <2>6, <2>7, <2>8, <2>9, <2>10 DEF DoInv
<1> QED
  BY <1>5, <1>6

\* Do goes on or returns: nothing is received or started.
LEMMA LoopKeeps ==
  ASSUME DoInv, doPc # "idle", doPc' \in {doPc, "loop", "ok", "ctx"}, UNCHANGED <<rset, req, ch, gotErr>>,
         forceStart' \in {forceStart, forceStart + (IF doPc = "force" /\ doPc' = "loop" THEN 1 ELSE 0)}
  PROVE  DoInv'
<1>1. \A j : Heard(j) => Heard(j)'
  BY DEF Heard
<1>2. forceStart \in Nat /\ Cardinality(gotErr) \in Nat
  BY FS_CardinalityType DEF DoInv
<1>3. forceStart' \in Nat /\ forceStart' + (IF doPc' = "force" THEN 1 ELSE 0) <= Cardinality(gotErr')
  BY <1>2 DEF DoInv
<1> QED
  BY <1>1, <1>3 DEF DoInv

\* The steps that a reader takes.
LEMMA ReadStepKeeps ==
  ASSUME DoInv, IsReplicationSet(rset), ReadStep
  PROVE  DoInv'
<1>1. CASE LoopEnds
  BY <1>1, LoopKeeps DEF LoopEnds
<1>2. ASSUME NEW r \in ch, Receive(r) PROVE DoInv'
  BY <1>2, ReceiveKeeps
<1>3. CASE ForceStart
  BY <1>3, LoopKeeps DEF ForceStart
<1>4. CASE CtxEnds
  BY <1>4, LoopKeeps DEF CtxEnds
<1>5. CASE DoCtxDone
  BY <1>5, LoopKeeps DEF DoCtxDone
<1>6. ASSUME NEW i \in DOMAIN req, TimerFires(i) \/ TakesForceStart(i) \/ Abandons(i) PROVE DoInv'
  <2>1. forceStart \in Nat
    BY DEF DoInv
  <2>2. CASE TimerFires(i)
    <3>1. /\ req' = [req EXCEPT ![i] = "running"] /\ req[i] # "answered"
          /\ UNCHANGED <<doPc, rset, ch, gotErr>> /\ forceStart' \in Nat /\ forceStart' <= forceStart
      BY <2>1, <2>2 DEF TimerFires
    <3>2. "running" # "answered"
      OBVIOUS
    <3> QED
      BY <3>1, <3>2, DelayedKeeps
  <2>3. CASE TakesForceStart(i)
    <3>1. /\ req' = [req EXCEPT ![i] = "running"] /\ req[i] # "answered"
          /\ UNCHANGED <<doPc, rset, ch, gotErr>> /\ forceStart' \in Nat /\ forceStart' <= forceStart
      BY <2>1, <2>3 DEF TakesForceStart
    <3>2. "running" # "answered"
      OBVIOUS
    <3> QED
      BY <3>1, <3>2, DelayedKeeps
  <2>4. CASE Abandons(i)
    <3>1. /\ req' = [req EXCEPT ![i] = "abandoned"] /\ req[i] # "answered"
          /\ UNCHANGED <<doPc, rset, ch, gotErr>> /\ forceStart' \in Nat /\ forceStart' <= forceStart
      BY <2>1, <2>4 DEF Abandons
    <3>2. "abandoned" # "answered"
      OBVIOUS
    <3> QED
      BY <3>1, <3>2, DelayedKeeps
  <2> QED
    BY <1>6, <2>2, <2>3, <2>4
<1>7. ASSUME NEW i \in DOMAIN req, NEW ok \in BOOLEAN, Answers(i, ok) PROVE DoInv'
  BY <1>7, AnswersKeeps DEF DoInv
<1> QED
  BY <1>1, <1>2, <1>3, <1>4, <1>5, <1>6, <1>7 DEF ReadStep

\* Do is called: nothing was received yet.
LEMMA DoCallKeeps ==
  ASSUME DoInv, NEW rs, NEW d, DoCall(rs, d)
  PROVE  DoInv'
<1>1. doPc = "idle" /\ doPc' = "loop" /\ UNCHANGED <<ch, forceStart, gotErr>>
  BY DEF DoCall
<1>2. gotErr' = {} /\ ch' = {} /\ forceStart' = 0
  BY <1>1 DEF DoInv
<1>3. IsFiniteSet(gotErr') /\ Cardinality(gotErr') = 0
  BY <1>2, FS_EmptySet
<1> QED
  BY <1>1, <1>2, <1>3 DEF DoInv

\* Do is left alone.
LEMMA DoRests ==
  ASSUME DoInv, UNCHANGED doVars
  PROVE  DoInv'
BY DEF DoInv, doVars, Heard

-----------------------------------------------------------------------------
\* Both calls are idle at first.
LEMMA InitInv == Init => Inv
<1> SUFFICES ASSUME Init PROVE Inv
  OBVIOUS
<1>1. ring.keys \in Seq(Int)
  BY ScenariosAssumption DEF Init
<1>2. Len(ring.keys) \in Nat
  BY <1>1
<1>3. DOMAIN rpc = {} /\ rpc = [i \in DOMAIN rpc |-> rpc[i]]
  BY DEF Init, BatchInit, NoRpc
<1>4. BatchTypes
  BY <1>2, <1>3 DEF Init, BatchInit, BatchTypes
<1>5. Quiet /\ ~Spread
  BY <1>3 DEF Init, BatchInit, Quiet, Spread
<1>6. IsFiniteSet({}) /\ Cardinality({}) = 0
  BY FS_EmptySet
<1>7. DoInv
  BY <1>6 DEF Init, DoInit, DoInv
<1> QED
  BY <1>4, <1>5, <1>7 DEF Inv, BatchInv

\* Every step preserves the invariant, if the lookups give replication sets.
LEMMA NextInv == Inv /\ SetsAreTyped /\ [Next]_vars => Inv'
<1> SUFFICES ASSUME Inv, SetsAreTyped, [Next]_vars PROVE Inv'
  OBVIOUS
<1>1. BatchInv /\ DoInv /\ Typed /\ IsReplicationSet(rset)
  BY DEF Inv, SetsAreTyped, Typed
<1>2. CASE WriteCall
  BY <1>1, <1>2, WriteCallKeeps, DoRests DEF WriteCall, Inv
<1>3. CASE WriteLookup
  BY <1>1, <1>3, WriteLookupKeeps, DoRests DEF WriteLookup, Inv
<1>4. CASE WriteStep
  <2>1. UNCHANGED ring /\ UNCHANGED doVars
    BY <1>4 DEF WriteStep, ringVars
  <2>2. ASSUME BatchSpawn PROVE BatchInv'
    BY <1>1, <2>1, <2>2, BatchSpawnKeeps
  <2>3. ASSUME Cleanup PROVE BatchInv'
    BY <1>1, <2>1, <2>3, CleanupKeeps
  <2>4. ASSUME NEW i \in DOMAIN rpc, NEW ok \in BOOLEAN, CallbackReturns(i, ok) PROVE BatchInv'
    BY <1>1, <2>1, <2>4, CallbackKeeps
  <2>5. ASSUME NEW i \in DOMAIN rpc, Records(i) PROVE BatchInv'
    BY <1>1, <2>1, <2>5, RecordItemKeeps, RecordBatchKeeps, RecordSendKeeps DEF Records
  <2>6. ASSUME NEW result \in {"error", "nil", "ctx"}, BatchReturns(result) PROVE BatchInv'
    BY <1>1, <2>1, <2>6, BatchReturnsKeeps
  <2>7. BatchInv'
    BY <1>4, <2>2, <2>3, <2>4, <2>5, <2>6 DEF WriteStep
  <2> QED
    BY <1>1, <2>1, <2>7, DoRests DEF Inv
<1>5. CASE ReadCall
  <2>1. BatchOver /\ \E rs, d : DoCall(rs, d)
    BY <1>5 DEF ReadCall
  <2> QED
    BY <1>1, <2>1, BatchOverKeeps, DoCallKeeps DEF Inv
<1>6. CASE ReadStep
  <2>1. UNCHANGED batchVars /\ UNCHANGED ring
    BY <1>6 DEF ReadStep, ringVars
  <2> QED
    BY <1>1, <1>6, <2>1, ReadStepKeeps, OtherKeeps DEF Inv
<1>7. ASSUME NEW i \in DOMAIN ring.desc, RingUpdate(i) PROVE Inv'
  <2>1. UNCHANGED batchVars /\ UNCHANGED doVars /\ caller # "idle"
    BY <1>7 DEF RingUpdate
  <2> QED
    BY <1>1, <2>1, OtherKeeps, DoRests DEF Inv
<1>8. CASE UNCHANGED vars
  <2>1. UNCHANGED batchVars /\ UNCHANGED doVars /\ UNCHANGED ring
    BY <1>8 DEF vars, ringVars
  <2> QED
    BY <1>1, <2>1, OtherKeeps, DoRests DEF Inv
<1> QED
  BY <1>2, <1>3, <1>4, <1>5, <1>6, <1>7, <1>8 DEF Next

(***************************************************************************)
(* The invariant holds for every ring, every number of keys and every      *)
(* order of the steps, provided that what the ring gives are replication   *)
(* sets: sequences of instances with integer limits.  Of the walk that     *)
(* finds them nothing else is used.                                        *)
(***************************************************************************)
THEOREM InvariantHolds == Spec /\ []SetsAreTyped => []Inv
<1> QED
  BY InitInv, NextInv, PTL DEF Spec

(***************************************************************************)
(* DoBatch returns nil only when every key was acknowledged by a quorum of *)
(* the replicas it was given, an error only when some key no longer can    *)
(* be, and calls cleanup once and last, whatever the callbacks return, in  *)
(* whatever order, and however the keys share their replicas.              *)
(***************************************************************************)
THEOREM BatchIsRightHolds == Spec /\ []SetsAreTyped => []BatchIsRight
<1>1. Inv /\ SetsAreTyped => BatchIsRight
  BY AnswersRightly DEF Inv, SetsAreTyped, Typed, BatchIsRight
<1> QED
  BY <1>1, InvariantHolds, PTL

(***************************************************************************)
(* No goroutine of DoBatch finds its channel full, as there is one answer  *)
(* between them, and neither does the loop of Do that forces requests to   *)
(* start.                                                                  *)
(***************************************************************************)
THEOREM SendsNeverBlockHolds == Spec /\ []SetsAreTyped => []SendsNeverBlock
<1>1. DoInv /\ IsReplicationSet(rset) => ForceStartHasRoom
  <2> SUFFICES ASSUME DoInv, IsReplicationSet(rset), doPc = "force" PROVE forceStart < rset.maxErrors
    BY DEF ForceStartHasRoom
  <2>1. forceStart \in Nat /\ rset.maxErrors \in Int /\ Cardinality(gotErr) \in Nat
    BY FS_CardinalityType DEF DoInv, IsReplicationSet
  <2>2. forceStart + 1 <= Cardinality(gotErr) /\ Cardinality(gotErr) <= rset.maxErrors
    BY DEF DoInv
  <2> QED
    BY <2>1, <2>2
<1>2. Inv /\ SetsAreTyped => SendsNeverBlock
  BY <1>1, AnswersOnce DEF Inv, SetsAreTyped, Typed, SendsNeverBlock
<1> QED
  BY <1>2, InvariantHolds, PTL
=============================================================================
