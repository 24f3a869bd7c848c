------------------------ MODULE RingReplicasProofs ------------------------
(***************************************************************************)
(* Proofs about RingReplicas, for any replicas, instances, tokens and      *)
(* updates.                                                                *)
(***************************************************************************)
EXTENDS RingReplicas, TLAPS

-----------------------------------------------------------------------------
(***************************************************************************)
(* Facts about ring/model.go's Merge for every pair of descriptors.        *)
(***************************************************************************)

(***************************************************************************)
(* d holds no tokens of LEFT instances: what normalizeIngestersMap leaves. *)
(***************************************************************************)
Normalized(d) == \A i \in DOMAIN d : d[i].state = "LEFT" => d[i].tokens = {}

(***************************************************************************)
(* A descriptor's entries are entries, and so is the zero value.           *)
(***************************************************************************)
LEMMA GetType ==
  ASSUME NEW d, IsDesc(d), NEW i
  PROVE  Get(d, i) \in Entry
BY DEF IsDesc, Get, Entry, InstanceStates

(***************************************************************************)
(* normalizeIngestersMap only takes the tokens of LEFT instances away.     *)
(***************************************************************************)
LEMMA NormalizeFacts ==
  ASSUME NEW d, IsDesc(d)
  PROVE  /\ IsDesc(Normalize(d))
         /\ DOMAIN Normalize(d) = DOMAIN d
         /\ Normalized(Normalize(d))
         /\ \A i \in DOMAIN d : /\ Normalize(d)[i].ts = d[i].ts
                                /\ Normalize(d)[i].state = d[i].state
<1>1. \A i \in DOMAIN d : d[i] \in Entry
  BY DEF IsDesc
<1>2. \A i \in DOMAIN d : /\ Normalize(d)[i] \in Entry
                          /\ Normalize(d)[i].ts = d[i].ts
                          /\ Normalize(d)[i].state = d[i].state
                          /\ d[i].state = "LEFT" => Normalize(d)[i].tokens = {}
  BY <1>1 DEF Normalize, Entry
<1>3. Normalize(d) = [i \in DOMAIN d |-> Normalize(d)[i]]
  BY DEF Normalize
<1> QED
  BY <1>2, <1>3 DEF IsDesc, Normalized

(***************************************************************************)
(* Rank is a number, and normalising does not change it.                   *)
(***************************************************************************)
LEMMA RankFacts ==
  ASSUME NEW d, IsDesc(d), NEW i
  PROVE  Rank(d, i) \in Nat /\ Rank(Normalize(d), i) = Rank(d, i)
<1>1. Get(d, i) \in Entry
  BY GetType
<1>2. Get(Normalize(d), i).ts = Get(d, i).ts /\ Get(Normalize(d), i).state = Get(d, i).state
  BY NormalizeFacts DEF Get
<1> QED
  BY <1>1, <1>2 DEF Rank, Entry

(***************************************************************************)
(* The two tests of mergeWithTime together: an entry is taken over exactly *)
(* if it is the more recent one.                                           *)
(***************************************************************************)
LEMMA AcceptedIffMoreRecent ==
  ASSUME NEW d, NEW o, IsDesc(d), IsDesc(o), NEW i \in DOMAIN o
  PROVE  i \in Accepted(d, o) <=> Rank(o, i) > Rank(d, i)
<1>1. Get(d, i) \in Entry /\ Get(o, i) \in Entry /\ Get(o, i) = o[i]
  BY GetType DEF Get
<1> QED
  BY <1>1 DEF Accepted, NewerIn, LeftIn, Rank, Entry

(***************************************************************************)
(* What the loops of mergeWithTime leave of each instance.                 *)
(***************************************************************************)
LEMMA CombineFacts ==
  ASSUME NEW d, NEW o, IsDesc(d), IsDesc(o), NEW cas \in BOOLEAN, NEW now \in Nat
  PROVE  /\ DOMAIN Combine(d, o, cas, now) = DOMAIN d \cup Accepted(d, o)
         /\ IsDesc(Combine(d, o, cas, now))
         /\ Normalized(d) /\ Normalized(o) => Normalized(Combine(d, o, cas, now))
<1> DEFINE c == Combine(d, o, cas, now)
<1>1. DOMAIN c = DOMAIN d \cup Accepted(d, o)
  BY DEF Combine
<1>2. Accepted(d, o) \subseteq DOMAIN o
  BY DEF Accepted
<1>3. ASSUME NEW i \in DOMAIN c
      PROVE  /\ c[i] \in Entry
             /\ \/ i \in Accepted(d, o) /\ c[i] = o[i]
                \/ i \in DOMAIN d /\ c[i] = d[i]
                \/ c[i].tokens = {}
  <2>1. CASE i \in Accepted(d, o)
    BY <1>1, <1>2, <2>1 DEF Combine, IsDesc
  <2>2. CASE i \notin Accepted(d, o) /\ i \in Removed(d, o, cas)
    <3>1. c[i] = Tombstone(d[i], now)
      BY <1>1, <2>2 DEF Combine
    <3> QED
      BY <3>1 DEF Tombstone, Entry, InstanceStates
  <2>3. CASE i \notin Accepted(d, o) /\ i \notin Removed(d, o, cas)
    BY <1>1, <2>3 DEF Combine, IsDesc
  <2> QED
    BY <2>1, <2>2, <2>3
<1>4. c = [i \in DOMAIN c |-> c[i]]
  BY DEF Combine
<1>5. IsDesc(c)
  BY <1>1, <1>2, <1>3, <1>4 DEF IsDesc
<1>6. Normalized(d) /\ Normalized(o) => Normalized(c)
  BY <1>2, <1>3 DEF Normalized
<1> QED
  BY <1>1, <1>5, <1>6

(***************************************************************************)
(* resolveConflicts takes tokens away and changes nothing else.            *)
(***************************************************************************)
LEMMA ResolveFacts ==
  ASSUME NEW c, IsDesc(c)
  PROVE  /\ DOMAIN resolveConflicts(c) = DOMAIN c
         /\ IsDesc(resolveConflicts(c))
         /\ \A i \in DOMAIN c : /\ resolveConflicts(c)[i].ts = c[i].ts
                                /\ resolveConflicts(c)[i].state = c[i].state
                                /\ resolveConflicts(c)[i].tokens \subseteq c[i].tokens
<1> DEFINE r == resolveConflicts(c)
<1>1. DOMAIN r = DOMAIN c
  BY DEF resolveConflicts
<1>2. ASSUME NEW i \in DOMAIN c
      PROVE  /\ r[i] \in Entry /\ r[i].ts = c[i].ts /\ r[i].state = c[i].state
             /\ r[i].tokens \subseteq c[i].tokens
  <2>1. c[i] \in Entry
    BY DEF IsDesc
  <2>2. PICK T \in SUBSET c[i].tokens : r[i] = [c[i] EXCEPT !.tokens = T]
    BY DEF resolveConflicts
  <2> QED
    BY <2>1, <2>2 DEF Entry
<1>3. r = [i \in DOMAIN c |-> r[i]]
  BY DEF resolveConflicts
<1>4. IsDesc(r)
  BY <1>1, <1>2, <1>3 DEF IsDesc
<1> QED
  BY <1>1, <1>2, <1>4

(***************************************************************************)
(* resolveConflicts resolves: the order of precedence is strict, so only   *)
(* one instance precedes all other owners of a token.                      *)
(***************************************************************************)
LEMMA ResolveResolves ==
  ASSUME NEW c, IsDesc(c)
  PROVE  ~conflictingTokensExist(resolveConflicts(c))
<1> DEFINE r == resolveConflicts(c)
<1>1. DOMAIN r = DOMAIN c /\ DOMAIN c \subseteq Nat
  BY ResolveFacts, InstancesAssumption DEF IsDesc
<1>2. SUFFICES ASSUME NEW i \in DOMAIN c, NEW j \in DOMAIN c, i # j,
                      NEW t \in r[i].tokens, t \in r[j].tokens
               PROVE  FALSE
  BY <1>1 DEF conflictingTokensExist
<1>3. \A k \in DOMAIN c : r[k].tokens =
        {u \in c[k].tokens : k \in Owners(c, u) /\ \A l \in Owners(c, u) \ {k} : Precedes(c, k, l)}
  BY DEF resolveConflicts, IsDesc, Entry
<1>4. Precedes(c, i, j) /\ Precedes(c, j, i)
  BY <1>2, <1>3
<1> QED
  BY <1>1, <1>2, <1>4 DEF Precedes

(***************************************************************************)
(* Merge keeps descriptors well formed and normalised, and changes nothing *)
(* but tokens after its loops.                                             *)
(***************************************************************************)
LEMMA MergedFacts ==
  ASSUME NEW d, NEW o, IsDesc(d), IsDesc(o), NEW cas \in BOOLEAN, NEW now \in Nat
  PROVE  LET m == Merged(d, o, cas, now)
             c == Combine(d, Normalize(o), cas, now)
         IN /\ DOMAIN m = DOMAIN c
            /\ IsDesc(m)
            /\ Normalized(d) => Normalized(m)
            /\ \A i \in DOMAIN c : m[i].ts = c[i].ts /\ m[i].state = c[i].state
<1> DEFINE n == Normalize(o)
           m == Merged(d, o, cas, now)
           c == Combine(d, n, cas, now)
<1>1. IsDesc(n) /\ Normalized(n)
  BY NormalizeFacts
<1>2. IsDesc(c) /\ (Normalized(d) => Normalized(c))
  BY <1>1, CombineFacts
<1>3. m = c \/ m = resolveConflicts(c)
  BY DEF Merged
<1>4. CASE m = c
  BY <1>2, <1>4
<1>5. CASE m = resolveConflicts(c)
  <2>1. Normalized(c) => Normalized(m)
    BY <1>2, <1>5, ResolveFacts DEF Normalized
  <2> QED
    BY <1>2, <1>5, <2>1, ResolveFacts
<1> QED
  BY <1>3, <1>4, <1>5

(***************************************************************************)
(* After a merge every instance is known at least as well as before, and   *)
(* as well as in what was merged in; a local CAS must not be older than    *)
(* the entries it removes.                                                 *)
(***************************************************************************)
THEOREM MergeKeepsMostRecent ==
  ASSUME NEW d, NEW o, IsDesc(d), IsDesc(o), NEW cas \in BOOLEAN, NEW now \in Nat,
         cas => \A i \in DOMAIN d : d[i].ts <= now,
         NEW i \in Instances
  PROVE  /\ Rank(d, i) <= Rank(Merged(d, o, cas, now), i)
         /\ Rank(o, i) <= Rank(Merged(d, o, cas, now), i)
<1> DEFINE n == Normalize(o)
           m == Merged(d, o, cas, now)
           c == Combine(d, n, cas, now)
<1>1. IsDesc(n) /\ DOMAIN n = DOMAIN o /\ Rank(n, i) = Rank(o, i)
  BY NormalizeFacts, RankFacts
<1>2. IsDesc(c) /\ DOMAIN c = DOMAIN d \cup Accepted(d, n)
  BY <1>1, CombineFacts
<1>3. Rank(m, i) = Rank(c, i)
  <2>1. DOMAIN m = DOMAIN c /\ \A k \in DOMAIN c : m[k].ts = c[k].ts /\ m[k].state = c[k].state
    BY MergedFacts
  <2> QED
    BY <2>1 DEF Rank, Get
<1>4. Rank(d, i) \in Nat /\ Rank(n, i) \in Nat
  BY <1>1, RankFacts
<1>5. i \notin DOMAIN n => Rank(n, i) = 0
  BY DEF Rank, Get
<1>6. CASE i \in Accepted(d, n)
  <2>1. i \in DOMAIN n /\ c[i] = n[i] /\ i \in DOMAIN c
    BY <1>2, <1>6 DEF Combine, Accepted
  <2>2. Rank(c, i) = Rank(n, i)
    BY <2>1 DEF Rank, Get
  <2>3. Rank(n, i) > Rank(d, i)
    BY <1>1, <1>6, <2>1, AcceptedIffMoreRecent
  <2> QED
    BY <1>1, <1>3, <1>4, <2>2, <2>3
<1>7. CASE i \notin Accepted(d, n) /\ i \in Removed(d, n, cas)
  <2>1. cas /\ i \in DOMAIN d /\ i \notin DOMAIN n
    BY <1>7 DEF Removed
  <2>2. c[i] = [state |-> "LEFT", ts |-> now, tokens |-> {}] /\ i \in DOMAIN c
    BY <1>2, <1>7, <2>1 DEF Combine, Tombstone
  <2>3. d[i] \in Entry /\ d[i].ts <= now
    BY <2>1 DEF IsDesc
  <2>4. Get(c, i).ts = now /\ Get(c, i).state = "LEFT"
    BY <2>2 DEF Get
  <2>5. Get(d, i).ts \in Nat /\ Get(d, i).ts <= now
    BY <2>1, <2>3 DEF Get, Entry
  <2>6. Rank(c, i) = 2 * now + 1
    BY <2>4 DEF Rank
  <2>7. Rank(d, i) <= 2 * now + 1
    BY <2>5 DEF Rank
  <2> HIDE DEF n, m, c
  <2> QED
    BY <1>1, <1>3, <1>4, <1>5, <2>1, <2>6, <2>7 DEF m
<1>8. CASE i \notin Accepted(d, n) /\ i \notin Removed(d, n, cas)
  <2>1. Rank(c, i) = Rank(d, i)
    BY <1>2, <1>8 DEF Combine, Rank, Get
  <2>2. Rank(n, i) <= Rank(d, i)
    BY <1>1, <1>4, <1>5, <1>8, AcceptedIffMoreRecent
  <2> QED
    BY <1>1, <1>3, <1>4, <2>1, <2>2
<1> QED
  BY <1>6, <1>7, <1>8

(***************************************************************************)
(* Merge never leaves a token with two owners, though it looks for         *)
(* conflicts only when the tokens of an accepted entry differ.             *)
(***************************************************************************)
THEOREM MergeKeepsOneOwner ==
  ASSUME NEW d, NEW o, IsDesc(d), IsDesc(o), NEW cas \in BOOLEAN, NEW now \in Nat,
         ~conflictingTokensExist(d)
  PROVE  ~conflictingTokensExist(Merged(d, o, cas, now))
<1> DEFINE n == Normalize(o)
           c == Combine(d, n, cas, now)
<1>1. IsDesc(n) /\ Normalized(n)
  BY NormalizeFacts
<1>2. IsDesc(c) /\ DOMAIN c = DOMAIN d \cup Accepted(d, n)
  BY <1>1, CombineFacts
<1>3. CASE conflictingTokensExist(c) /\ TokensChanged(d, n)
  BY <1>2, <1>3, ResolveResolves DEF Merged
<1>4. CASE ~conflictingTokensExist(c)
  BY <1>4 DEF Merged
<1>5. CASE conflictingTokensExist(c) /\ ~TokensChanged(d, n)
  <2>1. ASSUME NEW i \in DOMAIN c
        PROVE  c[i].tokens \subseteq Get(d, i).tokens
    <3>1. CASE i \in Accepted(d, n) /\ NewerIn(d, n, i)
      BY <1>2, <1>5, <3>1 DEF TokensChanged, Combine
    <3>2. CASE i \in Accepted(d, n) /\ ~NewerIn(d, n, i)
      BY <1>1, <1>2, <3>2 DEF Accepted, LeftIn, Normalized, Combine
    <3>3. CASE i \notin Accepted(d, n)
      BY <1>2, <3>3 DEF Combine, Tombstone, Get
    <3> QED
      BY <3>1, <3>2, <3>3
  <2>2. PICK i \in DOMAIN c, j \in DOMAIN c : i # j /\ c[i].tokens \cap c[j].tokens # {}
    BY <1>5 DEF conflictingTokensExist
  <2>3. PICK t : t \in Get(d, i).tokens /\ t \in Get(d, j).tokens
    BY <2>1, <2>2
  <2>4. i \in DOMAIN d /\ j \in DOMAIN d /\ t \in d[i].tokens \cap d[j].tokens
    BY <2>3 DEF Get
  <2> QED
    BY <2>2, <2>4 DEF conflictingTokensExist
<1> QED
  BY <1>3, <1>4, <1>5

(***************************************************************************)
(* Merging what is known already changes nothing and reports no change.    *)
(***************************************************************************)
THEOREM MergeOfKnown ==
  ASSUME NEW d, NEW o, IsDesc(d), IsDesc(o), NEW now \in Nat,
         \A i \in DOMAIN o : Rank(o, i) <= Rank(d, i)
  PROVE  /\ Merged(d, o, FALSE, now) = d
         /\ MergeChange(d, o, FALSE, now) = NewDesc
<1> DEFINE n == Normalize(o)
<1>1. IsDesc(n) /\ DOMAIN n = DOMAIN o
  BY NormalizeFacts
<1>2. ASSUME NEW i \in DOMAIN n
      PROVE  i \notin Accepted(d, n)
  <2>1. Rank(n, i) <= Rank(d, i) /\ Rank(n, i) \in Nat /\ Rank(d, i) \in Nat
    BY <1>1, RankFacts
  <2> QED
    BY <1>1, <2>1, AcceptedIffMoreRecent
<1>3. Accepted(d, n) = {}
  BY <1>2 DEF Accepted
<1>4. Removed(d, n, FALSE) = {}
  BY DEF Removed
<1>5. ~TokensChanged(d, n)
  BY <1>3 DEF TokensChanged
<1>6. d = [i \in DOMAIN d |-> d[i]]
  BY DEF IsDesc
<1>7. Combine(d, n, FALSE, now) = d
  BY <1>3, <1>4, <1>6 DEF Combine
<1>8. Merged(d, o, FALSE, now) = d
  BY <1>5, <1>7 DEF Merged
<1>9. MergeChange(d, o, FALSE, now) = NewDesc
  BY <1>3, <1>4 DEF MergeChange, Updated, NewDesc
<1> QED
  BY <1>8, <1>9

-----------------------------------------------------------------------------
(***************************************************************************)
(* The inductive invariant: descriptors are well formed, normalised and    *)
(* free of conflicts, and what a replica got is no more recent than what   *)
(* its descriptor says.                                                    *)
(***************************************************************************)
Known(r) ==
  \A u \in got[r] : IsDesc(u) /\ \A i \in DOMAIN u : Rank(u, i) <= Rank(desc[r], i)

ReplicaInv(r) ==
  /\ IsDesc(desc[r])
  /\ Normalized(desc[r])
  /\ ~conflictingTokensExist(desc[r])
  /\ Known(r)

Inv ==
  /\ desc = [r \in Replicas |-> desc[r]]
  /\ got = [r \in Replicas |-> got[r]]
  /\ \A r \in Replicas : ReplicaInv(r)

(***************************************************************************)
(* The empty descriptor of a new replica satisfies the invariant.          *)
(***************************************************************************)
LEMMA InitInv == ReplicasInit => Inv
<1> SUFFICES ASSUME ReplicasInit PROVE Inv
  OBVIOUS
<1>1. ASSUME NEW r \in Replicas
      PROVE  desc[r] = NewDesc /\ got[r] = {}
  BY DEF ReplicasInit
<1>2. DOMAIN NewDesc = {}
  BY DEF NewDesc
<1>3. IsDesc(NewDesc)
  BY DEF IsDesc, NewDesc
<1>4. \A r \in Replicas : ReplicaInv(r)
  BY <1>1, <1>2, <1>3 DEF ReplicaInv, Known, Normalized, conflictingTokensExist
<1> QED
  BY <1>4 DEF Inv, ReplicasInit

(***************************************************************************)
(* Merging a well-formed descriptor o and noting the updates it is known   *)
(* to cover preserves the invariant, and no rank falls.                    *)
(***************************************************************************)
LEMMA ApplyInv ==
  ASSUME Inv, NEW r \in Replicas, NEW o, NEW us, IsDesc(o), Apply(r, o, us),
         \A u \in us : IsDesc(u) /\ \A i \in DOMAIN u : Rank(u, i) <= Rank(o, i)
  PROVE  /\ Inv'
         /\ \A q \in Replicas, i \in Instances : Rank(desc[q], i) <= Rank(desc'[q], i)
<1> DEFINE m == Merged(desc[r], o, FALSE, 0)
<1>1. /\ desc' = [desc EXCEPT ![r] = m]
      /\ got' = [got EXCEPT ![r] = got[r] \cup us]
  BY DEF Apply
<1>2. /\ desc'[r] = m /\ got'[r] = got[r] \cup us
      /\ desc' = [q \in Replicas |-> desc'[q]]
      /\ got' = [q \in Replicas |-> got'[q]]
      /\ \A q \in Replicas \ {r} : desc'[q] = desc[q] /\ got'[q] = got[q]
  BY <1>1 DEF Inv
<1>3. IsDesc(desc[r]) /\ Normalized(desc[r]) /\ ~conflictingTokensExist(desc[r]) /\ Known(r)
  BY DEF Inv, ReplicaInv
<1>4. IsDesc(m) /\ Normalized(m)
  BY <1>3, MergedFacts
<1>5. ~conflictingTokensExist(m)
  BY <1>3, MergeKeepsOneOwner
<1>6. ASSUME NEW i \in Instances
      PROVE  /\ Rank(desc[r], i) <= Rank(m, i) /\ Rank(o, i) <= Rank(m, i)
             /\ Rank(desc[r], i) \in Nat /\ Rank(o, i) \in Nat /\ Rank(m, i) \in Nat
  BY <1>3, <1>4, MergeKeepsMostRecent, RankFacts
<1>7. ASSUME NEW u \in got[r] \cup us
      PROVE  IsDesc(u) /\ \A i \in DOMAIN u : Rank(u, i) <= Rank(m, i)
  <2>1. IsDesc(u)
    BY <1>3 DEF Known
  <2>2. ASSUME NEW i \in DOMAIN u
        PROVE  Rank(u, i) <= Rank(m, i)
    <3>1. i \in Instances /\ Rank(u, i) \in Nat
      BY <2>1, RankFacts DEF IsDesc
    <3>2. Rank(u, i) <= Rank(desc[r], i) \/ Rank(u, i) <= Rank(o, i)
      BY <1>3 DEF Known
    <3>3. /\ Rank(desc[r], i) <= Rank(m, i) /\ Rank(o, i) <= Rank(m, i)
          /\ Rank(desc[r], i) \in Nat /\ Rank(o, i) \in Nat /\ Rank(m, i) \in Nat
      BY <1>6, <3>1
    <3> HIDE DEF m
    <3> QED
      BY <3>1, <3>2, <3>3
  <2> QED
    BY <2>1, <2>2
<1> HIDE DEF m
<1>8. ReplicaInv(r)'
  BY <1>2, <1>4, <1>5, <1>7 DEF ReplicaInv, Known
<1>9. ASSUME NEW q \in Replicas \ {r}
      PROVE  ReplicaInv(q)'
  <2>1. ReplicaInv(q)
    BY DEF Inv
  <2> QED
    BY <1>2, <2>1 DEF ReplicaInv, Known
<1>10. Inv'
  BY <1>2, <1>8, <1>9 DEF Inv
<1>11. ASSUME NEW q \in Replicas, NEW i \in Instances
       PROVE  Rank(desc[q], i) <= Rank(desc'[q], i)
  <2>1. CASE q = r
    BY <1>2, <1>6, <2>1
  <2>2. CASE q # r
    <3>1. IsDesc(desc[q])
      BY DEF Inv, ReplicaInv
    <3> QED
      BY <1>2, <2>2, <3>1, RankFacts
  <2> QED
    BY <2>1, <2>2
<1> QED
  BY <1>10, <1>11

(***************************************************************************)
(* Every step preserves the invariant and lets no rank fall.               *)
(***************************************************************************)
LEMMA NextInv ==
  ASSUME Inv, [ReplicasNext]_replicaVars
  PROVE  /\ Inv'
         /\ \A q \in Replicas, i \in Instances : Rank(desc[q], i) <= Rank(desc'[q], i)
<1>1. ASSUME NEW r \in Replicas, NEW u \in Updates, Receive(r, u)
      PROVE  /\ Inv'
             /\ \A q \in Replicas, i \in Instances : Rank(desc[q], i) <= Rank(desc'[q], i)
  <2>1. IsDesc(u)
    BY UpdatesAssumption
  <2>2. \A i \in DOMAIN u : Rank(u, i) <= Rank(u, i)
    BY <2>1, RankFacts
  <2> QED
    BY <1>1, <2>1, <2>2, ApplyInv DEF Receive
<1>2. ASSUME NEW r \in Replicas, NEW p \in Replicas, PushPull(r, p)
      PROVE  /\ Inv'
             /\ \A q \in Replicas, i \in Instances : Rank(desc[q], i) <= Rank(desc'[q], i)
  <2>1. IsDesc(desc[p]) /\ Known(p)
    BY DEF Inv, ReplicaInv
  <2>2. Apply(r, desc[p], got[p])
    BY <1>2 DEF PushPull
  <2> QED
    BY <2>1, <2>2, ApplyInv DEF Known
<1>3. CASE UNCHANGED replicaVars
  <2>1. desc' = desc /\ got' = got
    BY <1>3 DEF replicaVars
  <2>2. Inv'
    BY <2>1 DEF Inv, ReplicaInv, Known
  <2>3. \A q \in Replicas, i \in Instances : Rank(desc[q], i) \in Nat
    BY RankFacts DEF Inv, ReplicaInv
  <2> QED
    BY <2>1, <2>2, <2>3
<1> QED
  BY <1>1, <1>2, <1>3 DEF ReplicasNext

(***************************************************************************)
(* The invariant holds in every reachable state.                           *)
(***************************************************************************)
LEMMA Invariant == ReplicasSpec => []Inv
<1>1. Inv /\ [ReplicasNext]_replicaVars => Inv'
  BY NextInv
<1> QED
  BY InitInv, <1>1, PTL DEF ReplicasSpec

(***************************************************************************)
(* Descriptors stay well formed and normalised (Merge's guarantee to its   *)
(* receiver).                                                              *)
(***************************************************************************)
THEOREM ReplicasTypeCorrect == ReplicasSpec => []ReplicasTypeOK
<1>1. Inv => ReplicasTypeOK
  BY DEF Inv, ReplicaInv, Normalized, ReplicasTypeOK
<1> QED
  BY Invariant, <1>1, PTL

(***************************************************************************)
(* Merging again what was merged before, directly or through others,       *)
(* changes nothing and reports no change: Mergeable's idempotency.         *)
(***************************************************************************)
THEOREM Idempotent == ReplicasSpec => []MergeIdempotent
<1>1. ASSUME Inv, NEW r \in Replicas, NEW u \in got[r]
      PROVE  /\ MergeChange(desc[r], u, FALSE, 0) = NewDesc
             /\ Merged(desc[r], u, FALSE, 0) = desc[r]
  <2>1. IsDesc(desc[r]) /\ IsDesc(u) /\ \A i \in DOMAIN u : Rank(u, i) <= Rank(desc[r], i)
    BY <1>1 DEF Inv, ReplicaInv, Known
  <2> QED
    BY <2>1, MergeOfKnown
<1>2. Inv => MergeIdempotent
  BY <1>1 DEF MergeIdempotent
<1> QED
  BY Invariant, <1>2, PTL

(***************************************************************************)
(* A token never has two owners in a replica's descriptor, whatever is     *)
(* merged in whatever order: resolveConflicts is called when needed.       *)
(***************************************************************************)
THEOREM ReplicasOneOwner == ReplicasSpec => []ReplicasHaveOneOwner
<1>1. Inv => ReplicasHaveOneOwner
  BY DEF Inv, ReplicaInv, ReplicasHaveOneOwner
<1> QED
  BY Invariant, <1>1, PTL

(***************************************************************************)
(* Whatever a replica merges, it stays normalised, merging what it has got *)
(* changes nothing, and no token has two owners.                           *)
(***************************************************************************)
THEOREM Sound == ReplicasSpec => []ReplicaIsSound
<1>1. ReplicasTypeOK /\ MergeIdempotent /\ ReplicasHaveOneOwner => ReplicaIsSound
  BY DEF ReplicaIsSound
<1> QED
  BY <1>1, ReplicasTypeCorrect, Idempotent, ReplicasOneOwner, PTL

(***************************************************************************)
(* No replica ever replaces an entry by an older one.                      *)
(***************************************************************************)
THEOREM ReplicasGoForward == ReplicasSpec => NeverGoesBack
<1>1. Inv /\ [ReplicasNext]_replicaVars =>
        [\A r \in Replicas, i \in Instances : Rank(desc[r], i) <= Rank(desc'[r], i)]_replicaVars
  BY NextInv
<1> QED
  BY Invariant, <1>1, PTL DEF ReplicasSpec, NeverGoesBack


-----------------------------------------------------------------------------
(***************************************************************************)
(* Agreement.  What is known of an instance comes from one of the updates, *)
(* except for tokens that are disputed among them.                         *)
(***************************************************************************)
Sourced(e, i, us) ==
  \E u \in us :
    /\ i \in DOMAIN u /\ e.ts = u[i].ts /\ e.state = u[i].state
    /\ e.tokens \subseteq Normalize(u)[i].tokens
    /\ Normalize(u)[i].tokens \ Disputed(us) \subseteq e.tokens

Origin(r) ==
  /\ got[r] \subseteq Updates
  /\ \A i \in DOMAIN desc[r] : Rank(desc[r], i) > 0 /\ Sourced(desc[r][i], i, got[r])

Origins == \A r \in Replicas : Origin(r)

\* An entry of normalizeIngestersMap is the given one, or without tokens.
LEMMA NormalizedEntry ==
  ASSUME NEW d, IsDesc(d), NEW i \in DOMAIN d
  PROVE  /\ Normalize(d)[i].tokens \subseteq d[i].tokens
         /\ Normalize(d)[i].tokens \subseteq Tokens
         /\ d[i].state = "LEFT" => Normalize(d)[i].tokens = {}
         /\ d[i].state # "LEFT" => Normalize(d)[i] = d[i]
BY DEF IsDesc, Normalize, Entry

\* More updates dispute more tokens, so an entry keeps its source.
LEMMA SourcedGrows ==
  ASSUME NEW e, NEW i, NEW us, NEW more, us \subseteq more, Sourced(e, i, us)
  PROVE  Sourced(e, i, more)
<1>1. Disputed(us) \subseteq Disputed(more)
  BY DEF Disputed
<1> QED
  BY <1>1 DEF Sourced

\* resolveConflicts takes a token away only if another instance has it as well.
LEMMA LostToAnother ==
  ASSUME NEW d, NEW o, IsDesc(d), IsDesc(o), Normalized(d),
         NEW i \in DOMAIN Combine(d, Normalize(o), FALSE, 0),
         NEW t \in Combine(d, Normalize(o), FALSE, 0)[i].tokens,
         t \notin Merged(d, o, FALSE, 0)[i].tokens
  PROVE  \E j \in DOMAIN Combine(d, Normalize(o), FALSE, 0) \ {i} :
           t \in Combine(d, Normalize(o), FALSE, 0)[j].tokens
<1> DEFINE c == Combine(d, Normalize(o), FALSE, 0)
<1>1. IsDesc(c) /\ Normalized(c)
  BY NormalizeFacts, CombineFacts
<1>2. Merged(d, o, FALSE, 0) = resolveConflicts(c)
  BY DEF Merged
<1> HIDE DEF c
<1>3. resolveConflicts(c)[i].tokens =
        {x \in c[i].tokens : i \in Owners(c, x) /\ \A j \in Owners(c, x) \ {i} : Precedes(c, i, j)}
  <2>1. c[i] \in Entry
    BY <1>1 DEF IsDesc, c
  <2> QED
    BY <2>1 DEF resolveConflicts, Entry, c
<1>4. i \in Owners(c, t)
  BY <1>1 DEF Owners, Normalized, c
<1>5. PICK j \in Owners(c, t) \ {i} : TRUE
  BY <1>2, <1>3, <1>4 DEF c
<1> QED
  BY <1>5 DEF Owners, c

(***************************************************************************)
(* What a merge leaves of an instance has a source among the updates of    *)
(* the two sides: the entry one side had, without tokens of others.        *)
(***************************************************************************)
LEMMA MergedIsSourced ==
  ASSUME NEW d, NEW o, IsDesc(d), IsDesc(o), Normalized(d), NEW us, \A u \in us : IsDesc(u),
         \A i \in DOMAIN d : Rank(d, i) > 0 /\ Sourced(d[i], i, us),
         \A i \in DOMAIN o : Sourced(Normalize(o)[i], i, us),
         NEW i \in DOMAIN Merged(d, o, FALSE, 0)
  PROVE  /\ Rank(Merged(d, o, FALSE, 0), i) > 0
         /\ Sourced(Merged(d, o, FALSE, 0)[i], i, us)
<1> DEFINE n == Normalize(o)
           c == Combine(d, n, FALSE, 0)
           m == Merged(d, o, FALSE, 0)
<1>1. /\ IsDesc(n) /\ DOMAIN n = DOMAIN o /\ Accepted(d, n) \subseteq DOMAIN o
  BY NormalizeFacts DEF Accepted
<1>2. /\ IsDesc(c) /\ DOMAIN c = DOMAIN d \cup Accepted(d, n) /\ DOMAIN m = DOMAIN c /\ IsDesc(m)
      /\ \A j \in DOMAIN c : m[j].ts = c[j].ts /\ m[j].state = c[j].state
  <2>1. IsDesc(c) /\ DOMAIN c = DOMAIN d \cup Accepted(d, n)
    BY <1>1, CombineFacts
  <2>2. DOMAIN m = DOMAIN c
    BY MergedFacts
  <2>3. IsDesc(m)
    BY MergedFacts
  <2>4. \A j \in DOMAIN c : m[j].ts = c[j].ts /\ m[j].state = c[j].state
    BY <2>1, ResolveFacts DEF Merged
  <2> QED
    BY <2>1, <2>2, <2>3, <2>4
<1>3. \A j \in DOMAIN c : c[j] = IF j \in Accepted(d, n) THEN n[j] ELSE d[j]
  BY DEF Combine, Removed
<1>4. \A j \in DOMAIN c : Sourced(c[j], j, us)
  BY <1>1, <1>2, <1>3
<1>5. \A j \in DOMAIN c : m[j].tokens \subseteq c[j].tokens
  BY <1>2, ResolveFacts DEF Merged
<1>6. PICK u \in us : /\ i \in DOMAIN u /\ c[i].ts = u[i].ts /\ c[i].state = u[i].state
                      /\ c[i].tokens \subseteq Normalize(u)[i].tokens
                      /\ Normalize(u)[i].tokens \ Disputed(us) \subseteq c[i].tokens
  BY <1>2, <1>4 DEF Sourced
<1>7. ASSUME NEW t \in c[i].tokens, t \notin m[i].tokens
      PROVE  t \in Disputed(us)
  <2>1. PICK j \in DOMAIN c \ {i} : t \in c[j].tokens
    BY <1>2, <1>7, LostToAnother
  <2>2. PICK v \in us : j \in DOMAIN v /\ c[j].tokens \subseteq Normalize(v)[j].tokens
    BY <1>4, <2>1 DEF Sourced
  <2>3. t \in u[i].tokens /\ t \in v[j].tokens /\ t \in Tokens /\ i # j
    BY <1>6, <1>7, <2>1, <2>2, NormalizedEntry
  <2> QED
    BY <1>6, <2>2, <2>3 DEF Disputed
<1>8. Sourced(m[i], i, us)
  <2>1. m[i].tokens \subseteq Normalize(u)[i].tokens
    BY <1>2, <1>5, <1>6
  <2>2. Normalize(u)[i].tokens \ Disputed(us) \subseteq m[i].tokens
    BY <1>6, <1>7
  <2> QED
    BY <1>2, <1>6, <2>1, <2>2 DEF Sourced
<1>9. Rank(m, i) > 0
  <2>1. i \in Instances /\ Rank(d, i) \in Nat /\ Rank(n, i) \in Nat /\ Rank(o, i) = Rank(n, i) /\ Rank(m, i) \in Nat
    BY <1>1, <1>2, RankFacts DEF IsDesc
  <2>2. Rank(d, i) > 0 \/ Rank(o, i) > 0
    <3>1. CASE i \in DOMAIN d
      BY <3>1
    <3>2. CASE i \in Accepted(d, n)
      BY <1>1, <2>1, <3>2, AcceptedIffMoreRecent
    <3> QED
      BY <1>2, <3>1, <3>2
  <2>3. Rank(d, i) <= Rank(m, i) /\ Rank(o, i) <= Rank(m, i)
    BY <2>1, MergeKeepsMostRecent
  <2> HIDE DEF m, n
  <2> QED
    BY <2>1, <2>2, <2>3
<1> QED
  BY <1>8, <1>9


\* A merge of what the updates us have left elsewhere keeps the origin of every entry.
LEMMA ApplyOrigins ==
  ASSUME Inv, Origins, NEW r \in Replicas, NEW o, NEW us, Apply(r, o, us), IsDesc(o), us \subseteq Updates,
         \A i \in DOMAIN o : Sourced(Normalize(o)[i], i, us)
  PROVE  Origins'
<1> DEFINE m == Merged(desc[r], o, FALSE, 0)
           all == got[r] \cup us
<1>1. /\ desc'[r] = m /\ got'[r] = all
      /\ \A q \in Replicas \ {r} : desc'[q] = desc[q] /\ got'[q] = got[q]
  BY DEF Apply, Inv
<1>2. /\ IsDesc(desc[r]) /\ Normalized(desc[r]) /\ Origin(r)
  BY DEF Inv, ReplicaInv, Origins
<1>3. all \subseteq Updates /\ \A u \in all : IsDesc(u)
  BY <1>2, UpdatesAssumption DEF Origin
<1>4. \A i \in DOMAIN desc[r] : Rank(desc[r], i) > 0 /\ Sourced(desc[r][i], i, all)
  BY <1>2, SourcedGrows DEF Origin
<1>5. \A i \in DOMAIN o : Sourced(Normalize(o)[i], i, all)
  BY SourcedGrows
<1>6. \A i \in DOMAIN m : Rank(m, i) > 0 /\ Sourced(m[i], i, all)
  BY <1>2, <1>3, <1>4, <1>5, MergedIsSourced
<1> HIDE DEF m, all
<1>7. Origin(r)'
  BY <1>1, <1>3, <1>6 DEF Origin
<1>8. ASSUME NEW q \in Replicas \ {r}
      PROVE  Origin(q)'
  BY <1>1 DEF Origin, Origins
<1> QED
  BY <1>7, <1>8 DEF Origins

\* Every entry of every replica comes from one of the updates it has got.
LEMMA OriginsHold == ReplicasSpec => []Origins
<1>1. ReplicasInit => Origins
  BY DEF ReplicasInit, Origins, Origin, NewDesc
<1>2. ASSUME Inv, Origins, [ReplicasNext]_replicaVars
      PROVE  Origins'
  <2>1. ASSUME NEW r \in Replicas, NEW u \in Updates, Receive(r, u)
        PROVE  Origins'
    <3>1. IsDesc(u)
      BY UpdatesAssumption
    <3>2. \A i \in DOMAIN u : Sourced(Normalize(u)[i], i, {u})
      BY <3>1, NormalizeFacts DEF Sourced
    <3> QED
      BY <1>2, <2>1, <3>1, <3>2, ApplyOrigins DEF Receive
  <2>2. ASSUME NEW r \in Replicas, NEW p \in Replicas, PushPull(r, p)
        PROVE  Origins'
    <3>1. IsDesc(desc[p]) /\ Normalized(desc[p]) /\ Origin(p)
      BY <1>2 DEF Inv, ReplicaInv, Origins
    <3>2. \A i \in DOMAIN desc[p] : Normalize(desc[p])[i] = desc[p][i]
      <4>1. ASSUME NEW i \in DOMAIN desc[p], desc[p][i].state = "LEFT"
            PROVE  Normalize(desc[p])[i] = desc[p][i]
        <5>1. desc[p][i] \in Entry /\ desc[p][i].tokens = {}
          BY <3>1, <4>1 DEF IsDesc, Normalized
        <5> QED
          BY <4>1, <5>1 DEF Normalize, Entry
      <4> QED
        BY <3>1, <4>1, NormalizedEntry
    <3>3. \A i \in DOMAIN desc[p] : Sourced(Normalize(desc[p])[i], i, got[p])
      BY <3>1, <3>2 DEF Origin
    <3> QED
      BY <1>2, <2>2, <3>1, <3>3, ApplyOrigins DEF PushPull, Origin
  <2>3. CASE UNCHANGED replicaVars
    BY <1>2, <2>3 DEF replicaVars, Origins, Origin
  <2> QED
    BY <1>2, <2>1, <2>2, <2>3 DEF ReplicasNext
<1> QED
  BY <1>1, <1>2, Invariant, PTL DEF ReplicasSpec

(***************************************************************************)
(* Replicas that have merged the same updates, in whatever order, grouping *)
(* and repetition, know the same instances in the same states, and agree   *)
(* on all tokens that are not disputed: as much of Mergeable's             *)
(* commutativity and associativity as Desc.Merge has.  It needs that an    *)
(* instance publishes no two different entries for a second.               *)
(***************************************************************************)
THEOREM Agreement == ReplicasSpec => []SameUpdatesAgree
<1>1. ASSUME Inv, Origins, NEW r \in Replicas, NEW q \in Replicas, got[r] = got[q], NEW i \in DOMAIN desc[r]
      PROVE  /\ i \in DOMAIN desc[q]
             /\ desc[r][i].ts = desc[q][i].ts /\ desc[r][i].state = desc[q][i].state
             /\ desc[r][i].tokens \ Disputed(got[r]) = desc[q][i].tokens \ Disputed(got[r])
  <2>1. /\ IsDesc(desc[r]) /\ IsDesc(desc[q]) /\ Known(r) /\ Known(q) /\ Origin(r) /\ Origin(q)
    BY <1>1 DEF Inv, ReplicaInv, Origins
  <2>2. PICK u \in got[r] : /\ i \in DOMAIN u /\ desc[r][i].ts = u[i].ts /\ desc[r][i].state = u[i].state
                            /\ desc[r][i].tokens \subseteq Normalize(u)[i].tokens
                            /\ Normalize(u)[i].tokens \ Disputed(got[r]) \subseteq desc[r][i].tokens
    BY <2>1 DEF Origin, Sourced
  <2>3. Rank(u, i) = Rank(desc[r], i) /\ Rank(desc[r], i) \in Nat /\ Rank(desc[r], i) > 0
    BY <2>1, <2>2, RankFacts DEF Rank, Get, Origin
  <2>4. Rank(u, i) <= Rank(desc[q], i) /\ Rank(desc[q], i) \in Nat
    BY <1>1, <2>1, <2>2, RankFacts DEF Known
  <2>5. i \in DOMAIN desc[q]
    <3>1. i \notin DOMAIN desc[q] => Rank(desc[q], i) = 0
      BY DEF Rank, Get
    <3> QED
      BY <2>3, <2>4, <3>1
  <2>6. PICK v \in got[q] : /\ i \in DOMAIN v /\ desc[q][i].ts = v[i].ts /\ desc[q][i].state = v[i].state
                            /\ desc[q][i].tokens \subseteq Normalize(v)[i].tokens
                            /\ Normalize(v)[i].tokens \ Disputed(got[q]) \subseteq desc[q][i].tokens
    BY <2>1, <2>5 DEF Origin, Sourced
  <2>7. Rank(v, i) = Rank(desc[q], i)
    BY <2>5, <2>6 DEF Rank, Get
  <2>8. Rank(v, i) <= Rank(desc[r], i)
    BY <1>1, <2>1, <2>6 DEF Known
  <2>9. Rank(u, i) = Rank(v, i)
    BY <2>3, <2>4, <2>7, <2>8
  <2>10. Normalize(u)[i] = Normalize(v)[i]
    BY <1>1, <2>1, <2>2, <2>6, <2>9, OncePerSecond DEF Origin
  <2>11. /\ Normalize(u)[i].ts = u[i].ts /\ Normalize(u)[i].state = u[i].state
         /\ Normalize(v)[i].ts = v[i].ts /\ Normalize(v)[i].state = v[i].state
    BY <2>1, <2>2, <2>6, NormalizeFacts DEF Known
  <2> QED
    BY <1>1, <2>2, <2>5, <2>6, <2>10, <2>11
<1>2. Inv /\ Origins => SameUpdatesAgree
  <2> SUFFICES ASSUME Inv, Origins PROVE SameUpdatesAgree
    OBVIOUS
  <2>1. \A r, q \in Replicas : got[r] = got[q] => DOMAIN desc[r] \subseteq DOMAIN desc[q]
    BY <1>1
  <2>2. \A r, q \in Replicas : got[r] = got[q] => DOMAIN desc[r] = DOMAIN desc[q]
    BY <2>1
  <2> QED
    BY <1>1, <2>2 DEF SameUpdatesAgree
<1> QED
  BY <1>2, Invariant, OriginsHold, PTL
=============================================================================
