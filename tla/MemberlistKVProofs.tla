------------------------ MODULE MemberlistKVProofs ------------------------
(***************************************************************************)
(* Proofs about MemberlistKV, for any nodes, callers, instances, tokens    *)
(* and bounds.                                                             *)
(***************************************************************************)
EXTENDS MemberlistKV, RingReplicasProofs

(***************************************************************************)
(* Descriptors as a set, and the values of the variables built from them.  *)
(***************************************************************************)
Descs == UNION {[S -> Entry] : S \in SUBSET Instances}

Call == [pc : {"idle", "try", "merge", "sleep"}, retries : 0..MaxRetries, ver : Nat,
         read : Descs, out : Descs, at : Nat]
Item == [change : Descs, version : Nat]
Task == [node : Nodes, step : {"notify", "broadcast"}, always : BOOLEAN,
         change : Descs, version : Nat]
Watch == [pc : {"waiting", "reading", "calling"}, notified : BOOLEAN, seen : Descs]

Types ==
  /\ now \in 1..MaxTime
  /\ life \in [Nodes -> {"Running", "Stopping", "Down"}]
  /\ store \in [Nodes -> [value : Descs, version : Nat]]
  /\ cas \in [Nodes -> [Callers -> Call]]
  /\ todo \in SUBSET Task
  /\ queue \in [Nodes -> SUBSET Item]
  /\ net \in SUBSET Descs
  /\ watch \in [Nodes -> Watch]

(***************************************************************************)
(* A value that a node may take over as it is when it has none: nothing in *)
(* it is from the future, and no token has two owners.                     *)
(***************************************************************************)
Until(d, t) == \A i \in DOMAIN d : d[i].ts <= t
Good(d) == Until(d, now) /\ ~conflictingTokensExist(d)

(***************************************************************************)
(* What goes round is good; what a CAS is about to merge is so at least if *)
(* it may meet an empty store.                                             *)
(***************************************************************************)
GoodStore ==
  \A n \in Nodes : Good(store[n].value) /\ (store[n].version = 0 => store[n].value = NewDesc)

GoodNet == \A ch \in net : Good(ch) /\ ch # NewDesc

GoodTodo ==
  \A t \in todo : Good(t.change) /\ t.change # NewDesc /\ t.version \in 1..store[t.node].version

GoodQueue ==
  \A n \in Nodes : \A b \in queue[n] :
    Good(b.change) /\ b.change # NewDesc /\ b.version \in 1..store[n].version

GoodCas ==
  \A n \in Nodes, c \in Callers : cas[n][c].pc = "merge" =>
    /\ cas[n][c].retries > 0 /\ cas[n][c].ver <= store[n].version
    /\ Until(cas[n][c].out, now)
    /\ cas[n][c].ver = 0 => ~conflictingTokensExist(cas[n][c].out)

IInv == Types /\ GoodStore /\ GoodNet /\ GoodTodo /\ GoodQueue /\ GoodCas

-----------------------------------------------------------------------------
(***************************************************************************)
(* The set and the predicate say the same.                                 *)
(***************************************************************************)
LEMMA DescsIsDesc == \A d : d \in Descs <=> IsDesc(d)
BY DEF Descs, IsDesc

(***************************************************************************)
(* The empty descriptor is a good value at any time.                       *)
(***************************************************************************)
LEMMA EmptyDesc == NewDesc \in Descs /\ DOMAIN NewDesc = {} /\ Good(NewDesc)
<1>1. DOMAIN NewDesc = {} /\ NewDesc \in [{} -> Entry]
  BY DEF NewDesc
<1> QED
  BY <1>1 DEF Descs, Good, Until, conflictingTokensExist

(***************************************************************************)
(* A part of a descriptor is one, and is as good.                          *)
(***************************************************************************)
LEMMA RestrictedFacts ==
  ASSUME NEW d \in Descs, NEW S \in SUBSET DOMAIN d
  PROVE  /\ Restricted(d, S) \in Descs
         /\ DOMAIN Restricted(d, S) = S
         /\ \A i \in S : Restricted(d, S)[i] = d[i]
         /\ Good(d) => Good(Restricted(d, S))
<1>1. DOMAIN Restricted(d, S) = S /\ \A i \in S : Restricted(d, S)[i] = d[i]
  BY DEF Restricted
<1>2. Restricted(d, S) \in Descs
  <2>1. DOMAIN d \in SUBSET Instances /\ d \in [DOMAIN d -> Entry]
    BY DEF Descs
  <2>2. Restricted(d, S) \in [S -> Entry] /\ S \in SUBSET Instances
    BY <2>1 DEF Restricted
  <2> QED
    BY <2>2 DEF Descs
<1>3. Good(d) => Good(Restricted(d, S))
  BY <1>1 DEF Good, Until, conflictingTokensExist
<1> QED
  BY <1>1, <1>2, <1>3

(***************************************************************************)
(* RemoveTombstones only removes, and nothing if tombstones do not expire. *)
(***************************************************************************)
LEMMA ExpireFacts ==
  ASSUME NEW d \in Descs
  PROVE  /\ Expire(d) \in Descs
         /\ Good(d) => Good(Expire(d))
         /\ LeftTimeout = 0 => Expire(d) = d
<1>1. ASSUME NEW l
      PROVE  /\ RemoveTombstones(d, l) \in Descs
             /\ Good(d) => Good(RemoveTombstones(d, l))
  <2> DEFINE S == {i \in DOMAIN d : d[i].state = "LEFT" => d[i].ts >= l}
  <2>1. S \in SUBSET DOMAIN d /\ RemoveTombstones(d, l) = Restricted(d, S)
    BY DEF RemoveTombstones
  <2> HIDE DEF S
  <2> QED
    BY <2>1, RestrictedFacts
<1>2. Expire(d) = d \/ \E l : Expire(d) = RemoveTombstones(d, l)
  BY DEF Expire
<1>3. LeftTimeout = 0 => Expire(d) = d
  BY BoundsAssumption DEF Expire
<1> QED
  BY <1>1, <1>2, <1>3

(***************************************************************************)
(* computeNewValue without expiry: the change is a part of the new value,  *)
(* both are good if the old value and what comes in are, and what is not   *)
(* in the change is as recent as before.                                   *)
(***************************************************************************)
LEMMA NewValueFacts ==
  ASSUME NEW old \in [value : Descs, version : Nat], NEW in \in Descs, NEW localCAS \in BOOLEAN,
         now \in Nat, Good(old.value), Until(in, now),
         old.version = 0 => old.value = NewDesc /\ ~conflictingTokensExist(in)
  PROVE  LET v == NewValue(old, in, localCAS)
             ch == Change(old, in, localCAS)
         IN /\ v \in Descs /\ Good(v) /\ ch \in Descs /\ Good(ch)
            /\ DOMAIN ch \subseteq DOMAIN v
            /\ \A i \in DOMAIN ch : ch[i] = v[i]
            /\ \A i \in Instances : Rank(old.value, i) <= Rank(v, i)
            /\ \A i \in Instances \ DOMAIN ch : Rank(v, i) = Rank(old.value, i)
<1> DEFINE v == NewValue(old, in, localCAS)
           ch == Change(old, in, localCAS)
           d == old.value
<1>1. CASE old.version = 0
  <2>1. v = in /\ ch = in
    BY <1>1 DEF NewValue, Change
  <2>2. \A i \in Instances : Rank(NewDesc, i) = 0 /\ Rank(in, i) \in Nat
    BY RankFacts, DescsIsDesc DEF Rank, Get, NewDesc
  <2>3. DOMAIN in \subseteq Instances
    BY DescsIsDesc DEF IsDesc
  <2>4. \A i \in Instances \ DOMAIN in : Rank(in, i) = 0
    BY DEF Rank, Get
  <2> QED
    BY <1>1, <2>1, <2>2, <2>4 DEF Good
<1>2. CASE old.version # 0
  <2> DEFINE n == Normalize(in)
             c == Combine(d, n, localCAS, now)
             m == Merged(d, in, localCAS, now)
             U == Updated(d, n, localCAS)
  <2>1. v = m /\ ch = [i \in U |-> m[i]]
    BY <1>2 DEF NewValue, Change, MergeChange
  <2>2. IsDesc(d) /\ IsDesc(in) /\ IsDesc(n)
    BY DescsIsDesc, NormalizeFacts
  <2>3. DOMAIN n = DOMAIN in /\ \A i \in DOMAIN in : n[i].ts = in[i].ts
    BY <2>2, NormalizeFacts
  <2>4. DOMAIN c = DOMAIN d \cup Accepted(d, n) /\ U \subseteq DOMAIN c
    <3>1. DOMAIN c = DOMAIN d \cup Accepted(d, n)
      BY DEF Combine
    <3> QED
      BY <3>1 DEF Updated, Removed
  <2>5. /\ IsDesc(m) /\ DOMAIN m = DOMAIN c
        /\ \A i \in DOMAIN c : m[i].ts = c[i].ts /\ m[i].state = c[i].state
    BY <2>2, MergedFacts
  <2>6. ~conflictingTokensExist(m)
    BY <2>2, MergeKeepsOneOwner DEF Good
  <2>7. Until(m, now)
    <3>1. ASSUME NEW i \in DOMAIN c
          PROVE  c[i].ts <= now
      BY <2>3, <2>4 DEF Combine, Tombstone, Accepted, Good, Until
    <3> QED
      BY <2>5, <3>1 DEF Until
  <2>8. m \in Descs /\ Good(m)
    BY <2>5, <2>6, <2>7, DescsIsDesc DEF Good
  <2>9. ch \in Descs /\ Good(ch) /\ DOMAIN ch = U /\ \A i \in U : ch[i] = m[i]
    <3> HIDE DEF U, m
    <3>1. ch = Restricted(m, U) /\ U \in SUBSET DOMAIN m
      BY <2>1, <2>4, <2>5 DEF Restricted
    <3> QED
      BY <2>8, <3>1, RestrictedFacts
  <2>10. ASSUME NEW i \in Instances
         PROVE  Rank(d, i) <= Rank(m, i)
    <3>1. \A k \in DOMAIN d : d[k].ts <= now
      BY DEF Good, Until
    <3> QED
      BY <2>2, <3>1, MergeKeepsMostRecent
  <2>11. ASSUME NEW i \in Instances, i \notin U
         PROVE  Rank(m, i) = Rank(d, i)
    <3>1. i \in DOMAIN c <=> i \in DOMAIN d
      BY <2>4, <2>11 DEF Updated
    <3>2. i \in DOMAIN c => c[i] = d[i]
      BY <2>4, <2>11 DEF Updated, Combine
    <3>3. Rank(c, i) = Rank(d, i)
      BY <3>1, <3>2 DEF Rank, Get
    <3>4. Rank(m, i) = Rank(c, i)
      BY <2>5 DEF Rank, Get
    <3> QED
      BY <3>3, <3>4
  <2> HIDE DEF m, U, c, n
  <2> QED
    BY <2>1, <2>4, <2>5, <2>8, <2>9, <2>10, <2>11
<1> QED
  BY <1>1, <1>2

(***************************************************************************)
(* What mergeValueForKey leaves of a store and what it reports: either a   *)
(* change, a new version, and everything in both good; or no change and    *)
(* the same version.                                                       *)
(***************************************************************************)
MergeResult(old, in, localCAS) ==
  LET change == Expire(Change(old, in, localCAS))
      value == IF Change(old, in, localCAS) = NewDesc THEN old.value
               ELSE Expire(NewValue(old, in, localCAS))
  IN Stored(old, value, change)

\* mergeValueForKey: what a merge leaves is well formed, and without expiry as recent as before and newer where it reports a change.
LEMMA MergeResultFacts ==
  ASSUME NEW old \in [value : Descs, version : Nat], NEW in \in Descs, NEW localCAS \in BOOLEAN,
         now \in Nat, Good(old.value), Until(in, now),
         old.version = 0 => old.value = NewDesc /\ ~conflictingTokensExist(in)
  PROVE  LET new == MergeResult(old, in, localCAS)
             change == Expire(Change(old, in, localCAS))
         IN /\ new \in [value : Descs, version : Nat] /\ Good(new.value)
            /\ change \in Descs /\ Good(change)
            /\ new.version = IF change = NewDesc THEN old.version ELSE old.version + 1
            /\ new.version = 0 => new.value = NewDesc
            /\ LeftTimeout = 0 =>
                 /\ change = NewDesc => new = old
                 /\ \A i \in DOMAIN change : i \in DOMAIN new.value /\ change[i] = new.value[i]
                 /\ \A i \in Instances : Rank(old.value, i) <= Rank(new.value, i)
                 /\ \A i \in Instances \ DOMAIN change : Rank(new.value, i) = Rank(old.value, i)
<1> DEFINE v == NewValue(old, in, localCAS)
           ch == Change(old, in, localCAS)
           change == Expire(ch)
           value == IF ch = NewDesc THEN old.value ELSE Expire(v)
           new == MergeResult(old, in, localCAS)
<1>1. /\ v \in Descs /\ Good(v) /\ ch \in Descs /\ Good(ch)
      /\ DOMAIN ch \subseteq DOMAIN v
      /\ \A i \in DOMAIN ch : ch[i] = v[i]
      /\ \A i \in Instances : Rank(old.value, i) <= Rank(v, i)
      /\ \A i \in Instances \ DOMAIN ch : Rank(v, i) = Rank(old.value, i)
  BY NewValueFacts
<1>2. new = Stored(old, value, change)
  BY DEF MergeResult
<1> HIDE DEF v, ch, new
<1>3. change \in Descs /\ Good(change) /\ Expire(v) \in Descs /\ Good(Expire(v))
  BY <1>1, ExpireFacts
<1>4. value \in Descs /\ Good(value)
  BY <1>3
<1>5. LeftTimeout = 0 => change = ch /\ (ch # NewDesc => value = v)
  BY <1>1, ExpireFacts
<1>6. /\ old = [value |-> old.value, version |-> old.version]
      /\ [old EXCEPT !.value = value] = [value |-> value, version |-> old.version]
  OBVIOUS
<1>7. /\ new \in [value : Descs, version : Nat] /\ Good(new.value)
      /\ new.version = IF change = NewDesc THEN old.version ELSE old.version + 1
      /\ new.version = 0 => new.value = NewDesc
      /\ change # NewDesc => new.value = value
      /\ change = NewDesc => new.value = (IF old.version > 0 THEN value ELSE old.value)
  <2> HIDE DEF change, value
  <2> QED
    BY <1>2, <1>4, <1>6 DEF Stored
<1>8. ASSUME LeftTimeout = 0
      PROVE  /\ change = NewDesc => new = old
             /\ \A i \in DOMAIN change : i \in DOMAIN new.value /\ change[i] = new.value[i]
             /\ \A i \in Instances : Rank(old.value, i) <= Rank(new.value, i)
             /\ \A i \in Instances \ DOMAIN change : Rank(new.value, i) = Rank(old.value, i)
  <2>1. change = ch
    BY <1>5, <1>8
  <2>2. CASE ch = NewDesc
    <3>1. new.value = old.value /\ new.version = old.version
      BY <1>7, <2>1, <2>2
    <3>2. new = old
      BY <1>6, <1>7, <3>1
    <3>3. \A i : Rank(old.value, i) \in Nat
      BY RankFacts, DescsIsDesc
    <3> HIDE DEF change
    <3> QED
      BY <2>1, <2>2, <3>2, <3>3, EmptyDesc
  <2>3. CASE ch # NewDesc
    <3>1. new.value = v
      BY <1>5, <1>7, <1>8, <2>1, <2>3
    <3> HIDE DEF change
    <3> QED
      BY <1>1, <2>1, <2>3, <3>1
  <2> QED
    BY <2>2, <2>3
<1> HIDE DEF change, value
<1> QED
  BY <1>3, <1>7, <1>8 DEF change, ch, new

-----------------------------------------------------------------------------
(***************************************************************************)
(* Once mergeValueForKey has run the stores are good, and so is what is    *)
(* left to tell the others; versions only go up.                           *)
(***************************************************************************)
LEMMA MergeStep ==
  ASSUME IInv, NEW n \in Nodes, NEW in \in Descs, NEW localCAS \in BOOLEAN, NEW always \in BOOLEAN,
         Until(in, now), store[n].version = 0 => ~conflictingTokensExist(in),
         MergeValue(n, in, localCAS, always), now' = now
  PROVE  /\ store' \in [Nodes -> [value : Descs, version : Nat]] /\ GoodStore'
         /\ todo' \in SUBSET Task /\ GoodTodo'
         /\ \A m \in Nodes : store[m].version <= store'[m].version
<1> DEFINE old == store[n]
           change == Expire(Change(old, in, localCAS))
           new == MergeResult(old, in, localCAS)
<1>1. /\ store \in [Nodes -> [value : Descs, version : Nat]] /\ todo \in SUBSET Task
      /\ now \in Nat /\ old \in [value : Descs, version : Nat] /\ Good(old.value)
      /\ old.version = 0 => old.value = NewDesc
  BY DEF IInv, Types, GoodStore
<1>2. /\ new \in [value : Descs, version : Nat] /\ Good(new.value)
      /\ change \in Descs /\ Good(change)
      /\ new.version = IF change = NewDesc THEN old.version ELSE old.version + 1
      /\ new.version = 0 => new.value = NewDesc
  BY <1>1, MergeResultFacts
<1>3. store' = [store EXCEPT ![n] = new]
  BY DEF MergeValue, MergeResult
<1>4. todo' = todo \cup Tasks(n, change, old.version + 1, always)
  BY DEF MergeValue
<1> HIDE DEF new, change
<1>5. \A d : Good(d)' <=> Good(d)
  BY DEF Good, Until
<1>6. store' \in [Nodes -> [value : Descs, version : Nat]]
  BY <1>1, <1>2, <1>3
<1>7. \A m \in Nodes : store'[m] = IF m = n THEN new ELSE store[m]
  BY <1>1, <1>3
<1>8. \A m \in Nodes : store[m].version <= store'[m].version
  BY <1>1, <1>2, <1>7
<1>9. GoodStore'
  BY <1>2, <1>7 DEF GoodStore, Good, Until, IInv
<1>10. ASSUME NEW t \in todo'
       PROVE  t \in Task /\ Good(t.change) /\ t.change # NewDesc /\ t.version \in 1..store'[t.node].version
  <2>1. CASE t \in todo
    <3>1. t \in Task /\ Good(t.change) /\ t.change # NewDesc /\ t.version \in 1..store[t.node].version
      BY <1>1, <2>1 DEF IInv, GoodTodo
    <3>2. t.node \in Nodes
      BY <3>1 DEF Task
    <3> QED
      BY <1>1, <1>6, <1>8, <3>1, <3>2
  <2>2. CASE t \notin todo
    <3>1. t = [node |-> n, step |-> "notify", always |-> always,
               change |-> change, version |-> old.version + 1] /\ change # NewDesc
      BY <1>4, <2>2 DEF Tasks
    <3> QED
      BY <1>1, <1>2, <1>7, <3>1 DEF Task
  <2> QED
    BY <2>1, <2>2
<1>11. todo' \in SUBSET Task
  BY <1>10
<1>12. GoodTodo'
  BY <1>5, <1>10 DEF GoodTodo, Good, Until
<1> QED
  BY <1>6, <1>8, <1>9, <1>11, <1>12

(***************************************************************************)
(* What a CAS function returns: a descriptor without entries from the      *)
(* future, and without conflicts if it started from nothing.               *)
(***************************************************************************)
LEMMA OutputsFacts ==
  ASSUME NEW n \in Nodes, NEW d \in Descs, now \in Nat, Until(d, now), NEW out \in Outputs(n, d)
  PROVE  out \in Descs /\ Until(out, now) /\ (d = NewDesc => ~conflictingTokensExist(out))
<1>1. DOMAIN d \in SUBSET Instances /\ d \in [DOMAIN d -> Entry]
  BY DEF Descs
<1>2. ASSUME NEW i \in Instances, NEW st \in {"ACTIVE", "LEAVING"}, out = Heartbeat(d, i, st)
      PROVE  out \in Descs /\ Until(out, now) /\ (d = NewDesc => ~conflictingTokensExist(out))
  <2> DEFINE e == [state |-> st, ts |-> now,
                   tokens |-> IF i \in DOMAIN d THEN d[i].tokens ELSE OwnTokens[i]]
  <2>1. e \in Entry /\ e.ts = now
    BY <1>1, OwnTokensAssumption DEF Entry, InstanceStates
  <2>2. out = [j \in DOMAIN d \cup {i} |-> IF j # i THEN d[j] ELSE e]
    BY <1>2 DEF Heartbeat
  <2> HIDE DEF e
  <2>3. DOMAIN d \cup {i} \in SUBSET Instances /\ out \in [DOMAIN d \cup {i} -> Entry]
    BY <1>1, <2>1, <2>2
  <2>4. out \in Descs
    BY <2>3 DEF Descs
  <2>5. Until(out, now)
    BY <2>1, <2>2 DEF Until
  <2>6. d = NewDesc => ~conflictingTokensExist(out)
    BY <2>2, EmptyDesc DEF conflictingTokensExist
  <2> QED
    BY <2>4, <2>5, <2>6
<1>3. ASSUME NEW i \in DOMAIN d, out = Restricted(d, DOMAIN d \ {i})
      PROVE  out \in Descs /\ Until(out, now) /\ d # NewDesc
  <2>1. d # NewDesc
    BY <1>3, EmptyDesc
  <2>2. DOMAIN d \ {i} \in SUBSET DOMAIN d
    OBVIOUS
  <2>3. out \in Descs /\ DOMAIN out = DOMAIN d \ {i} /\ \A j \in DOMAIN d \ {i} : out[j] = d[j]
    BY <1>3, <2>2, RestrictedFacts
  <2> QED
    BY <2>1, <2>3 DEF Until
<1>4. \/ \E i \in Instances, st \in {"ACTIVE", "LEAVING"} : out = Heartbeat(d, i, st)
      \/ \E i \in DOMAIN d : out = Restricted(d, DOMAIN d \ {i})
  BY DEF Outputs
<1> QED
  BY <1>2, <1>3, <1>4

(***************************************************************************)
(* What a client sees of a store is a descriptor, and nothing if there is  *)
(* no value.                                                               *)
(***************************************************************************)
LEMMA VisibleFacts ==
  ASSUME IInv, NEW n \in Nodes
  PROVE  /\ Visible(n) \in Descs /\ Until(Visible(n), now)
         /\ store[n].version = 0 => Visible(n) = NewDesc
<1> DEFINE d == store[n].value
           S == {i \in DOMAIN d : d[i].state # "LEFT"}
<1>1. d \in Descs /\ Good(d) /\ (store[n].version = 0 => d = NewDesc)
  BY DEF IInv, Types, GoodStore
<1>2. Visible(n) = Restricted(d, S) /\ S \in SUBSET DOMAIN d
  BY DEF Visible, RemoveAllTombstones
<1>3. Visible(n) \in Descs /\ Good(Visible(n))
  <2> HIDE DEF d, S
  <2> QED
    BY <1>1, <1>2, RestrictedFacts
<1>4. d = NewDesc => Restricted(d, S) = NewDesc
  BY EmptyDesc DEF Restricted, NewDesc
<1> QED
  BY <1>1, <1>2, <1>3, <1>4 DEF Good

(***************************************************************************)
(* Steps of a CAS call that do not touch the store.                        *)
(***************************************************************************)
LEMMA CasStepsIInv ==
  ASSUME IInv, NEW n \in Nodes, NEW c \in Callers,
         Cas(n, c) \/ CasRead(n, c) \/ CasGivesUp(n, c) \/ CasMismatch(n, c) \/ CasWakes(n, c)
  PROVE  IInv'
<1>1. UNCHANGED <<now, life, store, todo, queue, net, watch>>
  BY DEF Cas, CasRead, CasGivesUp, CasMismatch, CasWakes
<1>2. cas \in [Nodes -> [Callers -> Call]] /\ cas[n][c] \in Call
  BY DEF IInv, Types
<1>3. NoCall \in Call /\ NoCall.pc # "merge"
  BY EmptyDesc, BoundsAssumption DEF NoCall, Call
<1>4. PICK k \in Call :
        /\ cas' = [cas EXCEPT ![n][c] = k]
        /\ k.pc = "merge" => /\ k.retries > 0 /\ k.ver <= store[n].version
                             /\ Until(k.out, now)
                             /\ k.ver = 0 => ~conflictingTokensExist(k.out)
  <2>1. CASE Cas(n, c)
    <3>1. [NoCall EXCEPT !.pc = "try", !.retries = MaxRetries] \in Call
      <4>1. MaxRetries \in 0..MaxRetries
        BY BoundsAssumption
      <4> QED
        BY <1>3, <4>1 DEF Call
    <3>2. [NoCall EXCEPT !.pc = "try", !.retries = MaxRetries].pc = "try"
      BY DEF NoCall
    <3> QED
      BY <2>1, <3>1, <3>2 DEF Cas
  <2>2. CASE CasRead(n, c)
    <3>1. PICK out \in Outputs(n, Visible(n)) :
            cas' = [cas EXCEPT ![n][c] = [@ EXCEPT !.pc = "merge", !.ver = store[n].version,
                                                   !.read = Visible(n), !.out = out]]
      BY <2>2 DEF CasRead
    <3> DEFINE k == [cas[n][c] EXCEPT !.pc = "merge", !.ver = store[n].version,
                                      !.read = Visible(n), !.out = out]
    <3>2. now \in Nat /\ store[n].version \in Nat
      BY DEF IInv, Types
    <3>3. /\ out \in Descs /\ Until(out, now)
          /\ store[n].version = 0 => ~conflictingTokensExist(out)
      BY <3>2, VisibleFacts, OutputsFacts
    <3> k \in Call
      BY <1>2, <3>2, <3>3, VisibleFacts DEF Call
    <3>5. k.ver = store[n].version /\ k.out = out /\ k.retries = cas[n][c].retries
      BY <1>2 DEF Call
    <3>6. cas[n][c].retries > 0
      BY <2>2 DEF CasRead
    <3>7. cas' = [cas EXCEPT ![n][c] = k]
      BY <1>2, <3>1
    <3> HIDE DEF k
    <3> WITNESS k \in Call
    <3> QED
      BY <3>2, <3>3, <3>5, <3>6, <3>7
  <2>3. CASE CasGivesUp(n, c)
    BY <1>3, <2>3 DEF CasGivesUp
  <2>4. CASE CasMismatch(n, c)
    <3> DEFINE k == [NoCall EXCEPT !.pc = "try", !.retries = cas[n][c].retries - 1]
    <3>1. cas[n][c].retries - 1 \in 0..MaxRetries
      BY <1>2, <2>4, BoundsAssumption DEF CasMismatch, IInv, GoodCas, Call
    <3>2. k \in Call /\ k.pc = "try"
      BY <1>3, <3>1 DEF Call
    <3>3. cas' = [cas EXCEPT ![n][c] = k]
      BY <2>4 DEF CasMismatch
    <3> HIDE DEF k
    <3> QED
      BY <3>2, <3>3
  <2>5. CASE CasWakes(n, c)
    <3> DEFINE k == [cas[n][c] EXCEPT !.pc = "try"]
    <3>1. k \in Call /\ k.pc = "try"
      BY <1>2 DEF Call
    <3>2. cas' = [cas EXCEPT ![n][c] = k]
      BY <1>2, <2>5 DEF CasWakes
    <3> HIDE DEF k
    <3> QED
      BY <3>1, <3>2
  <2> QED
    BY <2>1, <2>2, <2>3, <2>4, <2>5
<1>5. cas' \in [Nodes -> [Callers -> Call]]
  BY <1>2, <1>4
<1>6. \A m \in Nodes, x \in Callers : cas'[m][x] = IF m = n /\ x = c THEN k ELSE cas[m][x]
  BY <1>2, <1>4
<1>7. Types'
  BY <1>1, <1>5 DEF IInv, Types
<1>8. GoodCas'
  BY <1>1, <1>4, <1>6 DEF IInv, GoodCas, Until
<1> QED
  BY <1>1, <1>7, <1>8 DEF IInv, GoodStore, GoodNet, GoodTodo, GoodQueue, Good, Until

(***************************************************************************)
(* A merge, whoever runs it, leaves everything good as long as the calls   *)
(* that are under way stay as they are or come to an end.                  *)
(***************************************************************************)
LEMMA MergeIInv ==
  ASSUME IInv, NEW n \in Nodes, NEW in \in Descs, NEW localCAS \in BOOLEAN, NEW always \in BOOLEAN,
         Until(in, now), store[n].version = 0 => ~conflictingTokensExist(in),
         MergeValue(n, in, localCAS, always), UNCHANGED <<now, life, queue, net, watch>>,
         cas' \in [Nodes -> [Callers -> Call]],
         \A m \in Nodes, x \in Callers : cas'[m][x].pc = "merge" => cas'[m][x] = cas[m][x]
  PROVE  IInv'
<1>1. /\ store' \in [Nodes -> [value : Descs, version : Nat]] /\ GoodStore'
      /\ todo' \in SUBSET Task /\ GoodTodo'
      /\ \A m \in Nodes : store[m].version <= store'[m].version
  BY MergeStep
<1>2. Types'
  BY <1>1 DEF IInv, Types
<1>3. store \in [Nodes -> [value : Descs, version : Nat]]
  BY DEF IInv, Types
<1>4. GoodNet'
  BY DEF IInv, GoodNet, Good, Until
<1>5. GoodQueue'
  <2> SUFFICES ASSUME NEW m \in Nodes, NEW b \in queue[m]
               PROVE  Good(b.change) /\ b.change # NewDesc /\ b.version \in 1..store'[m].version
    BY DEF GoodQueue, Good, Until
  <2>1. Good(b.change) /\ b.change # NewDesc /\ b.version \in 1..store[m].version
    BY DEF IInv, GoodQueue
  <2> QED
    BY <1>1, <1>3, <2>1
<1>6. GoodCas'
  <2> SUFFICES ASSUME NEW m \in Nodes, NEW x \in Callers, cas'[m][x].pc = "merge"
               PROVE  /\ cas'[m][x].retries > 0 /\ cas'[m][x].ver <= store'[m].version
                      /\ Until(cas'[m][x].out, now)
                      /\ cas'[m][x].ver = 0 => ~conflictingTokensExist(cas'[m][x].out)
    BY DEF GoodCas, Until
  <2>1. cas'[m][x] = cas[m][x]
    OBVIOUS
  <2>2. cas[m][x].ver \in Nat
    BY DEF IInv, Types, Call
  <2> QED
    BY <1>1, <1>3, <2>1, <2>2 DEF IInv, GoodCas
<1> QED
  BY <1>1, <1>2, <1>4, <1>5, <1>6 DEF IInv

(***************************************************************************)
(* The merge of a CAS: what it merges comes from an empty store if its own *)
(* store is empty.                                                         *)
(***************************************************************************)
LEMMA CasMergeIInv ==
  ASSUME IInv, NEW n \in Nodes, NEW c \in Callers, CasMerge(n, c)
  PROVE  IInv'
<1> DEFINE k == cas[n][c]
           e == IF MergeIsChange(n, k.out, k.ver > 0) THEN NoCall
                ELSE [NoCall EXCEPT !.pc = "sleep", !.retries = k.retries - 1, !.at = now]
<1>1. /\ cas \in [Nodes -> [Callers -> Call]] /\ k \in Call
      /\ store[n].version \in Nat /\ now \in Nat
  BY DEF IInv, Types
<1>2. /\ k.retries > 0 /\ k.ver <= store[n].version /\ Until(k.out, now)
      /\ k.ver = 0 => ~conflictingTokensExist(k.out)
  BY DEF CasMerge, IInv, GoodCas
<1>3. k.ver \in Nat /\ k.out \in Descs /\ k.retries \in 0..MaxRetries
  BY <1>1 DEF Call
<1>4. store[n].version = 0 => ~conflictingTokensExist(k.out)
  BY <1>1, <1>2, <1>3
<1>5. e \in Call /\ e.pc # "merge"
  <2>1. k.retries - 1 \in 0..MaxRetries
    BY <1>2, <1>3, BoundsAssumption
  <2>2. NoCall \in Call
    BY EmptyDesc, BoundsAssumption DEF NoCall, Call
  <2>3. NoCall.pc = "idle"
    BY DEF NoCall
  <2> QED
    BY <1>1, <2>1, <2>2, <2>3 DEF Call
<1>6. cas' = [cas EXCEPT ![n][c] = e]
  BY DEF CasMerge
<1>7. MergeValue(n, k.out, k.ver > 0, FALSE) /\ UNCHANGED <<now, life, queue, net, watch>>
  BY DEF CasMerge
<1> HIDE DEF e
<1>8. cas' \in [Nodes -> [Callers -> Call]]
  BY <1>1, <1>5, <1>6
<1>9. \A m \in Nodes, x \in Callers : cas'[m][x].pc = "merge" => cas'[m][x] = cas[m][x]
  BY <1>1, <1>5, <1>6
<1>10. (k.ver > 0) \in BOOLEAN
  BY <1>3
<1> HIDE DEF k
<1> QED
  BY <1>2, <1>3, <1>4, <1>7, <1>8, <1>9, <1>10, MergeIInv

(***************************************************************************)
(* Messages and push/pull.                                                 *)
(***************************************************************************)
LEMMA NotifyMsgIInv ==
  ASSUME IInv, NEW n \in Nodes, NEW ch \in net, NotifyMsg(n, ch)
  PROVE  IInv'
<1>1. ch \in Descs /\ Until(ch, now) /\ ~conflictingTokensExist(ch)
  BY DEF IInv, Types, GoodNet, Good
<1>2. MergeValue(n, ch, FALSE, TRUE) /\ UNCHANGED <<now, life, queue, net, watch, cas>>
  BY DEF NotifyMsg
<1>3. cas \in [Nodes -> [Callers -> Call]]
  BY DEF IInv, Types
<1> QED
  BY <1>1, <1>2, <1>3, MergeIInv

\* Push/pull: the whole state of a peer, as it was when it was sent, is merged.
LEMMA MergeRemoteStateIInv ==
  ASSUME IInv, NEW n \in Nodes, NEW ch \in net, MergeRemoteState(n, ch)
  PROVE  IInv'
<1>1. ch \in Descs /\ Until(ch, now) /\ ~conflictingTokensExist(ch)
  BY DEF IInv, Types, GoodNet, Good
<1>2. MergeValue(n, ch, FALSE, TRUE) /\ UNCHANGED <<now, life, queue, net, watch, cas>>
  BY DEF MergeRemoteState
<1>3. cas \in [Nodes -> [Callers -> Call]]
  BY DEF IInv, Types
<1> QED
  BY <1>1, <1>2, <1>3, MergeIInv

(***************************************************************************)
(* Watchers are told, and a change is queued or sent.                      *)
(***************************************************************************)
LEMMA NotifyIInv ==
  ASSUME IInv, NEW t \in todo, Notify(t)
  PROVE  IInv'
<1> DEFINE u == [t EXCEPT !.step = "broadcast"]
<1>1. t \in Task /\ watch \in [Nodes -> Watch] /\ todo \in SUBSET Task
  BY DEF IInv, Types
<1>2. u \in Task /\ u.change = t.change /\ u.version = t.version /\ u.node = t.node
  BY <1>1 DEF Task
<1>3. todo' = (todo \ {t}) \cup {u} /\ UNCHANGED <<now, life, store, cas, queue, net>>
  BY DEF Notify
<1>4. watch' \in [Nodes -> Watch]
  <2>1. t.node \in Nodes /\ (t.node \in Watchers) \in BOOLEAN
    BY <1>1 DEF Task
  <2>2. PICK q \in BOOLEAN : watch' = [watch EXCEPT ![t.node].notified = q]
    BY <2>1 DEF Notify
  <2> QED
    BY <1>1, <2>1, <2>2 DEF Watch
<1> HIDE DEF u
<1>5. Types'
  BY <1>1, <1>2, <1>3, <1>4 DEF IInv, Types
<1>6. GoodTodo'
  BY <1>2, <1>3 DEF IInv, GoodTodo, Good, Until
<1> QED
  BY <1>3, <1>5, <1>6 DEF IInv, GoodStore, GoodNet, GoodQueue, GoodCas, Good, Until

\* queueBroadcast: a change is queued and may invalidate others.
LEMMA BroadcastIInv ==
  ASSUME IInv, NEW t \in todo, Broadcast(t)
  PROVE  IInv'
<1> DEFINE b == [change |-> t.change, version |-> t.version]
<1>1. t \in Task /\ queue \in [Nodes -> SUBSET Item] /\ todo \in SUBSET Task
  BY DEF IInv, Types
<1>2. t.node \in Nodes /\ b \in Item
  BY <1>1 DEF Task, Item
<1>3. todo' = todo \ {t} /\ UNCHANGED <<now, life, store, cas, net, watch>>
  BY DEF Broadcast
<1>4. /\ queue' \in [Nodes -> SUBSET Item]
      /\ \A n \in Nodes : \A o \in queue'[n] : o \in queue[n] \/ (n = t.node /\ o = b)
  BY <1>1, <1>2 DEF Broadcast
<1>5. Good(b.change) /\ b.change # NewDesc /\ b.version \in 1..store[t.node].version
  BY DEF IInv, GoodTodo
<1> HIDE DEF b
<1>6. Types'
  BY <1>3, <1>4 DEF IInv, Types
<1>7. GoodQueue'
  BY <1>3, <1>4, <1>5 DEF IInv, GoodQueue, Good, Until
<1> QED
  BY <1>3, <1>6, <1>7 DEF IInv, GoodStore, GoodNet, GoodTodo, GoodCas, Good, Until

\* A queued broadcast is sent.
LEMMA GossipIInv ==
  ASSUME IInv, NEW n \in Nodes, NEW b \in queue[n], Gossip(n, b)
  PROVE  IInv'
<1>1. /\ net' = net \cup {b.change} /\ queue' = [queue EXCEPT ![n] = @ \ {b}]
      /\ UNCHANGED <<now, life, store, cas, todo, watch>>
  BY DEF Gossip
<1>2. b \in Item /\ Good(b.change) /\ b.change # NewDesc
  BY DEF IInv, Types, GoodQueue
<1>3. Types'
  BY <1>1, <1>2 DEF IInv, Types, Item
<1>4. GoodQueue' /\ GoodNet'
  BY <1>1, <1>2 DEF IInv, Types, GoodQueue, GoodNet, Good, Until
<1> QED
  BY <1>1, <1>3, <1>4 DEF IInv, GoodStore, GoodTodo, GoodCas, Good, Until

\* A node sends its whole state.
LEMMA LocalStateIInv ==
  ASSUME IInv, NEW n \in Nodes, LocalState(n)
  PROVE  IInv'
<1>1. /\ net' = net \cup {store[n].value}
      /\ UNCHANGED <<now, life, store, cas, todo, queue, watch>>
  BY DEF LocalState
<1>2. store[n].value \in Descs /\ Good(store[n].value) /\ store[n].value # NewDesc
  BY DEF LocalState, IInv, Types, GoodStore
<1>3. Types'
  BY <1>1, <1>2 DEF IInv, Types
<1>4. GoodNet'
  BY <1>1, <1>2 DEF IInv, GoodNet, Good, Until
<1> QED
  BY <1>1, <1>3, <1>4 DEF IInv, GoodStore, GoodTodo, GoodQueue, GoodCas, Good, Until

(***************************************************************************)
(* The clock, the watchers, and the life of a node.                        *)
(***************************************************************************)
LEMMA TickIInv ==
  ASSUME IInv, Tick
  PROVE  IInv'
<1>1. now \in 1..MaxTime /\ now' = now + 1 /\ now' \in 1..MaxTime
  BY BoundsAssumption DEF Tick, IInv, Types
<1>2. UNCHANGED <<life, store, cas, todo, queue, net, watch>>
  BY DEF Tick
<1>3. ASSUME NEW d \in Descs, Until(d, now)
      PROVE  Until(d, now')
  <2>1. \A i \in DOMAIN d : d[i].ts \in Nat
    BY DEF Descs, Entry
  <2> QED
    BY <1>1, <1>3, <2>1 DEF Until
<1>4. Types'
  BY <1>1, <1>2 DEF IInv, Types
<1>5. GoodStore' /\ GoodNet'
  BY <1>2, <1>3 DEF IInv, Types, GoodStore, GoodNet, Good
<1>6. GoodTodo'
  BY <1>2, <1>3 DEF IInv, Types, Task, GoodTodo, Good
<1>7. GoodQueue'
  BY <1>2, <1>3 DEF IInv, Types, Item, GoodQueue, Good
<1>8. GoodCas'
  BY <1>2, <1>3 DEF IInv, Types, Call, GoodCas
<1> QED
  BY <1>4, <1>5, <1>6, <1>7, <1>8 DEF IInv

\* The three steps of a watcher.
LEMMA WatchIInv ==
  ASSUME IInv, NEW n \in Nodes, WatchTakes(n) \/ WatchReads(n) \/ WatchReturns(n)
  PROVE  IInv'
<1>1. UNCHANGED <<now, life, store, cas, todo, queue, net>>
  BY DEF WatchTakes, WatchReads, WatchReturns
<1>2. watch \in [Nodes -> Watch] /\ Visible(n) \in Descs
  BY VisibleFacts DEF IInv, Types
<1>3. watch' \in [Nodes -> Watch]
  BY <1>2 DEF WatchTakes, WatchReads, WatchReturns, Watch
<1>4. Types'
  BY <1>1, <1>3 DEF IInv, Types
<1> QED
  BY <1>1, <1>4 DEF IInv, GoodStore, GoodNet, GoodTodo, GoodQueue, GoodCas, Good, Until

\* A node that goes down starts again from nothing.
LEMMA DownIInv ==
  ASSUME IInv, NEW n \in Nodes, Down(n), UNCHANGED <<now, net>>
  PROVE  IInv'
<1>1. NoStore \in [value : Descs, version : Nat] /\ NoStore.value = NewDesc
  BY EmptyDesc DEF NoStore
<1>2. [c \in Callers |-> NoCall] \in [Callers -> Call]
  BY EmptyDesc, BoundsAssumption DEF NoCall, Call
<1>3. NoWatch \in Watch
  BY EmptyDesc DEF NoWatch, Watch
<1>4. Types'
  BY <1>1, <1>2, <1>3 DEF Down, IInv, Types
<1>5. \A m \in Nodes : store'[m] = IF m = n THEN NoStore ELSE store[m]
  BY DEF Down, IInv, Types
<1>6. GoodStore'
  <2>1. \A m \in Nodes : store'[m].value = NewDesc \/ store'[m] = store[m]
    BY <1>1, <1>5
  <2> QED
    BY <2>1, EmptyDesc DEF IInv, GoodStore, Good, Until
<1>7. GoodNet'
  BY DEF IInv, GoodNet, Good, Until
<1>8. GoodTodo'
  <2> SUFFICES ASSUME NEW t \in todo'
               PROVE  Good(t.change) /\ t.change # NewDesc /\ t.version \in 1..store'[t.node].version
    BY DEF GoodTodo, Good, Until
  <2>1. t \in todo /\ t.node # n /\ t.node \in Nodes
    BY DEF Down, IInv, Types, Task
  <2> QED
    BY <1>5, <2>1 DEF IInv, GoodTodo
<1>9. GoodQueue'
  BY <1>5 DEF Down, IInv, Types, GoodQueue, Good, Until
<1>10. GoodCas'
  <2> SUFFICES ASSUME NEW m \in Nodes, NEW x \in Callers, cas'[m][x].pc = "merge"
               PROVE  /\ cas'[m][x].retries > 0 /\ cas'[m][x].ver <= store'[m].version
                      /\ Until(cas'[m][x].out, now)
                      /\ cas'[m][x].ver = 0 => ~conflictingTokensExist(cas'[m][x].out)
    BY DEF GoodCas, Until
  <2>1. m # n /\ cas'[m] = cas[m]
    BY DEF Down, IInv, Types, NoCall
  <2> QED
    BY <1>5, <2>1 DEF IInv, GoodCas
<1> QED
  BY <1>4, <1>6, <1>7, <1>8, <1>9, <1>10 DEF IInv

\* Stopping, shutting down, crashing and restarting.
LEMMA LifeIInv ==
  ASSUME IInv, NEW n \in Nodes, Stop(n) \/ Shutdown(n) \/ Crash(n) \/ Restart(n)
  PROVE  IInv'
<1>1. CASE Stop(n) \/ Restart(n)
  <2>1. UNCHANGED <<now, store, cas, todo, queue, net, watch>>
    BY <1>1 DEF Stop, Restart
  <2>2. Types'
    BY <1>1, <2>1 DEF Stop, Restart, IInv, Types
  <2> QED
    BY <2>1, <2>2 DEF IInv, GoodStore, GoodNet, GoodTodo, GoodQueue, GoodCas, Good, Until
<1>2. CASE Shutdown(n) \/ Crash(n)
  BY <1>2, DownIInv DEF Shutdown, Crash
<1> QED
  BY <1>1, <1>2

-----------------------------------------------------------------------------
LEMMA InitIInv == Init => IInv
<1> SUFFICES ASSUME Init PROVE IInv
  OBVIOUS
<1>1. NoStore \in [value : Descs, version : Nat] /\ NoStore.value = NewDesc
  BY EmptyDesc DEF NoStore
<1>2. NoCall \in Call /\ NoCall.pc = "idle" /\ NoWatch \in Watch
  BY EmptyDesc, BoundsAssumption DEF NoCall, Call, NoWatch, Watch
<1>3. Types
  BY <1>1, <1>2, BoundsAssumption DEF Init, Types
<1>4. GoodStore /\ GoodCas
  BY <1>1, <1>2, EmptyDesc DEF Init, GoodStore, GoodCas
<1> QED
  BY <1>3, <1>4 DEF Init, IInv, GoodNet, GoodTodo, GoodQueue

\* Every step of the cluster keeps the invariant.
LEMMA NextIInv == IInv /\ [Next]_vars => IInv'
<1> SUFFICES ASSUME IInv, [Next]_vars PROVE IInv'
  OBVIOUS
<1>1. CASE Tick
  BY <1>1, TickIInv
<1>2. ASSUME NEW n \in Nodes, NEW c \in Callers,
             \/ Cas(n, c) \/ CasRead(n, c) \/ CasGivesUp(n, c)
             \/ CasMismatch(n, c) \/ CasMerge(n, c) \/ CasWakes(n, c)
      PROVE  IInv'
  BY <1>2, CasStepsIInv, CasMergeIInv
<1>3. ASSUME NEW n \in Nodes, NEW b \in queue[n], Gossip(n, b)
      PROVE  IInv'
  BY <1>3, GossipIInv
<1>4. ASSUME NEW n \in Nodes, NEW ch \in net, NotifyMsg(n, ch)
      PROVE  IInv'
  BY <1>4, NotifyMsgIInv
<1>5. ASSUME NEW n \in Nodes, NEW ch \in net, MergeRemoteState(n, ch)
      PROVE  IInv'
  BY <1>5, MergeRemoteStateIInv
<1>6. ASSUME NEW n \in Nodes, WatchTakes(n) \/ WatchReads(n) \/ WatchReturns(n)
      PROVE  IInv'
  BY <1>6, WatchIInv
<1>7. ASSUME NEW n \in Nodes, Stop(n) \/ Shutdown(n) \/ Crash(n) \/ Restart(n)
      PROVE  IInv'
  BY <1>7, LifeIInv
<1>8. ASSUME NEW t \in todo, Notify(t) \/ Broadcast(t)
      PROVE  IInv'
  BY <1>8, NotifyIInv, BroadcastIInv
<1>9. CASE UNCHANGED vars
  BY <1>9 DEF vars, IInv, Types, GoodStore, GoodNet, GoodTodo, GoodQueue, GoodCas, Good, Until
<1>10. ASSUME NEW n \in Nodes, LocalState(n)
       PROVE  IInv'
  BY <1>10, LocalStateIInv
<1> QED
  BY <1>1, <1>2, <1>3, <1>4, <1>5, <1>6, <1>7, <1>8, <1>9, <1>10 DEF Next

\* So it holds throughout.
LEMMA IInvHolds == Spec => []IInv
BY InitIInv, NextIInv, PTL DEF Spec

(***************************************************************************)
(* Type correctness: what a node stores, has read, queues and sends are    *)
(* descriptors, and no task is ahead of the version of its store.          *)
(***************************************************************************)
THEOREM TypeCorrect == Spec => []TypeOK
<1>1. IInv => TypeOK
  <2> SUFFICES ASSUME IInv PROVE TypeOK
    OBVIOUS
  <2>1. \A n \in Nodes : IsDesc(store[n].value) /\ store[n].version \in Nat
    BY DescsIsDesc DEF IInv, Types
  <2>2. \A n \in Nodes, c \in Callers :
          /\ cas[n][c].pc \in {"idle", "try", "merge", "sleep"}
          /\ cas[n][c].retries \in 0..MaxRetries
          /\ IsDesc(cas[n][c].out)
    BY DescsIsDesc DEF IInv, Types, Call
  <2>3. \A ch \in net : IsDesc(ch) /\ ch # NewDesc
    BY DescsIsDesc DEF IInv, Types, GoodNet
  <2>4. \A t \in todo : IsDesc(t.change) /\ t.change # NewDesc /\ t.version \in 1..store[t.node].version
    BY DescsIsDesc DEF IInv, Types, Task, GoodTodo
  <2>5. \A n \in Nodes : watch[n].pc \in {"waiting", "reading", "calling"} /\ watch[n].notified \in BOOLEAN
    BY DEF IInv, Types, Watch
  <2> QED
    BY <2>1, <2>2, <2>3, <2>4, <2>5 DEF TypeOK, IInv, Types
<1> QED
  BY <1>1, IInvHolds, PTL

(***************************************************************************)
(* No two instances in a node's store own the same token, also if the      *)
(* store was empty and took over a message as it was, and whether or not   *)
(* tombstones expire.                                                      *)
(***************************************************************************)
THEOREM OneOwner == Spec => []TokensHaveOneOwner
<1>1. IInv => TokensHaveOneOwner
  BY DEF IInv, GoodStore, Good, TokensHaveOneOwner
<1> QED
  BY <1>1, IInvHolds, PTL

-----------------------------------------------------------------------------
(***************************************************************************)
(* From here on tombstones do not expire (LeftTimeout = 0).                *)
(*                                                                         *)
(* What a merge on n that reports this change does to the stores and to    *)
(* the work that is left.                                                  *)
(***************************************************************************)
MergeEffect(n, change, always) ==
  /\ \A m \in Nodes \ {n} : store'[m] = store[m]
  /\ store'[n].version = IF change = NewDesc THEN store[n].version ELSE store[n].version + 1
  /\ change = NewDesc => store'[n] = store[n]
  /\ todo' = todo \cup Tasks(n, change, store[n].version + 1, always)
  /\ \A i \in DOMAIN change : i \in DOMAIN store'[n].value /\ change[i] = store'[n].value[i]
  /\ \A i \in Instances : Rank(store[n].value, i) <= Rank(store'[n].value, i)
  /\ \A i \in Instances \ DOMAIN change : Rank(store'[n].value, i) = Rank(store[n].value, i)

\* A merge either leaves the store as it is or stores a newer value under the next version and owes its change to watchers and peers.
LEMMA MergeHasEffect ==
  ASSUME LeftTimeout = 0, IInv, NEW n \in Nodes, NEW in \in Descs, NEW localCAS \in BOOLEAN,
         NEW always \in BOOLEAN, Until(in, now),
         store[n].version = 0 => ~conflictingTokensExist(in),
         MergeValue(n, in, localCAS, always)
  PROVE  \E change \in Descs : MergeEffect(n, change, always)
<1> DEFINE old == store[n]
           change == Expire(Change(old, in, localCAS))
           new == MergeResult(old, in, localCAS)
<1>1. /\ store \in [Nodes -> [value : Descs, version : Nat]]
      /\ now \in Nat /\ old \in [value : Descs, version : Nat] /\ Good(old.value)
      /\ old.version = 0 => old.value = NewDesc
  BY DEF IInv, Types, GoodStore
<1>2. /\ new \in [value : Descs, version : Nat] /\ change \in Descs
      /\ new.version = IF change = NewDesc THEN old.version ELSE old.version + 1
      /\ change = NewDesc => new = old
      /\ \A i \in DOMAIN change : i \in DOMAIN new.value /\ change[i] = new.value[i]
      /\ \A i \in Instances : Rank(old.value, i) <= Rank(new.value, i)
      /\ \A i \in Instances \ DOMAIN change : Rank(new.value, i) = Rank(old.value, i)
  BY <1>1, MergeResultFacts
<1>3. store' = [store EXCEPT ![n] = new]
  BY DEF MergeValue, MergeResult
<1>4. todo' = todo \cup Tasks(n, change, old.version + 1, always)
  BY DEF MergeValue
<1> HIDE DEF new, change
<1>5. store'[n] = new /\ \A m \in Nodes \ {n} : store'[m] = store[m]
  BY <1>1, <1>3
<1>6. MergeEffect(n, change, always)
  BY <1>2, <1>4, <1>5 DEF MergeEffect
<1> QED
  BY <1>2, <1>6

(***************************************************************************)
(* The steps that merge, and what they leave alone.                        *)
(***************************************************************************)
Merges(n) ==
  \/ \E c \in Callers : CasMerge(n, c)
  \/ \E ch \in net : NotifyMsg(n, ch) \/ MergeRemoteState(n, ch)

\* The same of every action that merges, and what else such an action does.
LEMMA MergesHaveEffect ==
  ASSUME LeftTimeout = 0, IInv, NEW n \in Nodes, Merges(n)
  PROVE  /\ \E change \in Descs, always \in BOOLEAN : MergeEffect(n, change, always)
         /\ UNCHANGED <<now, life, queue, net, watch>>
         /\ \A m \in Nodes, x \in Callers : cas'[m][x].pc = "merge" => cas'[m][x] = cas[m][x]
         /\ \A m \in Nodes \ {n} : cas'[m] = cas[m]
         /\ life[n] # "Down" \/ \E c \in Callers : cas[n][c].pc = "merge"
<1>1. ASSUME NEW c \in Callers, CasMerge(n, c)
      PROVE  /\ \E change \in Descs : MergeEffect(n, change, FALSE)
             /\ UNCHANGED <<now, life, queue, net, watch>>
             /\ \A m \in Nodes, x \in Callers : cas'[m][x].pc = "merge" => cas'[m][x] = cas[m][x]
             /\ \A m \in Nodes \ {n} : cas'[m] = cas[m]
             /\ cas[n][c].pc = "merge"
  <2> DEFINE k == cas[n][c]
             e == IF MergeIsChange(n, k.out, k.ver > 0) THEN NoCall
                  ELSE [NoCall EXCEPT !.pc = "sleep", !.retries = k.retries - 1, !.at = now]
  <2>1. /\ cas \in [Nodes -> [Callers -> Call]] /\ k \in Call /\ store[n].version \in Nat
    BY DEF IInv, Types
  <2>2. /\ k.ver <= store[n].version /\ Until(k.out, now)
        /\ k.ver = 0 => ~conflictingTokensExist(k.out)
    BY <1>1 DEF CasMerge, IInv, GoodCas
  <2>3. k.ver \in Nat /\ k.out \in Descs /\ (k.ver > 0) \in BOOLEAN
    BY <2>1 DEF Call
  <2>4. store[n].version = 0 => ~conflictingTokensExist(k.out)
    BY <2>1, <2>2, <2>3
  <2>5. /\ MergeValue(n, k.out, k.ver > 0, FALSE) /\ UNCHANGED <<now, life, queue, net, watch>>
        /\ cas' = [cas EXCEPT ![n][c] = e] /\ k.pc = "merge"
    BY <1>1 DEF CasMerge
  <2>6. e.pc # "merge"
    BY DEF NoCall
  <2> HIDE DEF e
  <2>7. /\ \A m \in Nodes, x \in Callers : cas'[m][x].pc = "merge" => cas'[m][x] = cas[m][x]
        /\ \A m \in Nodes \ {n} : cas'[m] = cas[m]
    BY <2>1, <2>5, <2>6
  <2> HIDE DEF k
  <2>8. \E change \in Descs : MergeEffect(n, change, FALSE)
    BY <2>2, <2>3, <2>4, <2>5, MergeHasEffect
  <2> QED
    BY <2>5, <2>7, <2>8 DEF k
<1>2. ASSUME NEW ch \in net, NotifyMsg(n, ch)
      PROVE  /\ \E change \in Descs : MergeEffect(n, change, TRUE)
             /\ UNCHANGED <<now, life, queue, net, watch, cas>> /\ life[n] # "Down"
  <2>1. ch \in Descs /\ Until(ch, now) /\ ~conflictingTokensExist(ch)
    BY DEF IInv, Types, GoodNet, Good
  <2>2. MergeValue(n, ch, FALSE, TRUE) /\ UNCHANGED <<now, life, queue, net, watch, cas>> /\ Up(n)
    BY <1>2 DEF NotifyMsg
  <2> QED
    BY <2>1, <2>2, MergeHasEffect DEF Up
<1>3. ASSUME NEW ch \in net, MergeRemoteState(n, ch)
      PROVE  /\ \E change \in Descs : MergeEffect(n, change, TRUE)
             /\ UNCHANGED <<now, life, queue, net, watch, cas>> /\ life[n] # "Down"
  <2>1. ch \in Descs /\ Until(ch, now) /\ ~conflictingTokensExist(ch)
    BY DEF IInv, Types, GoodNet, Good
  <2>2. MergeValue(n, ch, FALSE, TRUE) /\ UNCHANGED <<now, life, queue, net, watch, cas>> /\ Up(n)
    BY <1>3 DEF MergeRemoteState
  <2> QED
    BY <2>1, <2>2, MergeHasEffect DEF Up
<1> QED
  BY <1>1, <1>2, <1>3 DEF Merges

(***************************************************************************)
(* A step merges on a node, takes a node down, or leaves the stores alone. *)
(***************************************************************************)
Quiet ==
  \/ Tick
  \/ \E n \in Nodes :
       \/ \E c \in Callers : \/ Cas(n, c) \/ CasRead(n, c) \/ CasGivesUp(n, c)
                             \/ CasMismatch(n, c) \/ CasWakes(n, c)
       \/ \E b \in queue[n] : Gossip(n, b)
       \/ LocalState(n)
       \/ WatchTakes(n) \/ WatchReads(n) \/ WatchReturns(n)
       \/ Stop(n) \/ Restart(n)
  \/ \E t \in todo : Notify(t) \/ Broadcast(t)

GoesDown(n) == Down(n) /\ UNCHANGED <<now, net>>

\* A step merges at one node, takes one down, or leaves the stores alone.
LEMMA StepKinds ==
  ASSUME [Next]_vars
  PROVE  \/ UNCHANGED vars
         \/ Quiet /\ UNCHANGED store
         \/ \E n \in Nodes : Merges(n) \/ GoesDown(n)
<1>1. Quiet => UNCHANGED store
  BY DEF Quiet, Tick, Cas, CasRead, CasGivesUp, CasMismatch, CasWakes, Gossip, LocalState,
         WatchTakes, WatchReads, WatchReturns, Stop, Restart, Notify, Broadcast
<1>2. \A n \in Nodes : Shutdown(n) \/ Crash(n) => GoesDown(n)
  BY DEF Shutdown, Crash, GoesDown
<1> QED
  BY <1>1, <1>2 DEF Next, Quiet, Merges

(***************************************************************************)
(* Whoever merges what into it and when, and whatever its CAS callers had  *)
(* read before: as long as a node is up and tombstones do not expire, its  *)
(* store never goes back to an older entry.                                *)
(***************************************************************************)
THEOREM GoesForward ==
  ASSUME LeftTimeout = 0
  PROVE  Spec => StoreNeverGoesBack
<1>1. ASSUME IInv, [Next]_vars, NEW n \in Nodes, NEW i \in Instances, life'[n] # "Down"
      PROVE  Rank(store[n].value, i) <= Rank(store'[n].value, i)
  <2>1. Rank(store[n].value, i) \in Nat
    BY <1>1, DescsIsDesc, RankFacts DEF IInv, Types
  <2>2. ASSUME NEW m \in Nodes, Merges(m)
        PROVE  Rank(store[n].value, i) <= Rank(store'[n].value, i)
    <3>1. PICK change \in Descs, always \in BOOLEAN : MergeEffect(m, change, always)
      BY <1>1, <2>2, MergesHaveEffect
    <3>2. CASE n = m
      BY <3>1, <3>2 DEF MergeEffect
    <3>3. CASE n # m
      BY <2>1, <3>1, <3>3 DEF MergeEffect
    <3> QED
      BY <3>2, <3>3
  <2>3. ASSUME NEW m \in Nodes, GoesDown(m)
        PROVE  store'[n] = store[n]
    BY <1>1, <2>3 DEF GoesDown, Down, IInv, Types
  <2>4. CASE UNCHANGED store
    BY <2>1, <2>4
  <2> QED
    BY <1>1, <2>1, <2>2, <2>3, <2>4, StepKinds DEF vars
<1>2. IInv /\ [Next]_vars =>
        [\A n \in Nodes, i \in Instances :
           life'[n] # "Down" => Rank(store[n].value, i) <= Rank(store'[n].value, i)]_vars
  BY <1>1
<1> QED
  BY <1>2, IInvHolds, PTL DEF Spec, StoreNeverGoesBack

-----------------------------------------------------------------------------
(***************************************************************************)
(* A CAS whose version still is that of the store has read what is there:  *)
(* every change of the value comes with a new version.                     *)
(***************************************************************************)
CasInv ==
  \A n \in Nodes, c \in Callers :
    cas[n][c].pc = "merge" /\ cas[n][c].ver > 0 /\ cas[n][c].ver = store[n].version =>
      cas[n][c].read = Visible(n)

\* While a version stays so does its value, hence what a call has read under it.
LEMMA CasInvStep ==
  ASSUME LeftTimeout = 0, IInv, CasInv, [Next]_vars
  PROVE  CasInv'
<1>1. SUFFICES ASSUME NEW n \in Nodes, NEW c \in Callers,
                      cas'[n][c].pc = "merge", cas'[n][c].ver > 0, cas'[n][c].ver = store'[n].version
               PROVE  cas'[n][c].read = RemoveAllTombstones(store'[n].value)
  BY DEF CasInv, Visible
<1>2. /\ cas \in [Nodes -> [Callers -> Call]] /\ store[n].version \in Nat
      /\ cas[n][c].pc = "merge" => cas[n][c].ver <= store[n].version /\ cas[n][c].ver \in Nat
  BY DEF IInv, Types, GoodCas, Call
<1>3. cas'[n][c] = cas[n][c] /\ store'[n] = store[n] => cas'[n][c].read = RemoveAllTombstones(store'[n].value)
  BY <1>1 DEF CasInv, Visible
<1>4. CASE UNCHANGED vars
  BY <1>3, <1>4 DEF vars
<1>5. ASSUME NEW m \in Nodes, Merges(m)
      PROVE  cas'[n][c].read = RemoveAllTombstones(store'[n].value)
  <2>1. cas'[n][c] = cas[n][c]
    BY <1>1, <1>5, MergesHaveEffect
  <2>2. PICK change \in Descs, always \in BOOLEAN : MergeEffect(m, change, always)
    BY <1>5, MergesHaveEffect
  <2>3. store'[n] = store[n]
    BY <1>1, <1>2, <2>1, <2>2 DEF MergeEffect
  <2> QED
    BY <1>3, <2>1, <2>3
<1>6. ASSUME NEW m \in Nodes, GoesDown(m)
      PROVE  cas'[n][c].read = RemoveAllTombstones(store'[n].value)
  <2>1. n # m
    BY <1>1, <1>2, <1>6 DEF GoesDown, Down, NoCall
  <2> QED
    BY <1>2, <1>3, <1>6, <2>1 DEF GoesDown, Down, IInv, Types
<1>7. CASE Quiet /\ UNCHANGED store
  <2>1. CASE \E m \in Nodes, x \in Callers : CasRead(m, x)
    <3>1. PICK m \in Nodes, x \in Callers : CasRead(m, x)
      BY <2>1
    <3>2. CASE n = m /\ c = x
      <4>1. PICK out \in Outputs(n, Visible(n)) :
              cas' = [cas EXCEPT ![n][c] = [@ EXCEPT !.pc = "merge", !.ver = store[n].version,
                                                     !.read = Visible(n), !.out = out]]
        BY <3>1, <3>2 DEF CasRead
      <4>2. cas'[n][c].read = Visible(n)
        BY <1>2, <4>1 DEF Call
      <4> QED
        BY <1>7, <4>2 DEF Visible
    <3>3. CASE ~(n = m /\ c = x)
      <4>1. cas'[n][c] = cas[n][c]
        BY <1>2, <3>1, <3>3 DEF CasRead
      <4> QED
        BY <1>3, <1>7, <4>1
    <3> QED
      BY <3>2, <3>3
  <2>2. CASE ~\E m \in Nodes, x \in Callers : CasRead(m, x)
    <3>1. \/ cas' = cas
          \/ \E m \in Nodes, x \in Callers :
               Cas(m, x) \/ CasGivesUp(m, x) \/ CasMismatch(m, x) \/ CasWakes(m, x)
      BY <1>7, <2>2 DEF Quiet, Tick, Gossip, LocalState, WatchTakes, WatchReads, WatchReturns,
                        Stop, Restart, Notify, Broadcast
    <3>2. ASSUME NEW m \in Nodes, NEW x \in Callers,
                 Cas(m, x) \/ CasGivesUp(m, x) \/ CasMismatch(m, x) \/ CasWakes(m, x)
          PROVE  cas'[n][c] = cas[n][c]
      <4>1. \E k : cas' = [cas EXCEPT ![m][x] = k] /\ k.pc # "merge"
        <5>1. cas[m][x] \in Call
          BY <1>2
        <5>2. CASE Cas(m, x)
          <6>1. [NoCall EXCEPT !.pc = "try", !.retries = MaxRetries].pc # "merge"
            BY DEF NoCall
          <6> QED
            BY <5>2, <6>1 DEF Cas
        <5>3. CASE CasGivesUp(m, x)
          <6>1. NoCall.pc # "merge"
            BY DEF NoCall
          <6> QED
            BY <5>3, <6>1 DEF CasGivesUp
        <5>4. CASE CasMismatch(m, x)
          <6>1. [NoCall EXCEPT !.pc = "try", !.retries = cas[m][x].retries - 1].pc # "merge"
            BY DEF NoCall
          <6> QED
            BY <5>4, <6>1 DEF CasMismatch
        <5>5. CASE CasWakes(m, x)
          <6>1. [cas[m][x] EXCEPT !.pc = "try"].pc = "try"
            BY <5>1 DEF Call
          <6> QED
            BY <1>2, <5>5, <6>1 DEF CasWakes
        <5> QED
          BY <3>2, <5>2, <5>3, <5>4, <5>5
      <4> QED
        BY <1>1, <1>2, <4>1
    <3> QED
      BY <1>3, <1>7, <3>1, <3>2
  <2> QED
    BY <2>1, <2>2
<1> QED
  BY <1>4, <1>5, <1>6, <1>7, StepKinds

(***************************************************************************)
(* "We will only allow CAS operation to succeed if version hasn't          *)
(* changed, i.e. state hasn't changed since running 'f'": when tombstones  *)
(* do not expire, the check of the version is one of the value.            *)
(***************************************************************************)
THEOREM CasIsCurrent ==
  ASSUME LeftTimeout = 0
  PROVE  Spec => []CasSeesCurrentValue
<1>1. Init => CasInv
  BY DEF Init, CasInv, NoCall
<1>2. IInv /\ CasInv /\ [Next]_vars => CasInv'
  BY CasInvStep
<1>3. IInv /\ CasInv => CasSeesCurrentValue
  BY DEF CasInv, CasSeesCurrentValue, VersionMismatch
<1> QED
  BY <1>1, <1>2, <1>3, IInvHolds, PTL DEF Spec


-----------------------------------------------------------------------------
(***************************************************************************)
(* A loop that is not about to read, with no notification waiting and none *)
(* on its way, has read what is in the store.                              *)
(***************************************************************************)
Told(n) ==
  /\ watch[n].pc \in {"waiting", "calling"} /\ ~watch[n].notified
  /\ \A t \in todo : t.node = n => t.step # "notify"

WatchInv == \A n \in Watchers : Told(n) => watch[n].seen = Visible(n)

(***************************************************************************)
(* A merge that changes the value leaves a notification to be delivered,   *)
(* and the channel of one element keeps it until the loop has taken it.    *)
(***************************************************************************)
LEMMA WatchInvStep ==
  ASSUME LeftTimeout = 0, IInv, WatchInv, [Next]_vars
  PROVE  WatchInv'
<1>1. SUFFICES ASSUME NEW n \in Watchers, Told(n)'
               PROVE  watch'[n].seen = RemoveAllTombstones(store'[n].value)
  BY DEF WatchInv, Visible
<1>2. /\ n \in Nodes /\ watch \in [Nodes -> Watch] /\ watch[n] \in Watch
      /\ watch[n].pc \in {"waiting", "reading", "calling"}
      /\ store \in [Nodes -> [value : Descs, version : Nat]]
  BY WatchersAssumption DEF IInv, Types, Watch
<1>3. Told(n) /\ watch'[n].seen = watch[n].seen /\ store'[n] = store[n] =>
        watch'[n].seen = RemoveAllTombstones(store'[n].value)
  BY <1>1 DEF WatchInv, Visible
<1>4. CASE UNCHANGED vars
  BY <1>1, <1>3, <1>4 DEF vars, Told
<1>5. ASSUME NEW m \in Nodes, Merges(m)
      PROVE  watch'[n].seen = RemoveAllTombstones(store'[n].value)
  <2>1. PICK change \in Descs, always \in BOOLEAN : MergeEffect(m, change, always)
    BY <1>5, MergesHaveEffect
  <2>2. watch' = watch /\ todo' = todo \cup Tasks(m, change, store[m].version + 1, always)
    BY <1>5, <2>1, MergesHaveEffect DEF MergeEffect
  <2>3. Told(n)
    BY <1>1, <2>2 DEF Told
  <2>4. CASE n = m /\ change # NewDesc
    <3> DEFINE t == [node |-> n, step |-> "notify", always |-> always,
                     change |-> change, version |-> store[n].version + 1]
    <3>1. t \in todo' /\ t.node = n /\ t.step = "notify"
      BY <2>2, <2>4 DEF Tasks
    <3> QED
      BY <1>1, <3>1 DEF Told
  <2>5. CASE n # m \/ change = NewDesc
    <3>1. store'[n] = store[n]
      BY <1>2, <2>1, <2>5 DEF MergeEffect
    <3> QED
      BY <1>3, <2>2, <2>3, <3>1
  <2> QED
    BY <2>4, <2>5
<1>6. ASSUME NEW m \in Nodes, GoesDown(m)
      PROVE  watch'[n].seen = RemoveAllTombstones(store'[n].value)
  <2>1. CASE n = m
    <3>1. watch'[n].seen = NewDesc /\ store'[n].value = NewDesc
      BY <1>2, <1>6, <2>1 DEF GoesDown, Down, NoWatch, NoStore
    <3>2. RemoveAllTombstones(NewDesc) = NewDesc
      BY DEF RemoveAllTombstones, Restricted, NewDesc
    <3> QED
      BY <3>1, <3>2
  <2>2. CASE n # m
    <3>1. watch'[n] = watch[n] /\ store'[n] = store[n]
      BY <1>2, <1>6, <2>2 DEF GoesDown, Down
    <3>2. Told(n)
      BY <1>1, <1>6, <2>2, <3>1 DEF GoesDown, Down, Told
    <3> QED
      BY <1>3, <3>1, <3>2
  <2> QED
    BY <2>1, <2>2
<1>7. CASE Quiet /\ UNCHANGED store
  <2>1. ASSUME NEW t \in todo, Notify(t)
        PROVE  watch'[n].seen = RemoveAllTombstones(store'[n].value)
    <3>1. t \in Task /\ t.node \in Nodes
      BY DEF IInv, Types, Task
    <3>2. watch' = [watch EXCEPT ![t.node].notified = t.node \in Watchers]
      BY <2>1 DEF Notify
    <3>3. n # t.node
      BY <1>1, <1>2, <3>1, <3>2 DEF Told, Watch
    <3>4. watch'[n] = watch[n]
      BY <1>2, <3>1, <3>2, <3>3
    <3>5. Told(n)
      BY <1>1, <2>1, <3>3, <3>4 DEF Notify, Told
    <3> QED
      BY <1>3, <1>7, <3>4, <3>5
  <2>2. ASSUME NEW t \in todo, Broadcast(t)
        PROVE  watch'[n].seen = RemoveAllTombstones(store'[n].value)
    <3>1. Told(n) /\ watch' = watch
      BY <1>1, <2>2 DEF Broadcast, Told
    <3> QED
      BY <1>3, <1>7, <3>1
  <2>3. ASSUME NEW m \in Nodes, WatchTakes(m) \/ WatchReads(m) \/ WatchReturns(m)
        PROVE  watch'[n].seen = RemoveAllTombstones(store'[n].value)
    <3>1. todo' = todo
      BY <2>3 DEF WatchTakes, WatchReads, WatchReturns
    <3>2. CASE n # m
      <4>1. watch'[n] = watch[n]
        BY <1>2, <2>3, <3>2 DEF WatchTakes, WatchReads, WatchReturns
      <4> QED
        BY <1>1, <1>3, <1>7, <3>1, <4>1 DEF Told
    <3>3. CASE n = m /\ WatchTakes(m)
      <4>1. watch'[n].pc = "reading"
        BY <1>2, <3>3 DEF WatchTakes, Watch
      <4> QED
        BY <1>1, <4>1 DEF Told
    <3>4. CASE n = m /\ WatchReads(m)
      <4>1. watch'[n].seen = Visible(n)
        BY <1>2, <3>4 DEF WatchReads, Watch
      <4> QED
        BY <1>7, <4>1 DEF Visible
    <3>5. CASE n = m /\ WatchReturns(m)
      <4>1. /\ watch[n].pc = "calling" /\ watch'[n].seen = watch[n].seen
            /\ watch'[n].notified = watch[n].notified
        BY <1>2, <3>5 DEF WatchReturns, Watch
      <4> QED
        BY <1>1, <1>3, <1>7, <3>1, <4>1 DEF Told
    <3> QED
      BY <2>3, <3>2, <3>3, <3>4, <3>5
  <2>4. CASE watch' = watch /\ todo' = todo
    BY <1>1, <1>3, <1>7, <2>4 DEF Told
  <2>5. \/ watch' = watch /\ todo' = todo
        \/ \E t \in todo : Notify(t) \/ Broadcast(t)
        \/ \E m \in Nodes : WatchTakes(m) \/ WatchReads(m) \/ WatchReturns(m)
    BY <1>7 DEF Quiet, Tick, Cas, CasRead, CasGivesUp, CasMismatch, CasWakes, Gossip,
                LocalState, Stop, Restart
  <2> QED
    BY <2>1, <2>2, <2>3, <2>4, <2>5
<1> QED
  BY <1>4, <1>5, <1>6, <1>7, StepKinds

(***************************************************************************)
(* WatchKey's callback gets the latest value, whatever is merged while it  *)
(* runs or before the loop reads: a watcher at rest has seen the store.    *)
(***************************************************************************)
THEOREM WatchersSeeTheLatest ==
  ASSUME LeftTimeout = 0
  PROVE  Spec => []WatcherUpToDate
<1>1. Init => WatchInv
  <2>1. RemoveAllTombstones(NewDesc) = NewDesc
    BY DEF RemoveAllTombstones, Restricted, NewDesc
  <2> QED
    BY <2>1, WatchersAssumption DEF Init, WatchInv, Visible, NoWatch, NoStore
<1>2. IInv /\ WatchInv /\ [Next]_vars => WatchInv'
  BY WatchInvStep
<1>3. WatchInv => WatcherUpToDate
  BY DEF WatchInv, Told, WatcherUpToDate
<1> QED
  BY <1>1, <1>2, <1>3, IInvHolds, PTL DEF Spec


-----------------------------------------------------------------------------
(***************************************************************************)
(* The changes a node has yet to send, queued or not: I below.  None is    *)
(* ahead of the value v of the node, a later one knows no less of the      *)
(* instances it shares with an earlier one, and everything the node knows  *)
(* is in one of them or among the changes N that have been sent.           *)
(***************************************************************************)
Items(Q, T) == Q \cup {[change |-> t.change, version |-> t.version] : t \in T}
ItemsOf(n) == Items(queue[n], {t \in todo : t.node = n})

BelowAt(I, v) == \A x \in I, i \in Instances : Rank(x.change, i) <= Rank(v, i)

OrderedAt(I) ==
  \A x, y \in I : x.version <= y.version =>
    \A i \in DOMAIN x.change \cap DOMAIN y.change : Rank(x.change, i) <= Rank(y.change, i)

KnownAt(N, I, v) ==
  \A i \in Instances : Rank(v, i) > 0 =>
    \/ \E ch \in N : Rank(ch, i) >= Rank(v, i)
    \/ \E x \in I : Rank(x.change, i) >= Rank(v, i)

SpreadAt(N, I, v, l) ==
  BelowAt(I, v) /\ OrderedAt(I) /\ (l = "Running" => KnownAt(N, I, v))

Spread == \A n \in Nodes : SpreadAt(net, ItemsOf(n), store[n].value, life[n])

(***************************************************************************)
(* A node that is down has nothing.                                        *)
(***************************************************************************)
DownIdle ==
  \A n \in Nodes : life[n] = "Down" =>
    store[n] = NoStore /\ ItemsOf(n) = {} /\ \A c \in Callers : cas[n][c].pc = "idle"

(***************************************************************************)
(* An entry that a descriptor does not have has no rank, and the rank is   *)
(* that of the entry.                                                      *)
(***************************************************************************)
LEMMA RankOfEntry ==
  ASSUME NEW d \in Descs, NEW i \in Instances
  PROVE  /\ Rank(d, i) \in Nat
         /\ i \notin DOMAIN d => Rank(d, i) = 0
         /\ \A e \in Descs : i \in DOMAIN d /\ i \in DOMAIN e /\ d[i] = e[i] => Rank(d, i) = Rank(e, i)
<1>1. Rank(d, i) \in Nat
  BY DescsIsDesc, RankFacts
<1>2. ASSUME i \notin DOMAIN d
      PROVE  Rank(d, i) = 0
  <2>1. Get(d, i) = [state |-> "ACTIVE", ts |-> 0, tokens |-> {}]
    BY <1>2 DEF Get
  <2>2. Get(d, i).ts = 0 /\ Get(d, i).state = "ACTIVE"
    BY <2>1
  <2> QED
    BY <2>2 DEF Rank
<1>3. ASSUME NEW e \in Descs, i \in DOMAIN d, i \in DOMAIN e, d[i] = e[i]
      PROVE  Rank(d, i) = Rank(e, i)
  BY <1>3 DEF Rank, Get
<1> QED
  BY <1>1, <1>2, <1>3

(***************************************************************************)
(* A merge adds its change, which is the newest and as recent as the new   *)
(* value w is where it differs from the old one.                           *)
(***************************************************************************)
LEMMA ItemAdded ==
  ASSUME NEW N \in SUBSET Descs, NEW I \in SUBSET Item, NEW b \in Item, NEW v \in Descs,
         NEW w \in Descs, NEW l, SpreadAt(N, I, v, l),
         \A x \in I : x.version < b.version,
         \A i \in DOMAIN b.change : i \in DOMAIN w /\ b.change[i] = w[i],
         \A i \in Instances : Rank(v, i) <= Rank(w, i),
         \A i \in Instances \ DOMAIN b.change : Rank(w, i) = Rank(v, i)
  PROVE  SpreadAt(N, I \cup {b}, w, l)
<1>1. /\ b.change \in Descs /\ b.version \in Nat /\ DOMAIN b.change \subseteq Instances
      /\ \A x \in I : x.change \in Descs /\ x.version \in Nat /\ DOMAIN x.change \subseteq Instances
  BY DEF Item, Descs
<1>2. \A d \in Descs, i \in Instances : Rank(d, i) \in Nat
  BY RankOfEntry
<1>3. \A i \in DOMAIN b.change : Rank(b.change, i) = Rank(w, i)
  BY <1>1, RankOfEntry
<1>4. \A i \in Instances \ DOMAIN b.change : Rank(b.change, i) = 0
  BY <1>1, RankOfEntry
<1>5. BelowAt(I, v) /\ OrderedAt(I)
  BY DEF SpreadAt
<1>6. BelowAt(I \cup {b}, w)
  <2>1. ASSUME NEW x \in I, NEW i \in Instances
        PROVE  Rank(x.change, i) <= Rank(w, i)
    BY <1>1, <1>2, <1>5 DEF BelowAt
  <2>2. ASSUME NEW i \in Instances
        PROVE  Rank(b.change, i) <= Rank(w, i)
    BY <1>1, <1>2, <1>3, <1>4
  <2> QED
    BY <2>1, <2>2 DEF BelowAt
<1>7. OrderedAt(I \cup {b})
  <2>1. SUFFICES ASSUME NEW x \in I \cup {b}, NEW y \in I \cup {b}, x.version <= y.version,
                        NEW i \in DOMAIN x.change \cap DOMAIN y.change
                 PROVE  Rank(x.change, i) <= Rank(y.change, i)
    BY DEF OrderedAt
  <2>2. CASE x \in I /\ y \in I
    BY <1>5, <2>1, <2>2 DEF OrderedAt
  <2>3. CASE y = b
    BY <1>1, <1>3, <1>6, <2>1, <2>3 DEF BelowAt
  <2>4. CASE x = b /\ y \in I
    BY <1>1, <2>1, <2>4
  <2> QED
    BY <2>2, <2>3, <2>4
<1>8. ASSUME l = "Running"
      PROVE  KnownAt(N, I \cup {b}, w)
  <2>1. SUFFICES ASSUME NEW i \in Instances, Rank(w, i) > 0
                 PROVE  \/ \E ch \in N : Rank(ch, i) >= Rank(w, i)
                        \/ \E x \in I \cup {b} : Rank(x.change, i) >= Rank(w, i)
    BY DEF KnownAt
  <2>2. CASE i \in DOMAIN b.change
    BY <1>2, <1>3, <2>2
  <2>3. CASE i \notin DOMAIN b.change
    BY <1>8, <2>1, <2>3 DEF SpreadAt, KnownAt
  <2> QED
    BY <2>2, <2>3
<1> QED
  BY <1>6, <1>7, <1>8 DEF SpreadAt

(***************************************************************************)
(* Replacing what a newer broadcast b invalidates, ringBroadcast's rule,   *)
(* loses nothing: b knows at least as much.                                *)
(***************************************************************************)
LEMMA ItemsInvalidated ==
  ASSUME NEW N \in SUBSET Descs, NEW I \in SUBSET Item, NEW J \in SUBSET I, NEW b \in I,
         NEW v \in Descs, NEW l, SpreadAt(N, I, v, l),
         l = "Running" => b \in J /\ \A x \in I \ J : Invalidates(b, x)
  PROVE  SpreadAt(N, J, v, l)
<1>1. \A x \in I : x.change \in Descs /\ x.version \in Nat /\ DOMAIN x.change \subseteq Instances
  BY DEF Item, Descs
<1>2. BelowAt(J, v) /\ OrderedAt(J)
  BY DEF SpreadAt, BelowAt, OrderedAt
<1>3. ASSUME l = "Running", NEW i \in Instances, Rank(v, i) > 0
      PROVE  \/ \E ch \in N : Rank(ch, i) >= Rank(v, i)
             \/ \E x \in J : Rank(x.change, i) >= Rank(v, i)
  <2>1. CASE \E ch \in N : Rank(ch, i) >= Rank(v, i)
    BY <2>1
  <2>2. CASE \E x \in I : Rank(x.change, i) >= Rank(v, i)
    <3>1. PICK x \in I : Rank(x.change, i) >= Rank(v, i)
      BY <2>2
    <3>2. /\ Rank(v, i) \in Nat /\ Rank(x.change, i) \in Nat /\ Rank(b.change, i) \in Nat
          /\ i \in DOMAIN x.change
      BY <1>1, <1>3, <3>1, RankOfEntry
    <3>3. CASE x \in J
      BY <3>1, <3>3
    <3>4. CASE x \notin J
      <4>1. Invalidates(b, x) /\ b \in J
        BY <1>3, <3>4
      <4>2. i \in DOMAIN b.change /\ x.version <= b.version
        BY <1>1, <3>2, <4>1 DEF Invalidates
      <4>3. Rank(x.change, i) <= Rank(b.change, i)
        BY <3>2, <4>2 DEF SpreadAt, OrderedAt
      <4> QED
        BY <3>1, <3>2, <4>1, <4>3
    <3> QED
      BY <3>3, <3>4
  <2> QED
    BY <1>3, <2>1, <2>2 DEF SpreadAt, KnownAt
<1> QED
  BY <1>2, <1>3 DEF SpreadAt, KnownAt

(***************************************************************************)
(* A change that is sent moves from the node to the network.               *)
(***************************************************************************)
LEMMA ItemSent ==
  ASSUME NEW N, NEW I, NEW J \in SUBSET I, NEW b, NEW v, NEW l,
         SpreadAt(N, I, v, l), I \subseteq J \cup {b}
  PROVE  SpreadAt(N \cup {b.change}, J, v, l)
BY DEF SpreadAt, BelowAt, OrderedAt, KnownAt

(***************************************************************************)
(* A node without a value and without items knows nothing to be sent.      *)
(***************************************************************************)
LEMMA NothingToSpread ==
  ASSUME NEW N, NEW l
  PROVE  SpreadAt(N, {}, NoStore.value, l)
<1>1. \A i \in Instances : Rank(NoStore.value, i) = 0
  BY EmptyDesc, RankOfEntry DEF NoStore
<1> QED
  BY <1>1 DEF SpreadAt, BelowAt, OrderedAt, KnownAt


(***************************************************************************)
(* The items of the nodes are well formed and no newer than the stores.    *)
(***************************************************************************)
LEMMA ItemsFacts ==
  ASSUME IInv, NEW n \in Nodes
  PROVE  /\ ItemsOf(n) \in SUBSET Item /\ net \in SUBSET Descs
         /\ store[n].value \in Descs /\ store[n].version \in Nat
         /\ \A x \in ItemsOf(n) : x.version <= store[n].version
<1>1. \A t \in todo : [change |-> t.change, version |-> t.version] \in Item
  BY DEF IInv, Types, Task, Item
<1>2. \A t \in todo : t.node = n => t.version <= store[n].version
  BY DEF IInv, GoodTodo, Types
<1>3. \A b \in queue[n] : b \in Item /\ b.version <= store[n].version
  BY DEF IInv, GoodQueue, Types
<1> QED
  BY <1>1, <1>2, <1>3 DEF ItemsOf, Items, IInv, Types

\* No step leaves knowledge without a copy that is on its way.
LEMMA SpreadStep ==
  ASSUME LeftTimeout = 0, IInv, Spread, DownIdle, [Next]_vars
  PROVE  Spread'
<1>1. SUFFICES ASSUME NEW n \in Nodes
               PROVE  SpreadAt(net', ItemsOf(n)', store'[n].value, life'[n])
  BY DEF Spread
<1>2. SpreadAt(net, ItemsOf(n), store[n].value, life[n])
  BY DEF Spread
<1>3. /\ ItemsOf(n) \in SUBSET Item /\ net \in SUBSET Descs
      /\ store[n].value \in Descs /\ store[n].version \in Nat
      /\ \A x \in ItemsOf(n) : x.version <= store[n].version
      /\ life \in [Nodes -> {"Running", "Stopping", "Down"}]
      /\ queue \in [Nodes -> SUBSET Item]
      /\ store \in [Nodes -> [value : Descs, version : Nat]]
  BY ItemsFacts DEF IInv, Types
<1>4. CASE UNCHANGED <<net, queue, todo, store, life>>
  BY <1>2, <1>4 DEF ItemsOf
<1>5. ASSUME NEW m \in Nodes, Merges(m)
      PROVE  SpreadAt(net', ItemsOf(n)', store'[n].value, life'[n])
  <2>1. PICK change \in Descs, always \in BOOLEAN : MergeEffect(m, change, always)
    BY <1>5, MergesHaveEffect
  <2>2. UNCHANGED <<life, queue, net>>
    BY <1>5, MergesHaveEffect
  <2>3. todo' = todo \cup Tasks(m, change, store[m].version + 1, always)
    BY <2>1 DEF MergeEffect
  <2>4. CASE n # m \/ change = NewDesc
    <3>1. store'[n] = store[n]
      BY <2>1, <2>4 DEF MergeEffect
    <3>2. {t \in todo' : t.node = n} = {t \in todo : t.node = n}
      BY <2>3, <2>4 DEF Tasks
    <3> QED
      BY <1>2, <2>2, <3>1, <3>2 DEF ItemsOf
  <2>5. CASE n = m /\ change # NewDesc
    <3> DEFINE b == [change |-> change, version |-> store[n].version + 1]
               t == [node |-> n, step |-> "notify", always |-> always,
                     change |-> change, version |-> store[n].version + 1]
    <3>1. b \in Item /\ b.change = change /\ b.version = store[n].version + 1
      BY <1>3 DEF Item
    <3>2. todo' = todo \cup {t}
      BY <2>3, <2>5 DEF Tasks
    <3>3. t.node = n /\ [change |-> t.change, version |-> t.version] = b
      OBVIOUS
    <3> HIDE DEF t, b
    <3>4. {u \in todo' : u.node = n} = {u \in todo : u.node = n} \cup {t}
      BY <3>2, <3>3
    <3>5. ItemsOf(n)' = ItemsOf(n) \cup {b}
      BY <2>2, <3>3, <3>4 DEF ItemsOf, Items
    <3>6. store'[n].value \in Descs
      BY NextIInv DEF IInv, Types
    <3>7. /\ \A i \in DOMAIN b.change : i \in DOMAIN store'[n].value /\ b.change[i] = store'[n].value[i]
          /\ \A i \in Instances : Rank(store[n].value, i) <= Rank(store'[n].value, i)
          /\ \A i \in Instances \ DOMAIN b.change :
               Rank(store'[n].value, i) = Rank(store[n].value, i)
      BY <2>1, <2>5, <3>1 DEF MergeEffect
    <3>8. \A x \in ItemsOf(n) : x.version < b.version
      BY <1>3, <3>1 DEF Item
    <3>9. SpreadAt(net, ItemsOf(n) \cup {b}, store'[n].value, life[n])
      BY <1>2, <1>3, <3>1, <3>6, <3>7, <3>8, ItemAdded
    <3> QED
      BY <2>2, <3>5, <3>9
  <2> QED
    BY <2>4, <2>5
<1>6. ASSUME NEW m \in Nodes, GoesDown(m)
      PROVE  SpreadAt(net', ItemsOf(n)', store'[n].value, life'[n])
  <2>1. CASE n = m
    <3>1. store'[n] = NoStore /\ queue'[n] = {} /\ {t \in todo' : t.node = n} = {}
      BY <1>3, <1>6, <2>1 DEF GoesDown, Down
    <3>2. ItemsOf(n)' = {}
      BY <3>1 DEF ItemsOf, Items
    <3> QED
      BY <3>1, <3>2, NothingToSpread
  <2>2. CASE n # m
    <3>1. UNCHANGED <<store[n], queue[n], life[n], net>>
      BY <1>3, <1>6, <2>2 DEF GoesDown, Down
    <3>2. {t \in todo' : t.node = n} = {t \in todo : t.node = n}
      BY <1>6, <2>2 DEF GoesDown, Down
    <3> QED
      BY <1>2, <3>1, <3>2 DEF ItemsOf
  <2> QED
    BY <2>1, <2>2
<1>7. ASSUME NEW t \in todo, Notify(t)
      PROVE  SpreadAt(net', ItemsOf(n)', store'[n].value, life'[n])
  <2> DEFINE u == [t EXCEPT !.step = "broadcast"]
  <2>1. t \in Task
    BY DEF IInv, Types
  <2>2. u.node = t.node /\ u.change = t.change /\ u.version = t.version
    BY <2>1 DEF Task
  <2>3. todo' = (todo \ {t}) \cup {u} /\ UNCHANGED <<queue, store, life, net>>
    BY <1>7 DEF Notify
  <2> HIDE DEF u
  <2>4. ItemsOf(n)' = ItemsOf(n)
    <3> DEFINE p(x) == [change |-> x.change, version |-> x.version]
    <3>1. p(u) = p(t)
      BY <2>2
    <3>2. {p(x) : x \in {y \in todo' : y.node = n}} = {p(x) : x \in {y \in todo : y.node = n}}
      <4> HIDE DEF p
      <4> QED
        BY <2>2, <2>3, <3>1
    <3> QED
      BY <2>3, <3>2 DEF ItemsOf, Items
  <2> QED
    BY <1>2, <2>3, <2>4
<1>8. ASSUME NEW t \in todo, Broadcast(t)
      PROVE  SpreadAt(net', ItemsOf(n)', store'[n].value, life'[n])
  <2> DEFINE b == [change |-> t.change, version |-> t.version]
             p(x) == [change |-> x.change, version |-> x.version]
  <2>1. t \in Task /\ t.node \in Nodes
    BY DEF IInv, Types, Task
  <2>2. todo' = todo \ {t} /\ UNCHANGED <<store, life, net>>
    BY <1>8 DEF Broadcast
  <2>3. \/ queue' = [queue EXCEPT ![t.node] = {o \in @ : ~Invalidates(b, o)} \cup {b}]
        \/ queue' = queue /\ life[t.node] # "Running"
    BY <1>8 DEF Broadcast
  <2>4. CASE n # t.node
    <3>1. queue'[n] = queue[n]
      BY <1>3, <2>1, <2>3, <2>4
    <3>2. {x \in todo' : x.node = n} = {x \in todo : x.node = n}
      BY <2>2, <2>4
    <3> QED
      BY <1>2, <2>2, <3>1, <3>2 DEF ItemsOf
  <2>5. CASE n = t.node
    <3>1. b = p(t)
      OBVIOUS
    <3>2. /\ ItemsOf(n) = queue[n] \cup {p(x) : x \in {y \in todo : y.node = n}}
          /\ ItemsOf(n)' = queue'[n] \cup {p(x) : x \in {y \in todo' : y.node = n}}
      BY DEF ItemsOf, Items
    <3> HIDE DEF p, b
    <3>3. b \in ItemsOf(n)
      BY <2>5, <3>1, <3>2
    <3>4. \/ queue'[n] = {o \in queue[n] : ~Invalidates(b, o)} \cup {b}
          \/ queue'[n] = queue[n] /\ life[n] # "Running"
      BY <1>3, <2>3, <2>5
    <3>5. ItemsOf(n)' \in SUBSET ItemsOf(n)
      BY <2>2, <3>2, <3>3, <3>4
    <3>6. ASSUME life[n] = "Running"
          PROVE  b \in ItemsOf(n)' /\ \A x \in ItemsOf(n) \ ItemsOf(n)' : Invalidates(b, x)
      BY <2>2, <3>1, <3>2, <3>4, <3>6
    <3>7. SpreadAt(net, ItemsOf(n)', store[n].value, life[n])
      BY <1>2, <1>3, <3>3, <3>5, <3>6, ItemsInvalidated
    <3> QED
      BY <2>2, <3>7
  <2> QED
    BY <2>4, <2>5
<1>9. ASSUME NEW m \in Nodes, NEW b \in queue[m], Gossip(m, b)
      PROVE  SpreadAt(net', ItemsOf(n)', store'[n].value, life'[n])
  <2>1. /\ net' = net \cup {b.change} /\ queue' = [queue EXCEPT ![m] = @ \ {b}]
        /\ UNCHANGED <<store, life, todo>>
    BY <1>9 DEF Gossip
  <2>2. queue'[n] \subseteq queue[n] /\ queue[n] \subseteq queue'[n] \cup {b}
    BY <1>3, <2>1
  <2>3. ItemsOf(n)' \in SUBSET ItemsOf(n) /\ ItemsOf(n) \subseteq ItemsOf(n)' \cup {b}
    BY <2>1, <2>2 DEF ItemsOf, Items
  <2>4. SpreadAt(net \cup {b.change}, ItemsOf(n)', store[n].value, life[n])
    BY <1>2, <2>3, ItemSent
  <2> QED
    BY <2>1, <2>4
<1>10. ASSUME NEW m \in Nodes, Stop(m) \/ Restart(m)
       PROVE  SpreadAt(net', ItemsOf(n)', store'[n].value, life'[n])
  <2>1. UNCHANGED <<store, queue, todo, net>>
    BY <1>10 DEF Stop, Restart
  <2>2. ItemsOf(n)' = ItemsOf(n)
    BY <2>1 DEF ItemsOf
  <2>3. CASE life'[n] = life[n]
    BY <1>2, <2>1, <2>2, <2>3
  <2>4. CASE n = m /\ Stop(m)
    <3>1. life'[n] = "Stopping"
      BY <1>3, <2>4 DEF Stop
    <3> QED
      BY <1>2, <2>1, <2>2, <3>1 DEF SpreadAt
  <2>5. CASE n = m /\ Restart(m)
    <3>1. store[n] = NoStore /\ ItemsOf(n) = {}
      BY <2>5 DEF Restart, DownIdle
    <3> QED
      BY <2>1, <2>2, <3>1, NothingToSpread
  <2> QED
    BY <1>3, <1>10, <2>3, <2>4, <2>5 DEF Stop, Restart
<1>11. ASSUME NEW m \in Nodes, LocalState(m)
       PROVE  SpreadAt(net', ItemsOf(n)', store'[n].value, life'[n])
  <2>1. net \subseteq net' /\ UNCHANGED <<store, life, todo, queue>>
    BY <1>11 DEF LocalState
  <2>2. ItemsOf(n)' = ItemsOf(n)
    BY <2>1 DEF ItemsOf
  <2> QED
    BY <1>2, <2>1, <2>2 DEF SpreadAt, KnownAt
<1>12. Quiet => \/ UNCHANGED <<net, queue, todo, store, life>>
                \/ \E t \in todo : Notify(t) \/ Broadcast(t)
                \/ \E m \in Nodes : LocalState(m)
                \/ \E m \in Nodes : Stop(m) \/ Restart(m) \/ \E b \in queue[m] : Gossip(m, b)
  BY DEF Quiet, Tick, Cas, CasRead, CasGivesUp, CasMismatch, CasWakes, WatchTakes, WatchReads,
         WatchReturns
<1> QED
  BY <1>4, <1>5, <1>6, <1>7, <1>8, <1>9, <1>10, <1>11, <1>12, StepKinds DEF vars


(***************************************************************************)
(* Nothing happens on a node that is down, other than its restart.         *)
(***************************************************************************)
LEMMA DownIdleStep ==
  ASSUME LeftTimeout = 0, IInv, DownIdle, [Next]_vars
  PROVE  DownIdle'
<1>1. SUFFICES ASSUME NEW n \in Nodes, life'[n] = "Down"
               PROVE  /\ store'[n] = NoStore /\ ItemsOf(n)' = {}
                      /\ \A c \in Callers : cas'[n][c].pc = "idle"
  BY DEF DownIdle
<1> DEFINE Idle == /\ store'[n] = NoStore /\ ItemsOf(n)' = {}
                   /\ \A c \in Callers : cas'[n][c].pc = "idle"
<1>2. /\ life \in [Nodes -> {"Running", "Stopping", "Down"}]
      /\ queue \in [Nodes -> SUBSET Item] /\ cas \in [Nodes -> [Callers -> Call]]
      /\ store \in [Nodes -> [value : Descs, version : Nat]] /\ todo \in SUBSET Task
  BY DEF IInv, Types
<1>3. ASSUME life[n] = "Down", store'[n] = store[n], cas'[n] = cas[n], queue'[n] = queue[n],
             {t \in todo' : t.node = n} = {t \in todo : t.node = n}
      PROVE  Idle
  BY <1>3 DEF DownIdle, ItemsOf
<1>4. ASSUME life[n] = "Down"
      PROVE  /\ \A c \in Callers : cas[n][c].pc = "idle"
             /\ queue[n] = {} /\ \A t \in todo : t.node # n
  BY <1>4 DEF DownIdle, ItemsOf, Items
<1>5. CASE UNCHANGED vars
  BY <1>1, <1>3, <1>5 DEF vars
<1>6. ASSUME NEW m \in Nodes, Merges(m)
      PROVE  Idle
  <2>1. PICK change \in Descs, always \in BOOLEAN : MergeEffect(m, change, always)
    BY <1>6, MergesHaveEffect
  <2>2. UNCHANGED <<life, queue>> /\ \A x \in Nodes \ {m} : cas'[x] = cas[x]
    BY <1>6, MergesHaveEffect
  <2>3. n # m
    <3>1. life[m] # "Down" \/ \E c \in Callers : cas[m][c].pc = "merge"
      BY <1>6, MergesHaveEffect
    <3> QED
      BY <1>1, <1>4, <2>2, <3>1
  <2>4. store'[n] = store[n] /\ {t \in todo' : t.node = n} = {t \in todo : t.node = n}
    BY <2>1, <2>3 DEF MergeEffect, Tasks
  <2> QED
    BY <1>1, <1>3, <2>2, <2>3, <2>4
<1>7. ASSUME NEW m \in Nodes, GoesDown(m)
      PROVE  Idle
  <2>1. CASE n = m
    <3>1. /\ store'[n] = NoStore /\ queue'[n] = {} /\ {t \in todo' : t.node = n} = {}
          /\ \A c \in Callers : cas'[n][c] = NoCall
      BY <1>2, <1>7, <2>1 DEF GoesDown, Down
    <3> QED
      BY <3>1 DEF ItemsOf, Items, NoCall
  <2>2. CASE n # m
    <3>1. UNCHANGED <<store[n], queue[n], life[n], cas[n]>>
      BY <1>2, <1>7, <2>2 DEF GoesDown, Down
    <3>2. {t \in todo' : t.node = n} = {t \in todo : t.node = n}
      BY <1>7, <2>2 DEF GoesDown, Down
    <3> QED
      BY <1>1, <1>3, <3>1, <3>2
  <2> QED
    BY <2>1, <2>2
<1>8. CASE Quiet /\ UNCHANGED store
  <2>1. life[n] = "Down"
    BY <1>1, <1>2, <1>8 DEF Quiet, Tick, Cas, CasRead, CasGivesUp, CasMismatch, CasWakes, Gossip,
                            LocalState, WatchTakes, WatchReads, WatchReturns, Stop, Restart, Notify, Broadcast
  <2>2. cas'[n] = cas[n]
    <3>1. ASSUME NEW m \in Nodes, NEW c \in Callers,
                 Cas(m, c) \/ CasRead(m, c) \/ CasGivesUp(m, c) \/ CasMismatch(m, c) \/ CasWakes(m, c)
          PROVE  cas'[n] = cas[n]
      <4>1. n # m
        BY <1>4, <2>1, <3>1 DEF Cas, CasRead, CasGivesUp, CasMismatch, CasWakes, Up
      <4> QED
        BY <1>2, <3>1, <4>1 DEF Cas, CasRead, CasGivesUp, CasMismatch, CasWakes
    <3>2. \/ cas' = cas
          \/ \E m \in Nodes, c \in Callers :
               Cas(m, c) \/ CasRead(m, c) \/ CasGivesUp(m, c) \/ CasMismatch(m, c) \/ CasWakes(m, c)
      BY <1>8 DEF Quiet, Tick, Gossip, LocalState, WatchTakes, WatchReads, WatchReturns, Stop,
                  Restart, Notify, Broadcast
    <3> QED
      BY <3>1, <3>2
  <2>3. queue'[n] = queue[n] /\ {t \in todo' : t.node = n} = {t \in todo : t.node = n}
    <3>1. ASSUME NEW t \in todo, Notify(t)
          PROVE  queue' = queue /\ {x \in todo' : x.node = n} = {x \in todo : x.node = n}
      <4> DEFINE u == [t EXCEPT !.step = "broadcast"]
      <4>1. u.node = t.node /\ t.node # n
        BY <1>2, <1>4, <2>1 DEF Task
      <4>2. queue' = queue /\ todo' = (todo \ {t}) \cup {u}
        BY <3>1 DEF Notify
      <4> HIDE DEF u
      <4> QED
        BY <4>1, <4>2
    <3>2. ASSUME NEW t \in todo, Broadcast(t)
          PROVE  queue'[n] = queue[n] /\ {x \in todo' : x.node = n} = {x \in todo : x.node = n}
      <4>1. t.node # n /\ todo' = todo \ {t}
        BY <1>4, <2>1, <3>2 DEF Broadcast
      <4>2. \/ queue' = queue
            \/ \E S : queue' = [queue EXCEPT ![t.node] = S]
        BY <3>2 DEF Broadcast
      <4> QED
        BY <1>2, <4>1, <4>2
    <3>3. ASSUME NEW m \in Nodes, NEW b \in queue[m], Gossip(m, b)
          PROVE  queue'[n] = queue[n] /\ todo' = todo
      BY <1>2, <1>4, <2>1, <3>3 DEF Gossip
    <3>4. \/ UNCHANGED <<queue, todo>>
          \/ \E t \in todo : Notify(t) \/ Broadcast(t)
          \/ \E m \in Nodes : \E b \in queue[m] : Gossip(m, b)
      BY <1>8 DEF Quiet, Tick, Cas, CasRead, CasGivesUp, CasMismatch, CasWakes, LocalState,
                  WatchTakes, WatchReads, WatchReturns, Stop, Restart
    <3> QED
      BY <3>1, <3>2, <3>3, <3>4
  <2> QED
    BY <1>3, <1>8, <2>1, <2>2, <2>3
<1> QED
  BY <1>5, <1>6, <1>7, <1>8, StepKinds

(***************************************************************************)
(* What a Running node knows has been sent or waits on some node to be     *)
(* sent.  The argument is about the node alone: its own items or what has  *)
(* been sent cover its store.                                              *)
(***************************************************************************)
THEOREM KnowledgeSpreads ==
  ASSUME LeftTimeout = 0
  PROVE  Spec => []NothingIsKeptBack
<1>1. Init => Spread /\ DownIdle
  <2>1. SUFFICES ASSUME Init, NEW n \in Nodes
                 PROVE  SpreadAt(net, ItemsOf(n), store[n].value, life[n]) /\ life[n] # "Down"
    BY DEF Spread, DownIdle
  <2>2. store[n] = NoStore /\ queue[n] = {} /\ todo = {} /\ life[n] = "Running"
    BY <2>1 DEF Init
  <2>3. ItemsOf(n) = {}
    BY <2>2 DEF ItemsOf, Items
  <2> QED
    BY <2>2, <2>3, NothingToSpread
<1>2. IInv /\ Spread /\ DownIdle /\ [Next]_vars => (Spread /\ DownIdle)'
  BY SpreadStep, DownIdleStep
<1>3. IInv /\ Spread => NothingIsKeptBack
  <2>1. SUFFICES ASSUME IInv, Spread, NEW n \in Nodes, NEW i \in Instances,
                        life[n] = "Running", Rank(store[n].value, i) > 0
                 PROVE  \E ch \in Travelling : Rank(ch, i) >= Rank(store[n].value, i)
    BY DEF NothingIsKeptBack
  <2>2. KnownAt(net, ItemsOf(n), store[n].value)
    BY <2>1 DEF Spread, SpreadAt
  <2>3. \A x \in ItemsOf(n) : x.change \in Travelling
    BY DEF ItemsOf, Items, Travelling
  <2>4. net \subseteq Travelling
    BY DEF Travelling
  <2> QED
    BY <2>1, <2>2, <2>3, <2>4 DEF KnownAt
<1> QED
  BY <1>1, <1>2, <1>3, IInvHolds, PTL DEF Spec

(***************************************************************************)
(* Every store is a ring without conflicts, and what it knows is on its    *)
(* way to the others.                                                      *)
(***************************************************************************)
THEOREM NodesStaySound ==
  ASSUME LeftTimeout = 0
  PROVE  Spec => []NodesAreSound
BY TypeCorrect, OneOwner, KnowledgeSpreads, PTL DEF NodesAreSound
=============================================================================
