----------------------------- MODULE RingDesc -----------------------------
(***************************************************************************)
(* ring/model.go: the ring descriptor and the merge that gossiping relies  *)
(* on.  A descriptor maps the names of registered instances to entries; a  *)
(* name is a number, so that names can be compared.  Of an entry only what *)
(* Merge looks at is kept: state, timestamp (seconds) and tokens.  A token *)
(* list is a set: the code keeps it sorted and without duplicates.         *)
(***************************************************************************)
EXTENDS Naturals, FiniteSets

CONSTANTS
  Instances,  \* names of ring instances
  Tokens      \* ring tokens

ASSUME InstancesAssumption == Instances \subseteq Nat

InstanceStates == {"ACTIVE", "LEAVING", "PENDING", "JOINING", "LEFT"}

Entry == [state : InstanceStates, ts : Nat, tokens : SUBSET Tokens]

(***************************************************************************)
(* d is a descriptor of some set of instances.                             *)
(***************************************************************************)
IsDesc(d) == DOMAIN d \subseteq Instances /\ d \in [DOMAIN d -> Entry]

NewDesc == [i \in {} |-> {}]

-----------------------------------------------------------------------------
(***************************************************************************)
(* normalizeIngestersMap: a LEFT instance has no tokens.                   *)
(***************************************************************************)
Normalize(d) ==
  [i \in DOMAIN d |-> IF d[i].state = "LEFT" THEN [d[i] EXCEPT !.tokens = {}] ELSE d[i]]

(***************************************************************************)
(* The entry of i, the zero value of the Go map if there is none.          *)
(***************************************************************************)
Get(d, i) ==
  IF i \in DOMAIN d THEN d[i] ELSE [state |-> "ACTIVE", ts |-> 0, tokens |-> {}]

\* Fault: an entry is taken over unless it is of the same second.
NewerIn_Different(d, o, i) == o[i].ts # Get(d, i).ts

NewerIn(d, o, i) == o[i].ts > Get(d, i).ts

\* Fault: LEFT needs a newer timestamp, as any other state.
LeftIn_NewerOnly(d, o, i) == FALSE

\* Fault: LEFT is accepted whatever its timestamp.
LeftIn_AnyTime(d, o, i) == Get(d, i).state # "LEFT" /\ o[i].state = "LEFT"

(***************************************************************************)
(* LEFT is accepted "even if timestamp hasn't changed".                    *)
(***************************************************************************)
LeftIn(d, o, i) ==
  o[i].ts = Get(d, i).ts /\ Get(d, i).state # "LEFT" /\ o[i].state = "LEFT"

(***************************************************************************)
(* The instances Merge takes over from o.                                  *)
(***************************************************************************)
Accepted(d, o) == {i \in DOMAIN o : NewerIn(d, o, i) \/ LeftIn(d, o, i)}

(***************************************************************************)
(* The instances a local CAS has removed: missing in o, not yet LEFT.      *)
(***************************************************************************)
Removed(d, o, localCAS) ==
  {i \in DOMAIN d : localCAS /\ i \notin DOMAIN o /\ d[i].state # "LEFT"}

Tombstone(e, now) == [state |-> "LEFT", ts |-> now, tokens |-> {}]

(***************************************************************************)
(* The entries after both loops of mergeWithTime.                          *)
(***************************************************************************)
Combine(d, o, localCAS, now) ==
  [i \in DOMAIN d \cup Accepted(d, o) |->
     IF i \in Accepted(d, o) THEN o[i]
     ELSE IF i \in Removed(d, o, localCAS) THEN Tombstone(d[i], now)
     ELSE d[i]]

\* Fault: the tokens of an instance seen for the first time do not count.
TokensChanged_KnownOnly(d, o) ==
  \E i \in Accepted(d, o) : NewerIn(d, o, i) /\ i \in DOMAIN d /\ d[i].tokens # o[i].tokens

TokensChanged(d, o) ==
  \E i \in Accepted(d, o) : NewerIn(d, o, i) /\ Get(d, i).tokens # o[i].tokens

(***************************************************************************)
(* resolveConflicts decides pairwise, in the order of a map iteration: the *)
(* winner is the instance that precedes all other owners of the token.     *)
(***************************************************************************)
Precedes(d, i, j) ==
  \/ d[i].state # "LEAVING" /\ d[j].state = "LEAVING"
  \/ (d[i].state = "LEAVING") = (d[j].state = "LEAVING") /\ i < j

Owners(d, t) == {i \in DOMAIN d : d[i].state # "LEFT" /\ t \in d[i].tokens}

conflictingTokensExist(d) ==
  \E i, j \in DOMAIN d : i # j /\ d[i].tokens \cap d[j].tokens # {}

resolveConflicts(d) ==
  [i \in DOMAIN d |->
     [d[i] EXCEPT !.tokens =
        {t \in d[i].tokens : i \in Owners(d, t) /\ \A j \in Owners(d, t) \ {i} : Precedes(d, i, j)}]]

(***************************************************************************)
(* Merge: the receiver afterwards, and the change that is sent to others   *)
(* (empty for nil).  Instances that lose a token to another one are not    *)
(* part of the change.                                                     *)
(***************************************************************************)
Updated(d, o, localCAS) == Accepted(d, o) \cup Removed(d, o, localCAS)

Merged(d, o, localCAS, now) ==
  LET n == Normalize(o)
      c == Combine(d, n, localCAS, now)
  IN IF TokensChanged(d, n) /\ conflictingTokensExist(c) THEN resolveConflicts(c) ELSE c

MergeChange(d, o, localCAS, now) ==
  [i \in Updated(d, Normalize(o), localCAS) |-> Merged(d, o, localCAS, now)[i]]

(***************************************************************************)
(* RemoveTombstones: LEFT instances older than limit go; all of them, if   *)
(* limit is the zero time.                                                 *)
(***************************************************************************)
Restricted(d, S) == [i \in S |-> d[i]]

RemoveTombstones(d, limit) ==
  Restricted(d, {i \in DOMAIN d : d[i].state = "LEFT" => d[i].ts >= limit})

RemoveAllTombstones(d) == Restricted(d, {i \in DOMAIN d : d[i].state # "LEFT"})

-----------------------------------------------------------------------------
(***************************************************************************)
(* How recent what d says of i is: LEFT is the last word of a second.      *)
(***************************************************************************)
Rank(d, i) == 2 * Get(d, i).ts + (IF Get(d, i).state = "LEFT" THEN 1 ELSE 0)
=============================================================================
