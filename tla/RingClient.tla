---------------------------- MODULE RingClient ----------------------------
(***************************************************************************)
(* ring/ring.go, ring/replication_strategy.go: how a ring descriptor is    *)
(* turned into the instances that take part in an operation.  All of it is *)
(* computed under the ring's read lock from one descriptor, so it is given *)
(* here as operators on a descriptor d, a function from instances to       *)
(*                                                                         *)
(*   state   its InstanceState              zone  "" if none is set        *)
(*   tokens  a set of numbers               reg   RegisteredTimestamp      *)
(*   ts      the heartbeat; IsHeartbeatHealthy compares it with the clock, *)
(*           and only the outcome, ts = "fresh" or "old", is kept          *)
(*                                                                         *)
(* and of the configuration cfg = [rf, zoneAware, quorum], quorum telling  *)
(* the default strategy from the one that ignores unhealthy instances.  No *)
(* token has two owners, as Merge and GenerateTokens see to; with two the  *)
(* code would take whichever its map yields last.                          *)
(***************************************************************************)
EXTENDS Integers, Sequences, SequencesExt, FiniteSets, FiniteSetsExt

InstanceStates == {"ACTIVE", "LEAVING", "PENDING", "JOINING", "LEFT"}

-----------------------------------------------------------------------------
(***************************************************************************)
(* An Operation: the states it may use and those for which another replica *)
(* is looked for.  The code packs the two sets into one bitmap.            *)
(***************************************************************************)
NewOp(healthyStates, extendStates) == [healthy |-> healthyStates, extend |-> extendStates]

IsInstanceInStateHealthy(op, s) == s \in op.healthy
ShouldExtendReplicaSetOnState(op, s) == s \in op.extend

Write == NewOp({"ACTIVE"}, InstanceStates \ {"ACTIVE"})
WriteNoExtend == NewOp({"ACTIVE"}, {})

Read == NewOp({"ACTIVE", "PENDING", "LEAVING"}, InstanceStates \ {"ACTIVE", "LEAVING"})
Reporting == NewOp(InstanceStates, {})

IsHealthy(inst, op) == IsInstanceInStateHealthy(op, inst.state) /\ inst.ts = "fresh"

-----------------------------------------------------------------------------
Sorted(S) == [k \in 1..Cardinality(S) |-> CHOOSE t \in S : Cardinality({u \in S : u < t}) = k - 1]

GetTokens(d) == Sorted(UNION {d[i].tokens : i \in DOMAIN d})

\* getTokensByZone and getZones: a zone counts even if its instances have no tokens.
ZonesOf(d) == {d[i].zone : i \in DOMAIN d}
TokensOfZone(d, z) == Sorted(UNION {d[i].tokens : i \in {j \in DOMAIN d : d[j].zone = z}})

\* getTokensInfo.
OwnerOf(d, t) == CHOOSE i \in DOMAIN d : t \in d[i].tokens

(***************************************************************************)
(* searchToken: the first token greater than the key, or the first of all. *)
(***************************************************************************)
searchToken(tokens, key) ==
  LET after == {x \in 1..Len(tokens) : tokens[x] > key}
  IN IF after = {} THEN 1 ELSE Min(after)

\* The tokens in the order in which a walk that starts at key meets them.
WalkFrom(tokens, key) ==
  LET start == searchToken(tokens, key)
  IN SubSeq(tokens, start, Len(tokens)) \o SubSeq(tokens, 1, start - 1)

-----------------------------------------------------------------------------
NoSet == [ok |-> FALSE, instances |-> << >>, maxErrors |-> 0, maxZones |-> 0]

ReplicationSet(instances, maxErrors, maxZones) ==
  [ok |-> TRUE, instances |-> instances, maxErrors |-> maxErrors, maxZones |-> maxZones]

\* Fault: the quorum of the configured factor, however many replicas there are.
FilterQuorum_Factor(d, ids, op, rf) ==
  LET minSuccess == (rf \div 2) + 1
      healthy == SelectSeq(ids, LAMBDA i : IsHealthy(d[i], op))
  IN IF Len(healthy) < minSuccess THEN NoSet
     ELSE ReplicationSet(healthy, Len(healthy) - minSuccess, 0)

(***************************************************************************)
(* The default strategy: a quorum of the replicas found, dead ones counted *)
(* but not used.                                                           *)
(***************************************************************************)
FilterQuorum(d, ids, op, rf) ==
  LET minSuccess == (Max({rf, Len(ids)}) \div 2) + 1
      healthy == SelectSeq(ids, LAMBDA i : IsHealthy(d[i], op))
  IN IF Len(healthy) < minSuccess THEN NoSet
     ELSE ReplicationSet(healthy, Len(healthy) - minSuccess, 0)

(***************************************************************************)
(* The strategy that ignores unhealthy instances: one live replica will do.*)
(***************************************************************************)
FilterIgnoreUnhealthy(d, ids, op) ==
  LET healthy == SelectSeq(ids, LAMBDA i : IsHealthy(d[i], op))
  IN IF healthy = << >> THEN NoSet ELSE ReplicationSet(healthy, Len(healthy) - 1, 0)

\* Fault: an instance that extends the set also uses up its zone.
Visit_ZoneUsed(d, cfg, op, w, token) ==
  LET id == OwnerOf(d, token)
      zoned == cfg.zoneAware /\ d[id].zone # ""
      extends == ShouldExtendReplicaSetOnState(op, d[id].state)
  IN IF Len(w.hosts) >= w.n \/ id \in ToSet(w.hosts) \/ (zoned /\ d[id].zone \in w.zones)
     THEN w
     ELSE [hosts |-> Append(w.hosts, id),
           zones |-> IF zoned THEN w.zones \cup {d[id].zone} ELSE w.zones,
           n |-> IF extends THEN w.n + 1 ELSE w.n]

(***************************************************************************)
(* One step of Get's walk: an instance whose host and zone are new is      *)
(* taken; one that extends the set leaves its zone open to another.        *)
(***************************************************************************)
Visit(d, cfg, op, w, token) ==
  LET id == OwnerOf(d, token)
      zoned == cfg.zoneAware /\ d[id].zone # ""
      extends == ShouldExtendReplicaSetOnState(op, d[id].state)
  IN IF Len(w.hosts) >= w.n \/ id \in ToSet(w.hosts) \/ (zoned /\ d[id].zone \in w.zones)
     THEN w
     ELSE [hosts |-> Append(w.hosts, id),
           zones |-> IF zoned /\ ~extends THEN w.zones \cup {d[id].zone} ELSE w.zones,
           n |-> IF extends THEN w.n + 1 ELSE w.n]

Replicas(d, cfg, op, key) ==
  FoldLeft(LAMBDA w, t : Visit(d, cfg, op, w, t),
           [hosts |-> << >>, zones |-> {}, n |-> cfg.rf],
           WalkFrom(GetTokens(d), key)).hosts

Get(d, cfg, op, key) ==
  LET ids == Replicas(d, cfg, op, key)
  IN IF GetTokens(d) = << >> THEN NoSet
     ELSE IF cfg.quorum THEN FilterQuorum(d, ids, op, cfg.rf) ELSE FilterIgnoreUnhealthy(d, ids, op)

(***************************************************************************)
(* How many more zones may fail, if those in failed already have.          *)
(***************************************************************************)
SpareZones(d, cfg, failed) ==
  (Min({Cardinality(ZonesOf(d)), cfg.rf}) \div 2) - Cardinality(failed)

NumRequired(d, cfg) == Max({Cardinality(DOMAIN d), cfg.rf}) - (cfg.rf \div 2)

(***************************************************************************)
(* GetReplicationSetForOperation: all healthy instances, of which as many  *)
(* may fail as leave one of every quorum; with zone awareness whole zones  *)
(* are given up for one unhealthy instance.  The instances come in the     *)
(* order of a map; all that matters of it is which ones come last.         *)
(***************************************************************************)
GetReplicationSetForOperation(d, cfg, op) ==
  LET healthy == {i \in DOMAIN d : IsHealthy(d[i], op)}
      zoneFailures == {d[i].zone : i \in DOMAIN d \ healthy}
      used == {i \in healthy : d[i].zone \notin zoneFailures}
      spare == SpareZones(d, cfg, zoneFailures)
      extra == Cardinality(healthy) - NumRequired(d, cfg)
  IN IF GetTokens(d) = << >> THEN {NoSet}
     ELSE IF cfg.zoneAware
     THEN IF spare < 0 THEN {NoSet} ELSE {ReplicationSet(SetToSeq(used), 0, spare)}
     ELSE IF extra < 0 THEN {NoSet} ELSE {ReplicationSet(SetToSeq(healthy \ last) \o SetToSeq(last), extra, 0) :
             last \in kSubset(extra, healthy)}
=============================================================================
