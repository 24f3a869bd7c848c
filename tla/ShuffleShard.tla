--------------------------- MODULE ShuffleShard ---------------------------
(***************************************************************************)
(* ring/ring.go: the subring of a tenant, its cache, and the subring with  *)
(* lookback, over a ring that changes.  The random numbers of the tenant   *)
(* are chosen once, as the generator's seed is the tenant's identifier     *)
(* (and the zone).                                                         *)
(*                                                                         *)
(* The ring sees a change in the second it is made, and an instance has    *)
(* its tokens from its registration on: a ring that is behind shortens the *)
(* lookback by as much.                                                    *)
(***************************************************************************)
EXTENDS RingClient, Functions

CONSTANTS Confs   \* configurations

VARIABLES
  conf,      \* zoneAware, excluded (zones), zone and tokens (of each instance), lookback; initial and size, what is
             \* registered at the beginning and the tenant's shard size then; keys, the numbers that are drawn from;
             \* and bounds: maxTime, maxChanges, maxSize, maxReads
  picks,     \* zone -> the numbers drawn in it
  ring,      \* [desc, topology]: ringDesc, lastTopologyChange
  cache,     \* shuffledSubringCache: shard size -> subring
  reader,    \* a ShuffleShard call: [pc, size, subring]
  size,      \* the tenant's shard size
  now,
  used,      \* what is used up of the bounds
  lastUsed,  \* instance -> when it was last part of the shard, -1 if not since it was registered
  reshaped   \* whether the zones have changed in a way the lookback does not follow

ringVars == <<ring, cache, lastUsed, reshaped>>
vars == <<conf, picks, ringVars, reader, size, now, used>>

Instances == DOMAIN conf.zone
NoSubring == [desc |-> <<>>, topology |-> -1]

-----------------------------------------------------------------------------
\* Fault: the number of instances is rounded down.
InstancesPerZone_Down(n, zones) == Max({n \div zones, 1})

\* ShuffleShardExpectedInstancesPerZone.
InstancesPerZone(n, zones) == (n + zones - 1) \div zones

\* Fault: an instance that was registered when the period began is taken for an older one.
WithinLookback_Strict(instance, lookback) == lookback > 0 /\ instance.reg > now - lookback

WithinLookback(instance, lookback) == lookback > 0 /\ instance.reg >= now - lookback

\* Fault: the number drawn is a position among the tokens.
WalkOf_Position(tokens, pick) ==
  LET start == (pick % Len(tokens)) + 1
  IN SubSeq(tokens, start, Len(tokens)) \o SubSeq(tokens, 1, start - 1)

WalkOf(tokens, pick) == WalkFrom(tokens, pick)

(***************************************************************************)
(* One more instance: the first of the walk that is new, and every one     *)
(* before it that was registered within the lookback period.  A walk that  *)
(* finds none ends the search in this zone.                                *)
(***************************************************************************)
SelectOne(d, tokens, lookback, acc, pick) ==
  LET walk == WalkOf(tokens, pick)
      new == {p \in DOMAIN walk : OwnerOf(d, walk[p]) \notin acc.shard}
      old == {p \in new : ~WithinLookback(d[OwnerOf(d, walk[p])], lookback)}
      taken == IF old = {} THEN new ELSE {p \in new : p <= Min(old)}
  IN IF acc.over \/ tokens = <<>> THEN acc
     ELSE [shard |-> acc.shard \cup {OwnerOf(d, walk[p]) : p \in taken}, over |-> old = {}]

SelectInZone(d, zone, tokens, n, lookback) ==
  FoldLeft(LAMBDA acc, pick : SelectOne(d, tokens, lookback, acc, pick),
           [shard |-> {}, over |-> FALSE], SubSeq(picks[zone], 1, n)).shard

shuffleShard(d, n, lookback) ==
  IF conf.zoneAware
  THEN UNION {SelectInZone(d, z, TokensOfZone(d, z), InstancesPerZone(n, Cardinality(ZonesOf(d))), lookback)
                : z \in ZonesOf(d)}
  ELSE SelectInZone(d, "", GetTokens(d), n, lookback)

\* A ring that is not larger than the shard is used as it is.
IsWhole(d, n) == n <= 0 \/ Cardinality(DOMAIN d) <= n

ShardOf(d, n) == IF IsWhole(d, n) THEN DOMAIN d ELSE shuffleShard(d, n, 0)
ShuffleShardWithLookback(d, n) == IF IsWhole(d, n) THEN DOMAIN d ELSE shuffleShard(d, n, conf.lookback)

-----------------------------------------------------------------------------
NewInstance(i) == [state |-> "ACTIVE", zone |-> conf.zone[i], tokens |-> conf.tokens[i], reg |-> now, ts |-> "fresh"]

Bounds == {"maxChanges", "maxReads"}
Zones == Range(conf.zone) \cup {""}

Use(bound) == used[bound] < conf[bound] /\ used' = [used EXCEPT ![bound] = @ + 1]

Init ==
  /\ conf \in Confs
  /\ now = 0
  /\ picks \in [IF conf.zoneAware THEN Zones \ {""} ELSE {""} -> [1..conf.maxSize -> conf.keys]]
  /\ ring = [desc |-> [i \in conf.initial |-> NewInstance(i)], topology |-> 0]
  /\ cache = [n \in 1..conf.maxSize |-> NoSubring]
  /\ reader = [pc |-> "idle", size |-> 1, subring |-> NoSubring]
  /\ size = conf.size
  /\ used = [b \in Bounds |-> 0]
  /\ lastUsed = [i \in Instances |-> IF i \in ShardOf(ring.desc, size) THEN 0 ELSE -1]
  /\ reshaped = FALSE

\* RingCompare: Different, or not.
Different(d, o) ==
  \/ DOMAIN d # DOMAIN o
  \/ \E i \in DOMAIN d : [d[i] EXCEPT !.state = o[i].state, !.ts = o[i].ts] # o[i]

\* A new zone leaves fewer instances to the others; and so does a ring that is not used as a whole any more.
Reshapes(d, o) ==
  LET perZone == InstancesPerZone(size, Cardinality(ZonesOf(o)))
  IN /\ conf.zoneAware
     /\ \/ Cardinality(ZonesOf(o)) > Cardinality(ZonesOf(d)) /\ d # <<>>
        \/ /\ IsWhole(d, size) /\ ~IsWhole(o, size)
           /\ \E z \in ZonesOf(d) : Cardinality({i \in DOMAIN d : d[i].zone = z}) > perZone

UsedNow(d, time) ==
  lastUsed' = [i \in Instances |-> IF i \notin DOMAIN d THEN -1
                                   ELSE IF i \in ShardOf(d, size') THEN time ELSE lastUsed[i]]

(***************************************************************************)
(* Called with what the store holds; instances of excluded zones are       *)
(* removed first.                                                          *)
(***************************************************************************)
updateRingState(kv) ==
  LET d == Restrict(kv, {i \in DOMAIN kv : kv[i].zone \notin conf.excluded})
      different == Different(ring.desc, d)
  IN /\ ring' = [desc |-> d, topology |-> IF different THEN ring.topology + 1 ELSE ring.topology]
     /\ cache' = IF different THEN [n \in DOMAIN cache |-> NoSubring] ELSE cache
     /\ reshaped' = (reshaped \/ Reshapes(ring.desc, d))
     /\ UNCHANGED size /\ UsedNow(d, now)
     /\ UNCHANGED <<conf, picks, reader, now>>

Registers(i) ==
  /\ i \notin DOMAIN ring.desc /\ Use("maxChanges")
  /\ updateRingState([j \in DOMAIN ring.desc \cup {i} |-> IF j = i THEN NewInstance(i) ELSE ring.desc[j]])

Unregisters(i) ==
  /\ i \in DOMAIN ring.desc /\ Use("maxChanges")
  /\ updateRingState(Restrict(ring.desc, DOMAIN ring.desc \ {i}))

StateChanges(i) ==
  /\ i \in DOMAIN ring.desc /\ ring.desc[i].state = "ACTIVE" /\ Use("maxChanges")
  /\ updateRingState([ring.desc EXCEPT ![i].state = "LEAVING"])

\* The limits of the tenant are raised.
SizeGrows ==
  /\ size < conf.maxSize /\ Use("maxChanges")
  /\ size' = size + 1
  /\ UsedNow(ring.desc, now)
  /\ UNCHANGED <<conf, picks, ring, cache, reshaped, reader, now>>

Tick ==
  /\ now < conf.maxTime
  /\ now' = now + 1
  /\ UNCHANGED size /\ UsedNow(ring.desc, now + 1)
  /\ UNCHANGED <<conf, picks, ring, cache, reshaped, reader, used>>

-----------------------------------------------------------------------------
\* getCachedShuffledSubring: state and timestamp are brought up to date, in the cache itself.
Refreshed(subring) ==
  [subring EXCEPT !.desc = [i \in DOMAIN @ |-> [@[i] EXCEPT !.state = ring.desc[i].state, !.ts = ring.desc[i].ts]]]

ReadsCache(n) ==
  /\ reader.pc = "idle" /\ ~IsWhole(ring.desc, n) /\ Use("maxReads")
  /\ IF cache[n] # NoSubring
     THEN cache' = [cache EXCEPT ![n] = Refreshed(@)] /\ UNCHANGED reader
     ELSE reader' = [reader EXCEPT !.pc = "compute", !.size = n] /\ UNCHANGED cache
  /\ UNCHANGED <<conf, picks, ring, lastUsed, reshaped, size, now>>

Computes ==
  /\ reader.pc = "compute"
  /\ reader' = [reader EXCEPT !.pc = "store",
       !.subring = [desc |-> Restrict(ring.desc, shuffleShard(ring.desc, reader.size, 0)), topology |-> ring.topology]]
  /\ UNCHANGED <<conf, picks, ringVars, size, now, used>>

\* Fault: what was computed is cached whatever has happened since.
SameTopology_Always(subring) == TRUE

SameTopology(subring) == subring.topology = ring.topology

setCachedShuffledSubring ==
  /\ reader.pc = "store"
  /\ cache' = IF SameTopology(reader.subring) THEN [cache EXCEPT ![reader.size] = reader.subring] ELSE cache
  /\ reader' = [reader EXCEPT !.pc = "idle", !.subring = NoSubring]
  /\ UNCHANGED <<conf, picks, ring, lastUsed, reshaped, size, now, used>>

CleanupShuffleShardCache ==
  /\ Use("maxReads")
  /\ cache' = [n \in DOMAIN cache |-> NoSubring]
  /\ UNCHANGED <<conf, picks, ring, lastUsed, reshaped, reader, size, now>>

-----------------------------------------------------------------------------
Next ==
  \/ \E i \in Instances : Registers(i) \/ Unregisters(i) \/ StateChanges(i)
  \/ SizeGrows \/ Tick
  \/ \E n \in DOMAIN cache : ReadsCache(n)
  \/ Computes \/ setCachedShuffledSubring \/ CleanupShuffleShardCache

Spec == Init /\ [][Next]_vars

-----------------------------------------------------------------------------
(***************************************************************************)
(* ShuffleShardWithLookback "includes all instances that have been part of *)
(* the identifier's shard since now - lookbackPeriod" and are still there, *)
(* through any sequence of registrations, removals, restarts and growing   *)
(* shards.                                                                 *)
(***************************************************************************)
LookbackIncludesAlways ==
  \A i \in DOMAIN ring.desc :
    (lastUsed[i] # -1 /\ lastUsed[i] >= now - conf.lookback) => i \in ShuffleShardWithLookback(ring.desc, size)

(***************************************************************************)
(* So it is as long as no zone is added and zones are not out of balance   *)
(* when the ring outgrows the shard.                                       *)
(***************************************************************************)
LookbackIncludes == ~reshaped => LookbackIncludesAlways

(***************************************************************************)
(* "Consistency: adding/removing 1 instance from the ring generates a      *)
(* resulting subring with no more then 1 difference": one instance added   *)
(* and one removed, with the same zones and, if there are several, a ring  *)
(* that is larger than the shard before and after.                         *)
(***************************************************************************)
Comparable(d, o) ==
  conf.zoneAware => (ZonesOf(d) = ZonesOf(o) /\ IsWhole(d, size) = IsWhole(o, size))

Consistency ==
  [][(size' = size /\ Comparable(ring.desc, ring'.desc)) =>
       LET before == ShardOf(ring.desc, size)
           after == ShardOf(ring'.desc, size)
       IN Cardinality(after \ before) <= 1 /\ Cardinality(before \ after) <= 1]_<<ring, size>>

(***************************************************************************)
(* "the returned subring will contain the same number of instances per     *)
(* zone as far as there are enough registered instances in the ring".      *)
(***************************************************************************)
ShardIsBalanced ==
  LET d == ring.desc
      InZone(S, z) == Cardinality({i \in S : d[i].zone = z})
      zones == Cardinality(ZonesOf(d))
  IN ~IsWhole(d, size) =>
       IF conf.zoneAware
       THEN \A z \in ZonesOf(d) : LET c == InZone(ShardOf(d, size), z) IN
              c = InZone(DOMAIN d, z) \/ (c * zones >= size /\ (c - 1) * zones < size)
       ELSE Cardinality(ShardOf(d, size)) = size

(***************************************************************************)
(* A subring in the cache is the one that would be computed now, but for   *)
(* states and timestamps, which are brought up to date when it is used,    *)
(* although it was computed under another lock than it was stored under.   *)
(***************************************************************************)
CacheIsFresh ==
  \A n \in DOMAIN cache :
    cache[n] # NoSubring =>
      /\ DOMAIN cache[n].desc = shuffleShard(ring.desc, n, 0)
      /\ Refreshed(cache[n]).desc = Restrict(ring.desc, DOMAIN cache[n].desc)
=============================================================================
