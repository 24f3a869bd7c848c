----------------------------- MODULE RingStore ----------------------------
(***************************************************************************)
(* ring/model.go, ring/util.go, ring/tokens.go: how the lifecyclers read   *)
(* and edit the ring descriptor inside a CAS, the CAS itself as they see   *)
(* it, and the tokens file.                                                *)
(*                                                                         *)
(* The value under the ring's key is [exists, ing]: nil, or a descriptor.  *)
(* ing maps instances to [state, tokens, ts, reg]: a set of tokens, the    *)
(* heartbeat, of which only "fresh" or "old" is kept, and the registration *)
(* timestamp.  Address and zone never change.                              *)
(***************************************************************************)
EXTENDS Integers, FiniteSets, FiniteSetsExt

CONSTANTS
  Instances,
  Other,        \* an instance whose lifecycler is not modelled
  TokenSpace,   \* all tokens
  Confs         \* configurations

ASSUME NumTokensAssumption == \A c \in Confs : c.numTokens \in Nat \ {0} /\ c.observe \in BOOLEAN

ASSUME NamesAssumption == Other \notin Instances /\ IsFiniteSet(TokenSpace)

ASSUME OldAssumption == \A c \in Confs : c.old \subseteq Instances

VARIABLES
  conf,        \* the configuration, and bounds: members, the instances that are started,
               \* maxStarts of all of them together, maxErrors of CAS calls,
               \* maxLosses of the whole ring, and aging, the instances whose
               \* heartbeats may get old; and old, the instances that an older version,
               \* which knew no registration times, has left in the ring
  ring,        \* the value of the ring's key
  disk,        \* the tokens file of each instance
  casErrors, losses

storeVars == <<conf, ring, disk, casErrors, losses>>

NilRing == [exists |-> FALSE, ing |-> [i \in {} |-> {}]]
NewRing(d) == [exists |-> TRUE, ing |-> d]

(***************************************************************************)
(* Registration times.  A time.Time is a number, 0 if it is the zero time, *)
(* "unknown".  An entry has it as 0 too; or, written by Unix(), as a large *)
(* negative number, which GetRegisteredAt reads as the zero time again.    *)
(***************************************************************************)
ZeroTime == -1
Unix(time) == IF time = 0 THEN ZeroTime ELSE time
GetRegisteredAt(reg) == IF reg = ZeroTime THEN 0 ELSE reg

Put(d, id, e) == [x \in DOMAIN d \cup {id} |-> IF x = id THEN e ELSE d[x]]

\* The zero time is written as 0 here.
AddIngester(d, id, tokens, state, time) ==
  Put(d, id, [state |-> state, tokens |-> tokens, ts |-> "fresh", reg |-> time])

RemoveIngester(d, id) == [x \in DOMAIN d \ {id} |-> d[x]]

\* The entry Go makes of a missing key: the zero value, whose state is ACTIVE.
ZeroEntry == [state |-> "ACTIVE", tokens |-> {}, ts |-> "old", reg |-> 0]
EntryOf(d, id) == IF id \in DOMAIN d THEN d[id] ELSE ZeroEntry

(***************************************************************************)
(* ClaimTokens moves all tokens of from to to, which keeps none of its own.*)
(***************************************************************************)
ClaimTokens(d, from, to) ==
  LET claimed == EntryOf(d, from).tokens
      rest == IF from \in DOMAIN d THEN [d EXCEPT ![from].tokens = {}] ELSE d
  IN Put(rest, to, [EntryOf(rest, to) EXCEPT !.tokens = claimed])

MyTokens(d, id) == EntryOf(d, id).tokens
TakenTokens(d) == UNION {d[x].tokens : x \in DOMAIN d}

(***************************************************************************)
(* The results GenerateTokens can have: any n tokens that are not taken.   *)
(***************************************************************************)
GenerateTokens(n, taken) == IF n <= 0 THEN {{}} ELSE kSubset(n, TokenSpace \ taken)

InstanceIsReady(e) == e.ts = "fresh" /\ e.state = "ACTIVE"
IsReady(d) == (\A x \in DOMAIN d : InstanceIsReady(d[x])) /\ TakenTokens(d) # {}

-----------------------------------------------------------------------------
(***************************************************************************)
(* What a CAS does for its caller.  Its function sees the current value    *)
(* and what it returns replaces that very value, or nothing does.  The     *)
(* error says nothing of what happened:                                    *)
(*    unreached  the function did not run                                  *)
(*    lost       it ran and its result was not stored                      *)
(*    late       its result was stored                                     *)
(* A function that is run again overwrites what it set before.             *)
(***************************************************************************)
Outcomes == {"ok", "unreached", "lost", "late"}
Ran(o) == o # "unreached"
IsStored(o) == o \in {"ok", "late"}

\* A CAS with outcome o that makes d the descriptor.
CAS(o, d) ==
  /\ ring' = IF IsStored(o) THEN NewRing(d) ELSE ring
  /\ casErrors' = IF o = "ok" THEN casErrors ELSE casErrors + 1
  /\ casErrors' <= conf.maxErrors

\* The file is written under another name and renamed: it is the old one or the new one.
StoreToFile(i, tokens) == disk' = IF conf.tokensFile THEN [disk EXCEPT ![i] = tokens] ELSE disk

\* What an older version has left: it was stopped, killed, or did not get to the end of joining.
OldEntries == [state : {"JOINING", "ACTIVE", "LEAVING"}, tokens : kSubset(conf.numTokens, TokenSpace),
               ts : {"fresh"}, reg : {0}]

StoreInit ==
  /\ conf \in Confs
  /\ \/ conf.old = {} /\ ring = NilRing
     \/ /\ conf.old # {}
        /\ \E d \in [conf.old -> OldEntries] :
             /\ \A i, j \in conf.old : i # j => d[i].tokens \cap d[j].tokens = {}
             /\ ring = NewRing(d)
  /\ disk = [i \in Instances |-> {}]
  /\ casErrors = 0 /\ losses = 0

-----------------------------------------------------------------------------
(***************************************************************************)
(* What happens to a ring by itself: heartbeats get old, the store loses   *)
(* everything, and a gossiped ring gives a token that two instances have   *)
(* chosen to the other one.                                                *)
(***************************************************************************)
HeartbeatAges(i) ==
  /\ i \in conf.aging \cap DOMAIN ring.ing /\ ring.ing[i].ts = "fresh"
  /\ ring' = [ring EXCEPT !.ing[i].ts = "old"]
  /\ UNCHANGED <<conf, disk, casErrors, losses>>

LosesRing ==
  /\ ring.exists /\ losses < conf.maxLosses
  /\ ring' = NilRing /\ losses' = losses + 1
  /\ UNCHANGED <<conf, disk, casErrors>>

LosesToken(i) ==
  /\ conf.observe /\ Other \notin DOMAIN ring.ing
  /\ i \in DOMAIN ring.ing /\ ring.ing[i].state = "JOINING"
  /\ \E t \in ring.ing[i].tokens :
       ring' = NewRing(AddIngester([ring.ing EXCEPT ![i].tokens = @ \ {t}], Other, {t}, "ACTIVE", 1))
  /\ UNCHANGED <<conf, disk, casErrors, losses>>

ActiveInRing(i) == i \in DOMAIN ring.ing /\ ring.ing[i].state = "ACTIVE"

(***************************************************************************)
(* As long as the store keeps the ring, no token in it has two owners:     *)
(* neither joins, replaced tokens and handovers nor restarts give one away *)
(* twice.  (The tokens of a file, and those of an instance that AutoForget *)
(* has removed, are registered without looking whose they are by then.)    *)
(***************************************************************************)
TokensHaveOneOwner ==
  (losses = 0 /\ ~conf.tokensFile /\ ~conf.forget) =>
    \A i, j \in DOMAIN ring.ing : i # j => ring.ing[i].tokens \cap ring.ing[j].tokens = {}

(***************************************************************************)
(* As long as an entry stays in the ring its registration time does, with  *)
(* restarts, handovers and failing updates, and if it is unknown it stays  *)
(* unknown: the time that GetRegisteredAt reads, not the number, of which  *)
(* UnknownIsLeft speaks.                                                   *)
(***************************************************************************)
RegistrationIsKept ==
  [][losses = 0 => \A i \in DOMAIN ring.ing \cap DOMAIN ring'.ing :
                     GetRegisteredAt(ring'.ing[i].reg) = GetRegisteredAt(ring.ing[i].reg)]_ring

(***************************************************************************)
(* ring.proto: "If unknown (0), it should be left as is".  The heartbeat   *)
(* of the full lifecycler writes Unix() of the zero time instead.          *)
(***************************************************************************)
UnknownIsLeft ==
  [][\A i \in DOMAIN ring.ing \cap DOMAIN ring'.ing : ring.ing[i].reg = 0 => ring'.ing[i].reg = 0]_ring
=============================================================================
