----------------------------- MODULE QuorumOps -----------------------------
(***************************************************************************)
(* The ring client at work: a writer spreads a batch of keys with DoBatch, *)
(* and when that has returned nil a reader looks for them with             *)
(* ReplicationSet.Do, among the replicas of one key or among all instances *)
(* of the ring.  Nothing of the kind is promised with the strategy that    *)
(* ignores unhealthy instances.  Meanwhile the ring goes on changing:      *)
(* instances become ACTIVE, start to leave or stop sending heartbeats.     *)
(*                                                                         *)
(* The reader starts after the last callback of the writer.  What it must  *)
(* find is what was acknowledged when DoBatch returned.                    *)
(***************************************************************************)
EXTENDS RingClient, DoBatch, ReplicationSetDo

CONSTANTS
  Scenarios,   \* what a behaviour starts from: [desc, cfg, keys], keys a sequence of hashes
  MaxChanges   \* bound: changes of the ring

ASSUME ScenariosAssumption == \A s \in Scenarios : s.keys \in Seq(Int)

VARIABLES
  ring,      \* the ring client: [desc, cfg, keys]
  changes,   \* how often its descriptor has changed
  wanted     \* the instances that had acknowledged the key that is read

ringVars == <<ring, changes, wanted>>
vars == <<ringVars, batchVars, doVars>>

\* What is left of the ring when nobody looks at it any more.
NoRing == [desc |-> [i \in {} |-> {}], cfg |-> [rf |-> 1, zoneAware |-> FALSE, quorum |-> TRUE], keys |-> << >>]

Init ==
  /\ ring \in Scenarios
  /\ changes = 0 /\ wanted = {}
  /\ BatchInit /\ DoInit

-----------------------------------------------------------------------------
(***************************************************************************)
(* updateRingState with an update that keeps the tokens: one instance      *)
(* moves on, or its last heartbeat gets too old.  While the callbacks run  *)
(* nobody looks at the ring, and a change is the same as one afterwards.   *)
(***************************************************************************)
RingUpdate(i) ==
  LET inst == ring.desc[i] IN
  /\ changes < MaxChanges
  /\ (caller = "lookup" /\ sets # << >>) \/ (caller = "nil" /\ cleanups = 1)
  /\ \/ /\ inst.state \in {"PENDING", "JOINING"}
        /\ ring' = [ring EXCEPT !.desc[i].state = "ACTIVE"]
     \/ /\ inst.state = "ACTIVE"
        /\ ring' = [ring EXCEPT !.desc[i].state = "LEAVING"]
     \/ /\ inst.ts = "fresh"
        /\ ring' = [ring EXCEPT !.desc[i].ts = "old"]
  /\ changes' = changes + 1
  /\ UNCHANGED <<wanted, batchVars, doVars>>

WriteCall ==
  /\ BatchCall(Len(ring.keys), Cardinality(DOMAIN ring.desc))
  /\ UNCHANGED <<ringVars, doVars>>

WriteLookup ==
  /\ Len(sets) < numKeys
  /\ BatchGet(Get(ring.desc, ring.cfg, Write, ring.keys[Len(sets) + 1]))
  /\ UNCHANGED <<ringVars, doVars>>

WriteStep ==
  /\ \/ BatchSpawn \/ Cleanup
     \/ \E i \in DOMAIN rpc : (\E ok \in BOOLEAN : CallbackReturns(i, ok)) \/ Records(i)
     \/ \E result \in {"error", "nil", "ctx"} : BatchReturns(result)
  /\ UNCHANGED <<ringVars, doVars>>

-----------------------------------------------------------------------------
WithZones(rs) == [rs EXCEPT !.instances = [x \in DOMAIN @ |-> [id |-> @[x], zone |-> ring.desc[@[x]].zone]]]

(***************************************************************************)
(* The sets a reader may ask the ring for, to find key k.                  *)
(***************************************************************************)
ReadSets(k) ==
  {Get(ring.desc, ring.cfg, Read, ring.keys[k])}
    \cup GetReplicationSetForOperation(ring.desc, ring.cfg, Read)

ReadCall ==
  /\ ring.cfg.quorum /\ BatchOver
  /\ \E k \in BatchKeys : \E rs \in ReadSets(k), d \in BOOLEAN :
       /\ rs.ok
       /\ DoCall(WithZones(rs), d)
       /\ wanted' = acked[k]
  /\ ring' = NoRing /\ changes' = 0

ReadStep ==
  /\ \/ LoopEnds \/ (\E r \in ch : Receive(r)) \/ ForceStart \/ CtxEnds \/ DoCtxDone
     \/ \E i \in DOMAIN req : \/ TimerFires(i) \/ TakesForceStart(i) \/ Abandons(i)
                              \/ \E ok \in BOOLEAN : Answers(i, ok)
  /\ UNCHANGED <<ringVars, batchVars>>

Next ==
  \/ WriteCall \/ WriteLookup \/ WriteStep \/ ReadCall \/ ReadStep
  \/ \E i \in DOMAIN ring.desc : RingUpdate(i)

Spec == Init /\ [][Next]_vars

(***************************************************************************)
(* Callbacks and requests return, and the goroutines of both operations    *)
(* and of their callers run.  Nothing is assumed of the timers of requests *)
(* held back, nor of the contexts.                                         *)
(***************************************************************************)
Fairness ==
  /\ WF_vars(/\ BatchSpawn \/ Cleanup
                \/ \E i \in DOMAIN rpc : (\E ok \in BOOLEAN : CallbackReturns(i, ok)) \/ Records(i)
             /\ UNCHANGED <<ringVars, doVars>>)
  /\ WF_vars((BatchReturns("error") \/ BatchReturns("nil")) /\ UNCHANGED <<ringVars, doVars>>)
  /\ WF_vars(/\ \E i \in DOMAIN req : TakesForceStart(i) \/ \E ok \in BOOLEAN : Answers(i, ok)
             /\ UNCHANGED <<ringVars, batchVars>>)
  /\ WF_vars(/\ LoopEnds \/ (\E r \in ch : Receive(r)) \/ ForceStart \/ DoCtxDone
             /\ UNCHANGED <<ringVars, batchVars>>)

FairSpec == Spec /\ Fairness

-----------------------------------------------------------------------------
(***************************************************************************)
(* No send on a bounded channel blocks: DoBatch's goroutines send one      *)
(* answer between them, and the loop of Do, which also has to receive,     *)
(* sends no more starts than forceStart has room for.                      *)
(***************************************************************************)
SendsNeverBlock == OneAnswer /\ ForceStartHasRoom

(***************************************************************************)
(* The answer of DoBatch is that of a quorum for every key, whatever rings *)
(* they were looked up in, and cleanup waits for every callback.           *)
(***************************************************************************)
BatchIsRight == BatchTypeOK /\ AnswerIsRight /\ CleanupIsLast

(***************************************************************************)
(* A batch that DoBatch reports as written is seen by every read that Do   *)
(* reports as successful: one of the instances that had acknowledged a key *)
(* is among those that answered.                                           *)
(***************************************************************************)
ReadsSeeWrites == doPc = "ok" => wanted \cap {i.id : i \in gotOk} # {}

\* What the ring gives to both operations are replication sets.
IsReplicationSet(rs) ==
  rs.instances \in Seq(ToSet(rs.instances)) /\ rs.maxErrors \in Int /\ rs.maxZones \in Int

SetsAreTyped == (\A k \in BatchKeys : IsReplicationSet(sets[k])) /\ IsReplicationSet(rset)

(***************************************************************************)
(* The walk takes as many replicas that do not extend the set as the       *)
(* replication factor asks for and the ring has: instances, or zones if    *)
(* those count; and never one twice.  What both operations get of them are *)
(* replication sets.                                                       *)
(***************************************************************************)
GetFindsReplicas ==
  /\ SetsAreTyped
  /\ caller = "idle" =>
       \A op \in {Write, WriteNoExtend, Read, Reporting}, k \in ToSet(ring.keys) :
         LET d == ring.desc
             found == Replicas(d, ring.cfg, op, k)
             firm(S) == {i \in S : d[i].state \notin op.extend}
             place(i) == <<d[i].zone, IF ring.cfg.zoneAware /\ d[i].zone # "" THEN 0 ELSE i>>
         IN /\ IsInjective(found)
            /\ Cardinality(firm(ToSet(found))) = Min({ring.cfg.rf, Cardinality({place(i) : i \in firm(DOMAIN d)})})

(***************************************************************************)
(* Once the callbacks run, and as long as they return, DoBatch returns and *)
(* cleans up.                                                              *)
(***************************************************************************)
BatchAnswers ==
  (caller = "waiting") ~> (caller \in {"nil", "error", "ctx"} /\ cleanups = 1)

(***************************************************************************)
(* Do returns as long as the requests do, even if the timers of the        *)
(* requests held back never fire: the forced starts are enough.            *)
(***************************************************************************)
DoAnswers == (doPc # "idle") ~> DoReturned

(***************************************************************************)
(* DoBatch and Do return: each waits for callbacks that may fail, be late  *)
(* or be held back, and for nothing else.                                  *)
(***************************************************************************)
CallsReturn == BatchAnswers /\ DoAnswers
=============================================================================
