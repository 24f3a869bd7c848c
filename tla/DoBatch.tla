------------------------------ MODULE DoBatch ------------------------------
(***************************************************************************)
(* ring/batch.go: DoBatch sends a batch of keys to the instances that the  *)
(* ring gives for each of them.  One goroutine per instance calls back and *)
(* then records the outcome for every key of that instance with atomic     *)
(* counters, in three steps for a key: the key's own counter, the batch's  *)
(* counter, the send to the caller's channel.                              *)
(*                                                                         *)
(* An instance is named by its address.                                    *)
(***************************************************************************)
EXTENDS Integers, Sequences, SequencesExt, FiniteSets, FiniteSetsExt

VARIABLES
  caller,       \* DoBatch itself: where it is, or what it returned
  numKeys,      \* how many keys it was given
  sets,         \* the replication sets of the keys looked up so far
  rpc,          \* the goroutine of each instance involved
  succeeded,    \* itemTracker.succeeded of each key
  failed,       \* itemTracker.failed of each key
  rpcsPending,  \* batchTracker.rpcsPending
  rpcsFailed,   \* batchTracker.rpcsFailed
  errSent,      \* how often tracker.err was sent to; it holds one error
  doneSent,     \* how often tracker.done was sent to; it holds one value
  cleanups,     \* how often cleanup was called
  acked         \* instances that had acknowledged each key when DoBatch returned

trackers == <<succeeded, failed, rpcsPending, rpcsFailed, errSent, doneSent>>
batchVars == <<caller, numKeys, sets, rpc, trackers, cleanups, acked>>

BatchKeys == 1..Len(sets)
minSuccess(k) == Len(sets[k].instances) - sets[k].maxErrors
maxFailures(k) == sets[k].maxErrors

NoRpc == [i \in {} |-> {}]

BatchInit ==
  /\ caller = "idle" /\ numKeys = 0
  /\ sets = << >> /\ rpc = NoRpc
  /\ succeeded = << >> /\ failed = << >>
  /\ rpcsPending = 0 /\ rpcsFailed = 0
  /\ errSent = 0 /\ doneSent = 0 /\ cleanups = 0
  /\ acked = << >>

-----------------------------------------------------------------------------
(***************************************************************************)
(* A call with n keys; r.InstancesCount() is instancesCount.               *)
(***************************************************************************)
BatchCall(n, instancesCount) ==
  /\ caller = "idle"
  /\ numKeys' = n
  /\ caller' = IF instancesCount <= 0 THEN "refused" ELSE "lookup"
  /\ cleanups' = IF instancesCount <= 0 THEN cleanups + 1 ELSE cleanups
  /\ UNCHANGED <<sets, rpc, trackers, acked>>

(***************************************************************************)
(* The ring answers rs for the next key.  Every lookup takes the ring's    *)
(* lock anew, so the keys of a batch may be spread by different rings.     *)
(***************************************************************************)
BatchGet(rs) ==
  /\ caller = "lookup" /\ Len(sets) < numKeys
  /\ caller' = IF rs.ok THEN caller ELSE "refused"
  /\ cleanups' = IF rs.ok THEN cleanups ELSE cleanups + 1
  /\ sets' = IF rs.ok THEN Append(sets, rs) ELSE sets
  /\ UNCHANGED <<numKeys, rpc, trackers, acked>>

\* The keys that go to instance i, which is in a replication set once at most.
IndexesOf(i) == {k \in BatchKeys : i \in ToSet(sets[k].instances)}

Involved == UNION {ToSet(sets[k].instances) : k \in BatchKeys}

(***************************************************************************)
(* All keys are looked up: the goroutines are started and DoBatch waits.   *)
(***************************************************************************)
BatchSpawn ==
  /\ caller = "lookup" /\ Len(sets) = numKeys
  /\ caller' = "waiting"
  /\ rpcsPending' = numKeys
  /\ succeeded' = [k \in BatchKeys |-> 0] /\ failed' = [k \in BatchKeys |-> 0]
  /\ rpc' = [i \in Involved |-> [pc |-> "calling", ok |-> FALSE, todo |-> IndexesOf(i)]]
  /\ UNCHANGED <<numKeys, sets, rpcsFailed, errSent, doneSent, cleanups, acked>>

(***************************************************************************)
(* The callback for instance i returns, with an error or without.          *)
(***************************************************************************)
CallbackReturns(i, ok) ==
  /\ rpc[i].pc = "calling"
  /\ rpc' = [rpc EXCEPT ![i].pc = "item", ![i].ok = ok]
  /\ UNCHANGED <<caller, numKeys, sets, trackers, cleanups, acked>>

\* The key that the goroutine of i is at: they are taken in the order of the batch.
Item(i) == Min(rpc[i].todo)

\* The goroutine of i is done with that key.
NextItem(i) ==
  LET rest == rpc[i].todo \ {Item(i)}
  IN [rpc EXCEPT ![i].todo = rest, ![i].pc = IF rest = {} THEN "finished" ELSE "item"]

\* Fault: one success too few is enough.
ReachesLimit_Early(i, k) ==
  IF rpc[i].ok THEN succeeded[k] + 2 = minSuccess(k) ELSE failed[k] + 1 > maxFailures(k)

(***************************************************************************)
(* Whether i's outcome decides key k: succeeded.Inc() is exactly           *)
(* minSuccess, or failed.Inc() exceeds maxFailures.                        *)
(***************************************************************************)
ReachesLimit(i, k) ==
  IF rpc[i].ok THEN succeeded[k] + 1 = minSuccess(k) ELSE failed[k] + 1 > maxFailures(k)

(***************************************************************************)
(* record, the key's counter.                                              *)
(***************************************************************************)
RecordItem(i) ==
  LET k == Item(i) IN
  /\ rpc[i].pc = "item"
  /\ succeeded' = IF rpc[i].ok THEN [succeeded EXCEPT ![k] = @ + 1] ELSE succeeded
  /\ failed' = IF rpc[i].ok THEN failed ELSE [failed EXCEPT ![k] = @ + 1]
  /\ rpc' = IF ReachesLimit(i, k) THEN [rpc EXCEPT ![i].pc = "batch"] ELSE NextItem(i)
  /\ UNCHANGED <<caller, numKeys, sets, rpcsPending, rpcsFailed, errSent, doneSent, cleanups, acked>>

\* Fault: every failed key sends its error.
EndsBatch_EveryError(i) == rpc[i].ok => rpcsPending = 1

\* The last pending key and the first failed one end the batch.
EndsBatch(i) == IF rpc[i].ok THEN rpcsPending - 1 = 0 ELSE rpcsFailed + 1 = 1

(***************************************************************************)
(* record, the batch's counter.                                            *)
(***************************************************************************)
RecordBatch(i) ==
  /\ rpc[i].pc = "batch"
  /\ rpcsPending' = IF rpc[i].ok THEN rpcsPending - 1 ELSE rpcsPending
  /\ rpcsFailed' = IF rpc[i].ok THEN rpcsFailed ELSE rpcsFailed + 1
  /\ rpc' = IF EndsBatch(i) THEN [rpc EXCEPT ![i].pc = "send"] ELSE NextItem(i)
  /\ UNCHANGED <<caller, numKeys, sets, succeeded, failed, errSent, doneSent, cleanups, acked>>

\* What is still in the two channels; the caller receives at most once.
InErr == errSent - (IF caller = "error" THEN 1 ELSE 0)
InDone == doneSent - (IF caller = "nil" THEN 1 ELSE 0)

(***************************************************************************)
(* record, the send: it blocks while the channel holds a value.            *)
(***************************************************************************)
RecordSend(i) ==
  /\ rpc[i].pc = "send"
  /\ IF rpc[i].ok THEN InDone < 1 ELSE InErr < 1
  /\ doneSent' = IF rpc[i].ok THEN doneSent + 1 ELSE doneSent
  /\ errSent' = IF rpc[i].ok THEN errSent ELSE errSent + 1
  /\ rpc' = NextItem(i)
  /\ UNCHANGED <<caller, numKeys, sets, succeeded, failed, rpcsPending, rpcsFailed, cleanups, acked>>

\* The instances whose callback has succeeded, or failed, for key k.
Acks(k) == {i \in DOMAIN rpc : rpc[i].ok /\ i \in ToSet(sets[k].instances)}
Nacks(k) == {i \in DOMAIN rpc : /\ rpc[i].pc # "calling" /\ ~rpc[i].ok
                                /\ i \in ToSet(sets[k].instances)}

(***************************************************************************)
(* DoBatch returns: with an error, with nil, or because its context ends.  *)
(***************************************************************************)
BatchReturns(result) ==
  /\ caller = "waiting"
  /\ \/ result = "error" /\ InErr > 0
     \/ result = "nil" /\ InDone > 0
     \/ result = "ctx"
  /\ caller' = result
  /\ acked' = [k \in BatchKeys |-> Acks(k)]
  /\ UNCHANGED <<numKeys, sets, rpc, trackers, cleanups>>

(***************************************************************************)
(* The goroutine that waits for all others and then calls cleanup.         *)
(***************************************************************************)
Cleanup ==
  /\ caller \in {"waiting", "nil", "error", "ctx"} /\ cleanups = 0
  /\ \A i \in DOMAIN rpc : rpc[i].pc = "finished"
  /\ cleanups' = 1
  /\ UNCHANGED <<caller, numKeys, sets, rpc, trackers, acked>>

(***************************************************************************)
(* DoBatch has returned and its goroutines have ended: its locals go.      *)
(***************************************************************************)
BatchOver ==
  /\ caller = "nil" /\ cleanups = 1
  /\ caller' = "over"
  /\ sets' = << >> /\ rpc' = NoRpc /\ succeeded' = << >> /\ failed' = << >>
  /\ rpcsPending' = 0 /\ rpcsFailed' = 0 /\ errSent' = 0 /\ doneSent' = 0
  /\ acked' = << >> /\ numKeys' = 0
  /\ UNCHANGED cleanups

Records(i) == RecordItem(i) \/ RecordBatch(i) \/ RecordSend(i)

-----------------------------------------------------------------------------
\* Every variable holds a value of its kind.
BatchTypeOK ==
  /\ caller \in {"idle", "lookup", "waiting", "refused", "error", "nil", "ctx", "over"}
  /\ Len(sets) <= numKeys /\ rpcsPending \in 0..numKeys /\ rpcsFailed \in Nat
  /\ \A i \in DOMAIN rpc :
       /\ rpc[i].pc \in {"calling", "item", "batch", "send", "finished"}
       /\ rpc[i].todo \subseteq BatchKeys /\ rpc[i].ok \in BOOLEAN
  /\ errSent \in Nat /\ doneSent \in Nat /\ cleanups \in Nat

(***************************************************************************)
(* "The use of atomic increments here guarantees only a single sendSamples *)
(* goroutine will write to either channel": one answer, never two, though  *)
(* successes and failures of different keys are recorded concurrently.     *)
(***************************************************************************)
OneAnswer ==
  /\ errSent + doneSent + Cardinality({i \in DOMAIN rpc : rpc[i].pc = "send"}) <= 1
  /\ doneSent = 1 => rpcsFailed = 0

(***************************************************************************)
(* nil is returned only when every key is acknowledged by a quorum of its  *)
(* replicas; an error only when some key no longer can be.                 *)
(***************************************************************************)
AnswerIsRight ==
  /\ caller = "nil" => \A k \in BatchKeys : Cardinality(acked[k]) >= minSuccess(k)
  /\ caller = "error" =>
       \E k \in BatchKeys : Cardinality(Nacks(k)) > maxFailures(k)

(***************************************************************************)
(* "cleanup() is always called, either on an error before starting the     *)
(* batches or after they all finish": once, and with no callback running.  *)
(***************************************************************************)
CleanupIsLast ==
  cleanups <= 1 /\ (cleanups = 1 => \A i \in DOMAIN rpc : rpc[i].pc = "finished")
=============================================================================
