--------------------------- MODULE MemberlistKV ---------------------------
(***************************************************************************)
(* kv/memberlist/memberlist_client.go and broadcast.go: the gossiped KV    *)
(* store on every node of a cluster, holding a ring descriptor under one   *)
(* key (keys do not interact), its CAS callers, the goroutines that handle *)
(* messages and push/pull states, the broadcast queues and WatchKey loops. *)
(* Everything done under storeMu or watchersMu is one step.                *)
(*                                                                         *)
(* The network delivers what is sent to any node, any number of times,     *)
(* late or never.  A node may stop or crash, and comes back with an empty  *)
(* store.                                                                  *)
(***************************************************************************)
EXTENDS RingDesc

CONSTANTS
  Nodes,        \* members of the gossip cluster
  Watchers,     \* nodes with a WatchKey loop
  Callers,      \* concurrent CAS callers on each node
  OwnTokens,    \* the tokens each instance registers with
  Homes,        \* the nodes each instance runs on, over time
  LeftTimeout,  \* cfg.LeftIngestersTimeout in seconds, 0 for never
  MaxRetries,   \* m.maxCasRetries
  MaxTime,      \* bound on the clock
  MaxCas,       \* bound on the CAS calls
  MaxStops      \* bound on stops and crashes

ASSUME OwnTokensAssumption == OwnTokens \in [Instances -> SUBSET Tokens]
ASSUME WatchersAssumption == Watchers \subseteq Nodes
ASSUME HomesAssumption == Homes \in [Instances -> SUBSET Nodes]
ASSUME BoundsAssumption ==
  /\ LeftTimeout \in Nat /\ MaxRetries \in Nat
  /\ MaxTime \in Nat \ {0} /\ MaxCas \in Nat /\ MaxStops \in Nat

VARIABLES
  now,      \* wall clock, in seconds
  life,     \* state of each node's KV service
  store,    \* value and version under the key, on each node
  cas,      \* each CAS call
  todo,     \* merges whose watchers and peers have yet to be told
  queue,    \* broadcasts queued on each node
  net,      \* changes and full states that have been sent to peers
  watch,    \* the WatchKey loop of each node
  calls,    \* number of CAS calls so far
  stops     \* number of stops and crashes so far

vars == <<now, life, store, cas, todo, queue, net, watch, calls, stops>>

(***************************************************************************)
(* A node without a value under the key: the version is 0.                 *)
(***************************************************************************)
NoStore == [value |-> NewDesc, version |-> 0]
NoCall == [pc |-> "idle", retries |-> 0, ver |-> 0, read |-> NewDesc, out |-> NewDesc, at |-> 0]
NoWatch == [pc |-> "waiting", notified |-> FALSE, seen |-> NewDesc]

Up(n) == life[n] # "Down"

Init ==
  /\ now = 1
  /\ life = [n \in Nodes |-> "Running"]
  /\ store = [n \in Nodes |-> NoStore]
  /\ cas = [n \in Nodes |-> [c \in Callers |-> NoCall]]
  /\ todo = {}
  /\ queue = [n \in Nodes |-> {}]
  /\ net = {}
  /\ watch = [n \in Nodes |-> NoWatch]
  /\ calls = 0 /\ stops = 0

Tick ==
  /\ now < MaxTime
  /\ now' = now + 1
  /\ UNCHANGED <<life, store, cas, todo, queue, net, watch, calls, stops>>

-----------------------------------------------------------------------------
(***************************************************************************)
(* Get: the value without tombstones; a client takes nil for an empty ring.*)
(***************************************************************************)
Visible(n) == RemoveAllTombstones(store[n].value)

(***************************************************************************)
(* computeNewValue: what the store holds after the merge, and the change.  *)
(***************************************************************************)
NewValue(old, in, localCAS) ==
  IF old.version = 0 THEN in ELSE Merged(old.value, in, localCAS, now)

Change(old, in, localCAS) ==
  IF old.version = 0 THEN in ELSE MergeChange(old.value, in, localCAS, now)

(***************************************************************************)
(* RemoveTombstones with the limit now - LeftIngestersTimeout.             *)
(***************************************************************************)
Expire(d) ==
  IF LeftTimeout > 0 THEN RemoveTombstones(d, IF now > LeftTimeout THEN now - LeftTimeout ELSE 0)
  ELSE d

\* Fault: m.store is written without counting up the version.
Stored_SameVersion(old, v, change) ==
  IF change # NewDesc THEN [value |-> v, version |-> IF old.version = 0 THEN 1 ELSE old.version]
  ELSE IF old.version > 0 THEN [old EXCEPT !.value = v] ELSE old

(***************************************************************************)
(* The store after a merge that leads to value v.  The old value is merged *)
(* into in place, so v stays even when the change turns out to be empty    *)
(* and m.store is not written; only a nil value has nothing to merge into. *)
(***************************************************************************)
Stored(old, v, change) ==
  IF change # NewDesc THEN [value |-> v, version |-> old.version + 1]
  ELSE IF old.version > 0 THEN [old EXCEPT !.value = v] ELSE old

(***************************************************************************)
(* What the goroutine that merged has to do next: tell the watchers and,   *)
(* after a CAS only if the service is Running, the peers of the change.    *)
(***************************************************************************)
Tasks(n, change, version, always) ==
  {t \in {[node |-> n, step |-> "notify", always |-> always,
           change |-> change, version |-> version]} : change # NewDesc}

(***************************************************************************)
(* mergeValueForKey on node n, after the check of the version.             *)
(***************************************************************************)
MergeValue(n, in, localCAS, always) ==
  LET old == store[n]
      change == Expire(Change(old, in, localCAS))
      value == IF Change(old, in, localCAS) = NewDesc THEN old.value
               ELSE Expire(NewValue(old, in, localCAS))
  IN /\ store' = [store EXCEPT ![n] = Stored(old, value, change)]
     /\ todo' = todo \cup Tasks(n, change, old.version + 1, always)

MergeIsChange(n, in, localCAS) == Expire(Change(store[n], in, localCAS)) # NewDesc

-----------------------------------------------------------------------------
(***************************************************************************)
(* What a ring client's CAS function makes of the ring d: an instance of   *)
(* this node is registered or heartbeats, possibly leaving, or any one is  *)
(* removed.                                                                *)
(***************************************************************************)
Heartbeat(d, i, s) ==
  [j \in DOMAIN d \cup {i} |->
     IF j # i THEN d[j]
     ELSE [state |-> s, ts |-> now,
           tokens |-> IF i \in DOMAIN d THEN d[i].tokens ELSE OwnTokens[i]]]

Outputs(n, d) ==
  {Heartbeat(d, i, s) : i \in {j \in Instances : n \in Homes[j]}, s \in {"ACTIVE", "LEAVING"}}
    \cup {Restricted(d, DOMAIN d \ {i}) : i \in DOMAIN d}

(***************************************************************************)
(* CAS is called; the client waits for a KV that is Running or Stopping.   *)
(***************************************************************************)
Cas(n, c) ==
  /\ Up(n) /\ cas[n][c].pc = "idle" /\ calls < MaxCas
  /\ calls' = calls + 1
  /\ cas' = [cas EXCEPT ![n][c] = [NoCall EXCEPT !.pc = "try", !.retries = MaxRetries]]
  /\ UNCHANGED <<now, life, store, todo, queue, net, watch, stops>>

(***************************************************************************)
(* trySingleCas reads the value and its version and calls f, which returns *)
(* a new value, or nil or an error that ends the call.                     *)
(***************************************************************************)
CasRead(n, c) ==
  /\ cas[n][c].pc = "try" /\ cas[n][c].retries > 0
  /\ \E out \in Outputs(n, Visible(n)) :
       cas' = [cas EXCEPT ![n][c] = [@ EXCEPT !.pc = "merge", !.ver = store[n].version,
                                              !.read = Visible(n), !.out = out]]
  /\ UNCHANGED <<now, life, store, todo, queue, net, watch, calls, stops>>

CasGivesUp(n, c) ==
  /\ cas[n][c].pc \in {"try", "sleep"}
  /\ cas' = [cas EXCEPT ![n][c] = NoCall]
  /\ UNCHANGED <<now, life, store, todo, queue, net, watch, calls, stops>>

(***************************************************************************)
(* casVersion 0 stands for no previous value: nothing is compared.         *)
(***************************************************************************)
VersionMismatch(n, c) == cas[n][c].ver > 0 /\ store[n].version # cas[n][c].ver

CasMismatch(n, c) ==
  /\ cas[n][c].pc = "merge" /\ VersionMismatch(n, c)
  /\ cas' = [cas EXCEPT ![n][c] = [NoCall EXCEPT !.pc = "try", !.retries = cas[n][c].retries - 1]]
  /\ UNCHANGED <<now, life, store, todo, queue, net, watch, calls, stops>>

(***************************************************************************)
(* The merge of f's output; without a change the call sleeps for a second  *)
(* and tries again.                                                        *)
(***************************************************************************)
CasMerge(n, c) ==
  LET k == cas[n][c] IN
  /\ k.pc = "merge" /\ ~VersionMismatch(n, c)
  /\ MergeValue(n, k.out, k.ver > 0, FALSE)
  /\ cas' = [cas EXCEPT ![n][c] =
               IF MergeIsChange(n, k.out, k.ver > 0) THEN NoCall
               ELSE [NoCall EXCEPT !.pc = "sleep", !.retries = k.retries - 1, !.at = now]]
  /\ UNCHANGED <<now, life, queue, net, watch, calls, stops>>

CasWakes(n, c) ==
  /\ cas[n][c].pc = "sleep" /\ now > cas[n][c].at
  /\ cas' = [cas EXCEPT ![n][c] = [@ EXCEPT !.pc = "try"]]
  /\ UNCHANGED <<now, life, store, todo, queue, net, watch, calls, stops>>

-----------------------------------------------------------------------------
\* Fault: a watcher that is not waiting is not notified.
Notify_Unbuffered(t) ==
  /\ t \in todo /\ t.step = "notify"
  /\ watch' = [watch EXCEPT ![t.node].notified = @ \/ (t.node \in Watchers /\ watch[t.node].pc = "waiting")]
  /\ todo' = (todo \ {t}) \cup {[t EXCEPT !.step = "broadcast"]}
  /\ UNCHANGED <<now, life, store, cas, queue, net, calls, stops>>

(***************************************************************************)
(* notifyWatchers: the channel holds one notification.                     *)
(***************************************************************************)
Notify(t) ==
  /\ t \in todo /\ t.step = "notify"
  /\ watch' = [watch EXCEPT ![t.node].notified = t.node \in Watchers]
  /\ todo' = (todo \ {t}) \cup {[t EXCEPT !.step = "broadcast"]}
  /\ UNCHANGED <<now, life, store, cas, queue, net, calls, stops>>

\* Fault: a newer broadcast replaces an older one of other instances.
Invalidates_AnyContent(new, old) == new.version >= old.version

(***************************************************************************)
(* ringBroadcast.Invalidates.                                              *)
(***************************************************************************)
Invalidates(new, old) ==
  DOMAIN old.change \subseteq DOMAIN new.change /\ new.version >= old.version

(***************************************************************************)
(* broadcastNewValue; TransmitLimitedQueue drops what the new broadcast    *)
(* invalidates.                                                            *)
(***************************************************************************)
Broadcast(t) ==
  /\ t \in todo /\ t.step = "broadcast"
  /\ todo' = todo \ {t}
  /\ LET b == [change |-> t.change, version |-> t.version] IN
       IF t.always \/ life[t.node] = "Running"
       THEN queue' = [queue EXCEPT ![t.node] = {o \in @ : ~Invalidates(b, o)} \cup {b}]
       ELSE UNCHANGED queue
  /\ UNCHANGED <<now, life, store, cas, net, watch, calls, stops>>

(***************************************************************************)
(* GetBroadcasts: a queued broadcast goes out.  Sending it again would add *)
(* nothing, as the network may deliver it any number of times.             *)
(***************************************************************************)
Gossip(n, b) ==
  /\ Up(n) /\ b \in queue[n]
  /\ net' = net \cup {b.change}
  /\ queue' = [queue EXCEPT ![n] = @ \ {b}]
  /\ UNCHANGED <<now, life, store, cas, todo, watch, calls, stops>>

(***************************************************************************)
(* NotifyMsg, for a change some node has sent.                             *)
(***************************************************************************)
NotifyMsg(n, ch) ==
  /\ Up(n)
  /\ MergeValue(n, ch, FALSE, TRUE)
  /\ UNCHANGED <<now, life, cas, queue, net, watch, calls, stops>>

(***************************************************************************)
(* Push/pull.  While a state is on its way both stores go on: it may be    *)
(* old when it is merged, and the node it is from down or empty by then.   *)
(* A state without instances would change nothing.                         *)
(***************************************************************************)
LocalState(n) ==
  /\ Up(n) /\ store[n].value # NewDesc
  /\ net' = net \cup {store[n].value}
  /\ UNCHANGED <<now, life, store, cas, todo, queue, watch, calls, stops>>

MergeRemoteState(n, d) ==
  /\ Up(n)
  /\ MergeValue(n, d, FALSE, TRUE)
  /\ UNCHANGED <<now, life, cas, queue, net, watch, calls, stops>>

-----------------------------------------------------------------------------
(***************************************************************************)
(* WatchKey: the loop takes the notification, then reads the value, calls  *)
(* f with it and returns from f.                                           *)
(***************************************************************************)
WatchTakes(n) ==
  /\ Up(n) /\ watch[n].pc = "waiting" /\ watch[n].notified
  /\ watch' = [watch EXCEPT ![n] = [@ EXCEPT !.pc = "reading", !.notified = FALSE]]
  /\ UNCHANGED <<now, life, store, cas, todo, queue, net, calls, stops>>

WatchReads(n) ==
  /\ Up(n) /\ watch[n].pc = "reading"
  /\ watch' = [watch EXCEPT ![n] = [@ EXCEPT !.pc = "calling", !.seen = Visible(n)]]
  /\ UNCHANGED <<now, life, store, cas, todo, queue, net, calls, stops>>

WatchReturns(n) ==
  /\ Up(n) /\ watch[n].pc = "calling"
  /\ watch' = [watch EXCEPT ![n].pc = "waiting"]
  /\ UNCHANGED <<now, life, store, cas, todo, queue, net, calls, stops>>

-----------------------------------------------------------------------------
(***************************************************************************)
(* The service is told to stop.  stopping() waits for the queue to drain,  *)
(* but not for long; then, or in a crash, everything on the node is lost.  *)
(***************************************************************************)
Stop(n) ==
  /\ life[n] = "Running" /\ stops < MaxStops
  /\ life' = [life EXCEPT ![n] = "Stopping"]
  /\ stops' = stops + 1
  /\ UNCHANGED <<now, store, cas, todo, queue, net, watch, calls>>

Down(n) ==
  /\ life' = [life EXCEPT ![n] = "Down"]
  /\ store' = [store EXCEPT ![n] = NoStore]
  /\ cas' = [cas EXCEPT ![n] = [c \in Callers |-> NoCall]]
  /\ todo' = {t \in todo : t.node # n}
  /\ queue' = [queue EXCEPT ![n] = {}]
  /\ watch' = [watch EXCEPT ![n] = NoWatch]

Shutdown(n) ==
  /\ life[n] = "Stopping"
  /\ Down(n)
  /\ UNCHANGED <<now, net, calls, stops>>

Crash(n) ==
  /\ life[n] = "Running" /\ stops < MaxStops
  /\ Down(n)
  /\ stops' = stops + 1
  /\ UNCHANGED <<now, net, calls>>

Restart(n) ==
  /\ life[n] = "Down"
  /\ life' = [life EXCEPT ![n] = "Running"]
  /\ UNCHANGED <<now, store, cas, todo, queue, net, watch, calls, stops>>

-----------------------------------------------------------------------------
Next ==
  \/ Tick
  \/ \E n \in Nodes :
       \/ \E c \in Callers :
            \/ Cas(n, c) \/ CasRead(n, c) \/ CasGivesUp(n, c)
            \/ CasMismatch(n, c) \/ CasMerge(n, c) \/ CasWakes(n, c)
       \/ \E b \in queue[n] : Gossip(n, b)
       \/ LocalState(n)
       \/ \E ch \in net : NotifyMsg(n, ch) \/ MergeRemoteState(n, ch)
       \/ WatchTakes(n) \/ WatchReads(n) \/ WatchReturns(n)
       \/ Stop(n) \/ Shutdown(n) \/ Crash(n) \/ Restart(n)
  \/ \E t \in todo : Notify(t) \/ Broadcast(t)

Spec == Init /\ [][Next]_vars

(***************************************************************************)
(* Goroutines proceed, and every node keeps pulling from every other:      *)
(* memberlist runs push/pull periodically with a random peer, so that what *)
(* a node holds for good gets to the others.                               *)
(***************************************************************************)
Fairness ==
  /\ \A n \in Nodes :
       /\ WF_vars(WatchTakes(n)) /\ WF_vars(WatchReads(n)) /\ WF_vars(WatchReturns(n))
       /\ WF_vars(Shutdown(n)) /\ WF_vars(Restart(n))
       /\ WF_vars(LocalState(n))
       /\ \A p \in Nodes : WF_vars(\E d \in net : d = store[p].value /\ MergeRemoteState(n, d))
  /\ WF_vars(\E t \in todo : Notify(t) \/ Broadcast(t))

FairSpec == Spec /\ Fairness

-----------------------------------------------------------------------------
(***************************************************************************)
(* Every variable holds a value of its kind.                               *)
(***************************************************************************)
TypeOK ==
  /\ now \in 1..MaxTime
  /\ life \in [Nodes -> {"Running", "Stopping", "Down"}]
  /\ \A n \in Nodes : IsDesc(store[n].value) /\ store[n].version \in Nat
  /\ \A n \in Nodes, c \in Callers :
       /\ cas[n][c].pc \in {"idle", "try", "merge", "sleep"}
       /\ cas[n][c].retries \in 0..MaxRetries
       /\ IsDesc(cas[n][c].out)
  /\ \A ch \in net : IsDesc(ch) /\ ch # NewDesc
  /\ \A t \in todo : IsDesc(t.change) /\ t.change # NewDesc /\ t.version \in 1..store[t.node].version
  /\ \A n \in Nodes : watch[n].pc \in {"waiting", "reading", "calling"} /\ watch[n].notified \in BOOLEAN

(***************************************************************************)
(* trySingleCas: "we will only allow CAS operation to succeed if version   *)
(* hasn't changed, i.e. state hasn't changed since running 'f'."  It holds *)
(* as long as no tombstone expires (LeftTimeout = 0): a change that        *)
(* consists of expired tombstones alters the value and not the version.    *)
(***************************************************************************)
CasSeesCurrentValue ==
  \A n \in Nodes, c \in Callers :
    cas[n][c].pc = "merge" /\ cas[n][c].ver > 0 /\ ~VersionMismatch(n, c) =>
      cas[n][c].read = Visible(n)

(***************************************************************************)
(* WatchKey: "When value changes, 'f' function is called with the latest   *)
(* value."  A watcher that has nothing left to do has seen the value, if   *)
(* it was registered before the value changed: watchers are there from the *)
(* start, as one that comes later hears nothing until the next change.     *)
(***************************************************************************)
WatcherUpToDate ==
  \A n \in Watchers :
    /\ Up(n) /\ watch[n].pc = "waiting" /\ ~watch[n].notified
    /\ \A t \in todo : t.node = n => t.step # "notify"
    => watch[n].seen = Visible(n)

(***************************************************************************)
(* What a Running node knows has been sent, or is about to be sent, by     *)
(* some node, as a change or with a full state: invalidating queued        *)
(* broadcasts loses nothing, though several goroutines of a node queue     *)
(* their changes in any order.                                             *)
(***************************************************************************)
Travelling ==
  net \cup {t.change : t \in todo} \cup {b.change : b \in UNION {queue[n] : n \in Nodes}}

NothingIsKeptBack ==
  \A n \in Nodes, i \in Instances :
    life[n] = "Running" /\ Rank(store[n].value, i) > 0 =>
      \E ch \in Travelling : Rank(ch, i) >= Rank(store[n].value, i)

(***************************************************************************)
(* The store of a node never goes back to an older entry while it is up: a *)
(* CAS based on an old value, a late message or a peer that was restarted  *)
(* never undoes an update or resurrects an instance.                       *)
(***************************************************************************)
StoreNeverGoesBack ==
  [][\A n \in Nodes, i \in Instances :
       life'[n] # "Down" => Rank(store[n].value, i) <= Rank(store'[n].value, i)]_vars

(***************************************************************************)
(* No two instances in a store own the same token.                         *)
(***************************************************************************)
TokensHaveOneOwner ==
  \A n \in Nodes : ~conflictingTokensExist(store[n].value)

(***************************************************************************)
(* A store holds a ring without conflicts, and what it holds is on its way *)
(* to the others, through CAS calls, messages, push/pull and restarts.     *)
(***************************************************************************)
NodesAreSound == TypeOK /\ TokensHaveOneOwner /\ NothingIsKeptBack

(***************************************************************************)
(* Once the clients are silent the stores come to agree, even if every     *)
(* broadcast is lost.                                                      *)
(***************************************************************************)
Converges ==
  <>[](\A n, p \in Nodes : store[n].value = store[p].value)
=============================================================================
