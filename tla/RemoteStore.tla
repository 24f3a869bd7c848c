---------------------------- MODULE RemoteStore ---------------------------
(***************************************************************************)
(* kv/consul and kv/etcd: the kv.Clients for the two remote stores, over   *)
(* the in-memory stores of the same packages (mock.go).  conf.store says   *)
(* which of the two, conf.keys what is written, conf.watch what is watched *)
(* ("key" or "prefix").                                                   *)
(*                                                                         *)
(* A value is the set of the CAS calls that went into it: every call has a *)
(* number, and its function adds that number to what it is given.          *)
(***************************************************************************)
EXTENDS KVConf, Sequences, FiniteSets

CONSTANTS
  Keys,
  Callers,
  MaxRetries,   \* of a CAS
  Buffer        \* channelBufferSize of the etcd store

ASSUME RemoteStoreAssumption == Keys # {} /\ MaxRetries \in Nat \ {0} /\ Buffer \in Nat \ {0}

VARIABLES
  kvps,      \* key -> [exists, value, created, index]: CreateIndex, and ModifyIndex or Version
  current,   \* Consul's index in the log
  call,      \* caller -> its CAS
  watch      \* the watcher

storeVars == <<kvps, current>>
remoteVars == <<storeVars, call, watch>>

NoEntry == [exists |-> FALSE, value |-> {}, created |-> 0, index |-> 0]

NoCall == [pc |-> "idle", key |-> CHOOSE k \in Keys : TRUE, mark |-> 0, tries |-> 0, index |-> 0,
           in |-> {}, got |-> NoEntry]

IsConsul == conf.store = "consul"

-----------------------------------------------------------------------------
(***************************************************************************)
(* The watcher.  seen is what its callback was last given of each key.     *)
(* consul: asking, or waiting for the index of its query to change.        *)
(* etcd: events on their way through the two channels; lost, the keys      *)
(* whose last event was dropped because a channel was full or no watch was *)
(* registered.                                                             *)
(***************************************************************************)
InitWatch ==
  [pc |-> IF IsConsul THEN "ask" ELSE "off", index |-> 0, start |-> 0, seen |-> [k \in Keys |-> {}],
   consumer |-> <<>>, watcher |-> <<>>, lost |-> {}]

RemoteInit ==
  /\ kvps = [k \in Keys |-> NoEntry]
  /\ current = 1
  /\ call = [c \in Callers |-> NoCall]
  /\ watch = InitWatch

\* Watched(k): a change of k matches the watch.
Watched(k) == conf.watch = "prefix" \/ k = NoCall.key

(***************************************************************************)
(* sendEvent never blocks.                                                 *)
(***************************************************************************)
sendEvent(k, value) ==
  watch' = IF IsConsul THEN watch
           ELSE IF watch.pc = "off" \/ Len(watch.consumer) >= Buffer
                THEN [watch EXCEPT !.lost = @ \cup {k}]
           ELSE [watch EXCEPT !.lost = @ \ {k}, !.consumer = Append(@, [key |-> k, value |-> value])]

\* Fault: the number of an entry stays when it is written.
NextIndex_Same(k) == IF kvps[k].exists THEN kvps[k].index ELSE current + 1

\* Consul numbers all changes; etcd counts the versions of a key, from 1 whenever it is created.
NextIndex(k) == IF IsConsul THEN current + 1 ELSE kvps[k].index + 1

Write(k, value) ==
  /\ kvps' = [kvps EXCEPT ![k] = [exists |-> TRUE, value |-> value, index |-> NextIndex(k),
                                 created |-> IF @.exists THEN @.created ELSE NextIndex(k)]]
  /\ current' = IF IsConsul THEN current + 1 ELSE current
  /\ sendEvent(k, value)

\* Consul's store compares with an entry that exists only; etcd's entry that does not has version 0.
Matches(k, index) == IF IsConsul THEN kvps[k].exists => kvps[k].index = index ELSE kvps[k].index = index

\* Neither client looks whether the key exists; the event of the etcd store has the old value.
Delete(k) ==
  /\ kvps[k].exists /\ Use("maxDeletes")
  /\ kvps' = [kvps EXCEPT ![k] = NoEntry]
  /\ sendEvent(k, kvps[k].value)
  /\ UNCHANGED <<conf, current, call>>

\* Consul starts again and counts from the beginning, as a whole or for one key.
ResetIndex ==
  /\ IsConsul /\ Use("maxResets")
  /\ current' = 0
  /\ UNCHANGED <<conf, kvps, call, watch>>

ResetIndexForKey(k) ==
  /\ IsConsul /\ kvps[k].exists /\ Use("maxResets")
  /\ kvps' = [kvps EXCEPT ![k].index = 0]
  /\ UNCHANGED <<conf, current, call, watch>>

-----------------------------------------------------------------------------
(***************************************************************************)
(* CAS.  An attempt reads, runs f and writes if the entry is still the one *)
(* that was read.                                                          *)
(***************************************************************************)
CASBegins(c, k) ==
  /\ call[c].pc = "idle" /\ Use("maxCalls")
  /\ call' = [call EXCEPT ![c] = [NoCall EXCEPT !.pc = "get", !.key = k, !.mark = used.maxCalls + 1]]
  /\ UNCHANGED <<conf, storeVars, watch>>

\* The call goes on with its next attempt, or gives up.
NextAttempt(c) == IF call[c].tries + 1 < MaxRetries THEN [call[c] EXCEPT !.pc = "get", !.tries = @ + 1] ELSE NoCall

\* Fault: the index is the one of the first attempt.
IndexOf_First(c) == IF call[c].tries = 0 THEN kvps[call[c].key].index ELSE call[c].index

\* The index of an earlier attempt stays if the key is not there any more.
IndexOf(c) == IF kvps[call[c].key].exists THEN kvps[call[c].key].index ELSE call[c].index

(***************************************************************************)
(* f returns a value; or nil, or an error, and the call ends; or an error  *)
(* with retry, as if reading had failed.                                   *)
(***************************************************************************)
CASGets(c) ==
  LET e == kvps[call[c].key] IN
  /\ call[c].pc = "get"
  /\ call' = [call EXCEPT ![c] = [@ EXCEPT !.pc = "write", !.index = IndexOf(c), !.in = e.value, !.got = e]]
  /\ UNCHANGED <<conf, storeVars, watch, used>>

CASEnds(c) ==
  /\ call[c].pc = "write" /\ Use("maxErrors")
  /\ call' = [call EXCEPT ![c] = NoCall]
  /\ UNCHANGED <<conf, storeVars, watch>>

CASFails(c) ==
  /\ call[c].pc \in {"get", "write"} /\ Use("maxErrors")
  /\ call' = [call EXCEPT ![c] = NextAttempt(c)]
  /\ UNCHANGED <<conf, storeVars, watch>>

CASWrites(c) ==
  LET k == call[c].key IN
  /\ call[c].pc = "write" /\ Matches(k, call[c].index)
  /\ Write(k, call[c].in \cup {call[c].mark})
  /\ \/ call' = [call EXCEPT ![c] = NoCall] /\ UNCHANGED used
     \/ call' = [call EXCEPT ![c] = NextAttempt(c)] /\ Use("maxErrors")   \* the answer is lost
  /\ UNCHANGED conf

CASRefused(c) ==
  /\ call[c].pc = "write" /\ ~Matches(call[c].key, call[c].index)
  /\ call' = [call EXCEPT ![c] = NextAttempt(c)]
  /\ UNCHANGED <<conf, storeVars, watch, used>>

CASSteps(c) == CASGets(c) \/ CASWrites(c) \/ CASRefused(c)

-----------------------------------------------------------------------------
\* Fault: the change that follows the last index is taken for the last one.
checkLastIndex_OffByOne(index, last) == [index |-> last, skip |-> last <= index + 1]

checkLastIndex(index, last) ==
  IF last = 0 THEN [index |-> 1, skip |-> FALSE]
  ELSE IF last < index THEN [index |-> 0, skip |-> FALSE]
  ELSE [index |-> last, skip |-> index = last]

\* The index a query is answered with, and waits for.
LastIndex == IF conf.watch = "prefix" \/ ~kvps[NoCall.key].exists THEN current ELSE kvps[NoCall.key].index

(***************************************************************************)
(* What of an answer is handed to f.  Consul answers with everything under *)
(* a prefix (mock.go leaves out what is older), and the client leaves out  *)
(* what was neither changed nor created since.                             *)
(***************************************************************************)
Reported(k) ==
  /\ Watched(k) /\ kvps[k].exists
  /\ conf.watch = "prefix" => (watch.index = 0 \/ kvps[k].index > watch.index \/ kvps[k].created > watch.index)

ConsulAnswer ==
  LET checked == checkLastIndex(watch.index, LastIndex) IN
  watch' = [watch EXCEPT !.pc = "ask", !.index = checked.index,
              !.seen = [k \in Keys |-> IF ~checked.skip /\ Reported(k) THEN kvps[k].value ELSE @[k]]]

\* A query waits for what is newer than its index, except for the first one for a key that is not there.
MustWait ==
  /\ watch.index >= LastIndex
  /\ watch.index = 0 => (conf.watch = "prefix" \/ kvps[NoCall.key].exists)

Ask ==
  /\ watch.pc = "ask"
  /\ IF MustWait
     THEN watch' = [watch EXCEPT !.pc = "wait", !.start = LastIndex]
     ELSE ConsulAnswer
  /\ UNCHANGED <<conf, storeVars, call, used>>

\* The wait for a key is over when its entry has another index, for a prefix when the log is longer.
WaitOver ==
  /\ watch.pc = "wait"
  /\ IF conf.watch = "prefix" THEN current > watch.index
     ELSE kvps[NoCall.key].exists /\ kvps[NoCall.key].index # watch.start
  /\ ConsulAnswer
  /\ UNCHANGED <<conf, storeVars, call, used>>

\* The answer of a query that timed out is empty and has its own index.
WaitTimesOut ==
  /\ watch.pc = "wait"
  /\ watch' = [watch EXCEPT !.pc = "ask", !.index = checkLastIndex(@, @).index]
  /\ UNCHANGED <<conf, storeVars, call, used>>

-----------------------------------------------------------------------------
(***************************************************************************)
(* etcd's watch.  A watch that breaks is registered again, and what        *)
(* happens in between is missed.                                           *)
(***************************************************************************)
Watch ==
  /\ watch.pc = "off"
  /\ watch' = [watch EXCEPT !.pc = "on"]
  /\ UNCHANGED <<conf, storeVars, call, used>>

WatchBreaks ==
  /\ watch.pc = "on" /\ Use("maxBreaks")
  /\ watch' = [watch EXCEPT !.pc = "off", !.consumer = <<>>, !.watcher = <<>>,
                 !.lost = @ \cup {watch.consumer[n].key : n \in DOMAIN watch.consumer}
                            \cup {watch.watcher[n].key : n \in DOMAIN watch.watcher}]
  /\ UNCHANGED <<conf, storeVars, call>>

\* The goroutine of Watch hands on what matches, if there is room.
Filter ==
  LET e == Head(watch.consumer)
      rest == Tail(watch.consumer)
      full == Len(watch.watcher) >= Buffer
      last == \A n \in DOMAIN rest : rest[n].key # e.key
  IN /\ watch.consumer # <<>>
     /\ watch' = [watch EXCEPT !.consumer = rest,
                    !.watcher = IF Watched(e.key) /\ ~full THEN Append(@, e) ELSE @,
                    !.lost = IF full /\ last THEN @ \cup {e.key} ELSE @]
     /\ UNCHANGED <<conf, storeVars, call, used>>

Receive ==
  /\ watch.watcher # <<>>
  /\ watch' = [watch EXCEPT !.watcher = Tail(@), !.seen[Head(watch.watcher).key] = Head(watch.watcher).value]
  /\ UNCHANGED <<conf, storeVars, call, used>>

QuerySteps == Ask \/ WaitOver \/ Watch \/ Filter \/ Receive

\* The context ends, or f has seen enough.
WatchEnds ==
  /\ watch.pc # "done" /\ Use("maxBreaks")
  /\ watch' = [watch EXCEPT !.pc = "done", !.consumer = <<>>, !.watcher = <<>>]
  /\ UNCHANGED <<conf, storeVars, call>>

-----------------------------------------------------------------------------
RemoteNext ==
  \/ \E k \in conf.keys : Delete(k) \/ ResetIndexForKey(k) \/ \E c \in Callers : CASBegins(c, k)
  \/ \E c \in Callers : CASSteps(c) \/ CASFails(c) \/ CASEnds(c)
  \/ ResetIndex
  \/ QuerySteps \/ WaitTimesOut \/ WatchBreaks \/ WatchEnds

-----------------------------------------------------------------------------
\* Every variable holds a value of its kind.
RemoteTypeOK ==
  /\ \A k \in Keys : kvps[k].exists \in BOOLEAN /\ kvps[k].index \in Nat /\ kvps[k].value \subseteq 1..conf.maxCalls
  /\ current \in Nat
  /\ \A c \in Callers : /\ call[c].pc \in {"idle", "get", "write"} /\ call[c].tries \in 0..(MaxRetries - 1)
                        /\ call[c].index \in Nat
  /\ watch.pc \in {"ask", "wait", "off", "on", "done"} /\ watch.index \in Nat
  /\ Len(watch.consumer) <= Buffer /\ Len(watch.watcher) <= Buffer

\* etcd's versions start again with a deletion, and so the same version may mean another value.
Counted == IsConsul \/ used.maxDeletes = 0

(***************************************************************************)
(* "Guarantees that only a single concurrent CAS succeeds": what was       *)
(* stored before is part of what is stored next, with any number of        *)
(* callers and attempts, errors that come after the value was stored, and, *)
(* in Consul, deletions between the attempts.                              *)
(***************************************************************************)
NoLostUpdate ==
  [][(Counted /\ used.maxResets = 0) =>
       \A k \in Keys : (kvps[k].exists /\ kvps'[k].exists) => kvps[k].value \subseteq kvps'[k].value]_kvps

(***************************************************************************)
(* An attempt is refused although its key is as it was read in one case    *)
(* only: in etcd, with a key that an earlier attempt of the same call has  *)
(* found and that was deleted since, because its revision is kept.  So a   *)
(* CAS of Consul gives up only if others have written, or with errors; one *)
(* of etcd also if the key is gone.                                        *)
(***************************************************************************)
KeepsOldRevision(c) ==
  ~IsConsul /\ ~kvps[call[c].key].exists /\ call[c].tries > 0 /\ used.maxDeletes > 0

RefusedOnlyIfDisturbed ==
  \A c \in Callers :
    (call[c].pc = "write" /\ ~Matches(call[c].key, call[c].index)) =>
      kvps[call[c].key] # call[c].got \/ KeepsOldRevision(c)

(***************************************************************************)
(* "If key doesn't exist, index will be 0" (kv/consul/client.go:164): so   *)
(* it is said of the index Consul's client compares with, in whichever     *)
(* attempt.                                                                *)
(***************************************************************************)
MissingKeyHasIndexZero ==
  \A c \in Callers : (IsConsul /\ call[c].pc = "write" /\ ~call[c].got.exists) => call[c].index = 0

(***************************************************************************)
(* "Guarantees that only a single concurrent CAS succeeds"                 *)
(* (kv/client.go:104), taken at its word for etcd: what a CAS has stored   *)
(* is not overwritten by one that has not read it, also after a deletion.  *)
(***************************************************************************)
SingleCASSucceeds ==
  [][\A k \in Keys : (~IsConsul /\ kvps[k].exists /\ kvps'[k].exists) => kvps[k].value \subseteq kvps'[k].value]_kvps

(***************************************************************************)
(* "WatchKey calls f whenever the value stored under key changes", and     *)
(* WatchPrefix: the last value is given to f, with changes between two     *)
(* queries, queries that time out, and deletions; unless Consul has begun  *)
(* to count anew or etcd's events got lost on their way.                   *)
(***************************************************************************)
Unseen(k) ==
  /\ Watched(k) /\ kvps[k].exists /\ kvps[k].value # watch.seen[k]
  /\ k \notin watch.lost /\ watch.pc # "done" /\ used.maxResets = 0

WatcherSeesLast == \A k \in Keys : Unseen(k) ~> ~Unseen(k)
=============================================================================
