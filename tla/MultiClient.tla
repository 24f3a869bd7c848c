---------------------------- MODULE MultiClient ----------------------------
(***************************************************************************)
(* kv/multi.go: one client over several stores.  Operations go to the      *)
(* primary store, which a runtime configuration may change; watches on the *)
(* old one are then begun again, and values that were written are mirrored *)
(* to the other stores.  Each store is a value that is read and replaced   *)
(* atomically, as RemoteStore shows of the clients below; a value is the   *)
(* set of the CAS calls that went into it.                                 *)
(***************************************************************************)
EXTENDS RuntimeConfig, FiniteSets

CONSTANTS
  Stores,    \* the names of the clients
  First,     \* the first of them, the primary at the beginning
  Watchers,
  Writers

ASSUME StoresAssumption == First \in Stores

VARIABLES
  primary, mirroring,
  stores,      \* store -> value
  switch,      \* watchConfigChannel: [pc, cfg, prev]
  watcher,     \* watcher -> [pc, client, cancelled, late]: runWithPrimaryClient
  writer,      \* writer -> [pc, client, mark, value]: CAS
  acked,       \* the CAS calls that have returned without an error
  disturbed    \* whether a write was not mirrored, or two CAS calls were under way together

clientVars == <<primary, mirroring, stores, switch, watcher, writer, acked, disturbed>>
multiVars == <<managerVars, clientVars>>

NoWatch == [pc |-> "read", client |-> First, cancelled |-> FALSE, late |-> FALSE]
NoWrite == [pc |-> "idle", client |-> First, mark |-> 0, value |-> {}]

MultiInit ==
  /\ primary = First /\ mirroring = conf.mirroring
  /\ stores = [s \in Stores |-> {}]
  /\ switch = [pc |-> "select", cfg |-> NoConfig, prev |-> First]
  /\ watcher = [w \in Watchers |-> NoWatch]
  /\ writer = [w \in Writers |-> NoWrite]
  /\ acked = {} /\ disturbed = FALSE

-----------------------------------------------------------------------------
(***************************************************************************)
(* watchConfigChannel.  An empty name is ignored, an unknown one logged.   *)
(***************************************************************************)
TakeConfig ==
  LET cfg == Head(listener.buf) IN
  /\ switch.pc = "select" /\ listener.buf # <<>>
  /\ listener' = [listener EXCEPT !.buf = Tail(@)]
  /\ mirroring' = IF cfg.mirroring = "nil" THEN mirroring ELSE cfg.mirroring = "on"
  /\ switch' = [switch EXCEPT !.pc = IF cfg.primary \in Stores THEN "swap" ELSE "select", !.cfg = cfg]
  /\ UNCHANGED <<conf, used, file, manager, primary, stores, watcher, writer, acked, disturbed>>

ConfigChannelCloses ==
  /\ switch.pc = "select" /\ listener.state = "closed" /\ listener.buf = <<>>
  /\ switch' = [switch EXCEPT !.pc = "ended"]
  /\ UNCHANGED <<conf, used, managerVars, primary, mirroring, stores, watcher, writer, acked, disturbed>>

\* setNewPrimaryClient.
SwapPrimary ==
  /\ switch.pc = "swap"
  /\ primary' = switch.cfg.primary
  /\ switch' = [switch EXCEPT !.prev = primary, !.pc = IF primary = switch.cfg.primary THEN "select" ELSE "cancel"]
  /\ UNCHANGED <<conf, used, managerVars, mirroring, stores, watcher, writer, acked, disturbed>>

\* Fault: the operations of the new primary client are cancelled.
UsesPrevious_New(w) == watcher[w].client = primary

UsesPrevious(w) == watcher[w].client = switch.prev

CancelPrevious ==
  /\ switch.pc = "cancel"
  /\ watcher' = [w \in Watchers |-> IF watcher[w].pc = "watch" /\ UsesPrevious(w)
                                    THEN [watcher[w] EXCEPT !.cancelled = TRUE] ELSE watcher[w]]
  /\ switch' = [switch EXCEPT !.pc = "select"]
  /\ UNCHANGED <<conf, used, managerVars, primary, mirroring, stores, writer, acked, disturbed>>

SwitchSteps == TakeConfig \/ ConfigChannelCloses \/ SwapPrimary \/ CancelPrevious

-----------------------------------------------------------------------------
(***************************************************************************)
(* runWithPrimaryClient, for WatchKey and WatchPrefix: the primary is read *)
(* first and the cancel function registered then.  late: when it was, the  *)
(* switch away from that client was over already.                          *)
(***************************************************************************)
ReadPrimary(w) ==
  /\ watcher[w].pc = "read"
  /\ watcher' = [watcher EXCEPT ![w] = [NoWatch EXCEPT !.pc = "register", !.client = primary]]

RegisterCancelFn(w) ==
  /\ watcher[w].pc = "register"
  /\ watcher' = [watcher EXCEPT ![w].pc = "watch",
                   ![w].late = watcher[w].client # primary /\ ~(switch.pc = "cancel" /\ UsesPrevious(w))]

\* fn returns the error of its context, and is begun again.
WatchCancelled(w) ==
  /\ watcher[w].pc = "watch" /\ watcher[w].cancelled
  /\ watcher' = [watcher EXCEPT ![w] = NoWatch]

FnSteps(w) ==
  /\ ReadPrimary(w) \/ RegisterCancelFn(w) \/ WatchCancelled(w)
  /\ UNCHANGED <<conf, used, managerVars, primary, mirroring, stores, switch, writer, acked, disturbed>>

\* The callback has seen enough, or the caller's context ends.
FnEnds(w) ==
  /\ watcher[w].pc = "watch" /\ Use("maxStops")
  /\ watcher' = [watcher EXCEPT ![w] = [NoWatch EXCEPT !.pc = "done"]]
  /\ UNCHANGED <<conf, managerVars, primary, mirroring, stores, switch, writer, acked, disturbed>>

-----------------------------------------------------------------------------
Free(w) == writer[w].pc = "idle"

MultiCASBegins(w) ==
  /\ Free(w) /\ Use("maxCalls")
  /\ writer' = [writer EXCEPT ![w] = [NoWrite EXCEPT !.pc = "cas", !.client = primary, !.mark = used.maxCalls + 1]]
  /\ disturbed' = (disturbed \/ \E v \in Writers : ~Free(v))
  /\ UNCHANGED <<conf, managerVars, primary, mirroring, stores, switch, watcher, acked>>

\* The primary's CAS; if it fails, or f returns nil, nothing is mirrored.
MultiCASFails(w) ==
  /\ writer[w].pc = "cas" /\ Use("maxErrors")
  /\ writer' = [writer EXCEPT ![w] = NoWrite]
  /\ UNCHANGED <<conf, managerVars, primary, mirroring, stores, switch, watcher, acked, disturbed>>

\* Fault: what f was given is mirrored.
UpdatedValue_In(w) == stores[writer[w].client]

\* What f returned.
UpdatedValue(w) == stores[writer[w].client] \cup {writer[w].mark}

CASStores(w) ==
  LET s == writer[w].client IN
  /\ writer[w].pc = "cas"
  /\ stores' = [stores EXCEPT ![s] = @ \cup {writer[w].mark}]
  /\ writer' = [writer EXCEPT ![w] = [@ EXCEPT !.pc = "mirror", !.value = UpdatedValue(w)]]
  /\ UNCHANGED <<conf, used, managerVars, primary, mirroring, switch, watcher, acked, disturbed>>

(***************************************************************************)
(* writeToSecondary, if mirroring is enabled by then: whatever the other   *)
(* stores hold is replaced.  One of them may fail, or all that are left    *)
(* when the time is over.                                                  *)
(***************************************************************************)
Mirrors(w, missed) ==
  LET others == Stores \ {writer[w].client} IN
  /\ writer[w].pc = "mirror"
  /\ IF mirroring
     THEN /\ missed \subseteq others
          /\ stores' = [s \in Stores |-> IF s \in others \ missed THEN writer[w].value ELSE stores[s]]
          /\ disturbed' = (disturbed \/ missed # {})
     ELSE missed = {} /\ disturbed' = TRUE /\ UNCHANGED stores
  /\ acked' = acked \cup {writer[w].mark}
  /\ writer' = [writer EXCEPT ![w] = NoWrite]
  /\ UNCHANGED <<conf, managerVars, primary, mirroring, switch, watcher>>

WriteSteps(w) == CASStores(w) \/ (Mirrors(w, {}) /\ UNCHANGED used)
MirrorFails(w) == \E missed \in SUBSET Stores : missed # {} /\ Mirrors(w, missed) /\ Use("maxErrors")

-----------------------------------------------------------------------------
MultiNext ==
  \/ /\ \/ FileChanges \/ LoadConfig \/ LoadFails \/ callListeners(switch.pc = "select")
        \/ CreateListenerChannel \/ CloseListenerChannel \/ StopManager
     /\ UNCHANGED clientVars
  \/ SwitchSteps
  \/ \E w \in Watchers : FnSteps(w) \/ FnEnds(w)
  \/ \E w \in Writers : MultiCASBegins(w) \/ WriteSteps(w) \/ MultiCASFails(w) \/ MirrorFails(w)

-----------------------------------------------------------------------------
\* Every variable holds a value of its kind.
MultiTypeOK ==
  /\ primary \in Stores /\ mirroring \in BOOLEAN
  /\ manager.pc \in {"new", "running", "notify", "stopped", "failed"}
  /\ Len(listener.buf) <= (IF conf.buffer = 0 THEN 1 ELSE conf.buffer)
  /\ \A w \in Watchers : watcher[w].pc \in {"read", "register", "watch", "done"} /\ watcher[w].client \in Stores
  /\ \A w \in Writers : writer[w].pc \in {"idle", "cas", "mirror"}

(***************************************************************************)
(* "If primary client changes, fn is restarted": no watch stays with a     *)
(* store that is not the primary any more, with any number of switches,    *)
(* also if it was registered between the swap and the cancelling; unless   *)
(* it was registered when all that was over.                               *)
(***************************************************************************)
Outdated(w) == watcher[w].pc = "watch" /\ watcher[w].client # primary /\ ~watcher[w].late

SwitchRestartsWatches == \A w \in Watchers : Outdated(w) ~> ~Outdated(w)

(***************************************************************************)
(* The same without the exception, as the comment has it: what runs with a *)
(* store that is not the primary any more is restarted.                    *)
(***************************************************************************)
WatchFollowsPrimary ==
  \A w \in Watchers : (watcher[w].pc = "watch" /\ watcher[w].client # primary)
                        ~> (watcher[w].pc # "watch" \/ watcher[w].client = primary)

(***************************************************************************)
(* What the file says reaches the client as long as the manager runs, even *)
(* though a value is dropped whenever there is no room for it: every tick  *)
(* sends it again.                                                         *)
(***************************************************************************)
NotApplied ==
  /\ manager.pc \in {"running", "notify"} /\ manager.listening
  /\ file.ok /\ file.cfg.primary \in Stores /\ file.cfg.primary # primary

FileIsApplied == NotApplied ~> ~NotApplied

(***************************************************************************)
(* "Doing this allows nice migration between stores": if every write was   *)
(* mirrored and none overlapped another, the primary has every write that  *)
(* was acknowledged, whenever and how often it was switched.               *)
(***************************************************************************)
MigrationKeepsWrites == ~disturbed => acked \subseteq stores[primary]
=============================================================================
