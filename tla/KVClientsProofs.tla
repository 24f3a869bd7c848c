--------------------------- MODULE KVClientsProofs --------------------------
(***************************************************************************)
(* Proofs about KVClients, for any stores, keys, callers, writers,         *)
(* watchers and configurations.                                            *)
(***************************************************************************)
EXTENDS KVClients, TLAPS

(***************************************************************************)
(* What is used up of the bounds.                                          *)
(***************************************************************************)
ConfInv ==
  conf \in Confs /\ used \in [Bounds -> Nat] /\ \A b \in Bounds : used[b] <= conf[b]

-----------------------------------------------------------------------------
(***************************************************************************)
(* Consul and etcd: the values of the variables, with calls numbered up to *)
(* m.                                                                      *)
(***************************************************************************)
Entry(m) == [exists : BOOLEAN, value : SUBSET (1..m), created : Nat, index : Nat]

Call(m) ==
  [pc : {"idle", "get", "write"}, key : Keys, mark : 0..m, tries : 0..(MaxRetries - 1), index : Nat,
   in : SUBSET (1..m), got : Entry(m)]

Event(m) == [key : Keys, value : SUBSET (1..m)]

WatchState(m) ==
  [pc : {"ask", "wait", "off", "on", "done"}, index : Nat, start : Nat, seen : [Keys -> SUBSET (1..m)],
   consumer : Seq(Event(m)), watcher : Seq(Event(m)), lost : SUBSET Keys]

StoreTypes ==
  /\ kvps \in [Keys -> Entry(conf.maxCalls)] /\ current \in Nat
  /\ call \in [Callers -> Call(conf.maxCalls)]

WatchTypes ==
  /\ watch \in WatchState(conf.maxCalls)
  /\ Len(watch.consumer) <= Buffer /\ Len(watch.watcher) <= Buffer

CallsNumbered == \A c \in Callers : call[c].pc # "idle" => call[c].mark >= 1

MissingIsEmpty == \A k \in Keys : ~kvps[k].exists => kvps[k] = NoEntry

(***************************************************************************)
(* What an attempt got has the index it compares with.  A first attempt    *)
(* has no index before it gets an entry.                                   *)
(***************************************************************************)
GotIndexed ==
  \A c \in Callers :
    /\ call[c].pc = "write" /\ call[c].got.exists => call[c].index = call[c].got.index
    /\ call[c].tries = 0 /\ ~(call[c].pc = "write" /\ call[c].got.exists) => call[c].index = 0

(***************************************************************************)
(* No call holds an index from the future: of the log in Consul, of the    *)
(* key in etcd.                                                            *)
(***************************************************************************)
ConsulCounts ==
  IsConsul /\ used.maxResets = 0 =>
    /\ \A k \in Keys : kvps[k].index <= current
    /\ \A c \in Callers : call[c].index <= current

EtcdCounts ==
  ~IsConsul /\ used.maxDeletes = 0 =>
    \A c \in Callers : call[c].index <= kvps[call[c].key].index

(***************************************************************************)
(* An entry with the index a call compares with is the one it has read.    *)
(***************************************************************************)
SameIndexSameValue ==
  Counted /\ used.maxResets = 0 =>
    \A c \in Callers :
      call[c].pc = "write" /\ kvps[call[c].key].exists /\ kvps[call[c].key].index = call[c].index =>
        kvps[call[c].key].value = call[c].in

RemoteInv ==
  /\ StoreTypes /\ WatchTypes /\ CallsNumbered /\ MissingIsEmpty /\ GotIndexed
  /\ ConsulCounts /\ EtcdCounts /\ SameIndexSameValue

-----------------------------------------------------------------------------
(***************************************************************************)
(* The runtime configuration and MultiClient.                              *)
(***************************************************************************)
Cfgs == {NoConfig} \cup UNION {c.files : c \in Confs}

Capacity == IF conf.buffer = 0 THEN 1 ELSE conf.buffer

ManagerTypes ==
  /\ file \in [ok : BOOLEAN, cfg : Cfgs]
  /\ manager \in [pc : {"new", "running", "notify", "stopped", "failed"}, config : Cfgs, listening : BOOLEAN]
  /\ listener \in [state : {"none", "open", "closed"}, buf : Seq(Cfgs), closes : Nat]
  /\ Len(listener.buf) <= Capacity

(***************************************************************************)
(* The channel is in om.listeners only while it is open, and it has been   *)
(* closed once when it is closed.                                          *)
(***************************************************************************)
ListenerInv ==
  /\ manager.listening => listener.state = "open"
  /\ listener.closes = IF listener.state = "closed" THEN 1 ELSE 0

ClientTypes ==
  /\ primary \in Stores /\ mirroring \in BOOLEAN
  /\ stores \in [Stores -> SUBSET Nat] /\ acked \in SUBSET Nat /\ disturbed \in BOOLEAN
  /\ switch \in [pc : {"select", "swap", "cancel", "ended"}, cfg : Cfgs, prev : Stores]
  /\ switch.pc = "swap" => switch.cfg.primary \in Stores
  /\ watcher \in [Watchers -> [pc : {"read", "register", "watch", "done"}, client : Stores,
                               cancelled : BOOLEAN, late : BOOLEAN]]
  /\ writer \in [Writers -> [pc : {"idle", "cas", "mirror"}, client : Stores, mark : Nat,
                             value : SUBSET Nat]]

(***************************************************************************)
(* As long as nothing has disturbed the mirroring, one call writes at a    *)
(* time, every store has all acknowledged writes, and the value that is    *)
(* about to be mirrored has them too.                                      *)
(***************************************************************************)
MirrorInv ==
  ~disturbed =>
    /\ \A v, w \in Writers : ~Free(v) /\ ~Free(w) => v = w
    /\ \A s \in Stores : acked \subseteq stores[s]
    /\ \A w \in Writers : writer[w].pc = "mirror" =>
         /\ acked \cup {writer[w].mark} \subseteq writer[w].value
         /\ writer[w].mark \in stores[writer[w].client]

MultiInv == ManagerTypes /\ ListenerInv /\ ClientTypes /\ MirrorInv

IInv == ConfInv /\ RemoteInv /\ MultiInv

-----------------------------------------------------------------------------
(***************************************************************************)
(* Using up a bound.                                                       *)
(***************************************************************************)
LEMMA UseFacts ==
  ASSUME ConfInv, NEW b \in Bounds, Use(b), conf' = conf
  PROVE  /\ ConfInv' /\ used[b] + 1 <= conf[b] /\ used[b] \in Nat /\ conf[b] \in Nat
         /\ used'[b] = used[b] + 1 /\ used'[b] # 0
         /\ \A x \in Bounds \ {b} : used'[x] = used[x]
         /\ \A x \in Bounds : used'[x] = 0 => used[x] = 0
<1>1. conf \in Confs /\ used \in [Bounds -> Nat] /\ \A x \in Bounds : used[x] <= conf[x]
  BY DEF ConfInv
<1>2. \A x \in Bounds : conf[x] \in Nat
  BY <1>1, BoundsAssumption
<1>3. used[b] < conf[b] /\ used' = [used EXCEPT ![b] = @ + 1]
  BY DEF Use
<1> QED
  BY <1>1, <1>2, <1>3 DEF ConfInv

\* What a configuration contains, and the names of its bounds.
LEMMA ConfFacts ==
  ASSUME ConfInv
  PROVE  /\ conf.maxCalls \in Nat /\ conf.keys \subseteq Keys /\ conf.buffer \in Nat
         /\ conf.mirroring \in BOOLEAN /\ conf.files \subseteq Cfgs
         /\ "maxCalls" \in Bounds /\ "maxDeletes" \in Bounds /\ "maxErrors" \in Bounds
         /\ "maxResets" \in Bounds /\ "maxBreaks" \in Bounds /\ "maxEdits" \in Bounds
         /\ "maxCloses" \in Bounds /\ "maxStops" \in Bounds
<1>1. conf \in Confs
  BY DEF ConfInv
<1>2. /\ "maxCalls" \in Bounds /\ "maxDeletes" \in Bounds /\ "maxErrors" \in Bounds
      /\ "maxResets" \in Bounds /\ "maxBreaks" \in Bounds /\ "maxEdits" \in Bounds
      /\ "maxCloses" \in Bounds /\ "maxStops" \in Bounds
  BY ConfsAssumption
<1>3. conf.keys \subseteq Keys /\ conf.buffer \in Nat /\ conf.mirroring \in BOOLEAN
  BY <1>1, ConfsAssumption
<1>4. conf.maxCalls \in Nat
  BY <1>1, <1>2, BoundsAssumption
<1>5. conf.files \subseteq Cfgs
  BY <1>1 DEF Cfgs
<1> QED
  BY <1>2, <1>3, <1>4, <1>5


-----------------------------------------------------------------------------
(***************************************************************************)
(* The runtime configuration manager.                                      *)
(***************************************************************************)
ManagerStep ==
  \/ FileChanges \/ LoadConfig \/ LoadFails \/ callListeners(switch.pc = "select")
  \/ CreateListenerChannel \/ CloseListenerChannel \/ StopManager

\* Steps of runtimeconfig.Manager and of the file it reads keep what is known of listeners.
LEMMA ManagerStepInv ==
  ASSUME ConfInv, ManagerTypes, ListenerInv, ManagerStep
  PROVE  ConfInv' /\ ManagerTypes' /\ ListenerInv' /\ conf' = conf
<1> DEFINE M == [pc : {"new", "running", "notify", "stopped", "failed"}, config : Cfgs, listening : BOOLEAN]
           L == [state : {"none", "open", "closed"}, buf : Seq(Cfgs), closes : Nat]
<1>1. /\ file \in [ok : BOOLEAN, cfg : Cfgs] /\ manager \in M /\ listener \in L
      /\ Len(listener.buf) <= Capacity
  BY DEF ManagerTypes
<1>2. /\ conf.buffer \in Nat /\ conf.files \subseteq Cfgs /\ "maxEdits" \in Bounds
      /\ "maxCloses" \in Bounds /\ "maxStops" \in Bounds
  BY ConfFacts
<1>3. conf' = conf
  BY DEF ManagerStep, FileChanges, LoadConfig, LoadFails, callListeners, CreateListenerChannel,
         CloseListenerChannel, StopManager
<1>4. ConfInv'
  <2>1. CASE UNCHANGED used
    BY <1>3, <2>1 DEF ConfInv
  <2>2. CASE Use("maxEdits") \/ Use("maxCloses") \/ Use("maxStops")
    BY <1>2, <1>3, <2>2, UseFacts
  <2> QED
    BY <2>1, <2>2 DEF ManagerStep, FileChanges, LoadConfig, LoadFails, callListeners, CreateListenerChannel,
                      CloseListenerChannel, StopManager
<1>5. Capacity' = Capacity
  BY <1>3 DEF Capacity
<1>6. ASSUME UNCHANGED listener, manager' \in M, manager'.listening = manager.listening,
             file' \in [ok : BOOLEAN, cfg : Cfgs]
      PROVE  ManagerTypes' /\ ListenerInv'
  BY <1>1, <1>5, <1>6 DEF ManagerTypes, ListenerInv
<1>7. CASE FileChanges
  <2>1. file' \in [ok : BOOLEAN, cfg : Cfgs] /\ UNCHANGED <<manager, listener>>
    BY <1>2, <1>7 DEF FileChanges
  <2> QED
    BY <1>1, <1>3, <1>4, <1>6, <2>1
<1>8. CASE LoadConfig \/ LoadFails
  <2>1. /\ manager' \in M /\ manager'.listening = manager.listening /\ UNCHANGED <<file, listener>>
    BY <1>1, <1>8 DEF LoadConfig, LoadFails
  <2> QED
    BY <1>1, <1>3, <1>4, <1>6, <2>1
<1>9. CASE callListeners(switch.pc = "select")
  <2>1. /\ manager' \in M /\ manager'.listening = manager.listening /\ UNCHANGED file
        /\ manager.config \in Cfgs
    BY <1>1, <1>9 DEF callListeners
  <2>2. CASE listener' = listener
    BY <1>1, <1>3, <1>4, <1>6, <2>1, <2>2
  <2>3. CASE HasRoom(switch.pc = "select") /\ listener' = [listener EXCEPT !.buf = Append(@, manager.config)]
    <3>1. Len(listener.buf) < conf.buffer \/ listener.buf = << >>
      BY <2>3 DEF HasRoom
    <3>2. /\ listener.buf \in Seq(Cfgs) /\ Append(listener.buf, manager.config) \in Seq(Cfgs)
          /\ Len(Append(listener.buf, manager.config)) = Len(listener.buf) + 1
          /\ Len(listener.buf) \in Nat /\ (listener.buf = << >> => Len(listener.buf) = 0)
      BY <1>1, <2>1
    <3>3. Len(Append(listener.buf, manager.config)) <= Capacity
      BY <1>2, <3>1, <3>2 DEF Capacity
    <3>4. /\ listener' \in L /\ listener'.buf = Append(listener.buf, manager.config)
          /\ listener'.state = listener.state /\ listener'.closes = listener.closes
      BY <1>1, <2>3, <3>2
    <3> QED
      BY <1>1, <1>3, <1>4, <1>5, <2>1, <3>3, <3>4 DEF ManagerTypes, ListenerInv
  <2> QED
    BY <1>9, <2>2, <2>3 DEF callListeners
<1>10. CASE CreateListenerChannel
  <2>1. /\ listener.state = "none" /\ listener' \in L /\ listener'.state = "open" /\ listener'.buf = listener.buf
        /\ listener'.closes = listener.closes /\ manager' \in M /\ file' = file
    BY <1>1, <1>10 DEF CreateListenerChannel
  <2> QED
    BY <1>1, <1>3, <1>4, <1>5, <2>1 DEF ManagerTypes, ListenerInv
<1>11. CASE CloseListenerChannel \/ StopManager
  <2>1. manager' \in M /\ ~manager'.listening /\ file' = file
    BY <1>1, <1>11 DEF CloseListenerChannel, StopManager, StoppedManager
  <2>2. \/ manager.listening /\ listener' = Closed
        \/ listener' = listener
    BY <1>11 DEF CloseListenerChannel, StopManager
  <2>3. CASE listener' = listener
    BY <1>1, <1>3, <1>4, <1>5, <2>1, <2>3 DEF ManagerTypes, ListenerInv
  <2>4. CASE manager.listening /\ listener' = Closed
    <3>1. listener.closes = 0
      BY <2>4 DEF ListenerInv
    <3>2. /\ listener' \in L /\ listener'.state = "closed" /\ listener'.buf = listener.buf
          /\ listener'.closes = 1
      <4>1. listener' = [listener EXCEPT !.state = "closed", !.closes = 1]
        <5>1. listener.closes + 1 = 1
          BY <3>1
        <5> QED
          BY <2>4, <5>1 DEF Closed
      <4> QED
        BY <1>1, <4>1
    <3> QED
      BY <1>1, <1>3, <1>4, <1>5, <2>1, <3>2 DEF ManagerTypes, ListenerInv
  <2> QED
    BY <2>2, <2>3, <2>4
<1> QED
  BY <1>3, <1>4, <1>7, <1>8, <1>9, <1>10, <1>11 DEF ManagerStep


-----------------------------------------------------------------------------
(***************************************************************************)
(* watchConfigChannel and the operations with the primary client.          *)
(***************************************************************************)
LEMMA SwitchStepsInv ==
  ASSUME ConfInv, MultiInv, SwitchSteps
  PROVE  ConfInv' /\ MultiInv'
<1> DEFINE L == [state : {"none", "open", "closed"}, buf : Seq(Cfgs), closes : Nat]
           S == [pc : {"select", "swap", "cancel", "ended"}, cfg : Cfgs, prev : Stores]
           W == [pc : {"read", "register", "watch", "done"}, client : Stores,
                 cancelled : BOOLEAN, late : BOOLEAN]
<1>1. /\ listener \in L /\ switch \in S /\ primary \in Stores /\ mirroring \in BOOLEAN
      /\ watcher \in [Watchers -> W]
      /\ switch.pc = "swap" => switch.cfg.primary \in Stores
  BY DEF MultiInv, ManagerTypes, ClientTypes
<1>2. UNCHANGED <<conf, used, file, manager, stores, writer, acked, disturbed>>
  BY DEF SwitchSteps, TakeConfig, ConfigChannelCloses, SwapPrimary, CancelPrevious, managerVars
<1>3. ConfInv' /\ MirrorInv' /\ Capacity' = Capacity
  BY <1>2 DEF ConfInv, MultiInv, MirrorInv, Free, Capacity
<1>4. ASSUME listener' = listener
      PROVE  ManagerTypes' /\ ListenerInv'
  BY <1>2, <1>3, <1>4 DEF MultiInv, ManagerTypes, ListenerInv
<1>5. ASSUME switch' \in S, switch'.pc = "swap" => switch'.cfg.primary \in Stores, primary' \in Stores,
             mirroring' \in BOOLEAN, watcher' \in [Watchers -> W]
      PROVE  ClientTypes'
  BY <1>2, <1>5 DEF MultiInv, ClientTypes
<1>6. CASE TakeConfig
  <2> DEFINE cfg == Head(listener.buf)
  <2>1. /\ listener.buf \in Seq(Cfgs) /\ listener.buf # << >> /\ cfg \in Cfgs
        /\ Tail(listener.buf) \in Seq(Cfgs) /\ Len(Tail(listener.buf)) = Len(listener.buf) - 1
        /\ Len(listener.buf) \in Nat
    BY <1>1, <1>6 DEF TakeConfig
  <2>2. /\ listener' = [listener EXCEPT !.buf = Tail(@)]
        /\ mirroring' = IF cfg.mirroring = "nil" THEN mirroring ELSE cfg.mirroring = "on"
        /\ switch' = [switch EXCEPT !.pc = IF cfg.primary \in Stores THEN "swap" ELSE "select", !.cfg = cfg]
        /\ UNCHANGED <<primary, watcher>>
    BY <1>6 DEF TakeConfig
  <2> HIDE DEF cfg
  <2>3. /\ listener' \in L /\ listener'.buf = Tail(listener.buf) /\ listener'.state = listener.state
        /\ listener'.closes = listener.closes
    BY <1>1, <2>1, <2>2
  <2>4. /\ switch' \in S /\ (switch'.pc = "swap" => switch'.cfg.primary \in Stores)
    BY <1>1, <2>1, <2>2
  <2>5. mirroring' \in BOOLEAN
    <3>1. CASE cfg.mirroring = "nil"
      BY <1>1, <2>2, <3>1
    <3>2. CASE cfg.mirroring # "nil"
      BY <2>2, <3>2
    <3> QED
      BY <3>1, <3>2
  <2>6. conf.buffer \in Nat
    BY ConfFacts
  <2>7. Len(listener'.buf) <= Capacity
    BY <2>1, <2>3, <2>6 DEF MultiInv, ManagerTypes, Capacity
  <2>8. ManagerTypes' /\ ListenerInv'
    BY <1>2, <1>3, <2>3, <2>7 DEF MultiInv, ManagerTypes, ListenerInv
  <2> QED
    BY <1>1, <1>3, <1>5, <2>2, <2>4, <2>5, <2>8 DEF MultiInv
<1>7. CASE ConfigChannelCloses
  <2>1. /\ UNCHANGED <<listener, primary, mirroring, watcher>> /\ switch' \in S /\ switch'.pc = "ended"
    BY <1>1, <1>7 DEF ConfigChannelCloses, managerVars
  <2> QED
    BY <1>1, <1>3, <1>4, <1>5, <2>1 DEF MultiInv
<1>8. CASE SwapPrimary
  <2>1. /\ UNCHANGED <<listener, mirroring, watcher>> /\ switch' \in S /\ switch'.pc # "swap"
        /\ primary' \in Stores
    BY <1>1, <1>8 DEF SwapPrimary, managerVars
  <2> QED
    BY <1>1, <1>3, <1>4, <1>5, <2>1 DEF MultiInv
<1>9. CASE CancelPrevious
  <2>1. /\ UNCHANGED <<listener, primary, mirroring>> /\ switch' \in S /\ switch'.pc = "select"
    BY <1>1, <1>9 DEF CancelPrevious, managerVars
  <2>2. \A w \in Watchers : [watcher[w] EXCEPT !.cancelled = TRUE] \in W
    BY <1>1
  <2>3. watcher' \in [Watchers -> W]
    BY <1>1, <1>9, <2>2 DEF CancelPrevious
  <2> QED
    BY <1>1, <1>3, <1>4, <1>5, <2>1, <2>3 DEF MultiInv
<1> QED
  BY <1>6, <1>7, <1>8, <1>9 DEF SwitchSteps

\* A watch moving to another store, or ending, leaves the writes alone.
LEMMA WatcherStepsInv ==
  ASSUME ConfInv, MultiInv, NEW w \in Watchers, FnSteps(w) \/ FnEnds(w)
  PROVE  ConfInv' /\ MultiInv'
<1> DEFINE W == [pc : {"read", "register", "watch", "done"}, client : Stores,
                 cancelled : BOOLEAN, late : BOOLEAN]
<1>1. watcher \in [Watchers -> W] /\ primary \in Stores
  BY DEF MultiInv, ClientTypes
<1>2. UNCHANGED <<conf, file, manager, listener, primary, mirroring, stores, switch, writer, acked, disturbed>>
  BY DEF FnSteps, FnEnds, managerVars
<1>3. ConfInv'
  <2>1. CASE used' = used
    BY <1>2, <2>1 DEF ConfInv
  <2>2. CASE Use("maxStops")
    BY <1>2, <2>2, ConfFacts, UseFacts
  <2> QED
    BY <2>1, <2>2 DEF FnSteps, FnEnds
<1>4. watcher' \in [Watchers -> W]
  <2>1. NoWatch \in W /\ [NoWatch EXCEPT !.pc = "done"] \in W
        /\ [NoWatch EXCEPT !.pc = "register", !.client = primary] \in W
    BY <1>1, StoresAssumption DEF NoWatch
  <2>2. CASE RegisterCancelFn(w)
    <3> DEFINE late == watcher[w].client # primary /\ ~(switch.pc = "cancel" /\ UsesPrevious(w))
    <3>1. late \in BOOLEAN
      OBVIOUS
    <3>2. watcher' = [watcher EXCEPT ![w] = [@ EXCEPT !.pc = "watch", !.late = late]]
      BY <1>1, <2>2 DEF RegisterCancelFn
    <3> HIDE DEF late
    <3>3. [watcher[w] EXCEPT !.pc = "watch", !.late = late] \in W
      BY <1>1, <3>1
    <3> QED
      BY <1>1, <3>2, <3>3
  <2>3. CASE ReadPrimary(w) \/ WatchCancelled(w) \/ FnEnds(w)
    BY <1>1, <2>1, <2>3 DEF ReadPrimary, WatchCancelled, FnEnds
  <2> QED
    BY <2>2, <2>3 DEF FnSteps
<1> QED
  BY <1>2, <1>3, <1>4 DEF MultiInv, ManagerTypes, ListenerInv, ClientTypes, MirrorInv, Free, Capacity


(***************************************************************************)
(* CAS on the primary store, and the mirroring of what it stored.          *)
(***************************************************************************)
LEMMA MirrorsInv ==
  ASSUME MultiInv, NEW w \in Writers, NEW missed, Mirrors(w, missed)
  PROVE  /\ MirrorInv' /\ stores' \in [Stores -> SUBSET Nat] /\ acked' \in SUBSET Nat
         /\ disturbed' \in BOOLEAN
         /\ writer' = [writer EXCEPT ![w] = NoWrite]
         /\ UNCHANGED <<conf, file, manager, listener, primary, mirroring, switch, watcher>>
<1> DEFINE k == writer[w]
           others == Stores \ {k.client}
<1>1. /\ stores \in [Stores -> SUBSET Nat] /\ acked \in SUBSET Nat /\ disturbed \in BOOLEAN
      /\ writer \in [Writers -> [pc : {"idle", "cas", "mirror"}, client : Stores, mark : Nat,
                                 value : SUBSET Nat]]
      /\ k.client \in Stores /\ k.mark \in Nat /\ k.value \in SUBSET Nat
  BY DEF MultiInv, ClientTypes
<1>2. /\ k.pc = "mirror" /\ acked' = acked \cup {k.mark} /\ writer' = [writer EXCEPT ![w] = NoWrite]
      /\ UNCHANGED <<conf, file, manager, listener, primary, mirroring, switch, watcher>>
      /\ \/ /\ stores' = [s \in Stores |-> IF s \in others \ missed THEN k.value ELSE stores[s]]
            /\ disturbed' = (disturbed \/ missed # {})
         \/ disturbed' = TRUE /\ stores' = stores
  BY DEF Mirrors, managerVars
<1> HIDE DEF k
<1>3. acked' \in SUBSET Nat /\ disturbed' \in BOOLEAN /\ stores' \in [Stores -> SUBSET Nat]
  BY <1>1, <1>2
<1>4. ASSUME ~disturbed'
      PROVE  /\ \A v, x \in Writers : writer'[v].pc # "idle" /\ writer'[x].pc # "idle" => v = x
             /\ \A s \in Stores : acked' \subseteq stores'[s]
             /\ \A x \in Writers : writer'[x].pc # "mirror"
  <2>1. /\ ~disturbed /\ missed = {}
        /\ stores' = [s \in Stores |-> IF s \in others \ missed THEN k.value ELSE stores[s]]
    BY <1>2, <1>4
  <2>2. /\ \A v, x \in Writers : writer[v].pc # "idle" /\ writer[x].pc # "idle" => v = x
        /\ \A s \in Stores : acked \subseteq stores[s]
        /\ acked \cup {k.mark} \subseteq k.value /\ k.mark \in stores[k.client]
    BY <1>2, <2>1 DEF MultiInv, MirrorInv, Free, k
  <2>3. NoWrite.pc = "idle"
    BY DEF NoWrite
  <2>4. \A x \in Writers : writer'[x].pc = "idle"
    <3>1. \A x \in Writers : writer'[x] = IF x = w THEN NoWrite ELSE writer[x]
      BY <1>1, <1>2
    <3>2. writer[w].pc # "idle"
      BY <1>2 DEF k
    <3> QED
      BY <2>2, <2>3, <3>1, <3>2
  <2>5. ASSUME NEW s \in Stores
        PROVE  acked' \subseteq stores'[s]
    BY <1>1, <1>2, <2>1, <2>2
  <2> QED
    BY <2>4, <2>5
<1> QED
  BY <1>2, <1>3, <1>4 DEF MirrorInv, Free

\* A write and its mirroring, with their failures: the one place where MirrorInv is at stake.
LEMMA WriterStepsInv ==
  ASSUME ConfInv, MultiInv, NEW w \in Writers,
         MultiCASBegins(w) \/ WriteSteps(w) \/ MultiCASFails(w) \/ MirrorFails(w)
  PROVE  ConfInv' /\ MultiInv'
<1> DEFINE R == [pc : {"idle", "cas", "mirror"}, client : Stores, mark : Nat, value : SUBSET Nat]
           k == writer[w]
<1>1. /\ stores \in [Stores -> SUBSET Nat] /\ acked \in SUBSET Nat /\ disturbed \in BOOLEAN
      /\ writer \in [Writers -> R] /\ primary \in Stores
      /\ k \in R /\ k.client \in Stores /\ k.mark \in Nat /\ k.value \in SUBSET Nat
  BY DEF MultiInv, ClientTypes
<1>2. NoWrite \in R /\ NoWrite.pc = "idle"
  BY StoresAssumption DEF NoWrite
<1>3. /\ "maxCalls" \in Bounds /\ "maxErrors" \in Bounds
  BY ConfFacts
<1>4. ASSUME UNCHANGED <<conf, file, manager, listener, primary, mirroring, switch, watcher>>,
             used' = used \/ Use("maxCalls") \/ Use("maxErrors"),
             writer' \in [Writers -> R], stores' \in [Stores -> SUBSET Nat], acked' \in SUBSET Nat,
             disturbed' \in BOOLEAN, MirrorInv'
      PROVE  ConfInv' /\ MultiInv'
  <2>1. ConfInv'
    <3>1. CASE used' = used
      BY <1>4, <3>1 DEF ConfInv
    <3>2. CASE Use("maxCalls") \/ Use("maxErrors")
      BY <1>3, <1>4, <3>2, UseFacts
    <3> QED
      BY <1>4, <3>1, <3>2
  <2>2. ManagerTypes' /\ ListenerInv' /\ ClientTypes'
    BY <1>4 DEF MultiInv, ManagerTypes, ListenerInv, ClientTypes, Capacity
  <2> QED
    BY <1>4, <2>1, <2>2 DEF MultiInv
<1>5. CASE MultiCASBegins(w)
  <2> DEFINE e == [NoWrite EXCEPT !.pc = "cas", !.client = primary, !.mark = used.maxCalls + 1]
  <2>1. /\ k.pc = "idle" /\ Use("maxCalls") /\ writer' = [writer EXCEPT ![w] = e]
        /\ disturbed' = (disturbed \/ \E v \in Writers : writer[v].pc # "idle")
        /\ UNCHANGED <<conf, file, manager, listener, primary, mirroring, stores, switch, watcher, acked>>
    BY <1>5 DEF MultiCASBegins, managerVars, Free
  <2>2. used.maxCalls + 1 \in Nat
    BY <1>3, <2>1, UseFacts
  <2>3. e \in R /\ e.pc = "cas"
    BY <1>1, <1>2, <2>2 DEF NoWrite
  <2> HIDE DEF e
  <2>4. writer' \in [Writers -> R] /\ writer'[w] = e /\ \A v \in Writers \ {w} : writer'[v] = writer[v]
    BY <1>1, <2>1, <2>3
  <2>5. disturbed' \in BOOLEAN
    BY <2>1
  <2>6. MirrorInv'
    <3>1. ASSUME ~disturbed'
          PROVE  /\ \A v, x \in Writers : writer'[v].pc # "idle" /\ writer'[x].pc # "idle" => v = x
                 /\ \A s \in Stores : acked' \subseteq stores'[s]
                 /\ \A x \in Writers : writer'[x].pc # "mirror"
      <4>1. ~disturbed /\ \A v \in Writers : writer[v].pc = "idle"
        BY <2>1, <3>1
      <4>2. \A s \in Stores : acked \subseteq stores[s]
        BY <4>1 DEF MultiInv, MirrorInv
      <4> QED
        BY <2>1, <2>3, <2>4, <4>1, <4>2
    <3> QED
      BY <3>1 DEF MirrorInv, Free
  <2> QED
    BY <1>1, <1>4, <2>1, <2>4, <2>5, <2>6
<1>6. CASE MultiCASFails(w)
  <2>1. /\ Use("maxErrors") /\ writer' = [writer EXCEPT ![w] = NoWrite]
        /\ UNCHANGED <<conf, file, manager, listener, primary, mirroring, stores, switch, watcher, acked, disturbed>>
    BY <1>6 DEF MultiCASFails, managerVars
  <2>2. writer' \in [Writers -> R] /\ writer'[w] = NoWrite /\ \A v \in Writers \ {w} : writer'[v] = writer[v]
    BY <1>1, <1>2, <2>1
  <2>3. MirrorInv'
    BY <1>2, <2>1, <2>2 DEF MultiInv, MirrorInv, Free
  <2> QED
    BY <1>1, <1>4, <2>1, <2>2, <2>3
<1>7. CASE CASStores(w)
  <2> DEFINE v == stores[k.client] \cup {k.mark}
             e == [k EXCEPT !.pc = "mirror", !.value = v]
  <2>1. /\ k.pc = "cas" /\ stores' = [stores EXCEPT ![k.client] = v] /\ writer' = [writer EXCEPT ![w] = e]
        /\ UNCHANGED <<conf, used, file, manager, listener, primary, mirroring, switch, watcher, acked, disturbed>>
    BY <1>1, <1>7 DEF CASStores, UpdatedValue, managerVars
  <2>2. v \in SUBSET Nat
    BY <1>1
  <2>3. k.mark \in v /\ stores[k.client] \subseteq v
    OBVIOUS
  <2> HIDE DEF v
  <2>4. e \in R /\ e.pc = "mirror" /\ e.value = v /\ e.client = k.client /\ e.mark = k.mark
    BY <1>1, <2>2
  <2> HIDE DEF e, k
  <2>5. writer' \in [Writers -> R] /\ writer'[w] = e /\ \A x \in Writers \ {w} : writer'[x] = writer[x]
    BY <1>1, <2>1, <2>4
  <2>6. /\ stores' \in [Stores -> SUBSET Nat] /\ stores'[k.client] = v
        /\ \A s \in Stores : stores[s] \subseteq stores'[s]
    BY <1>1, <2>1, <2>2, <2>3
  <2>7. ASSUME ~disturbed
        PROVE  /\ \A x, y \in Writers : writer'[x].pc # "idle" /\ writer'[y].pc # "idle" => x = y
               /\ \A s \in Stores : acked \subseteq stores'[s]
               /\ \A x \in Writers : writer'[x].pc = "mirror" =>
                    /\ acked \cup {writer'[x].mark} \subseteq writer'[x].value
                    /\ writer'[x].mark \in stores'[writer'[x].client]
    <3>1. /\ \A x, y \in Writers : writer[x].pc # "idle" /\ writer[y].pc # "idle" => x = y
          /\ \A s \in Stores : acked \subseteq stores[s]
      BY <2>7 DEF MultiInv, MirrorInv, Free
    <3>2. writer[w].pc = "cas"
      BY <2>1 DEF k
    <3>3. \A x \in Writers \ {w} : writer'[x].pc = "idle"
      BY <2>5, <3>1, <3>2
    <3>4. acked \cup {e.mark} \subseteq e.value /\ e.mark \in stores'[e.client]
      <4>1. acked \subseteq stores[k.client]
        BY <1>1, <3>1
      <4>2. acked \cup {k.mark} \subseteq v /\ k.mark \in stores'[k.client]
        BY <2>3, <2>6, <4>1
      <4> QED
        BY <2>4, <4>2
    <3> QED
      BY <1>1, <2>5, <2>6, <3>1, <3>3, <3>4
  <2>8. MirrorInv'
    BY <2>1, <2>7 DEF MirrorInv, Free
  <2> QED
    BY <1>1, <1>4, <2>1, <2>5, <2>6, <2>8
<1>8. ASSUME NEW missed, Mirrors(w, missed), used' = used \/ Use("maxErrors")
      PROVE  ConfInv' /\ MultiInv'
  <2>1. /\ MirrorInv' /\ stores' \in [Stores -> SUBSET Nat] /\ acked' \in SUBSET Nat
        /\ disturbed' \in BOOLEAN
        /\ writer' = [writer EXCEPT ![w] = NoWrite]
        /\ UNCHANGED <<conf, file, manager, listener, primary, mirroring, switch, watcher>>
    BY <1>8, MirrorsInv
  <2>2. writer' \in [Writers -> R]
    BY <1>1, <1>2, <2>1
  <2> QED
    BY <1>4, <1>8, <2>1, <2>2
<1> QED
  BY <1>5, <1>6, <1>7, <1>8 DEF WriteSteps, MirrorFails

(***************************************************************************)
(* A step of MultiClient or of what drives it.                             *)
(***************************************************************************)
LEMMA MultiNextInv ==
  ASSUME ConfInv, MultiInv, MultiNext
  PROVE  ConfInv' /\ MultiInv' /\ conf' = conf
<1>1. CASE ManagerStep /\ UNCHANGED clientVars
  <2>1. ConfInv' /\ ManagerTypes' /\ ListenerInv' /\ conf' = conf
    BY <1>1, ManagerStepInv DEF MultiInv
  <2>2. UNCHANGED <<primary, mirroring, stores, switch, watcher, writer, acked, disturbed>>
    BY <1>1 DEF clientVars
  <2>3. ClientTypes' /\ MirrorInv'
    BY <2>2 DEF MultiInv, ClientTypes, MirrorInv, Free
  <2> QED
    BY <2>1, <2>3 DEF MultiInv
<1>2. CASE SwitchSteps
  BY <1>2, SwitchStepsInv DEF SwitchSteps, TakeConfig, ConfigChannelCloses, SwapPrimary, CancelPrevious
<1>3. ASSUME NEW w \in Watchers, FnSteps(w) \/ FnEnds(w)
      PROVE  ConfInv' /\ MultiInv' /\ conf' = conf
  BY <1>3, WatcherStepsInv DEF FnSteps, FnEnds
<1>4. ASSUME NEW w \in Writers, MultiCASBegins(w) \/ WriteSteps(w) \/ MultiCASFails(w) \/ MirrorFails(w)
      PROVE  ConfInv' /\ MultiInv' /\ conf' = conf
  BY <1>4, WriterStepsInv DEF MultiCASBegins, WriteSteps, MultiCASFails, MirrorFails, CASStores, Mirrors
<1> QED
  BY <1>1, <1>2, <1>3, <1>4 DEF MultiNext, ManagerStep


-----------------------------------------------------------------------------
(***************************************************************************)
(* What becomes of a bound in any step: it is used up, never given back.   *)
(***************************************************************************)
Grows == conf' = conf /\ (used' = used \/ \E b \in Bounds : Use(b))

\* A step uses up at most one more of one bound.
LEMMA GrowsFacts ==
  ASSUME ConfInv, Grows
  PROVE  ConfInv' /\ conf' = conf /\ \A x \in Bounds : used'[x] = 0 => used[x] = 0
<1>1. CASE used' = used
  BY <1>1 DEF ConfInv, Grows
<1>2. ASSUME NEW b \in Bounds, Use(b)
      PROVE  ConfInv' /\ \A x \in Bounds : used'[x] = 0 => used[x] = 0
  BY <1>2, UseFacts DEF Grows
<1> QED
  BY <1>1, <1>2 DEF Grows

(***************************************************************************)
(* What is first in a channel, what is left, and what comes last.          *)
(***************************************************************************)
LEMMA SeqFacts ==
  ASSUME NEW S, NEW q \in Seq(S)
  PROVE  /\ Len(q) \in Nat /\ \A n \in DOMAIN q : q[n] \in S
         /\ q # << >> => /\ Head(q) \in S /\ Tail(q) \in Seq(S) /\ Len(Tail(q)) = Len(q) - 1
         /\ \A e \in S : Append(q, e) \in Seq(S) /\ Len(Append(q, e)) = Len(q) + 1
OBVIOUS

(***************************************************************************)
(* What a change of the store does to the channels of etcd's watch.        *)
(***************************************************************************)
LEMMA SendEventTypes ==
  ASSUME WatchTypes, conf' = conf, NEW k \in Keys, NEW value \in SUBSET (1..conf.maxCalls),
         sendEvent(k, value)
  PROVE  WatchTypes'
<1> DEFINE m == conf.maxCalls
           e == [key |-> k, value |-> value]
           c == watch.consumer
<1>1. Buffer \in Nat
  BY RemoteStoreAssumption
<1>2. e \in Event(m)
  BY DEF Event
<1>3. /\ watch \in WatchState(m) /\ Len(c) <= Buffer /\ Len(watch.watcher) <= Buffer
      /\ c \in Seq(Event(m)) /\ watch.lost \in SUBSET Keys
  BY DEF WatchTypes, WatchState
<1>4. m' = m
  OBVIOUS
<1>5. /\ Append(c, e) \in Seq(Event(m)) /\ Len(Append(c, e)) = Len(c) + 1 /\ Len(c) \in Nat
  BY <1>2, <1>3
<1>6. \/ watch' = watch
      \/ watch' = [watch EXCEPT !.lost = @ \cup {k}]
      \/ Len(c) < Buffer /\ watch' = [watch EXCEPT !.lost = @ \ {k}, !.consumer = Append(@, e)]
  BY <1>1, <1>5 DEF sendEvent
<1> HIDE DEF e, m
<1>7. CASE watch' = watch
  BY <1>3, <1>4, <1>7 DEF WatchTypes, m
<1>8. CASE watch' = [watch EXCEPT !.lost = @ \cup {k}]
  <2>1. watch' \in WatchState(m) /\ watch'.consumer = c /\ watch'.watcher = watch.watcher
    BY <1>3, <1>8 DEF WatchState
  <2> QED
    BY <1>3, <1>4, <2>1 DEF WatchTypes, m
<1>9. CASE Len(c) < Buffer /\ watch' = [watch EXCEPT !.lost = @ \ {k}, !.consumer = Append(@, e)]
  <2>1. watch' \in WatchState(m) /\ watch'.consumer = Append(c, e) /\ watch'.watcher = watch.watcher
    BY <1>3, <1>5, <1>9 DEF WatchState
  <2>2. Len(watch'.consumer) <= Buffer
    BY <1>1, <1>5, <1>9, <2>1
  <2> QED
    BY <1>3, <1>4, <2>1, <2>2 DEF WatchTypes, m
<1> QED
  BY <1>6, <1>7, <1>8, <1>9

(***************************************************************************)
(* The steps of the watchers.                                              *)
(***************************************************************************)
WatchStep == QuerySteps \/ WaitTimesOut \/ WatchBreaks \/ WatchEnds

\* Watching a key or a prefix changes neither the store nor a call.
LEMMA WatchStepTypes ==
  ASSUME ConfInv, StoreTypes, WatchTypes, WatchStep
  PROVE  WatchTypes' /\ Grows /\ UNCHANGED <<kvps, current, call>>
<1> DEFINE m == conf.maxCalls
           S == [Keys -> SUBSET (1..m)]
<1>1. Buffer \in Nat /\ "maxBreaks" \in Bounds
  BY RemoteStoreAssumption, ConfFacts
<1>2. /\ watch \in WatchState(m) /\ Len(watch.consumer) <= Buffer /\ Len(watch.watcher) <= Buffer
      /\ watch.consumer \in Seq(Event(m)) /\ watch.watcher \in Seq(Event(m)) /\ watch.lost \in SUBSET Keys
      /\ watch.index \in Nat /\ watch.start \in Nat /\ watch.seen \in S
  BY DEF WatchTypes, WatchState
<1>3. /\ kvps \in [Keys -> Entry(m)] /\ current \in Nat /\ NoCall.key \in Keys
  BY RemoteStoreAssumption DEF StoreTypes, NoCall
<1>4. \A k \in Keys : kvps[k].value \in SUBSET (1..m) /\ kvps[k].index \in Nat
  BY <1>3 DEF Entry
<1>5. LastIndex \in Nat
  BY <1>3, <1>4 DEF LastIndex
<1>6. UNCHANGED <<kvps, current, call>> /\ Grows
  <2>1. UNCHANGED <<kvps, current, call>> /\ conf' = conf
    BY DEF WatchStep, QuerySteps, Ask, WaitOver, WaitTimesOut, Watch, WatchBreaks, Filter, Receive, WatchEnds,
           storeVars
  <2>2. used' = used \/ Use("maxBreaks")
    BY DEF WatchStep, QuerySteps, Ask, WaitOver, WaitTimesOut, Watch, WatchBreaks, Filter, Receive, WatchEnds
  <2> QED
    BY <1>1, <2>1, <2>2 DEF Grows
<1> SUFFICES WatchTypes'
  BY <1>6
<1>7. ASSUME watch' \in WatchState(m), Len(watch'.consumer) <= Buffer, Len(watch'.watcher) <= Buffer
      PROVE  WatchTypes'
  BY <1>6, <1>7 DEF WatchTypes, Grows
<1>8. \A i, l \in Nat : checkLastIndex(i, l).index \in Nat
  BY DEF checkLastIndex
<1>9. ASSUME ConsulAnswer
      PROVE  WatchTypes'
  <2> DEFINE checked == checkLastIndex(watch.index, LastIndex)
             i == checked.index
             seen == [k \in Keys |-> IF ~checked.skip /\ Reported(k) THEN kvps[k].value ELSE watch.seen[k]]
  <2>1. i \in Nat
    BY <1>2, <1>5, <1>8
  <2>2. seen \in S
    BY <1>2, <1>4
  <2>3. watch' = [watch EXCEPT !.pc = "ask", !.index = i, !.seen = seen]
    BY <1>9 DEF ConsulAnswer
  <2> HIDE DEF checked, i, seen
  <2>4. watch' \in WatchState(m) /\ watch'.consumer = watch.consumer /\ watch'.watcher = watch.watcher
    BY <1>2, <2>1, <2>2, <2>3 DEF WatchState
  <2> QED
    BY <1>2, <1>7, <2>4
<1>10. CASE Ask \/ WaitOver \/ Watch \/ WaitTimesOut
  <2>1. CASE ConsulAnswer
    BY <1>9, <2>1
  <2>2. CASE watch' = [watch EXCEPT !.pc = "wait", !.start = LastIndex] \/ watch' = [watch EXCEPT !.pc = "on"]
    <3>1. watch' \in WatchState(m) /\ watch'.consumer = watch.consumer /\ watch'.watcher = watch.watcher
      BY <1>2, <1>5, <2>2 DEF WatchState
    <3> QED
      BY <1>2, <1>7, <3>1
  <2>3. CASE WaitTimesOut
    <3> DEFINE i == checkLastIndex(watch.index, watch.index).index
    <3>1. i \in Nat
      BY <1>2, <1>8
    <3>2. watch' = [watch EXCEPT !.pc = "ask", !.index = i]
      BY <2>3 DEF WaitTimesOut
    <3> HIDE DEF i
    <3>3. watch' \in WatchState(m) /\ watch'.consumer = watch.consumer /\ watch'.watcher = watch.watcher
      BY <1>2, <3>1, <3>2 DEF WatchState
    <3> QED
      BY <1>2, <1>7, <3>3
  <2> QED
    BY <1>10, <2>1, <2>2, <2>3 DEF Ask, WaitOver, Watch
<1>11. CASE WatchBreaks \/ WatchEnds
  <2> DEFINE l == watch.lost \cup {watch.consumer[n].key : n \in DOMAIN watch.consumer}
                             \cup {watch.watcher[n].key : n \in DOMAIN watch.watcher}
  <2>1. l \in SUBSET Keys
    <3>1. \A q \in Seq(Event(m)) : \A n \in DOMAIN q : q[n] \in Event(m)
      BY SeqFacts
    <3>2. \A x \in Event(m) : x.key \in Keys
      BY DEF Event
    <3> QED
      BY <1>2, <3>1, <3>2
  <2>2. << >> \in Seq(Event(m)) /\ Len(<< >>) = 0
    OBVIOUS
  <2>3. \/ watch' = [watch EXCEPT !.pc = "off", !.consumer = << >>, !.watcher = << >>, !.lost = l]
        \/ watch' = [watch EXCEPT !.pc = "done", !.consumer = << >>, !.watcher = << >>]
    BY <1>11 DEF WatchBreaks, WatchEnds
  <2> HIDE DEF l
  <2>4. watch' \in WatchState(m) /\ watch'.consumer = << >> /\ watch'.watcher = << >>
    BY <1>2, <2>1, <2>2, <2>3 DEF WatchState
  <2> QED
    BY <1>1, <1>7, <2>2, <2>4
<1>12. CASE Filter
  <2> DEFINE e == Head(watch.consumer)
             t == Tail(watch.consumer)
             w == IF Watched(e.key) /\ ~(Len(watch.watcher) >= Buffer) THEN Append(watch.watcher, e) ELSE watch.watcher
             last == \A n \in DOMAIN t : t[n].key # e.key
             l == IF Len(watch.watcher) >= Buffer /\ last THEN watch.lost \cup {e.key} ELSE watch.lost
  <2>1. watch.consumer # << >> /\ watch' = [watch EXCEPT !.consumer = t, !.watcher = w, !.lost = l]
    BY <1>12 DEF Filter
  <2>2. e \in Event(m) /\ t \in Seq(Event(m)) /\ Len(t) = Len(watch.consumer) - 1 /\ Len(watch.consumer) \in Nat
    BY <1>2, <2>1, SeqFacts
  <2>3. e.key \in Keys
    BY <2>2 DEF Event
  <2> HIDE DEF e, t, last
  <2>4. l \in SUBSET Keys
    BY <1>2, <2>3
  <2>5. w \in Seq(Event(m)) /\ Len(w) <= Buffer
    <3>1. /\ Append(watch.watcher, e) \in Seq(Event(m)) /\ Len(watch.watcher) \in Nat
          /\ Len(Append(watch.watcher, e)) = Len(watch.watcher) + 1
      BY <1>2, <2>2, SeqFacts
    <3>2. CASE Watched(e.key) /\ ~(Len(watch.watcher) >= Buffer)
      <4>1. w = Append(watch.watcher, e)
        BY <3>2
      <4>2. Len(Append(watch.watcher, e)) <= Buffer
        BY <1>1, <3>1, <3>2
      <4> HIDE DEF w
      <4> QED
        BY <3>1, <4>1, <4>2
    <3>3. CASE ~(Watched(e.key) /\ ~(Len(watch.watcher) >= Buffer))
      <4>1. w = watch.watcher
        BY <3>3
      <4> HIDE DEF w
      <4> QED
        BY <1>2, <4>1
    <3> QED
      BY <3>2, <3>3
  <2> HIDE DEF w, l
  <2>6. watch' \in WatchState(m) /\ watch'.consumer = t /\ watch'.watcher = w
    BY <1>2, <2>1, <2>2, <2>4, <2>5 DEF WatchState
  <2>7. Len(t) <= Buffer
    BY <1>1, <1>2, <2>2
  <2> QED
    BY <1>7, <2>5, <2>6, <2>7
<1>13. CASE Receive
  <2> DEFINE e == Head(watch.watcher)
             t == Tail(watch.watcher)
             seen == [watch.seen EXCEPT ![e.key] = e.value]
  <2>1. watch.watcher # << >> /\ watch' = [watch EXCEPT !.watcher = t, !.seen = seen]
    BY <1>13 DEF Receive
  <2>2. e \in Event(m) /\ t \in Seq(Event(m)) /\ Len(t) = Len(watch.watcher) - 1 /\ Len(watch.watcher) \in Nat
    BY <1>2, <2>1, SeqFacts
  <2>3. e.key \in Keys /\ e.value \in SUBSET (1..m)
    BY <2>2 DEF Event
  <2> HIDE DEF e, t
  <2>4. seen \in S
    BY <1>2, <2>3
  <2> HIDE DEF seen
  <2>5. watch' \in WatchState(m) /\ watch'.watcher = t /\ watch'.consumer = watch.consumer
    BY <1>2, <2>1, <2>2, <2>4 DEF WatchState
  <2>6. Len(t) <= Buffer
    BY <1>1, <1>2, <2>2
  <2> QED
    BY <1>2, <1>7, <2>5, <2>6
<1> QED
  BY <1>6, <1>10, <1>11, <1>12, <1>13 DEF WatchStep, QuerySteps


-----------------------------------------------------------------------------
(***************************************************************************)
(* The steps of CAS, and what happens to the stores.                       *)
(***************************************************************************)
CallsInv ==
  /\ StoreTypes /\ CallsNumbered /\ MissingIsEmpty /\ GotIndexed
  /\ ConsulCounts /\ EtcdCounts /\ SameIndexSameValue

(***************************************************************************)
(* A call that ends, and one that goes on with its next attempt: it keeps  *)
(* its key and its index, and has nothing to write.                        *)
(***************************************************************************)
Retries(c, r) ==
  \/ r = NoCall
  \/ /\ r.pc = "get" /\ r.key = call[c].key /\ r.index = call[c].index /\ r.mark = call[c].mark
     /\ r.tries # 0

\* Whatever the next attempt of a call is, it has its key and its number.
LEMMA NextAttemptFacts ==
  ASSUME ConfInv, StoreTypes, NEW c \in Callers
  PROVE  /\ NoCall \in Call(conf.maxCalls) /\ Retries(c, NoCall)
         /\ NextAttempt(c) \in Call(conf.maxCalls) /\ Retries(c, NextAttempt(c))
<1> DEFINE m == conf.maxCalls
<1>1. m \in Nat /\ MaxRetries \in Nat \ {0} /\ NoCall.key \in Keys
  BY ConfFacts, RemoteStoreAssumption DEF NoCall
<1>2. 0 \in 0..m /\ 0 \in 0..(MaxRetries - 1)
  BY <1>1
<1>3. NoEntry \in Entry(m)
  BY DEF NoEntry, Entry
<1>4. NoCall \in Call(m)
  BY <1>1, <1>2, <1>3 DEF NoCall, Call
<1>5. call[c] \in Call(m)
  BY DEF StoreTypes
<1>6. CASE call[c].tries + 1 < MaxRetries
  <2> DEFINE t == call[c].tries + 1
             r == [call[c] EXCEPT !.pc = "get", !.tries = t]
  <2>1. NextAttempt(c) = r
    BY <1>6 DEF NextAttempt
  <2>2. t \in 0..(MaxRetries - 1) /\ t # 0
    BY <1>1, <1>5, <1>6 DEF Call
  <2> HIDE DEF t
  <2>3. /\ r \in Call(m) /\ r.pc = "get" /\ r.key = call[c].key /\ r.index = call[c].index /\ r.mark = call[c].mark
        /\ r.tries # 0
    BY <1>5, <2>2 DEF Call
  <2> HIDE DEF r
  <2> QED
    BY <1>4, <2>1, <2>3 DEF Retries
<1>7. CASE ~(call[c].tries + 1 < MaxRetries)
  BY <1>4, <1>7 DEF NextAttempt, Retries
<1> QED
  BY <1>6, <1>7

(***************************************************************************)
(* The store stays as it is, and a call ends or tries again.               *)
(***************************************************************************)
LEMMA RetryInv ==
  ASSUME ConfInv, CallsInv, Grows, UNCHANGED <<kvps, current>>, NEW c \in Callers, call[c].pc # "idle",
         NEW r \in Call(conf.maxCalls), Retries(c, r), call' = [call EXCEPT ![c] = r]
  PROVE  CallsInv'
<1>1. /\ conf' = conf /\ "maxResets" \in Bounds /\ "maxDeletes" \in Bounds
      /\ used'.maxResets = 0 => used.maxResets = 0
      /\ used'.maxDeletes = 0 => used.maxDeletes = 0
  BY GrowsFacts, ConfFacts
<1>2. /\ kvps \in [Keys -> Entry(conf.maxCalls)] /\ current \in Nat
      /\ call \in [Callers -> Call(conf.maxCalls)]
  BY DEF CallsInv, StoreTypes
<1>3. /\ call' \in [Callers -> Call(conf.maxCalls)] /\ call'[c] = r
      /\ \A d \in Callers \ {c} : call'[d] = call[d]
  BY <1>2
<1>4. NoCall.pc = "idle" /\ NoCall.index = 0 /\ NoCall.key \in Keys
  BY RemoteStoreAssumption DEF NoCall
<1>5. \A k \in Keys : kvps[k].index \in Nat
  BY <1>2 DEF Entry
<1>6. r.pc # "write" /\ (r.pc # "idle" => r.mark = call[c].mark)
  BY <1>4 DEF Retries
<1>7. StoreTypes' /\ MissingIsEmpty'
  BY <1>1, <1>2, <1>3 DEF StoreTypes, CallsInv, MissingIsEmpty
<1>8. CallsNumbered' /\ GotIndexed'
  <2>1. r.tries = 0 => r.index = 0
    BY <1>4 DEF Retries
  <2> QED
    BY <1>3, <1>6, <2>1 DEF CallsInv, CallsNumbered, GotIndexed
<1>9. ConsulCounts'
  BY <1>1, <1>2, <1>3, <1>4 DEF CallsInv, ConsulCounts, Retries, IsConsul
<1>10. EtcdCounts'
  BY <1>1, <1>3, <1>4, <1>5 DEF CallsInv, EtcdCounts, Retries, IsConsul
<1>11. SameIndexSameValue'
  BY <1>1, <1>3, <1>6 DEF CallsInv, SameIndexSameValue, Counted, IsConsul
<1> QED
  BY <1>7, <1>8, <1>9, <1>10, <1>11 DEF CallsInv

(***************************************************************************)
(* A call begins.                                                          *)
(***************************************************************************)
LEMMA CASBeginsInv ==
  ASSUME ConfInv, CallsInv, NEW c \in Callers, NEW k \in Keys, CASBegins(c, k)
  PROVE  CallsInv' /\ Grows /\ UNCHANGED watch
<1> DEFINE m == conf.maxCalls
           n == used.maxCalls + 1
           r == [NoCall EXCEPT !.pc = "get", !.key = k, !.mark = n]
<1>1. /\ conf' = conf /\ UNCHANGED <<kvps, current, watch>> /\ Use("maxCalls") /\ call' = [call EXCEPT ![c] = r]
  BY DEF CASBegins, storeVars
<1>2. "maxCalls" \in Bounds /\ "maxResets" \in Bounds /\ "maxDeletes" \in Bounds
  BY ConfFacts
<1>3. n \in 1..m
  BY <1>1, <1>2, UseFacts
<1>4. Grows
  BY <1>1, <1>2 DEF Grows
<1>5. /\ used'.maxResets = 0 => used.maxResets = 0
      /\ used'.maxDeletes = 0 => used.maxDeletes = 0
  BY <1>2, <1>4, GrowsFacts
<1>6. /\ kvps \in [Keys -> Entry(m)] /\ current \in Nat /\ call \in [Callers -> Call(m)]
  BY DEF CallsInv, StoreTypes
<1>7. NoCall \in Call(m)
  BY NextAttemptFacts DEF CallsInv
<1> HIDE DEF n
<1>8. r \in Call(m) /\ r.pc = "get" /\ r.key = k /\ r.index = 0 /\ r.mark >= 1
  <2>1. n \in 0..m /\ n >= 1
    BY <1>3
  <2>2. NoCall.index = 0
    BY DEF NoCall
  <2> QED
    BY <1>7, <2>1, <2>2 DEF Call
<1> HIDE DEF r
<1>9. /\ call' \in [Callers -> Call(m)] /\ call'[c] = r
      /\ \A d \in Callers \ {c} : call'[d] = call[d]
  BY <1>1, <1>6, <1>8
<1>10. \A x \in Keys : kvps[x].index \in Nat
  BY <1>6 DEF Entry
<1>11. StoreTypes' /\ MissingIsEmpty'
  BY <1>1, <1>6, <1>9 DEF StoreTypes, CallsInv, MissingIsEmpty
<1>12. CallsNumbered' /\ GotIndexed'
  BY <1>8, <1>9 DEF CallsInv, CallsNumbered, GotIndexed
<1>13. ConsulCounts'
  BY <1>1, <1>5, <1>6, <1>8, <1>9 DEF CallsInv, ConsulCounts, IsConsul
<1>14. EtcdCounts'
  BY <1>1, <1>5, <1>8, <1>9, <1>10 DEF CallsInv, EtcdCounts, IsConsul
<1>15. SameIndexSameValue'
  BY <1>1, <1>5, <1>8, <1>9 DEF CallsInv, SameIndexSameValue, Counted, IsConsul
<1> QED
  BY <1>1, <1>4, <1>11, <1>12, <1>13, <1>14, <1>15 DEF CallsInv

(***************************************************************************)
(* An attempt reads the entry it will compare with.                        *)
(***************************************************************************)
LEMMA CASGetsInv ==
  ASSUME ConfInv, CallsInv, NEW c \in Callers, CASGets(c)
  PROVE  CallsInv' /\ Grows /\ UNCHANGED watch
<1> DEFINE m == conf.maxCalls
           e == kvps[call[c].key]
           i == IndexOf(c)
           r == [call[c] EXCEPT !.pc = "write", !.index = i, !.in = e.value, !.got = e]
<1>1. /\ conf' = conf /\ UNCHANGED <<kvps, current, watch, used>> /\ call[c].pc = "get" 
      /\ call' = [call EXCEPT ![c] = r]
  BY DEF CASGets, storeVars
<1>2. /\ kvps \in [Keys -> Entry(m)] /\ current \in Nat /\ call \in [Callers -> Call(m)]
  BY DEF CallsInv, StoreTypes
<1>3. call[c] \in Call(m) /\ call[c].key \in Keys /\ call[c].index \in Nat
  BY <1>2 DEF Call
<1>4. e \in Entry(m) /\ e.value \in SUBSET (1..m) /\ e.index \in Nat
  BY <1>2, <1>3 DEF Entry
<1>5. i = IF e.exists THEN e.index ELSE call[c].index
  BY DEF IndexOf
<1>6. i \in Nat
  BY <1>3, <1>4, <1>5
<1> HIDE DEF i
<1>7. r \in Call(m) /\ r.pc = "write" /\ r.key = call[c].key /\ r.index = i /\ r.mark = call[c].mark
      /\ r.in = e.value /\ r.got = e /\ r.tries = call[c].tries
  BY <1>3, <1>4, <1>6 DEF Call
<1> HIDE DEF r
<1>8. /\ call' \in [Callers -> Call(m)] /\ call'[c] = r
      /\ \A d \in Callers \ {c} : call'[d] = call[d]
  BY <1>1, <1>2, <1>7
<1>9. StoreTypes' /\ MissingIsEmpty'
  BY <1>1, <1>2, <1>8 DEF StoreTypes, CallsInv, MissingIsEmpty
<1>10. CallsNumbered'
  BY <1>1, <1>7, <1>8 DEF CallsInv, CallsNumbered
<1>11. GotIndexed'
  <2>1. call[c].tries = 0 => call[c].index = 0
    BY <1>1 DEF CallsInv, GotIndexed
  <2>2. (r.got.exists => r.index = r.got.index) /\ (r.tries = 0 /\ ~r.got.exists => r.index = 0)
    BY <1>5, <1>7, <2>1
  <2> QED
    BY <1>7, <1>8, <2>2 DEF CallsInv, GotIndexed
<1>12. ConsulCounts'
  BY <1>1, <1>3, <1>5, <1>7, <1>8 DEF CallsInv, ConsulCounts, IsConsul
<1>13. EtcdCounts'
  BY <1>1, <1>4, <1>5, <1>7, <1>8 DEF CallsInv, EtcdCounts, IsConsul
<1>14. SameIndexSameValue'
  BY <1>1, <1>7, <1>8 DEF CallsInv, SameIndexSameValue, Counted, IsConsul
<1> QED
  BY <1>1, <1>9, <1>10, <1>11, <1>12, <1>13, <1>14 DEF CallsInv, Grows


(***************************************************************************)
(* A value is stored.  Its index is larger than the index any call         *)
(* compares with, so that an attempt that has read before is refused.      *)
(***************************************************************************)
LEMMA CASWritesInv ==
  ASSUME ConfInv, CallsInv, WatchTypes, NEW c \in Callers, CASWrites(c)
  PROVE  CallsInv' /\ Grows /\ WatchTypes'
<1> DEFINE m == conf.maxCalls
           k == call[c].key
           v == call[c].in \cup {call[c].mark}
           i == NextIndex(k)
           b == IF kvps[k].exists THEN kvps[k].created ELSE i
           e == [exists |-> TRUE, value |-> v, created |-> b, index |-> i]
<1>1. /\ conf' = conf /\ call[c].pc = "write" /\ Write(k, v)
      /\ (used' = used \/ Use("maxErrors"))
      /\ (call' = [call EXCEPT ![c] = NoCall] \/ call' = [call EXCEPT ![c] = NextAttempt(c)])
  BY DEF CASWrites
<1>2. "maxErrors" \in Bounds /\ "maxResets" \in Bounds /\ "maxDeletes" \in Bounds
  BY ConfFacts
<1>3. Grows
  BY <1>1, <1>2 DEF Grows
<1>4. /\ used'.maxResets = 0 => used.maxResets = 0
      /\ used'.maxDeletes = 0 => used.maxDeletes = 0
  BY <1>2, <1>3, GrowsFacts
<1>5. /\ kvps \in [Keys -> Entry(m)] /\ current \in Nat /\ call \in [Callers -> Call(m)]
  BY DEF CallsInv, StoreTypes
<1>6. \A d \in Callers : call[d] \in Call(m) /\ call[d].key \in Keys /\ call[d].index \in Nat
  BY <1>5 DEF Call
<1>7. \A x \in Keys : kvps[x].index \in Nat /\ kvps[x].created \in Nat
  BY <1>5 DEF Entry
<1>8. v \in SUBSET (1..m)
  <2>1. call[c].in \in SUBSET (1..m) /\ call[c].mark \in 0..m
    BY <1>5 DEF Call
  <2>2. call[c].mark >= 1 /\ m \in Nat
    BY <1>1, ConfFacts DEF CallsInv, CallsNumbered
  <2> QED
    BY <2>1, <2>2
<1>9. WatchTypes'
  BY <1>1, <1>6, <1>8, SendEventTypes DEF Write
<1>10. /\ kvps' = [kvps EXCEPT ![k] = e]
       /\ current' = IF IsConsul THEN current + 1 ELSE current
       /\ i = IF IsConsul THEN current + 1 ELSE kvps[k].index + 1
  BY <1>1 DEF Write, NextIndex
<1>11. i \in Nat
  BY <1>5, <1>6, <1>7, <1>10
<1> HIDE DEF i
<1>b. b \in Nat
  BY <1>6, <1>7, <1>11
<1> HIDE DEF v, b
<1>12. e \in Entry(m) /\ e.exists /\ e.value = v /\ e.index = i
  BY <1>8, <1>11, <1>b DEF Entry
<1> HIDE DEF e
<1>13. PICK r \in Call(m) : Retries(c, r) /\ call' = [call EXCEPT ![c] = r]
  BY <1>1, NextAttemptFacts DEF CallsInv
<1>14. NoCall.pc = "idle" /\ NoCall.index = 0 /\ NoCall.key \in Keys
  BY RemoteStoreAssumption DEF NoCall
<1>15. /\ call' \in [Callers -> Call(m)] /\ call'[c] = r
       /\ \A d \in Callers \ {c} : call'[d] = call[d]
  BY <1>5, <1>13
<1>16. r.pc # "write" /\ (r.pc # "idle" => r.mark = call[c].mark)
  BY <1>13, <1>14 DEF Retries
<1>17. /\ kvps' \in [Keys -> Entry(m)] /\ kvps'[k] = e
       /\ \A x \in Keys \ {k} : kvps'[x] = kvps[x]
       /\ k \in Keys
  BY <1>5, <1>6, <1>10, <1>12
<1> HIDE DEF k
<1>18. StoreTypes'
  <2>1. current' \in Nat
    BY <1>5, <1>10
  <2> QED
    BY <1>1, <1>15, <1>17, <2>1 DEF StoreTypes
<1>19. MissingIsEmpty'
  BY <1>12, <1>17 DEF CallsInv, MissingIsEmpty
<1>20. CallsNumbered' /\ GotIndexed'
  <2>1. r.tries = 0 => r.index = 0
    BY <1>13, <1>14 DEF Retries
  <2> QED
    BY <1>1, <1>15, <1>16, <2>1 DEF CallsInv, CallsNumbered, GotIndexed
<1>21. ConsulCounts'
  <2> SUFFICES ASSUME IsConsul, used'.maxResets = 0
               PROVE  /\ \A x \in Keys : kvps'[x].index <= current'
                      /\ \A d \in Callers : call'[d].index <= current'
    BY <1>1 DEF ConsulCounts, IsConsul
  <2>1. current' = current + 1 /\ i = current + 1
    BY <1>10
  <2>2. /\ \A x \in Keys : kvps[x].index <= current
        /\ \A d \in Callers : call[d].index <= current
    BY <1>4 DEF CallsInv, ConsulCounts
  <2>3. \A x \in Keys : kvps'[x].index <= current'
    BY <1>5, <1>7, <1>12, <1>17, <2>1, <2>2
  <2>4. r.index <= current'
    BY <1>5, <1>6, <1>13, <1>14, <2>1, <2>2 DEF Retries
  <2> QED
    BY <1>5, <1>6, <1>15, <2>1, <2>2, <2>3, <2>4
<1>22. EtcdCounts'
  <2> SUFFICES ASSUME ~IsConsul, used'.maxDeletes = 0, NEW d \in Callers
               PROVE  call'[d].index <= kvps'[call'[d].key].index
    BY <1>1 DEF EtcdCounts, IsConsul
  <2>1. i = kvps[k].index + 1
    BY <1>10
  <2>2. \A x \in Callers : call[x].index <= kvps[call[x].key].index
    BY <1>4 DEF CallsInv, EtcdCounts
  <2>3. \A x \in Keys : kvps'[x].index \in Nat /\ kvps[x].index <= kvps'[x].index
    BY <1>7, <1>11, <1>12, <1>17, <2>1
  <2>4. CASE call'[d].index = call[d].index /\ call'[d].key = call[d].key
    BY <1>6, <1>7, <2>2, <2>3, <2>4
  <2>5. CASE d = c /\ r = NoCall
    BY <1>14, <1>15, <2>3, <2>5
  <2> QED
    BY <1>13, <1>15, <2>4, <2>5 DEF Retries
<1>23. SameIndexSameValue'
  <2> SUFFICES ASSUME Counted', used'.maxResets = 0, NEW d \in Callers, call'[d].pc = "write",
                      kvps'[call'[d].key].exists, kvps'[call'[d].key].index = call'[d].index
               PROVE  kvps'[call'[d].key].value = call'[d].in
    BY DEF SameIndexSameValue
  <2>1. d # c /\ call'[d] = call[d]
    BY <1>15, <1>16
  <2>2. Counted /\ used.maxResets = 0
    BY <1>1, <1>4 DEF Counted, IsConsul
  <2>3. call[d].key # k
    <3> SUFFICES ASSUME call[d].key = k
                 PROVE  call[d].index < i
      BY <1>6, <1>11, <1>12, <1>17, <2>1
    <3>1. CASE IsConsul
      BY <1>5, <1>6, <1>10, <2>2, <3>1 DEF CallsInv, ConsulCounts
    <3>2. CASE ~IsConsul
      BY <1>6, <1>7, <1>10, <2>2, <3>2 DEF CallsInv, EtcdCounts, Counted
    <3> QED
      BY <3>1, <3>2
  <2>4. kvps'[call[d].key] = kvps[call[d].key]
    BY <1>6, <1>17, <2>3
  <2> QED
    BY <2>1, <2>2, <2>4 DEF CallsInv, SameIndexSameValue
<1> QED
  BY <1>3, <1>9, <1>18, <1>19, <1>20, <1>21, <1>22, <1>23 DEF CallsInv

(***************************************************************************)
(* An entry is deleted, or Consul begins to count anew.                    *)
(***************************************************************************)
LEMMA DisturbedInv ==
  ASSUME ConfInv, CallsInv, WatchTypes, NEW k \in Keys, Delete(k) \/ ResetIndexForKey(k) \/ ResetIndex
  PROVE  CallsInv' /\ Grows /\ WatchTypes'
<1> DEFINE m == conf.maxCalls
<1>1. /\ conf' = conf /\ call' = call
      /\ "maxResets" \in Bounds /\ "maxDeletes" \in Bounds /\ (Use("maxResets") \/ Use("maxDeletes"))
  BY ConfFacts DEF Delete, ResetIndexForKey, ResetIndex
<1>2. Grows
  BY <1>1 DEF Grows
<1>3. /\ used'.maxResets = 0 => used.maxResets = 0
      /\ used'.maxDeletes = 0 => used.maxDeletes = 0
  BY <1>1, <1>2, GrowsFacts
<1>4. /\ kvps \in [Keys -> Entry(m)] /\ current \in Nat /\ call \in [Callers -> Call(m)]
  BY DEF CallsInv, StoreTypes
<1>5. CallsNumbered' /\ GotIndexed'
  BY <1>1 DEF CallsInv, CallsNumbered, GotIndexed
<1>6. CASE Delete(k)
  <2>1. /\ kvps' = [kvps EXCEPT ![k] = NoEntry] /\ current' = current
        /\ used'.maxDeletes # 0 /\ sendEvent(k, kvps[k].value)
    BY <1>1, <1>6, UseFacts DEF Delete
  <2>2. NoEntry \in Entry(m) /\ ~NoEntry.exists /\ NoEntry.index = 0
    BY DEF NoEntry, Entry
  <2>3. /\ kvps' \in [Keys -> Entry(m)] /\ kvps'[k] = NoEntry
        /\ \A x \in Keys \ {k} : kvps'[x] = kvps[x]
    BY <1>4, <2>1, <2>2
  <2>4. WatchTypes'
    <3>1. kvps[k].value \in SUBSET (1..conf.maxCalls)
      BY <1>4 DEF Entry
    <3> QED
      BY <1>1, <2>1, <3>1, SendEventTypes
  <2>5. StoreTypes' /\ MissingIsEmpty'
    BY <1>1, <1>4, <2>1, <2>3 DEF StoreTypes, CallsInv, MissingIsEmpty
  <2>6. ConsulCounts' /\ EtcdCounts'
    BY <1>1, <1>3, <1>4, <2>1, <2>2, <2>3 DEF CallsInv, ConsulCounts, EtcdCounts, IsConsul
  <2>7. SameIndexSameValue'
    <3> SUFFICES ASSUME Counted', used'.maxResets = 0, NEW d \in Callers, call[d].pc = "write",
                        kvps'[call[d].key].exists, kvps'[call[d].key].index = call[d].index
                 PROVE  kvps'[call[d].key].value = call[d].in
      BY <1>1 DEF SameIndexSameValue
    <3>1. Counted /\ used.maxResets = 0 /\ call[d].key \in Keys
      BY <1>1, <1>3, <1>4, <2>1 DEF Counted, IsConsul, Call
    <3>2. kvps'[call[d].key] = kvps[call[d].key]
      BY <2>2, <2>3, <3>1
    <3> QED
      BY <3>1, <3>2 DEF CallsInv, SameIndexSameValue
  <2> QED
    BY <1>2, <1>5, <2>4, <2>5, <2>6, <2>7 DEF CallsInv
<1>7. CASE ResetIndexForKey(k) \/ ResetIndex
  <2>1. used'.maxResets # 0 /\ IsConsul /\ watch' = watch
    BY <1>1, <1>7, UseFacts DEF ResetIndexForKey, ResetIndex
  <2>2. /\ kvps' \in [Keys -> Entry(m)] /\ current' \in Nat
        /\ \A x \in Keys : ~kvps'[x].exists => kvps'[x] = kvps[x]
    <3>1. CASE ResetIndex
      BY <1>4, <3>1 DEF ResetIndex
    <3>2. CASE ResetIndexForKey(k)
      <4>1. kvps[k].exists /\ kvps' = [kvps EXCEPT ![k] = [@ EXCEPT !.index = 0]] /\ current' = current
        BY <1>4, <3>2 DEF ResetIndexForKey
      <4>2. [kvps[k] EXCEPT !.index = 0] \in Entry(m) /\ [kvps[k] EXCEPT !.index = 0].exists = kvps[k].exists
        BY <1>4 DEF Entry
      <4> QED
        BY <1>4, <4>1, <4>2
    <3> QED
      BY <1>7, <3>1, <3>2
  <2>3. StoreTypes' /\ WatchTypes'
    BY <1>1, <1>4, <2>1, <2>2 DEF StoreTypes, WatchTypes
  <2>4. MissingIsEmpty'
    <3> SUFFICES ASSUME NEW x \in Keys, ~kvps'[x].exists
                 PROVE  kvps'[x] = NoEntry
      BY DEF MissingIsEmpty
    <3>1. kvps'[x] = kvps[x]
      BY <2>2
    <3> QED
      BY <3>1 DEF CallsInv, MissingIsEmpty
  <2>5. ConsulCounts' /\ EtcdCounts' /\ SameIndexSameValue'
    BY <1>1, <2>1 DEF ConsulCounts, EtcdCounts, SameIndexSameValue, IsConsul
  <2> QED
    BY <1>2, <1>5, <2>3, <2>4, <2>5 DEF CallsInv
<1> QED
  BY <1>6, <1>7


(***************************************************************************)
(* A step of Consul or etcd and their clients.                             *)
(***************************************************************************)
LEMMA RemoteNextInv ==
  ASSUME ConfInv, RemoteInv, RemoteNext
  PROVE  RemoteInv' /\ Grows
<1>1. CallsInv /\ WatchTypes /\ conf.keys \subseteq Keys /\ "maxErrors" \in Bounds
  BY ConfFacts DEF RemoteInv, CallsInv
<1> SUFFICES CallsInv' /\ WatchTypes' /\ Grows
  BY DEF RemoteInv, CallsInv
<1>2. ASSUME NEW k \in Keys, Delete(k) \/ ResetIndexForKey(k) \/ ResetIndex
      PROVE  CallsInv' /\ WatchTypes' /\ Grows
  BY <1>1, <1>2, DisturbedInv
<1>3. CASE ResetIndex
  <2>1. PICK k \in Keys : TRUE
    BY RemoteStoreAssumption
  <2> QED
    BY <1>2, <1>3, <2>1
<1>4. ASSUME NEW c \in Callers, NEW k \in Keys, CASBegins(c, k)
      PROVE  CallsInv' /\ WatchTypes' /\ Grows
  <2>1. CallsInv' /\ Grows /\ watch' = watch
    BY <1>1, <1>4, CASBeginsInv
  <2> QED
    BY <1>1, <2>1 DEF WatchTypes, Grows
<1>5. ASSUME NEW c \in Callers, CASGets(c)
      PROVE  CallsInv' /\ WatchTypes' /\ Grows
  <2>1. CallsInv' /\ Grows /\ watch' = watch
    BY <1>1, <1>5, CASGetsInv
  <2> QED
    BY <1>1, <2>1 DEF WatchTypes, Grows
<1>6. ASSUME NEW c \in Callers, CASWrites(c)
      PROVE  CallsInv' /\ WatchTypes' /\ Grows
  BY <1>1, <1>6, CASWritesInv
<1>7. ASSUME NEW c \in Callers, CASRefused(c) \/ CASFails(c) \/ CASEnds(c)
      PROVE  CallsInv' /\ WatchTypes' /\ Grows
  <2>1. /\ call[c].pc # "idle" /\ UNCHANGED <<conf, kvps, current, watch>>
        /\ (used' = used \/ Use("maxErrors"))
        /\ (call' = [call EXCEPT ![c] = NoCall] \/ call' = [call EXCEPT ![c] = NextAttempt(c)])
    BY <1>7 DEF CASRefused, CASFails, CASEnds, storeVars
  <2>2. Grows
    BY <1>1, <2>1 DEF Grows
  <2>3. PICK r \in Call(conf.maxCalls) : Retries(c, r) /\ call' = [call EXCEPT ![c] = r]
    BY <1>1, <2>1, NextAttemptFacts DEF CallsInv
  <2>4. CallsInv'
    BY <1>1, <2>1, <2>2, <2>3, RetryInv
  <2> QED
    BY <1>1, <2>1, <2>2, <2>4 DEF WatchTypes
<1>8. CASE WatchStep
  <2>1. WatchTypes' /\ Grows /\ UNCHANGED <<kvps, current, call>>
    BY <1>1, <1>8, WatchStepTypes DEF CallsInv
  <2>2. /\ conf' = conf /\ "maxResets" \in Bounds /\ "maxDeletes" \in Bounds
        /\ used'.maxResets = 0 => used.maxResets = 0
        /\ used'.maxDeletes = 0 => used.maxDeletes = 0
    BY <2>1, GrowsFacts, ConfFacts
  <2>3. CallsInv'
    BY <1>1, <2>1, <2>2 DEF CallsInv, StoreTypes, CallsNumbered, MissingIsEmpty, GotIndexed, ConsulCounts,
                            EtcdCounts, SameIndexSameValue, Counted, IsConsul
  <2> QED
    BY <2>1, <2>3
<1> QED
  BY <1>1, <1>2, <1>3, <1>4, <1>5, <1>6, <1>7, <1>8 DEF RemoteNext, CASSteps, WatchStep

-----------------------------------------------------------------------------
(***************************************************************************)
(* The invariant holds at the beginning and after every step.              *)
(***************************************************************************)
LEMMA InitIInv == Init => IInv
<1> SUFFICES ASSUME Init
             PROVE  IInv
  OBVIOUS
<1>1. ConfInv
  <2>1. conf \in Confs /\ used = [b \in Bounds |-> 0]
    BY DEF Init, ConfInit
  <2>2. \A b \in Bounds : conf[b] \in Nat
    BY <2>1, BoundsAssumption
  <2> QED
    BY <2>1, <2>2 DEF ConfInv
<1>2. /\ conf.maxCalls \in Nat /\ conf.mirroring \in BOOLEAN /\ conf.buffer \in Nat /\ conf.files \subseteq Cfgs
  BY <1>1, ConfFacts
<1>3. /\ kvps = [k \in Keys |-> NoEntry] /\ current = 1 /\ call = [c \in Callers |-> NoCall] /\ watch = InitWatch
  BY DEF Init, RemoteInit
<1>4. NoEntry \in Entry(conf.maxCalls) /\ ~NoEntry.exists /\ NoEntry.index = 0
  BY DEF NoEntry, Entry
<1>5. NoCall \in Call(conf.maxCalls) /\ NoCall.pc = "idle" /\ NoCall.index = 0 /\ NoCall.key \in Keys
  <2>1. NoCall.key \in Keys /\ 0 \in 0..conf.maxCalls /\ 0 \in 0..(MaxRetries - 1)
    BY <1>2, RemoteStoreAssumption DEF NoCall
  <2> QED
    BY <1>4, <2>1 DEF NoCall, Call
<1>6. StoreTypes /\ CallsNumbered /\ MissingIsEmpty /\ GotIndexed
  BY <1>3, <1>4, <1>5 DEF StoreTypes, CallsNumbered, MissingIsEmpty, GotIndexed
<1>7. ConsulCounts /\ EtcdCounts /\ SameIndexSameValue
  BY <1>3, <1>4, <1>5 DEF ConsulCounts, EtcdCounts, SameIndexSameValue
<1>8. WatchTypes
  <2>1. << >> \in Seq(Event(conf.maxCalls)) /\ Len(<< >>) = 0 /\ Buffer \in Nat
    BY RemoteStoreAssumption
  <2>2. [k \in Keys |-> {}] \in [Keys -> SUBSET (1..conf.maxCalls)]
    OBVIOUS
  <2>3. watch \in WatchState(conf.maxCalls) /\ watch.consumer = << >> /\ watch.watcher = << >>
    BY <1>3, <2>1, <2>2 DEF InitWatch, WatchState
  <2> QED
    BY <2>1, <2>3 DEF WatchTypes
<1>9. ManagerTypes /\ ListenerInv
  <2>1. << >> \in Seq(Cfgs) /\ Len(<< >>) = 0 /\ NoConfig \in Cfgs /\ Capacity \in Nat
    BY <1>2 DEF Cfgs, Capacity
  <2>2. /\ file \in [ok : BOOLEAN, cfg : Cfgs]
        /\ manager \in [pc : {"new", "running", "notify", "stopped", "failed"}, config : Cfgs, listening : BOOLEAN]
    <3>1. PICK c \in conf.files : file = [ok |-> TRUE, cfg |-> c]
      BY DEF Init, ManagerInit
    <3>2. file \in [ok : BOOLEAN, cfg : Cfgs]
      BY <1>2, <3>1
    <3>3. manager = [pc |-> "new", config |-> NoConfig, listening |-> FALSE]
      BY DEF Init, ManagerInit
    <3> QED
      BY <2>1, <3>2, <3>3
  <2>3. /\ listener \in [state : {"none", "open", "closed"}, buf : Seq(Cfgs), closes : Nat]
        /\ listener.buf = << >> /\ listener.state = "none" /\ listener.closes = 0 /\ ~manager.listening
    BY <2>1 DEF Init, ManagerInit
  <2>4. Len(listener.buf) <= Capacity
    BY <2>1, <2>3
  <2> QED
    BY <2>2, <2>3, <2>4 DEF ManagerTypes, ListenerInv
<1>10. ClientTypes /\ MirrorInv
  <2>1. NoConfig \in Cfgs
    BY DEF Cfgs
  <2> QED
    BY <1>2, <2>1, StoresAssumption DEF Init, MultiInit, ClientTypes, MirrorInv, NoWatch, NoWrite, Free
<1> QED
  BY <1>1, <1>6, <1>7, <1>8, <1>9, <1>10 DEF IInv, RemoteInv, MultiInv

\* MultiClient and its configuration stay within the bounds, too.
LEMMA MultiNextGrows ==
  ASSUME ConfInv, MultiNext
  PROVE  Grows
<1>1. /\ "maxCalls" \in Bounds /\ "maxErrors" \in Bounds /\ "maxEdits" \in Bounds
      /\ "maxCloses" \in Bounds /\ "maxStops" \in Bounds
  BY ConfFacts
<1>2. ASSUME ManagerStep \/ SwitchSteps
      PROVE  conf' = conf /\ (used' = used \/ Use("maxEdits") \/ Use("maxCloses") \/ Use("maxStops"))
  BY <1>2 DEF ManagerStep, FileChanges, LoadConfig, LoadFails, callListeners, CreateListenerChannel,
              CloseListenerChannel, StopManager, SwitchSteps, TakeConfig, ConfigChannelCloses, SwapPrimary,
              CancelPrevious
<1>3. ASSUME NEW w \in Watchers, FnSteps(w) \/ FnEnds(w)
      PROVE  conf' = conf /\ (used' = used \/ Use("maxStops"))
  BY <1>3 DEF FnSteps, FnEnds
<1>4. ASSUME NEW w \in Writers, MultiCASBegins(w) \/ WriteSteps(w) \/ MultiCASFails(w) \/ MirrorFails(w)
      PROVE  conf' = conf /\ (used' = used \/ Use("maxCalls") \/ Use("maxErrors"))
  BY <1>4 DEF MultiCASBegins, WriteSteps, MultiCASFails, MirrorFails, CASStores, Mirrors
<1> QED
  BY <1>1, <1>2, <1>3, <1>4 DEF MultiNext, ManagerStep, Grows

\* Every step of the composition keeps the invariant.
LEMMA NextIInv == IInv /\ [Next]_vars => IInv'
<1> SUFFICES ASSUME IInv, [Next]_vars
             PROVE  IInv'
  OBVIOUS
<1>1. ConfInv /\ RemoteInv /\ MultiInv
  BY DEF IInv
<1>2. ASSUME Grows, UNCHANGED remoteVars
      PROVE  RemoteInv'
  <2>1. UNCHANGED <<kvps, current, call, watch>>
    BY <1>2 DEF remoteVars, storeVars
  <2>2. /\ conf' = conf /\ "maxResets" \in Bounds /\ "maxDeletes" \in Bounds
        /\ used'.maxResets = 0 => used.maxResets = 0
        /\ used'.maxDeletes = 0 => used.maxDeletes = 0
    BY <1>1, <1>2, GrowsFacts, ConfFacts
  <2> QED
    BY <1>1, <2>1, <2>2 DEF RemoteInv, StoreTypes, WatchTypes, CallsNumbered, MissingIsEmpty, GotIndexed,
                            ConsulCounts, EtcdCounts, SameIndexSameValue, Counted, IsConsul
<1>3. ASSUME conf' = conf, UNCHANGED multiVars
      PROVE  MultiInv'
  <2>1. UNCHANGED <<file, manager, listener, primary, mirroring, stores, switch, watcher, writer, acked, disturbed>>
    BY <1>3 DEF multiVars, managerVars, clientVars
  <2> QED
    BY <1>1, <1>3, <2>1 DEF MultiInv, ManagerTypes, ListenerInv, ClientTypes, MirrorInv, Free, Capacity
<1>4. CASE RemoteNext /\ UNCHANGED multiVars
  <2>1. RemoteInv' /\ Grows
    BY <1>1, <1>4, RemoteNextInv
  <2>2. ConfInv' /\ conf' = conf
    BY <1>1, <2>1, GrowsFacts
  <2> QED
    BY <1>3, <1>4, <2>1, <2>2 DEF IInv
<1>5. CASE MultiNext /\ UNCHANGED remoteVars
  BY <1>1, <1>2, <1>5, MultiNextInv, MultiNextGrows DEF IInv
<1>6. CASE UNCHANGED vars
  <2>1. Grows /\ UNCHANGED remoteVars /\ UNCHANGED multiVars
    BY <1>6 DEF vars, Grows
  <2> QED
    BY <1>1, <1>2, <1>3, <2>1, GrowsFacts DEF IInv
<1> QED
  BY <1>4, <1>5, <1>6 DEF Next

\* So it holds throughout.
LEMMA IInvHolds == Spec => []IInv
BY InitIInv, NextIInv, PTL DEF Spec

-----------------------------------------------------------------------------
(***************************************************************************)
(* Whatever stores there are and however often the primary is switched:    *)
(* the primary has every write that was acknowledged, if every write was   *)
(* mirrored and none overlapped another.                                   *)
(***************************************************************************)
THEOREM MigrationLosesNothing == Spec => []MigrationKeepsWrites
<1>1. IInv => MigrationKeepsWrites
  BY DEF IInv, MultiInv, ClientTypes, MirrorInv, MigrationKeepsWrites
<1> QED
  BY <1>1, IInvHolds, PTL

(***************************************************************************)
(* The variables have their types, channels hold no more than they can,    *)
(* the listener's channel is closed at most once, and an attempt that      *)
(* nobody came in between of is refused only in etcd, if the key was there *)
(* in an earlier attempt and is deleted.                                   *)
(***************************************************************************)
THEOREM ClientsSound == Spec => []ClientsAreSound
<1>1. ASSUME IInv
      PROVE  RemoteTypeOK
  <2>1. /\ kvps \in [Keys -> Entry(conf.maxCalls)] /\ current \in Nat
        /\ call \in [Callers -> Call(conf.maxCalls)] /\ watch \in WatchState(conf.maxCalls)
        /\ Len(watch.consumer) <= Buffer /\ Len(watch.watcher) <= Buffer
    BY <1>1 DEF IInv, RemoteInv, StoreTypes, WatchTypes
  <2>2. \A k \in Keys : kvps[k].exists \in BOOLEAN /\ kvps[k].index \in Nat /\ kvps[k].value \subseteq 1..conf.maxCalls
    BY <2>1 DEF Entry
  <2>3. \A c \in Callers : /\ call[c].pc \in {"idle", "get", "write"} /\ call[c].tries \in 0..(MaxRetries - 1)
                           /\ call[c].index \in Nat
    BY <2>1 DEF Call
  <2>4. watch.pc \in {"ask", "wait", "off", "on", "done"} /\ watch.index \in Nat
    BY <2>1 DEF WatchState
  <2> QED
    BY <2>1, <2>2, <2>3, <2>4 DEF RemoteTypeOK
<1>2. IInv => MultiTypeOK
  BY DEF IInv, MultiInv, ManagerTypes, ClientTypes, MultiTypeOK, Capacity
<1>3. IInv => ListenerClosedOnce
  BY DEF IInv, MultiInv, ManagerTypes, ListenerInv, ListenerClosedOnce
<1>4. ASSUME IInv, NEW c \in Callers, call[c].pc = "write", kvps[call[c].key] = call[c].got
      PROVE  Matches(call[c].key, call[c].index) \/ KeepsOldRevision(c)
  <2>1. call[c].key \in Keys /\ call[c].index \in Nat
    BY <1>4 DEF IInv, RemoteInv, StoreTypes, Call
  <2>2. CASE kvps[call[c].key].exists
    BY <1>4, <2>2 DEF IInv, RemoteInv, GotIndexed, Matches
  <2>3. CASE ~kvps[call[c].key].exists
    <3>1. CASE IsConsul
      BY <2>3, <3>1 DEF Matches
    <3>2. CASE ~IsConsul
      <4>1. kvps[call[c].key].index = 0
        BY <1>4, <2>1, <2>3 DEF IInv, RemoteInv, MissingIsEmpty, NoEntry
      <4>2. CASE used.maxDeletes = 0
        BY <1>4, <2>1, <3>2, <4>1, <4>2 DEF IInv, RemoteInv, EtcdCounts, Matches
      <4>3. CASE call[c].tries = 0
        BY <1>4, <2>3, <3>2, <4>1, <4>3 DEF IInv, RemoteInv, GotIndexed, Matches
      <4>4. used.maxDeletes \in Nat /\ call[c].tries \in Nat
        BY <1>4, ConfFacts DEF IInv, ConfInv, RemoteInv, StoreTypes, Call
      <4> QED
        BY <2>3, <3>2, <4>2, <4>3, <4>4 DEF KeepsOldRevision
    <3> QED
      BY <3>1, <3>2
  <2> QED
    BY <2>2, <2>3
<1>5. IInv => ClientsAreSound
  BY <1>1, <1>2, <1>3, <1>4 DEF ClientsAreSound, StoresTypeOK, RefusedOnlyIfDisturbed
<1> QED
  BY <1>5, IInvHolds, PTL

(***************************************************************************)
(* CAS of Consul's and etcd's client loses no update: with any number of   *)
(* callers, keys and attempts, what was stored is part of what is stored   *)
(* next; in etcd as long as nothing is deleted, in Consul as long as it    *)
(* does not begin to count anew.                                           *)
(***************************************************************************)
THEOREM NoUpdateIsLost == Spec => NoLostUpdate
<1> DEFINE A == (Counted /\ used.maxResets = 0) =>
                  \A k \in Keys : (kvps[k].exists /\ kvps'[k].exists) => kvps[k].value \subseteq kvps'[k].value
<1>1. ASSUME IInv, [Next]_vars, kvps' # kvps
      PROVE  A
  <2> SUFFICES ASSUME Counted, used.maxResets = 0, NEW x \in Keys, kvps[x].exists, kvps'[x].exists
               PROVE  kvps[x].value \subseteq kvps'[x].value
    OBVIOUS
  <2>1. /\ kvps \in [Keys -> Entry(conf.maxCalls)] /\ call \in [Callers -> Call(conf.maxCalls)]
        /\ conf.keys \subseteq Keys
    BY <1>1, ConfFacts DEF IInv, RemoteInv, StoreTypes
  <2>2. RemoteNext
    BY <1>1 DEF Next, vars, remoteVars, storeVars
  <2>3. ASSUME NEW k \in Keys, Delete(k)
        PROVE  kvps[x].value \subseteq kvps'[x].value
    <3>1. kvps' = [kvps EXCEPT ![k] = NoEntry] /\ ~NoEntry.exists
      BY <2>3 DEF Delete, NoEntry
    <3> QED
      BY <2>1, <3>1
  <2>4. ASSUME NEW k \in Keys, ResetIndexForKey(k)
        PROVE  kvps[x].value \subseteq kvps'[x].value
    <3>1. kvps' = [kvps EXCEPT ![k] = [@ EXCEPT !.index = 0]]
      BY <2>1, <2>4 DEF ResetIndexForKey
    <3>2. [kvps[k] EXCEPT !.index = 0].value = kvps[k].value
      BY <2>1 DEF Entry
    <3> QED
      BY <2>1, <3>1, <3>2
  <2>5. ASSUME NEW c \in Callers, CASWrites(c)
        PROVE  kvps[x].value \subseteq kvps'[x].value
    <3> DEFINE k == call[c].key
               v == call[c].in \cup {call[c].mark}
               b == IF kvps[k].exists THEN kvps[k].created ELSE NextIndex(k)
               e == [exists |-> TRUE, value |-> v, created |-> b, index |-> NextIndex(k)]
    <3>1. call[c].pc = "write" /\ Matches(k, call[c].index) /\ kvps' = [kvps EXCEPT ![k] = e]
      BY <2>5 DEF CASWrites, Write
    <3>2. e.value = v
      OBVIOUS
    <3> HIDE DEF e
    <3>3. CASE x = k
      <4>1. kvps[k].index = call[c].index
        BY <3>1, <3>3 DEF Matches
      <4>2. kvps[k].value = call[c].in
        BY <1>1, <3>1, <3>3, <4>1 DEF IInv, RemoteInv, SameIndexSameValue
      <4>3. kvps'[x] = e
        BY <2>1, <3>1, <3>3
      <4> QED
        BY <3>2, <3>3, <4>2, <4>3
    <3>4. CASE x # k
      BY <2>1, <3>1, <3>4
    <3> QED
      BY <3>3, <3>4
  <2>6. ASSUME ResetIndex \/ WatchStep \/ \E c \in Callers : CASGets(c) \/ CASRefused(c) \/ CASFails(c) \/ CASEnds(c)
        PROVE  FALSE
    BY <1>1, <2>6 DEF ResetIndex, WatchStep, QuerySteps, Ask, WaitOver, WaitTimesOut, Watch, WatchBreaks, Filter,
                      Receive, WatchEnds, CASGets, CASRefused, CASFails, CASEnds, storeVars
  <2>7. ASSUME NEW c \in Callers, NEW k \in Keys, CASBegins(c, k)
        PROVE  FALSE
    BY <1>1, <2>7 DEF CASBegins, storeVars
  <2> QED
    BY <2>1, <2>2, <2>3, <2>4, <2>5, <2>6, <2>7 DEF RemoteNext, CASSteps, WatchStep
<1>2. IInv /\ [Next]_vars => [A]_kvps
  BY <1>1
<1> QED
  BY <1>2, IInvHolds, PTL DEF Spec, NoLostUpdate
=============================================================================
