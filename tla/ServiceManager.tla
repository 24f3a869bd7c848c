-------------------------- MODULE ServiceManager --------------------------
(***************************************************************************)
(* services/manager.go: a manager of services that follow ServiceContract, *)
(* the goroutines that deliver the services' events to it, its own         *)
(* listeners (some of them services/failure_watcher.go watchers), and the  *)
(* callers of StartAsync, StopAsync, AwaitHealthy and AwaitStopped.        *)
(*                                                                         *)
(* The manager is constructed and all services are New.  Of a service only *)
(* its state and the queue of events for the manager's listener are kept:  *)
(* BasicService is proved to deliver every transition, once and in order.  *)
(* Everything done under m.mu is one step.                                 *)
(***************************************************************************)
EXTENDS Naturals, Sequences, FiniteSets

CONSTANTS
  Services,   \* m.services
  Listeners,  \* manager listeners that may be added, each once
  Watchers,   \* those of them that FailureWatcher.WatchManager adds
  Waiters     \* goroutines that call AwaitHealthy or AwaitStopped once

ASSUME ServicesAssumption == IsFiniteSet(Services) /\ Services # {}
ASSUME WatchersAssumption == Watchers \subseteq Listeners

VARIABLES
  svc,          \* state of each service
  stopping,     \* services whose context has been cancelled
  queue,        \* events each service has for the manager
  toStart,      \* services Manager.StartAsync has yet to start
  toStop,       \* services Manager.StopAsync has yet to stop
  mstate,       \* m.state
  byState,      \* m.byState, the services it lists in each state
  closed,       \* which of healthyCh, stoppedCh are closed
  healthyClosed,\* m.healthyClosed
  chanState,    \* a manager listener's channel
  chanBuf,      \* events queued in it
  received,     \* services whose failure was read from a watcher's channel
  waiter,       \* each await call: position, channel, result
  panicked,     \* whether a panic has ended the process
  emitted       \* all manager events so far

svcVars == <<svc, stopping, queue>>
callVars == <<toStart, toStop>>
mgrVars == <<mstate, byState, closed, healthyClosed, panicked, emitted>>
lisVars == <<chanState, chanBuf, received>>
vars == <<svcVars, callVars, mgrVars, lisVars, waiter>>

(***************************************************************************)
(* The states and transitions of a service; one instance serves them all,  *)
(* as only its constant definitions are used.                              *)
(***************************************************************************)
Contract == INSTANCE ServiceContract WITH state <- svc, failureCase <- svc

States == Contract!States
Terminal == Contract!Terminal

Failure(s) == <<"failure", s>>
Healthy == <<"healthy">>
Stopped == <<"stopped">>

Init ==
  /\ svc = [s \in Services |-> "New"]
  /\ stopping = {}
  /\ queue = [s \in Services |-> << >>]
  /\ toStart = {} /\ toStop = {}
  /\ mstate = "unknown"
  /\ byState = [st \in States |-> IF st = "New" THEN Services ELSE {}]
  /\ closed = {}
  /\ healthyClosed = FALSE
  /\ chanState = [l \in Listeners |-> "none"]
  /\ chanBuf = [l \in Listeners |-> << >>]
  /\ received = [l \in Watchers |-> << >>]
  /\ waiter = [w \in Waiters |-> [pc |-> "idle", ch |-> "healthy", res |-> "none"]]
  /\ panicked = FALSE
  /\ emitted = << >>

-----------------------------------------------------------------------------
(***************************************************************************)
(* A transition of a service, with the event for the manager's listener.   *)
(***************************************************************************)
Transition(s, to) ==
  /\ svc' = [svc EXCEPT ![s] = to]
  /\ queue' = [queue EXCEPT ![s] = Append(@, <<svc[s], to>>)]

(***************************************************************************)
(* Service.StartAsync, and the error it returns when s is not New.         *)
(***************************************************************************)
StartService(s) ==
  IF svc[s] = "New" THEN Transition(s, "Starting") ELSE UNCHANGED <<svc, queue>>

(***************************************************************************)
(* Service.StopAsync.                                                      *)
(***************************************************************************)
StopService(s) ==
  IF svc[s] = "New"
  THEN Transition(s, "Terminated") /\ UNCHANGED stopping
  ELSE stopping' = stopping \cup {s} /\ UNCHANGED <<svc, queue>>

(***************************************************************************)
(* A started service moves on.                                             *)
(***************************************************************************)
ServiceMoves(s) ==
  /\ svc[s] \notin {"New"} \cup Terminal
  /\ \E to \in States : <<svc[s], to>> \in Contract!Transitions /\ Transition(s, to)
  /\ UNCHANGED <<stopping, callVars, mgrVars, lisVars, waiter>>

(***************************************************************************)
(* Somebody starts or stops a managed service on its own.                  *)
(***************************************************************************)
ExternalStart(s) ==
  /\ svc[s] = "New"
  /\ StartService(s)
  /\ UNCHANGED <<stopping, callVars, mgrVars, lisVars, waiter>>

ExternalStop(s) ==
  /\ svc[s] \notin Terminal
  /\ StopService(s)
  /\ UNCHANGED <<callVars, mgrVars, lisVars, waiter>>

(***************************************************************************)
(* Manager.StartAsync: the call, and one service after the other until one *)
(* of them returns an error.                                               *)
(***************************************************************************)
StartAsync ==
  /\ toStart = {} /\ \E s \in Services : svc[s] = "New"
  /\ toStart' = Services
  /\ UNCHANGED <<svcVars, toStop, mgrVars, lisVars, waiter>>

StartAsyncNext(s) ==
  /\ s \in toStart
  /\ StartService(s)
  /\ toStart' = IF svc[s] = "New" THEN toStart \ {s} ELSE {}
  /\ UNCHANGED <<stopping, toStop, mgrVars, lisVars, waiter>>

(***************************************************************************)
(* Manager.StopAsync: the call, and one service after the other.           *)
(***************************************************************************)
StopAsync ==
  /\ toStop = {} /\ \E s \in Services : svc[s] \notin Terminal
  /\ toStop' = Services
  /\ UNCHANGED <<svcVars, toStart, mgrVars, lisVars, waiter>>

\* Fault: the loop ends at the first service that is already stopping.
StopAsyncNext_EndsEarly(s) ==
  /\ s \in toStop
  /\ IF svc[s] \in Terminal THEN UNCHANGED svcVars ELSE StopService(s)
  /\ toStop' = IF svc[s] \in {"Stopping"} \cup Terminal THEN {} ELSE toStop \ {s}
  /\ UNCHANGED <<toStart, mgrVars, lisVars, waiter>>

StopAsyncNext(s) ==
  /\ s \in toStop
  /\ IF svc[s] \in Terminal THEN UNCHANGED svcVars ELSE StopService(s)
  /\ toStop' = toStop \ {s}
  /\ UNCHANGED <<toStart, mgrVars, lisVars, waiter>>

-----------------------------------------------------------------------------
\* Fault: no place for Healthy and Stopped beside a failure of each service.
ListenerBuf_TooSmall == Cardinality(Services)

(***************************************************************************)
(* The capacity of a manager listener's channel.                           *)
(***************************************************************************)
ListenerBuf == Cardinality(Services) + 2

HasRoom(l, n) == chanState[l] = "open" => Len(chanBuf[l]) + n <= ListenerBuf

(***************************************************************************)
(* notifyListeners, for the events es of one state change.  A send to a    *)
(* full channel blocks with m.mu held.                                     *)
(***************************************************************************)
NotifyListeners(es, closeChan) ==
  /\ \A l \in Listeners : HasRoom(l, Len(es))
  /\ chanBuf' = [l \in Listeners |-> IF chanState[l] = "open"
                                     THEN chanBuf[l] \o es ELSE chanBuf[l]]
  /\ chanState' = [l \in Listeners |-> IF closeChan /\ chanState[l] = "open"
                                       THEN "closed" ELSE chanState[l]]
  /\ emitted' = emitted \o es
  /\ UNCHANGED received

(***************************************************************************)
(* close() of some of the manager's channels.                              *)
(***************************************************************************)
Close(chs, es) ==
  /\ closed' = closed \cup chs
  /\ panicked' = \/ chs \cap closed # {}
                 \/ es # << >> /\ \E l \in Listeners :
                                     chanState[l] \in {"closed", "exited"}

(***************************************************************************)
(* byState after s has moved.                                              *)
(***************************************************************************)
Moved(s, from, to) == [byState EXCEPT ![from] = @ \ {s}, ![to] = @ \cup {s}]

(***************************************************************************)
(* The counts serviceStateChanged decides on.                              *)
(***************************************************************************)
AllRunning(bs) == Cardinality(bs["Running"]) = Cardinality(Services)

AllDone(bs) ==
  Cardinality(bs["Terminated"]) + Cardinality(bs["Failed"]) = Cardinality(Services)

\* Fault: a stopping service does not count against health.
SomeStopped_IgnoresStopping(bs) ==
  Cardinality(bs["Terminated"]) + Cardinality(bs["Failed"]) > 0

SomeStopped(bs) ==
  \/ Cardinality(bs["Terminated"]) + Cardinality(bs["Failed"]) > 0
  \/ Cardinality(bs["Stopping"]) > 0

\* Fault: healthyCh is closed whether or not it has been closed before.
GiveUpHealthy_Again == {"healthy"}

(***************************************************************************)
(* healthyCh is closed because health cannot be reached anymore.           *)
(***************************************************************************)
GiveUpHealthy == IF healthyClosed THEN {} ELSE {"healthy"}

(***************************************************************************)
(* The events of one state change: a failure first, then the manager's.    *)
(***************************************************************************)
Notices(s, to, change) ==
  (IF to = "Failed" THEN <<Failure(s)>> ELSE << >>) \o change

(***************************************************************************)
(* The three cases of serviceStateChanged's switch.                        *)
(***************************************************************************)
BecomeHealthy(es) ==
  /\ mstate' = "healthy"
  /\ healthyClosed' = TRUE
  /\ Close({"healthy"}, es)
  /\ NotifyListeners(es, FALSE)

BecomeStopped(es) ==
  /\ mstate' = "stopped"
  /\ healthyClosed' = TRUE
  /\ Close({"stopped"} \cup GiveUpHealthy, es)
  /\ NotifyListeners(es, TRUE)

BecomeUnknown(bs, es) ==
  /\ mstate' = "unknown"
  /\ healthyClosed' = (healthyClosed \/ SomeStopped(bs))
  /\ Close(IF SomeStopped(bs) THEN GiveUpHealthy ELSE {}, es)
  /\ NotifyListeners(es, FALSE)

(***************************************************************************)
(* serviceStateChanged(s, from, to).                                       *)
(***************************************************************************)
ServiceStateChanged(s, from, to) ==
  LET bs == Moved(s, from, to) IN
  /\ byState' = bs
  /\ \/ AllRunning(bs) /\ BecomeHealthy(Notices(s, to, <<Healthy>>))
     \/ ~AllRunning(bs) /\ AllDone(bs) /\ BecomeStopped(Notices(s, to, <<Stopped>>))
     \/ ~AllRunning(bs) /\ ~AllDone(bs) /\ BecomeUnknown(bs, Notices(s, to, << >>))

(***************************************************************************)
(* The goroutine of the manager's listener on s handles the next event.    *)
(***************************************************************************)
HandleEvent(s) ==
  /\ queue[s] # << >>
  /\ ServiceStateChanged(s, Head(queue[s])[1], Head(queue[s])[2])
  /\ queue' = [queue EXCEPT ![s] = Tail(@)]
  /\ UNCHANGED <<svc, stopping, callVars, waiter>>

-----------------------------------------------------------------------------
(***************************************************************************)
(* AddListener; nothing is registered with a stopped manager.              *)
(***************************************************************************)
AddListener(l) ==
  /\ chanState[l] = "none"
  /\ mstate # "stopped"
  /\ chanState' = [chanState EXCEPT ![l] = "open"]
  /\ UNCHANGED <<svcVars, callVars, mgrVars, chanBuf, received, waiter>>

(***************************************************************************)
(* A listener's goroutine runs the callback of the next event.  That of a  *)
(* watcher sends a failure on its unbuffered channel, so its step is also  *)
(* the receiver's, and may never come.                                     *)
(***************************************************************************)
ListenerRuns(l) ==
  /\ chanBuf[l] # << >>
  /\ LET e == Head(chanBuf[l]) IN
       IF l \in Watchers /\ e[1] = "failure"
       THEN received' = [received EXCEPT ![l] = Append(@, <<e[2], svc[e[2]]>>)]
       ELSE UNCHANGED received
  /\ chanBuf' = [chanBuf EXCEPT ![l] = Tail(@)]
  /\ UNCHANGED <<svcVars, callVars, mgrVars, chanState, waiter>>

ListenerExits(l) ==
  /\ chanState[l] = "closed"
  /\ chanBuf[l] = << >>
  /\ chanState' = [chanState EXCEPT ![l] = "exited"]
  /\ UNCHANGED <<svcVars, callVars, mgrVars, chanBuf, received, waiter>>

-----------------------------------------------------------------------------
(***************************************************************************)
(* AwaitHealthy and AwaitStopped: the call, the end of the caller's        *)
(* context, and the channel closing.  AwaitHealthy then reads m.state      *)
(* under the lock.                                                         *)
(***************************************************************************)
Await(w, ch) ==
  /\ waiter[w].pc = "idle"
  /\ waiter' = [waiter EXCEPT ![w].pc = "waiting", ![w].ch = ch]
  /\ UNCHANGED <<svcVars, callVars, mgrVars, lisVars>>

AwaitCtxDone(w) ==
  /\ waiter[w].pc = "waiting"
  /\ waiter' = [waiter EXCEPT ![w].pc = "done", ![w].res = "ctxDone"]
  /\ UNCHANGED <<svcVars, callVars, mgrVars, lisVars>>

AwaitReleased(w) ==
  /\ waiter[w].pc = "waiting"
  /\ waiter[w].ch \in closed
  /\ waiter' = [waiter EXCEPT ![w].pc = "done",
                  ![w].res = IF waiter[w].ch = "healthy" /\ mstate # "healthy"
                             THEN "notHealthy" ELSE "ok"]
  /\ UNCHANGED <<svcVars, callVars, mgrVars, lisVars>>

-----------------------------------------------------------------------------
Next ==
  /\ ~panicked
  /\ \/ StartAsync \/ StopAsync
     \/ \E s \in Services :
          \/ ServiceMoves(s) \/ ExternalStart(s) \/ ExternalStop(s)
          \/ StartAsyncNext(s) \/ StopAsyncNext(s) \/ HandleEvent(s)
     \/ \E l \in Listeners : AddListener(l) \/ ListenerRuns(l) \/ ListenerExits(l)
     \/ \E w \in Waiters :
          \/ \E ch \in {"healthy", "stopped"} : Await(w, ch)
          \/ AwaitCtxDone(w) \/ AwaitReleased(w)

Spec == Init /\ [][Next]_vars

(***************************************************************************)
(* A service ends once it is told to stop (BasicService's                  *)
(* StopLeadsToTerminal) and finishes what it began; the manager's event    *)
(* goroutines, the loop of StopAsync and released waiters proceed.         *)
(* Nothing is assumed of StartAsync's loop, nor of the manager's own       *)
(* listeners: a watcher nobody reads from is allowed.                      *)
(***************************************************************************)
Fairness ==
  /\ \A s \in Services :
       /\ WF_vars(~panicked /\ ServiceMoves(s) /\ (svc[s] = "Running" => s \in stopping))
       /\ WF_vars(~panicked /\ HandleEvent(s))
  /\ WF_vars(~panicked /\ \E s \in Services : StopAsyncNext(s))
  /\ \A w \in Waiters : WF_vars(~panicked /\ AwaitReleased(w))

FairSpec == Spec /\ Fairness

-----------------------------------------------------------------------------
(***************************************************************************)
(* Every variable holds a value of its kind.                               *)
(***************************************************************************)
TypeOK ==
  /\ svc \in [Services -> States]
  /\ stopping \subseteq Services
  /\ \A s \in Services : queue[s] \in Seq(Contract!Transitions)
  /\ toStart \subseteq Services /\ toStop \subseteq Services
  /\ mstate \in {"unknown", "healthy", "stopped"}
  /\ byState \in [States -> SUBSET Services]
  /\ closed \subseteq {"healthy", "stopped"}
  /\ healthyClosed \in BOOLEAN /\ panicked \in BOOLEAN
  /\ \A l \in Listeners : Len(chanBuf[l]) <= ListenerBuf

(***************************************************************************)
(* The state of s as of the last event the manager has handled.            *)
(***************************************************************************)
View(s) == IF queue[s] = << >> THEN svc[s] ELSE Head(queue[s])[1]

(***************************************************************************)
(* byState lists every service exactly once, in the state the manager last *)
(* heard of, though events of different services arrive in any order.      *)
(***************************************************************************)
ByStateIsView ==
  \A s \in Services, st \in States : s \in byState[st] <=> View(s) = st

(***************************************************************************)
(* serviceStateChanged never closes healthyCh or stoppedCh a second time   *)
(* ("happens at most once") and sends nothing after Stopped, although the  *)
(* all-running case does not look at healthyClosed.                        *)
(***************************************************************************)
NeverPanics == ~panicked

(***************************************************************************)
(* The comment on healthyCh: "closed when healthy state is reached, or if  *)
(* it cannot be reached anymore (whatever happens first)".                 *)
(***************************************************************************)
HealthyChMeaning ==
  /\ "healthy" \in closed <=> healthyClosed
  /\ healthyClosed <=>
       \/ \A s \in Services : View(s) = "Running"
       \/ \E s \in Services : View(s) \in {"Stopping"} \cup Terminal

(***************************************************************************)
(* stoppedCh is closed, and IsStopped true, only when every service really *)
(* has ended, although the manager only knows of past states.              *)
(***************************************************************************)
StoppedIsReal ==
  mstate = "stopped" \/ "stopped" \in closed =>
    /\ mstate = "stopped" /\ "stopped" \in closed
    /\ \A s \in Services : svc[s] \in Terminal /\ queue[s] = << >>

(***************************************************************************)
(* A manager listener's channel always has room for the next events, so    *)
(* notifyListeners never blocks under m.mu whatever the listeners do.      *)
(***************************************************************************)
ListenersNeverBlock ==
  \A l \in Listeners, s \in Services :
    queue[s] # << >> => HasRoom(l, IF Head(queue[s])[2] = "Failed" THEN 2 ELSE 1)

(***************************************************************************)
(* The manager's events: at most one Healthy, never after a failure; one   *)
(* Failure for each failed service; Stopped once, and last.                *)
(***************************************************************************)
EventOrder ==
  \A i, j \in 1..Len(emitted) :
    i < j => /\ emitted[i] # Stopped
             /\ emitted[i] # emitted[j]
             /\ emitted[j] = Healthy => emitted[i] = Healthy

(***************************************************************************)
(* A watcher never sends a nil error: when it asks a service for its       *)
(* failure case the service is Failed.                                     *)
(***************************************************************************)
WatchersSendErrors ==
  \A l \in Watchers : \A i \in 1..Len(received[l]) : received[l][i][2] = "Failed"

(***************************************************************************)
(* An error of AwaitHealthy, decided on after the channel was closed, is   *)
(* final: the manager is not healthy and never will be.                    *)
(***************************************************************************)
NotHealthyIsFinal ==
  \A w \in Waiters : waiter[w].res = "notHealthy" => mstate # "healthy"

(***************************************************************************)
(* What the manager knows and answers is right, although it trails its     *)
(* services: its table, its two channels, IsStopped and the error of       *)
(* AwaitHealthy.                                                           *)
(***************************************************************************)
AnswersHold ==
  TypeOK /\ ByStateIsView /\ HealthyChMeaning /\ StoppedIsReal /\ NotHealthyIsFinal

(***************************************************************************)
(* Listeners of the manager, and failure watchers among them, get their    *)
(* events in order and rightly, and never hold up the manager.             *)
(***************************************************************************)
ListenersAreServed == ListenersNeverBlock /\ EventOrder /\ WatchersSendErrors

(***************************************************************************)
(* Once Manager.StopAsync is called the manager reaches Stopped, whatever  *)
(* StartAsync, the services and slow or blocked listeners do meanwhile.    *)
(***************************************************************************)
StopLeadsToStopped == (toStop # {}) ~> (mstate = "stopped")

(***************************************************************************)
(* Once all services have ended, by failure or otherwise and from whatever *)
(* state, every call of AwaitHealthy and AwaitStopped returns.             *)
(***************************************************************************)
AwaitsReturn ==
  \A w \in Waiters :
    (\A s \in Services : svc[s] \in Terminal) ~> (waiter[w].pc \in {"idle", "done"})

(***************************************************************************)
(* StopAsync leads to the end of all services, and their end to that of    *)
(* all who wait.                                                           *)
(***************************************************************************)
StopReturns == StopLeadsToStopped /\ AwaitsReturn
=============================================================================
