--------------------------- MODULE BasicService ---------------------------
(***************************************************************************)
(* services/basic_service.go: one service, its main goroutine, the callers *)
(* of StartAsync and StopAsync, its listeners and the callers of           *)
(* AwaitRunning and AwaitTerminated.                                       *)
(*                                                                         *)
(* Everything done while stateMu is held is one atomic step.  Whatever the *)
(* code does outside the lock (reading serviceContext.Err(), calling       *)
(* serviceCancel(), the user's three functions, the two reads of           *)
(* awaitState) is a step of its own, so that other goroutines run between. *)
(***************************************************************************)
EXTENDS Naturals, Sequences, FiniteSets

CONSTANTS
  Stoppers,     \* goroutines that call StopAsync, each as often as it likes
  Listeners,    \* listeners that may be passed to AddListener, each once
  Waiters       \* goroutines that call AwaitRunning or AwaitTerminated once

VARIABLES
  state,        \* b.state
  failureCase,  \* b.failureCase
  ctx,          \* b.serviceContext: "none" (nil), "live" or "cancelled"
  closed,       \* which of runningWaitersCh, terminatedWaitersCh are closed
  chanState,    \* a listener's channel: "none", "open", "closed"; "exited"
                \* once its goroutine has left the range loop
  chanBuf,      \* events queued in a listener's channel
  mainPc,       \* where main() is
  failure,      \* main()'s local variable failure
  stoppingFrom, \* main()'s local variable stoppingFrom
  stopPc,       \* where each StopAsync call is
  waiter,       \* each awaitState call: position, channel, state read, result
  panicked,     \* the panic that ended the process, or "no"
  history,      \* events of all transitions so far
  added,        \* Len(history) when a listener was added
  delivered     \* events whose callback a listener's goroutine has run

svcVars == <<state, failureCase, ctx, closed, panicked, history>>
mainVars == <<mainPc, failure, stoppingFrom>>
lisVars == <<chanState, chanBuf, added, delivered>>
vars == <<svcVars, mainVars, lisVars, stopPc, waiter>>

Contract == INSTANCE ServiceContract

States == Contract!States
Terminal == Contract!Terminal
NoError == Contract!NoError
Errors == Contract!Errors

(***************************************************************************)
(* An event is the transition whose listener callback it invokes.          *)
(***************************************************************************)
Events == Contract!Transitions

WaitChannels == {"running", "terminated"}
Panics == {"no", "switchState failed", "close of closed channel",
           "send on closed channel", "nil serviceCancel"}
Results == {"none", "ok", "invalidState", "failureCase", "ctxDone"}
MainPcs == {"notStarted", "startFn", "checkCtx", "toRunning", "runningFn",
            "toStopping", "cancelCtx", "stoppingFn", "finish", "done"}
WaiterPcs == {"idle", "waiting", "readFailure", "done"}
WaiterRecs == [pc : WaiterPcs, ch : WaitChannels, read : States, res : Results]

Init ==
  /\ state = "New"
  /\ failureCase = NoError
  /\ ctx = "none"
  /\ closed = {}
  /\ chanState = [l \in Listeners |-> "none"]
  /\ chanBuf = [l \in Listeners |-> << >>]
  /\ mainPc = "notStarted"
  /\ failure = NoError
  /\ stoppingFrom = "Starting"
  /\ stopPc = [p \in Stoppers |-> "idle"]
  /\ waiter = [w \in Waiters |->
                 [pc |-> "idle", ch |-> "running", read |-> "New", res |-> "none"]]
  /\ panicked = "no"
  /\ history = << >>
  /\ added = [l \in Listeners |-> 0]
  /\ delivered = [l \in Listeners |-> << >>]

-----------------------------------------------------------------------------
(***************************************************************************)
(* State switching                                                         *)
(***************************************************************************)
Registered == {l \in Listeners : chanState[l] # "none"}

\* Fault: one place too few for the four transitions.
ListenerBuf_TooSmall == 3

(***************************************************************************)
(* The capacity AddListener gives a listener's channel: "There are max 4   *)
(* state transitions."                                                     *)
(***************************************************************************)
ListenerBuf == 4

(***************************************************************************)
(* ch <- lfn blocks while the channel is full, with stateMu held.          *)
(***************************************************************************)
HasRoom(l) == chanState[l] = "open" => Len(chanBuf[l]) < ListenerBuf

\* Fault: a non-blocking send, which drops an event the listener is behind on.
NotifyListeners_Drops(e, closeChan) ==
  /\ chanBuf' = [l \in Listeners |-> IF chanState[l] = "open" /\ chanBuf[l] = << >>
                                     THEN <<e>> ELSE chanBuf[l]]
  /\ chanState' = [l \in Listeners |-> IF closeChan /\ chanState[l] = "open"
                                       THEN "closed" ELSE chanState[l]]
  /\ UNCHANGED <<added, delivered>>

(***************************************************************************)
(* notifyListeners: one event into every registered channel, closing the   *)
(* channels after the last event of a service's life.                      *)
(***************************************************************************)
NotifyListeners(e, closeChan) ==
  /\ \A l \in Listeners : HasRoom(l)
  /\ chanBuf' = [l \in Listeners |-> IF chanState[l] = "open"
                                     THEN Append(chanBuf[l], e)
                                     ELSE chanBuf[l]]
  /\ chanState' = [l \in Listeners |-> IF closeChan /\ chanState[l] = "open"
                                       THEN "closed" ELSE chanState[l]]
  /\ UNCHANGED <<added, delivered>>

PanicOf(chs) ==
  IF chs \cap closed # {} THEN "close of closed channel"
  ELSE IF \E l \in Registered : chanState[l] # "open"
       THEN "send on closed channel" ELSE "no"

(***************************************************************************)
(* A successful switchState: the new state, the waiters' channels its      *)
(* stateFn closes, and the listeners it notifies.                          *)
(***************************************************************************)
SwitchState(from, to, chs, closeChan) ==
  /\ state = from
  /\ state' = to
  /\ closed' = closed \cup chs
  /\ NotifyListeners(<<from, to>>, closeChan)
  /\ history' = Append(history, <<from, to>>)
  /\ panicked' = PanicOf(chs)

(***************************************************************************)
(* mustSwitchState panics when the switch fails.  fc and c are what the    *)
(* stateFn makes of failureCase and of the context.                        *)
(***************************************************************************)
MustSwitchState(from, to, chs, closeChan, fc, c) ==
  IF state = from
  THEN /\ SwitchState(from, to, chs, closeChan)
       /\ failureCase' = fc
       /\ ctx' = c
  ELSE /\ panicked' = "switchState failed"
       /\ UNCHANGED <<state, failureCase, ctx, closed, history, lisVars>>

-----------------------------------------------------------------------------
(***************************************************************************)
(* StartAsync.  The parent context may already be cancelled.  In any other *)
(* state than New the call returns an error and changes nothing.           *)
(***************************************************************************)
StartAsync ==
  /\ SwitchState("New", "Starting", {}, FALSE)
  /\ ctx' \in {"live", "cancelled"}
  /\ mainPc' = "startFn"
  /\ UNCHANGED <<failureCase, failure, stoppingFrom, stopPc, waiter>>

(***************************************************************************)
(* The owner of the context passed to StartAsync cancels it.               *)
(***************************************************************************)
CancelParent ==
  /\ ctx = "live"
  /\ ctx' = "cancelled"
  /\ UNCHANGED <<state, failureCase, closed, panicked, history, mainVars,
                 lisVars, stopPc, waiter>>

(***************************************************************************)
(* main(): startFn returns nil.                                            *)
(***************************************************************************)
StartFnSucceeds ==
  /\ mainPc = "startFn"
  /\ mainPc' = "checkCtx"
  /\ UNCHANGED <<svcVars, failure, stoppingFrom, lisVars, stopPc, waiter>>

(***************************************************************************)
(* main(): startFn returns an error, and the service fails.                *)
(***************************************************************************)
StartFnFails ==
  /\ mainPc = "startFn"
  /\ mainPc' = "done"
  /\ UNCHANGED <<failure, stoppingFrom, stopPc, waiter>>
  /\ MustSwitchState("Starting", "Failed", {"running", "terminated"}, TRUE,
                     "startFn", "cancelled")

(***************************************************************************)
(* main(): the test of serviceContext.Err() after a successful start.      *)
(***************************************************************************)
CheckCtx ==
  /\ mainPc = "checkCtx"
  /\ mainPc' = IF ctx = "cancelled" THEN "toStopping" ELSE "toRunning"
  /\ UNCHANGED <<svcVars, failure, stoppingFrom, lisVars, stopPc, waiter>>

(***************************************************************************)
(* main(): the service enters Running.                                     *)
(***************************************************************************)
EnterRunning ==
  /\ mainPc = "toRunning"
  /\ mainPc' = "runningFn"
  /\ stoppingFrom' = "Running"
  /\ UNCHANGED <<failure, stopPc, waiter>>
  /\ MustSwitchState("Starting", "Running", {"running"}, FALSE, failureCase, ctx)

(***************************************************************************)
(* main(): runningFn returns, of its own accord or because its context was *)
(* cancelled, with or without an error.                                    *)
(***************************************************************************)
RunningFnReturns ==
  /\ mainPc = "runningFn"
  /\ mainPc' = "toStopping"
  /\ failure' \in {NoError, "runningFn"}
  /\ UNCHANGED <<svcVars, stoppingFrom, lisVars, stopPc, waiter>>

\* Fault: runningWaitersCh is closed whatever state the service stops from.
EnterStopping_AlwaysCloses ==
  /\ mainPc = "toStopping"
  /\ mainPc' = "cancelCtx"
  /\ UNCHANGED <<failure, stoppingFrom, stopPc, waiter>>
  /\ MustSwitchState(stoppingFrom, "Stopping", {"running"}, FALSE, failureCase, ctx)

\* Fault: AwaitTerminated is released when the service begins to stop.
EnterStopping_ReleasesEarly ==
  /\ mainPc = "toStopping"
  /\ mainPc' = "cancelCtx"
  /\ UNCHANGED <<failure, stoppingFrom, stopPc, waiter>>
  /\ MustSwitchState(stoppingFrom, "Stopping", WaitChannels \ closed, FALSE,
                     failureCase, ctx)

(***************************************************************************)
(* main(): the service enters Stopping, from Starting or Running.          *)
(***************************************************************************)
EnterStopping ==
  /\ mainPc = "toStopping"
  /\ mainPc' = "cancelCtx"
  /\ UNCHANGED <<failure, stoppingFrom, stopPc, waiter>>
  /\ MustSwitchState(stoppingFrom, "Stopping",
                     IF stoppingFrom = "Starting" THEN {"running"} ELSE {},
                     FALSE, failureCase, ctx)

(***************************************************************************)
(* main(): the context is cancelled before stoppingFn runs.                *)
(***************************************************************************)
CancelCtx ==
  /\ mainPc = "cancelCtx"
  /\ mainPc' = "stoppingFn"
  /\ ctx' = "cancelled"
  /\ UNCHANGED <<state, failureCase, closed, panicked, history, failure,
                 stoppingFrom, lisVars, stopPc, waiter>>

(***************************************************************************)
(* main(): stoppingFn returns; an error of runningFn takes precedence.     *)
(***************************************************************************)
StoppingFnReturns ==
  /\ mainPc = "stoppingFn"
  /\ mainPc' = "finish"
  /\ \E err \in {NoError, "stoppingFn"} :
       failure' = IF failure = NoError THEN err ELSE failure
  /\ UNCHANGED <<svcVars, stoppingFrom, lisVars, stopPc, waiter>>

(***************************************************************************)
(* main(): the service ends, Failed or Terminated.                         *)
(***************************************************************************)
Finish ==
  /\ mainPc = "finish"
  /\ mainPc' = "done"
  /\ UNCHANGED <<failure, stoppingFrom, stopPc, waiter>>
  /\ MustSwitchState("Stopping",
                     IF failure # NoError THEN "Failed" ELSE "Terminated",
                     {"terminated"}, TRUE,
                     IF failure # NoError THEN failure ELSE failureCase, ctx)

-----------------------------------------------------------------------------
(***************************************************************************)
(* StopAsync: the unlocked test of State().  A call that finds the service *)
(* already stopping returns.                                               *)
(***************************************************************************)
StopAsyncCheck(p) ==
  /\ stopPc[p] = "idle"
  /\ state \notin {"Stopping", "Terminated", "Failed"}
  /\ stopPc' = [stopPc EXCEPT ![p] = "checked"]
  /\ UNCHANGED <<svcVars, mainVars, lisVars, waiter>>

\* Fault: waiters for Running are left waiting.
StopAsyncSwitch_ForgetsRunning(p) ==
  /\ stopPc[p] = "checked"
  /\ UNCHANGED <<failureCase, ctx, mainVars, waiter>>
  /\ \/ /\ SwitchState("New", "Terminated", {"terminated"}, TRUE)
        /\ stopPc' = [stopPc EXCEPT ![p] = "idle"]
     \/ /\ state # "New"
        /\ stopPc' = [stopPc EXCEPT ![p] = "cancel"]
        /\ UNCHANGED <<state, closed, panicked, history, lisVars>>

\* Fault: the state read before is trusted, not tested again under the lock.
StopAsyncSwitch_NoRecheck(p) ==
  /\ stopPc[p] = "checked"
  /\ UNCHANGED <<failureCase, ctx, mainVars, waiter>>
  /\ SwitchState(state, "Terminated", WaitChannels, TRUE)
  /\ stopPc' = [stopPc EXCEPT ![p] = "idle"]

(***************************************************************************)
(* StopAsync: switchState(New, Terminated).                                *)
(***************************************************************************)
StopAsyncSwitch(p) ==
  /\ stopPc[p] = "checked"
  /\ UNCHANGED <<failureCase, ctx, mainVars, waiter>>
  /\ \/ /\ SwitchState("New", "Terminated", {"running", "terminated"}, TRUE)
        /\ stopPc' = [stopPc EXCEPT ![p] = "idle"]
     \/ /\ state # "New"
        /\ stopPc' = [stopPc EXCEPT ![p] = "cancel"]
        /\ UNCHANGED <<state, closed, panicked, history, lisVars>>

\* Fault: a service that is starting or running is not told to stop.
StopAsyncCancel_Nothing(p) ==
  /\ stopPc[p] = "cancel"
  /\ stopPc' = [stopPc EXCEPT ![p] = "idle"]
  /\ UNCHANGED <<svcVars, mainVars, lisVars, waiter>>

(***************************************************************************)
(* StopAsync: serviceCancel(), a nil function while there is no context.   *)
(***************************************************************************)
StopAsyncCancel(p) ==
  /\ stopPc[p] = "cancel"
  /\ stopPc' = [stopPc EXCEPT ![p] = "idle"]
  /\ UNCHANGED <<state, failureCase, closed, history, mainVars, lisVars, waiter>>
  /\ IF ctx = "none" THEN panicked' = "nil serviceCancel" /\ UNCHANGED ctx
                     ELSE ctx' = "cancelled" /\ UNCHANGED panicked

-----------------------------------------------------------------------------
(***************************************************************************)
(* AddListener.  Nothing is registered once the service has ended.         *)
(***************************************************************************)
AddListener(l) ==
  /\ chanState[l] = "none"
  /\ state \notin Terminal
  /\ chanState' = [chanState EXCEPT ![l] = "open"]
  /\ added' = [added EXCEPT ![l] = Len(history)]
  /\ UNCHANGED <<svcVars, mainVars, chanBuf, delivered, stopPc, waiter>>

(***************************************************************************)
(* A listener's goroutine runs the callback of the next event, ...         *)
(***************************************************************************)
ListenerRuns(l) ==
  /\ chanBuf[l] # << >>
  /\ chanBuf' = [chanBuf EXCEPT ![l] = Tail(@)]
  /\ delivered' = [delivered EXCEPT ![l] = Append(@, Head(chanBuf[l]))]
  /\ UNCHANGED <<svcVars, mainVars, chanState, added, stopPc, waiter>>

(***************************************************************************)
(* ... and ends when its channel is closed and empty.                      *)
(***************************************************************************)
ListenerExits(l) ==
  /\ chanState[l] = "closed"
  /\ chanBuf[l] = << >>
  /\ chanState' = [chanState EXCEPT ![l] = "exited"]
  /\ UNCHANGED <<svcVars, mainVars, chanBuf, added, delivered, stopPc, waiter>>

-----------------------------------------------------------------------------
Expected(ch) == IF ch = "running" THEN "Running" ELSE "Terminated"

(***************************************************************************)
(* AwaitRunning and AwaitTerminated: the call, ...                         *)
(***************************************************************************)
Await(w, ch) ==
  /\ waiter[w].pc = "idle"
  /\ waiter' = [waiter EXCEPT ![w].pc = "waiting", ![w].ch = ch]
  /\ UNCHANGED <<svcVars, mainVars, lisVars, stopPc>>

(***************************************************************************)
(* ... the caller's context is done first, ...                             *)
(***************************************************************************)
AwaitCtxDone(w) ==
  /\ waiter[w].pc = "waiting"
  /\ waiter' = [waiter EXCEPT ![w].pc = "done", ![w].res = "ctxDone"]
  /\ UNCHANGED <<svcVars, mainVars, lisVars, stopPc>>

(***************************************************************************)
(* ... or the channel is closed and State() is read, ...                   *)
(***************************************************************************)
AwaitReadState(w) ==
  /\ waiter[w].pc = "waiting"
  /\ waiter[w].ch \in closed
  /\ waiter' =
       IF state = Expected(waiter[w].ch)
       THEN [waiter EXCEPT ![w].pc = "done", ![w].res = "ok", ![w].read = state]
       ELSE [waiter EXCEPT ![w].pc = "readFailure", ![w].read = state]
  /\ UNCHANGED <<svcVars, mainVars, lisVars, stopPc>>

(***************************************************************************)
(* ... and FailureCase() is read for the error to return.                  *)
(***************************************************************************)
AwaitReadFailure(w) ==
  /\ waiter[w].pc = "readFailure"
  /\ waiter' = [waiter EXCEPT ![w].pc = "done",
                  ![w].res = IF failureCase # NoError
                             THEN "failureCase" ELSE "invalidState"]
  /\ UNCHANGED <<svcVars, mainVars, lisVars, stopPc>>

-----------------------------------------------------------------------------
Main ==
  \/ StartFnSucceeds \/ StartFnFails \/ CheckCtx \/ EnterRunning
  \/ RunningFnReturns \/ EnterStopping \/ CancelCtx \/ StoppingFnReturns
  \/ Finish

StopAsync(p) == StopAsyncCheck(p) \/ StopAsyncSwitch(p) \/ StopAsyncCancel(p)

Listener(l) == AddListener(l) \/ ListenerRuns(l) \/ ListenerExits(l)

Waiter(w) ==
  \/ \E ch \in WaitChannels : Await(w, ch)
  \/ AwaitCtxDone(w) \/ AwaitReadState(w) \/ AwaitReadFailure(w)

(***************************************************************************)
(* A panic ends the process.                                               *)
(***************************************************************************)
Next ==
  /\ panicked = "no"
  /\ \/ StartAsync
     \/ CancelParent
     \/ Main
     \/ \E p \in Stoppers : StopAsync(p)
     \/ \E l \in Listeners : Listener(l)
     \/ \E w \in Waiters : Waiter(w)

Spec == Init /\ [][Next]_vars

(***************************************************************************)
(* Goroutines that can take a step eventually do.  The user's startFn and  *)
(* stoppingFn return; runningFn need only return once its context is       *)
(* cancelled; a listener's callbacks and StopAsync calls return.           *)
(***************************************************************************)
Fairness ==
  /\ WF_vars(panicked = "no" /\ Main /\ (mainPc = "runningFn" => ctx = "cancelled"))
  /\ \A p \in Stoppers :
       WF_vars(panicked = "no" /\ (StopAsyncSwitch(p) \/ StopAsyncCancel(p)))
  /\ \A l \in Listeners :
       WF_vars(panicked = "no" /\ (ListenerRuns(l) \/ ListenerExits(l)))
  /\ \A w \in Waiters :
       WF_vars(panicked = "no" /\ (AwaitReadState(w) \/ AwaitReadFailure(w)))

FairSpec == Spec /\ Fairness

-----------------------------------------------------------------------------
(***************************************************************************)
(* Properties                                                              *)
(***************************************************************************)

(***************************************************************************)
(* Every variable holds a value of its kind, and no channel holds more     *)
(* than its capacity.                                                      *)
(***************************************************************************)
TypeOK ==
  /\ state \in States
  /\ failureCase \in Errors \cup {NoError}
  /\ ctx \in {"none", "live", "cancelled"}
  /\ closed \subseteq WaitChannels
  /\ chanState \in [Listeners -> {"none", "open", "closed", "exited"}]
  /\ chanBuf \in [Listeners -> Seq(Events)]
  /\ mainPc \in MainPcs
  /\ failure \in Errors \cup {NoError}
  /\ stoppingFrom \in {"Starting", "Running"}
  /\ stopPc \in [Stoppers -> {"idle", "checked", "cancel"}]
  /\ waiter \in [Waiters -> WaiterRecs]
  /\ panicked \in Panics
  /\ history \in Seq(Events)
  /\ added \in [Listeners -> Nat]
  /\ delivered \in [Listeners -> Seq(Events)]

(***************************************************************************)
(* main() never finds the service in another state than the one it left it *)
(* in (mustSwitchState does not panic), no channel is closed twice and no  *)
(* event is sent to a listener's channel after its last one, whatever the  *)
(* order of StartAsync, StopAsync and the cancellation of the context.     *)
(***************************************************************************)
NoInternalPanic == panicked \in {"no", "nil serviceCancel"}

(***************************************************************************)
(* notifyListeners never blocks while it holds stateMu, however slow the   *)
(* listeners are: a channel has room until the service has ended.          *)
(***************************************************************************)
ListenersNeverBlock ==
  state \notin Terminal => \A l \in Listeners : HasRoom(l)

(***************************************************************************)
(* runningWaitersCh and terminatedWaitersCh are closed exactly while the   *)
(* comments on them say: in Running and every state Running can no longer  *)
(* be reached from, and in the terminal states.                            *)
(***************************************************************************)
WaitersMatchState ==
  /\ "running" \in closed <=> state \notin {"New", "Starting"}
  /\ "terminated" \in closed <=> state \in Terminal

(***************************************************************************)
(* FailureCase() is an error exactly in the Failed state, as service.go    *)
(* promises.                                                               *)
(***************************************************************************)
FailureCaseIffFailed == failureCase # NoError <=> state = "Failed"

(***************************************************************************)
(* The service's context is cancelled before stoppingFn runs, and no       *)
(* service that has ended leaves a live context behind.                    *)
(***************************************************************************)
ContextCancelledBeforeStopping ==
  mainPc \in {"stoppingFn", "finish", "done"} \/ state \in Terminal => ctx # "live"

(***************************************************************************)
(* The parts of a service agree whenever its lock is free: its state with  *)
(* the waiters' channels, the failure case and the context, on each of the *)
(* five paths that end it.                                                 *)
(***************************************************************************)
StateIsConsistent ==
  TypeOK /\ WaitersMatchState /\ FailureCaseIffFailed /\ ContextCancelledBeforeStopping

(***************************************************************************)
(* A listener's callbacks are invoked for exactly the transitions after    *)
(* AddListener, each once and in the order the service made them: what has *)
(* been delivered and what is queued together are that part of history.    *)
(***************************************************************************)
ListenersSeeEveryTransition ==
  \A l \in Registered :
    delivered[l] \o chanBuf[l] = SubSeq(history, added[l] + 1, Len(history))

(***************************************************************************)
(* What the two reads of awaitState, made after the channel was closed and *)
(* without a common lock, add up to: AwaitTerminated answers for the final *)
(* state, with the failure case of a failed service; an error of           *)
(* AwaitRunning is final.                                                  *)
(***************************************************************************)
AwaitAnswers ==
  \A w \in Waiters :
    waiter[w].pc = "done" /\ waiter[w].res # "ctxDone" =>
      /\ waiter[w].ch = "terminated" =>
           /\ waiter[w].res = "ok" <=> state = "Terminated"
           /\ waiter[w].res = "failureCase" <=> state = "Failed"
      /\ waiter[w].ch = "running" /\ waiter[w].res # "ok" =>
           state \in {"Stopping", "Terminated", "Failed"}

(***************************************************************************)
(* BasicService implements the contract of the Service interface.          *)
(***************************************************************************)
ImplementsContract == Contract!Spec

(***************************************************************************)
(* A service ends once StopAsync has been called on it or the context it   *)
(* was started with is cancelled, whatever main() was about to do; or the  *)
(* process ends, in the panic StopAsyncFindsCancel is about.               *)
(***************************************************************************)
StopLeadsToTerminal ==
  (ctx = "cancelled" \/ \E p \in Stoppers : stopPc[p] # "idle")
    ~> (state \in Terminal \/ panicked # "no")

(***************************************************************************)
(* After the end of a service every goroutine AddListener started ends and *)
(* every AwaitRunning and AwaitTerminated call returns, unless the process *)
(* ends before.                                                            *)
(***************************************************************************)
NothingLeftBehind ==
  (state \in Terminal) ~>
    \/ panicked # "no"
    \/ /\ \A l \in Registered : chanState[l] = "exited"
       /\ \A w \in Waiters : waiter[w].pc \in {"idle", "done"}

(***************************************************************************)
(* A stop request ends the service, and its end releases everybody who     *)
(* waits for it or listens to it.                                          *)
(***************************************************************************)
StopEnds == StopLeadsToTerminal /\ NothingLeftBehind

(***************************************************************************)
(* service.go on StopAsync: "can be called multiple times."  The comment   *)
(* in StopAsync on the cancel function: "it must exist, as it is created   *)
(* when switching from New to Starting state".                             *)
(***************************************************************************)
StopAsyncFindsCancel == panicked # "nil serviceCancel"
=============================================================================
