------------------------ MODULE BasicServiceProofs ------------------------
(***************************************************************************)
(* Proofs about BasicService for any number of stoppers, listeners and     *)
(* waiters.  IInv is the inductive invariant the safety properties follow  *)
(* from.                                                                   *)
(***************************************************************************)
EXTENDS BasicService, SequenceTheorems, TLAPS

(***************************************************************************)
(* Where main() is determines the state of the service: nobody else moves  *)
(* a service that has been started.                                        *)
(***************************************************************************)
MainInv ==
  /\ mainPc = "notStarted" =>
       state \in {"New", "Terminated"} /\ stoppingFrom = "Starting"
  /\ mainPc \in {"startFn", "checkCtx", "toRunning"} =>
       state = "Starting" /\ stoppingFrom = "Starting"
  /\ mainPc = "runningFn" => state = "Running" /\ stoppingFrom = "Running"
  /\ mainPc = "toStopping" => state = stoppingFrom
  /\ mainPc \in {"cancelCtx", "stoppingFn", "finish"} => state = "Stopping"
  /\ mainPc = "done" => state \in Terminal
  /\ ctx = "none" <=> mainPc = "notStarted"
  /\ mainPc \in {"stoppingFn", "finish", "done"} => ctx = "cancelled"

(***************************************************************************)
(* How many transitions a service in state s has made at most.             *)
(***************************************************************************)
Rank(s) ==
  CASE s = "New" -> 0
    [] s = "Starting" -> 1
    [] s = "Running" -> 2
    [] s = "Stopping" -> 3
    [] OTHER -> 4

(***************************************************************************)
(* A registered channel is open until the service ends, and holds at most  *)
(* one event per transition made.                                          *)
(***************************************************************************)
ChanInv ==
  \A l \in Listeners :
    /\ chanState[l] = "none" => chanBuf[l] = << >>
    /\ state \notin Terminal => chanState[l] \in {"none", "open"}
    /\ state \in Terminal => chanState[l] \in {"none", "closed", "exited"}
    /\ Len(chanBuf[l]) <= Rank(state)

IInv ==
  /\ TypeOK
  /\ NoInternalPanic
  /\ MainInv
  /\ WaitersMatchState
  /\ FailureCaseIffFailed
  /\ ChanInv

-----------------------------------------------------------------------------
(***************************************************************************)
(* Types                                                                   *)
(***************************************************************************)

(***************************************************************************)
(* A step of a goroutine other than main() keeps the types if it keeps     *)
(* those of what such a step may change.                                   *)
(***************************************************************************)
LEMMA TypeByParts ==
  ASSUME TypeOK,
         UNCHANGED <<state, failureCase, closed, history, mainPc, failure,
                     stoppingFrom>>,
         ctx' \in {"none", "live", "cancelled"},
         panicked' \in Panics,
         stopPc' \in [Stoppers -> {"idle", "checked", "cancel"}],
         chanState' \in [Listeners -> {"none", "open", "closed", "exited"}],
         chanBuf' \in [Listeners -> Seq(Events)],
         added' \in [Listeners -> Nat],
         delivered' \in [Listeners -> Seq(Events)],
         waiter' \in [Waiters -> WaiterRecs]
  PROVE  TypeOK'
BY DEF TypeOK

\* A stuttering step keeps the types.
LEMMA TypeStutter == TypeOK /\ UNCHANGED vars => TypeOK'
BY DEF TypeOK, vars, svcVars, mainVars, lisVars

\* Updates of one waiter record keep the type of all of them.
LEMMA WaiterSetCh ==
  ASSUME NEW f \in [Waiters -> WaiterRecs], NEW w \in Waiters,
         NEW pc \in WaiterPcs, NEW ch \in WaitChannels
  PROVE  [f EXCEPT ![w].pc = pc, ![w].ch = ch] \in [Waiters -> WaiterRecs]
BY DEF WaiterRecs

\* As above, for the result.
LEMMA WaiterSetRes ==
  ASSUME NEW f \in [Waiters -> WaiterRecs], NEW w \in Waiters,
         NEW pc \in WaiterPcs, NEW r \in Results
  PROVE  [f EXCEPT ![w].pc = pc, ![w].res = r] \in [Waiters -> WaiterRecs]
BY DEF WaiterRecs

\* As above, for the state read.
LEMMA WaiterSetRead ==
  ASSUME NEW f \in [Waiters -> WaiterRecs], NEW w \in Waiters,
         NEW pc \in WaiterPcs, NEW st \in States
  PROVE  [f EXCEPT ![w].pc = pc, ![w].read = st] \in [Waiters -> WaiterRecs]
BY DEF WaiterRecs

\* As above, for both.
LEMMA WaiterSetResRead ==
  ASSUME NEW f \in [Waiters -> WaiterRecs], NEW w \in Waiters,
         NEW pc \in WaiterPcs, NEW r \in Results, NEW st \in States
  PROVE  [f EXCEPT ![w].pc = pc, ![w].res = r, ![w].read = st]
           \in [Waiters -> WaiterRecs]
BY DEF WaiterRecs

\* A step of AwaitRunning or AwaitTerminated keeps the types.
LEMMA WaiterType ==
  ASSUME TypeOK, NEW w \in Waiters, Waiter(w)
  PROVE  TypeOK'
<1>1. waiter' \in [Waiters -> WaiterRecs]
  <2>1. /\ waiter \in [Waiters -> WaiterRecs] /\ state \in States
        /\ {"waiting", "readFailure", "done"} \subseteq WaiterPcs
        /\ {"ok", "invalidState", "failureCase", "ctxDone"} \subseteq Results
    BY DEF TypeOK, WaiterPcs, Results
  <2>2. CASE \E ch \in WaitChannels : Await(w, ch)
    <3>1. PICK ch \in WaitChannels :
            waiter' = [waiter EXCEPT ![w].pc = "waiting", ![w].ch = ch]
      BY <2>2 DEF Await
    <3> QED BY <2>1, <3>1, WaiterSetCh
  <2>3. CASE AwaitCtxDone(w)
    BY <2>1, <2>3, WaiterSetRes DEF AwaitCtxDone
  <2>4. CASE AwaitReadState(w)
    <3>1. CASE state = Expected(waiter[w].ch)
      BY <2>1, <2>4, <3>1, WaiterSetResRead DEF AwaitReadState
    <3>2. CASE state # Expected(waiter[w].ch)
      BY <2>1, <2>4, <3>2, WaiterSetRead DEF AwaitReadState
    <3> QED BY <3>1, <3>2
  <2>5. CASE AwaitReadFailure(w)
    <3>1. PICK r \in Results :
            waiter' = [waiter EXCEPT ![w].pc = "done", ![w].res = r]
      BY <2>1, <2>5 DEF AwaitReadFailure
    <3> QED BY <2>1, <3>1, WaiterSetRes
  <2> QED BY <2>2, <2>3, <2>4, <2>5 DEF Waiter
<1>2. UNCHANGED <<state, failureCase, ctx, closed, panicked, history, mainPc,
                  failure, stoppingFrom, chanState, chanBuf, added, delivered,
                  stopPc>>
  BY DEF Waiter, Await, AwaitCtxDone, AwaitReadState, AwaitReadFailure,
         svcVars, mainVars, lisVars
<1> QED BY <1>1, <1>2, TypeByParts DEF TypeOK

(***************************************************************************)
(* Appending an event to a sequence of events.                             *)
(***************************************************************************)
LEMMA AppendEvent ==
  ASSUME NEW s \in Seq(Events), NEW e \in Events
  PROVE  Append(s, e) \in Seq(Events) /\ Len(Append(s, e)) = Len(s) + 1
OBVIOUS

\* A step of a listener keeps the types.
LEMMA ListenerType ==
  ASSUME TypeOK, NEW l \in Listeners, Listener(l)
  PROVE  TypeOK'
<1>1. UNCHANGED <<state, failureCase, ctx, closed, panicked, history, mainPc,
                  failure, stoppingFrom, stopPc, waiter>>
  BY DEF Listener, AddListener, ListenerRuns, ListenerExits, svcVars, mainVars
<1>2. /\ chanState' \in [Listeners -> {"none", "open", "closed", "exited"}]
      /\ added' \in [Listeners -> Nat]
  <2>1. Len(history) \in Nat
    BY DEF TypeOK
  <2>2. CASE AddListener(l)
    BY <2>1, <2>2 DEF AddListener, TypeOK
  <2>3. CASE ListenerRuns(l) \/ ListenerExits(l)
    BY <2>3 DEF ListenerRuns, ListenerExits, TypeOK
  <2> QED BY <2>2, <2>3 DEF Listener
<1>3. /\ chanBuf' \in [Listeners -> Seq(Events)]
      /\ delivered' \in [Listeners -> Seq(Events)]
  <2>1. CASE ListenerRuns(l)
    <3>1. /\ chanBuf[l] \in Seq(Events) /\ chanBuf[l] # << >>
          /\ delivered[l] \in Seq(Events)
      BY <2>1 DEF ListenerRuns, TypeOK
    <3>2. Head(chanBuf[l]) \in Events /\ Tail(chanBuf[l]) \in Seq(Events)
      BY <3>1
    <3>3. Append(delivered[l], Head(chanBuf[l])) \in Seq(Events)
      BY <3>1, <3>2, AppendEvent
    <3> QED BY <2>1, <3>2, <3>3 DEF ListenerRuns, TypeOK
  <2>2. CASE AddListener(l) \/ ListenerExits(l)
    BY <2>2 DEF AddListener, ListenerExits, TypeOK
  <2> QED BY <2>1, <2>2 DEF Listener
<1> QED BY <1>1, <1>2, <1>3, TypeByParts DEF TypeOK

\* The last step of StopAsync keeps the types.
LEMMA StopAsyncCancelType ==
  ASSUME TypeOK, NEW p \in Stoppers, StopAsyncCancel(p)
  PROVE  TypeOK'
<1>1. UNCHANGED <<state, failureCase, closed, history, mainPc, failure,
                  stoppingFrom, chanState, chanBuf, added, delivered, waiter>>
  BY DEF StopAsyncCancel, mainVars, lisVars
<1>2. /\ ctx' \in {"none", "live", "cancelled"} /\ panicked' \in Panics
      /\ stopPc' \in [Stoppers -> {"idle", "checked", "cancel"}]
  BY DEF StopAsyncCancel, TypeOK, Panics
<1> QED BY <1>1, <1>2, TypeByParts DEF TypeOK

USE DEF States, Terminal, NoError, Errors, Contract!States,
        Contract!Terminal, Contract!NoError, Contract!Errors,
        WaitChannels, Panics, MainPcs, ListenerBuf

-----------------------------------------------------------------------------
(***************************************************************************)
(* Notifying the listeners appends to open channels, and closes them when  *)
(* told to.                                                                *)
(***************************************************************************)
LEMMA NotifyEffect ==
  ASSUME TypeOK, NEW e \in Events, NEW closeChan \in BOOLEAN,
         NotifyListeners(e, closeChan)
  PROVE  /\ chanState' \in [Listeners -> {"none", "open", "closed", "exited"}]
         /\ chanBuf' \in [Listeners -> Seq(Events)]
         /\ added' = added /\ delivered' = delivered
         /\ \A l \in Listeners :
              /\ chanState[l] = "open" =>
                   /\ chanBuf'[l] = Append(chanBuf[l], e)
                   /\ Len(chanBuf'[l]) = Len(chanBuf[l]) + 1
                   /\ chanState'[l] = IF closeChan THEN "closed" ELSE "open"
              /\ chanState[l] # "open" =>
                   /\ chanBuf'[l] = chanBuf[l]
                   /\ chanState'[l] = chanState[l]
<1>1. chanState' \in [Listeners -> {"none", "open", "closed", "exited"}]
  BY DEF NotifyListeners, TypeOK
<1>2. \A l \in Listeners :
        /\ chanBuf'[l] = IF chanState[l] = "open" THEN Append(chanBuf[l], e)
                                                  ELSE chanBuf[l]
        /\ chanState'[l] = IF closeChan /\ chanState[l] = "open"
                           THEN "closed" ELSE chanState[l]
  BY DEF NotifyListeners, TypeOK
<1>3. \A l \in Listeners : chanBuf[l] \in Seq(Events)
  BY DEF TypeOK
<1>4. chanBuf' \in [Listeners -> Seq(Events)]
  BY <1>2, <1>3, AppendEvent DEF NotifyListeners
<1>5. \A l \in Listeners :
        chanState[l] = "open" => Len(chanBuf'[l]) = Len(chanBuf[l]) + 1
  BY <1>2, <1>3, AppendEvent
<1>6. added' = added /\ delivered' = delivered
  BY DEF NotifyListeners
<1> QED BY <1>1, <1>2, <1>4, <1>5, <1>6

(***************************************************************************)
(* What a switch of state amounts to.                                      *)
(***************************************************************************)
Switched(from, to, chs) ==
  /\ state = from
  /\ state' = to
  /\ closed' = closed \cup chs
  /\ history' \in Seq(Events)
  /\ panicked' = "no"
  /\ chanState' \in [Listeners -> {"none", "open", "closed", "exited"}]
  /\ chanBuf' \in [Listeners -> Seq(Events)]
  /\ added' = added /\ delivered' = delivered
  /\ ChanInv'

(***************************************************************************)
(* A switch of state by any of its callers, from a state of the inductive  *)
(* invariant: types are kept, nothing panics, and the channels stay in     *)
(* step with the state.                                                    *)
(***************************************************************************)
LEMMA SwitchStateEffect ==
  ASSUME IInv, NEW from \in States, NEW to \in States, <<from, to>> \in Events,
         from \notin Terminal, Rank(from) < Rank(to),
         NEW chs \in SUBSET WaitChannels, chs \cap closed = {},
         NEW closeChan \in BOOLEAN, closeChan <=> to \in Terminal,
         SwitchState(from, to, chs, closeChan)
  PROVE  Switched(from, to, chs)
<1>1. state = from /\ state' = to /\ closed' = closed \cup chs
  BY DEF SwitchState
<1>2. PICK e \in Events : /\ e = <<from, to>>
                          /\ NotifyListeners(e, closeChan)
                          /\ history' = Append(history, e)
  BY DEF SwitchState
<1>3. history' \in Seq(Events)
  BY <1>2, AppendEvent DEF IInv, TypeOK
<1>4. \A l \in Listeners : chanState[l] \in {"none", "open"}
  BY <1>1 DEF IInv, ChanInv
<1>5. panicked' = "no"
  BY <1>4 DEF SwitchState, PanicOf, Registered
<1>6. TypeOK
  BY DEF IInv
<1>7. /\ chanState' \in [Listeners -> {"none", "open", "closed", "exited"}]
      /\ chanBuf' \in [Listeners -> Seq(Events)]
      /\ added' = added /\ delivered' = delivered
  BY <1>2, <1>6, NotifyEffect
<1>8. ASSUME NEW l \in Listeners
      PROVE  /\ chanState'[l] = "none" => chanBuf'[l] = << >>
             /\ to \notin Terminal => chanState'[l] \in {"none", "open"}
             /\ to \in Terminal => chanState'[l] \in {"none", "closed", "exited"}
             /\ Len(chanBuf'[l]) <= Rank(to)
  <2>a. Len(chanBuf[l]) <= Rank(from)
    BY <1>1 DEF IInv, ChanInv
  <2>b. chanBuf[l] \in Seq(Events)
    BY <1>6 DEF TypeOK
  <2>1. Len(chanBuf[l]) <= Rank(from) /\ Len(chanBuf[l]) \in Nat
    BY <2>a, <2>b
  <2>2. Rank(from) \in Nat /\ Rank(to) \in Nat
    BY DEF Rank
  <2>3. CASE chanState[l] = "open"
    <3>1. /\ Len(chanBuf'[l]) = Len(chanBuf[l]) + 1
          /\ chanState'[l] = IF closeChan THEN "closed" ELSE "open"
      BY <1>2, <1>6, <2>3, NotifyEffect
    <3> QED BY <2>1, <2>2, <3>1
  <2>4. CASE chanState[l] = "none"
    <3>1. chanBuf'[l] = chanBuf[l] /\ chanState'[l] = "none"
      BY <1>2, <1>6, <2>4, NotifyEffect
    <3>2. chanBuf[l] = << >>
      BY <2>4 DEF IInv, ChanInv
    <3> QED BY <2>1, <2>2, <3>1, <3>2
  <2> QED BY <1>4, <2>3, <2>4
<1>9. ChanInv'
  BY <1>1, <1>8 DEF ChanInv
<1> QED BY <1>1, <1>3, <1>5, <1>7, <1>9 DEF Switched

-----------------------------------------------------------------------------
(***************************************************************************)
(* The same for a switch by main(): it does find the state it expects.     *)
(***************************************************************************)
LEMMA MustSwitchEffect ==
  ASSUME NEW from \in States, NEW to, NEW chs, NEW closeChan, NEW fc, NEW c,
         state = from, MustSwitchState(from, to, chs, closeChan, fc, c)
  PROVE  SwitchState(from, to, chs, closeChan) /\ failureCase' = fc /\ ctx' = c
BY DEF MustSwitchState

(***************************************************************************)
(* The inductive invariant holds initially ...                             *)
(***************************************************************************)
LEMMA InitIInv == Init => IInv
<1> SUFFICES ASSUME Init PROVE IInv
  OBVIOUS
<1>1. TypeOK
  BY DEF Init, TypeOK, WaiterRecs, WaiterPcs, Results
<1>2. NoInternalPanic /\ MainInv /\ WaitersMatchState /\ FailureCaseIffFailed
  BY DEF Init, NoInternalPanic, MainInv, WaitersMatchState, FailureCaseIffFailed
<1>3. ChanInv
  BY DEF Init, ChanInv, Rank
<1> QED BY <1>1, <1>2, <1>3 DEF IInv

(***************************************************************************)
(* ... and is kept by StartAsync and by each step of main(), ...           *)
(***************************************************************************)
LEMMA StartAsyncIInv == IInv /\ StartAsync => IInv'
<1> SUFFICES ASSUME IInv, StartAsync PROVE IInv'
  OBVIOUS
<1>1. Switched("New", "Starting", {})
  <2>1. state = "New"
    BY DEF StartAsync, SwitchState
  <2>2. SwitchState("New", "Starting", {}, FALSE)
    BY DEF StartAsync
  <2>3. <<"New", "Starting">> \in Events
    BY DEF Events, Contract!Transitions
  <2>4. Rank("New") < Rank("Starting")
    BY DEF Rank
  <2>5. {} \in SUBSET WaitChannels /\ {} \cap closed = {}
    BY <2>1 DEF IInv, WaitersMatchState
  <2>6. FALSE \in BOOLEAN /\ (FALSE <=> "Starting" \in Terminal)
    OBVIOUS
  <2> QED BY <2>2, <2>3, <2>4, <2>5, <2>6, SwitchStateEffect
<1>2. TypeOK'
  BY <1>1 DEF Switched, StartAsync, IInv, TypeOK
<1>3. MainInv'
  BY <1>1 DEF Switched, StartAsync, IInv, TypeOK, MainInv
<1>4. NoInternalPanic' /\ WaitersMatchState' /\ FailureCaseIffFailed'
  BY <1>1 DEF Switched, StartAsync, IInv, TypeOK, NoInternalPanic,
              WaitersMatchState, FailureCaseIffFailed
<1> QED BY <1>1, <1>2, <1>3, <1>4 DEF Switched, IInv

\* startFn fails.
LEMMA StartFnFailsIInv == IInv /\ StartFnFails => IInv'
<1> SUFFICES ASSUME IInv, StartFnFails PROVE IInv'
  OBVIOUS
<1>1. Switched("Starting", "Failed", {"running", "terminated"}) /\ failureCase' = "startFn" /\ ctx' = "cancelled"
  <2>1. state = "Starting"
    BY DEF StartFnFails, IInv, MainInv
  <2>2. SwitchState("Starting", "Failed", {"running", "terminated"}, TRUE) /\ failureCase' = "startFn" /\ ctx' = "cancelled"
    BY <2>1, MustSwitchEffect DEF StartFnFails
  <2>3. <<"Starting", "Failed">> \in Events
    BY DEF Events, Contract!Transitions
  <2>4. Rank("Starting") < Rank("Failed")
    BY DEF Rank
  <2>5. {"running", "terminated"} \in SUBSET WaitChannels /\ {"running", "terminated"} \cap closed = {}
    BY <2>1 DEF IInv, WaitersMatchState
  <2>6. TRUE \in BOOLEAN /\ (TRUE <=> "Failed" \in Terminal)
    OBVIOUS
  <2> QED BY <2>2, <2>3, <2>4, <2>5, <2>6, SwitchStateEffect
<1>2. TypeOK'
  BY <1>1 DEF Switched, StartFnFails, IInv, TypeOK
<1>3. MainInv'
  BY <1>1 DEF Switched, StartFnFails, IInv, TypeOK, MainInv
<1>4. NoInternalPanic' /\ WaitersMatchState' /\ FailureCaseIffFailed'
  BY <1>1 DEF Switched, StartFnFails, IInv, TypeOK, NoInternalPanic,
              WaitersMatchState, FailureCaseIffFailed
<1> QED BY <1>1, <1>2, <1>3, <1>4 DEF Switched, IInv

\* The service enters Running.
LEMMA EnterRunningIInv == IInv /\ EnterRunning => IInv'
<1> SUFFICES ASSUME IInv, EnterRunning PROVE IInv'
  OBVIOUS
<1>1. Switched("Starting", "Running", {"running"}) /\ failureCase' = failureCase /\ ctx' = ctx
  <2>1. state = "Starting"
    BY DEF EnterRunning, IInv, MainInv
  <2>2. SwitchState("Starting", "Running", {"running"}, FALSE) /\ failureCase' = failureCase /\ ctx' = ctx
    BY <2>1, MustSwitchEffect DEF EnterRunning
  <2>3. <<"Starting", "Running">> \in Events
    BY DEF Events, Contract!Transitions
  <2>4. Rank("Starting") < Rank("Running")
    BY DEF Rank
  <2>5. {"running"} \in SUBSET WaitChannels /\ {"running"} \cap closed = {}
    BY <2>1 DEF IInv, WaitersMatchState
  <2>6. FALSE \in BOOLEAN /\ (FALSE <=> "Running" \in Terminal)
    OBVIOUS
  <2> QED BY <2>2, <2>3, <2>4, <2>5, <2>6, SwitchStateEffect
<1>2. TypeOK'
  BY <1>1 DEF Switched, EnterRunning, IInv, TypeOK
<1>3. MainInv'
  BY <1>1 DEF Switched, EnterRunning, IInv, TypeOK, MainInv
<1>4. NoInternalPanic' /\ WaitersMatchState' /\ FailureCaseIffFailed'
  BY <1>1 DEF Switched, EnterRunning, IInv, TypeOK, NoInternalPanic,
              WaitersMatchState, FailureCaseIffFailed
<1> QED BY <1>1, <1>2, <1>3, <1>4 DEF Switched, IInv

\* The service enters Stopping, from either state.
LEMMA EnterStoppingIInv == IInv /\ EnterStopping => IInv'
<1> SUFFICES ASSUME IInv, EnterStopping PROVE IInv'
  OBVIOUS
<1> DEFINE chs == IF stoppingFrom = "Starting" THEN {"running"} ELSE {}
<1>1. /\ Switched(stoppingFrom, "Stopping", chs)
      /\ failureCase' = failureCase /\ ctx' = ctx
  <2>1. state = stoppingFrom /\ stoppingFrom \in {"Starting", "Running"}
    BY DEF EnterStopping, IInv, MainInv, TypeOK
  <2>2. /\ SwitchState(stoppingFrom, "Stopping", chs, FALSE)
        /\ failureCase' = failureCase /\ ctx' = ctx
    BY <2>1, MustSwitchEffect DEF EnterStopping
  <2>3. <<stoppingFrom, "Stopping">> \in Events
    BY <2>1 DEF Events, Contract!Transitions
  <2>4. Rank(stoppingFrom) < Rank("Stopping")
    BY <2>1 DEF Rank
  <2>5. chs \in SUBSET WaitChannels /\ chs \cap closed = {}
    BY <2>1 DEF IInv, WaitersMatchState
  <2>6. FALSE \in BOOLEAN /\ (FALSE <=> "Stopping" \in Terminal)
    OBVIOUS
  <2>7. stoppingFrom \in States \ Terminal
    BY <2>1
  <2> QED BY <2>2, <2>3, <2>4, <2>5, <2>6, <2>7, SwitchStateEffect
<1>2. TypeOK'
  BY <1>1 DEF Switched, EnterStopping, IInv, TypeOK
<1>3. MainInv'
  BY <1>1 DEF Switched, EnterStopping, IInv, TypeOK, MainInv
<1>4. NoInternalPanic' /\ WaitersMatchState' /\ FailureCaseIffFailed'
  BY <1>1 DEF Switched, EnterStopping, IInv, TypeOK, NoInternalPanic,
              WaitersMatchState, FailureCaseIffFailed
<1> QED BY <1>1, <1>2, <1>3, <1>4 DEF Switched, IInv

\* The service ends, in either way.
LEMMA FinishIInv == IInv /\ Finish => IInv'
<1> SUFFICES ASSUME IInv, Finish PROVE IInv'
  OBVIOUS
<1> DEFINE to == IF failure # NoError THEN "Failed" ELSE "Terminated"
           fc == IF failure # NoError THEN failure ELSE failureCase
<1>1. /\ Switched("Stopping", to, {"terminated"})
      /\ failureCase' = fc /\ ctx' = ctx
  <2>1. state = "Stopping"
    BY DEF Finish, IInv, MainInv
  <2>2. /\ SwitchState("Stopping", to, {"terminated"}, TRUE)
        /\ failureCase' = fc /\ ctx' = ctx
    BY <2>1, MustSwitchEffect DEF Finish
  <2>3. <<"Stopping", to>> \in Events
    BY DEF Events, Contract!Transitions
  <2>4. Rank("Stopping") < Rank(to)
    BY DEF Rank
  <2>5. /\ {"terminated"} \in SUBSET WaitChannels
        /\ {"terminated"} \cap closed = {}
    BY <2>1 DEF IInv, WaitersMatchState
  <2>6. TRUE \in BOOLEAN /\ (TRUE <=> to \in Terminal) /\ to \in States
    OBVIOUS
  <2> QED BY <2>2, <2>3, <2>4, <2>5, <2>6, SwitchStateEffect
<1>2. TypeOK'
  BY <1>1 DEF Switched, Finish, IInv, TypeOK
<1>3. MainInv'
  BY <1>1 DEF Switched, Finish, IInv, TypeOK, MainInv
<1>4. NoInternalPanic' /\ WaitersMatchState' /\ FailureCaseIffFailed'
  BY <1>1 DEF Switched, Finish, IInv, TypeOK, NoInternalPanic,
              WaitersMatchState, FailureCaseIffFailed
<1> QED BY <1>1, <1>2, <1>3, <1>4 DEF Switched, IInv

(***************************************************************************)
(* ... by the steps of main() that do not switch the state, and by whoever *)
(* cancels the context, ...                                                *)
(***************************************************************************)
LEMMA LocalMainIInv ==
  ASSUME IInv,
         \/ StartFnSucceeds \/ CheckCtx \/ RunningFnReturns \/ CancelCtx
         \/ StoppingFnReturns \/ CancelParent
  PROVE  IInv'
<1> USE DEF StartFnSucceeds, CheckCtx, RunningFnReturns, CancelCtx,
            StoppingFnReturns, CancelParent, svcVars, lisVars, mainVars
<1>1. TypeOK'
  <2>1. /\ mainPc' \in MainPcs
        /\ failure' \in Errors \cup {NoError}
        /\ ctx' \in {"none", "live", "cancelled"}
    BY DEF IInv, TypeOK
  <2>2. UNCHANGED <<state, failureCase, closed, panicked, history, stoppingFrom,
                    chanState, chanBuf, added, delivered, stopPc, waiter>>
    OBVIOUS
  <2> QED BY <2>1, <2>2 DEF IInv, TypeOK
<1>2. MainInv'
  BY DEF IInv, TypeOK, MainInv
<1>3. NoInternalPanic' /\ WaitersMatchState' /\ FailureCaseIffFailed'
  BY DEF IInv, NoInternalPanic, WaitersMatchState, FailureCaseIffFailed
<1>4. ChanInv'
  BY DEF IInv, ChanInv
<1> QED BY <1>1, <1>2, <1>3, <1>4 DEF IInv

(***************************************************************************)
(* ... by the steps of StopAsync, ...                                      *)
(***************************************************************************)
LEMMA StopAsyncIInv ==
  ASSUME IInv, panicked = "no", NEW p \in Stoppers, StopAsync(p)
  PROVE  IInv'
<1>1. CASE StopAsyncCheck(p)
  <2>1. TypeOK'
    BY <1>1 DEF StopAsyncCheck, svcVars, mainVars, lisVars, IInv, TypeOK
  <2>2. MainInv' /\ ChanInv' /\ NoInternalPanic' /\ WaitersMatchState'
        /\ FailureCaseIffFailed'
    BY <1>1 DEF StopAsyncCheck, svcVars, mainVars, lisVars, IInv, MainInv,
                ChanInv, NoInternalPanic, WaitersMatchState, FailureCaseIffFailed
  <2> QED BY <2>1, <2>2 DEF IInv
<1>2. CASE /\ StopAsyncSwitch(p)
           /\ SwitchState("New", "Terminated", {"running", "terminated"}, TRUE)
           /\ stopPc' = [stopPc EXCEPT ![p] = "idle"]
  <2>1. Switched("New", "Terminated", {"running", "terminated"})
    <3>1. state = "New"
      BY <1>2 DEF SwitchState
    <3>2. <<"New", "Terminated">> \in Events
      BY DEF Events, Contract!Transitions
    <3>3. Rank("New") < Rank("Terminated")
      BY DEF Rank
    <3>4. /\ {"running", "terminated"} \in SUBSET WaitChannels
          /\ {"running", "terminated"} \cap closed = {}
      BY <3>1 DEF IInv, WaitersMatchState
    <3>5. TRUE \in BOOLEAN /\ (TRUE <=> "Terminated" \in Terminal)
      OBVIOUS
    <3> QED BY <1>2, <3>2, <3>3, <3>4, <3>5, SwitchStateEffect
  <2>2. TypeOK'
    BY <1>2, <2>1 DEF Switched, StopAsyncSwitch, mainVars, IInv, TypeOK
  <2>3. MainInv'
    BY <1>2, <2>1 DEF Switched, StopAsyncSwitch, mainVars, IInv, TypeOK, MainInv
  <2>4. NoInternalPanic' /\ WaitersMatchState' /\ FailureCaseIffFailed'
    BY <1>2, <2>1 DEF Switched, StopAsyncSwitch, IInv, NoInternalPanic,
                      WaitersMatchState, FailureCaseIffFailed
  <2> QED BY <2>1, <2>2, <2>3, <2>4 DEF Switched, IInv
<1>3. CASE /\ StopAsyncSwitch(p)
           /\ stopPc' = [stopPc EXCEPT ![p] = "cancel"]
           /\ UNCHANGED <<state, closed, panicked, history, lisVars>>
  <2>1. TypeOK'
    BY <1>3 DEF StopAsyncSwitch, mainVars, lisVars, IInv, TypeOK
  <2>2. MainInv' /\ ChanInv' /\ NoInternalPanic' /\ WaitersMatchState'
        /\ FailureCaseIffFailed'
    BY <1>3 DEF StopAsyncSwitch, mainVars, lisVars, IInv, MainInv,
                ChanInv, NoInternalPanic, WaitersMatchState, FailureCaseIffFailed
  <2> QED BY <2>1, <2>2 DEF IInv
<1>4. CASE StopAsyncCancel(p)
  <2>1. TypeOK'
    BY <1>4, StopAsyncCancelType DEF IInv
  <2>2. MainInv'
    BY <1>4 DEF StopAsyncCancel, mainVars, IInv, TypeOK, MainInv
  <2>3. ChanInv' /\ NoInternalPanic' /\ WaitersMatchState' /\ FailureCaseIffFailed'
    BY <1>4 DEF StopAsyncCancel, lisVars, IInv, ChanInv, NoInternalPanic,
                WaitersMatchState, FailureCaseIffFailed
  <2> QED BY <2>1, <2>2, <2>3 DEF IInv
<1> QED BY <1>1, <1>2, <1>3, <1>4 DEF StopAsync, StopAsyncSwitch

(***************************************************************************)
(* ... by the listeners' goroutines, ...                                   *)
(***************************************************************************)
LEMMA ListenerIInv ==
  ASSUME IInv, NEW l \in Listeners, Listener(l)
  PROVE  IInv'
<1>1. UNCHANGED <<svcVars, mainVars, stopPc, waiter>>
  BY DEF Listener, AddListener, ListenerRuns, ListenerExits
<1>a. TypeOK'
  BY ListenerType DEF IInv
<1>2. MainInv' /\ NoInternalPanic' /\ WaitersMatchState' /\ FailureCaseIffFailed'
  BY <1>1 DEF svcVars, mainVars, IInv, MainInv, NoInternalPanic,
              WaitersMatchState, FailureCaseIffFailed
<1>3. CASE AddListener(l)
  <2>2. ChanInv'
    BY <1>3 DEF AddListener, svcVars, IInv, TypeOK, ChanInv
  <2> QED BY <1>a, <1>2, <2>2 DEF IInv
<1>4. CASE ListenerRuns(l)
  <2>1. /\ chanBuf[l] \in Seq(Events) /\ chanBuf[l] # << >>
        /\ delivered[l] \in Seq(Events)
    BY <1>4 DEF ListenerRuns, IInv, TypeOK
  <2>2. /\ Head(chanBuf[l]) \in Events /\ Tail(chanBuf[l]) \in Seq(Events)
        /\ Len(Tail(chanBuf[l])) = Len(chanBuf[l]) - 1
        /\ Len(chanBuf[l]) \in Nat
    BY <2>1
  <2>5. ASSUME NEW k \in Listeners
        PROVE  /\ chanBuf'[k] = IF k = l THEN Tail(chanBuf[l]) ELSE chanBuf[k]
               /\ Len(chanBuf'[k]) <= Rank(state)
    <3>1. chanBuf'[k] = IF k = l THEN Tail(chanBuf[l]) ELSE chanBuf[k]
      BY <1>4 DEF ListenerRuns, IInv, TypeOK
    <3>2. Len(chanBuf[k]) <= Rank(state) /\ Rank(state) \in Nat
      BY DEF IInv, ChanInv, Rank
    <3> QED BY <2>2, <3>1, <3>2
  <2>6. chanState[l] # "none"
    BY <2>1 DEF IInv, ChanInv
  <2>7. ChanInv'
    BY <1>4, <2>5, <2>6 DEF ListenerRuns, svcVars, IInv, ChanInv
  <2> QED BY <1>a, <1>2, <2>7 DEF IInv
<1>5. CASE ListenerExits(l)
  <2>2. ChanInv'
    BY <1>5 DEF ListenerExits, svcVars, IInv, TypeOK, ChanInv
  <2> QED BY <1>a, <1>2, <2>2 DEF IInv
<1> QED BY <1>3, <1>4, <1>5 DEF Listener

(***************************************************************************)
(* ... and by the waiters.                                                 *)
(***************************************************************************)
LEMMA WaiterIInv ==
  ASSUME IInv, NEW w \in Waiters, Waiter(w)
  PROVE  IInv'
<1>1. UNCHANGED <<svcVars, mainVars, lisVars, stopPc>>
  BY DEF Waiter, Await, AwaitCtxDone, AwaitReadState, AwaitReadFailure
<1>3. TypeOK'
  BY WaiterType DEF IInv
<1>4. MainInv' /\ ChanInv' /\ NoInternalPanic' /\ WaitersMatchState'
      /\ FailureCaseIffFailed'
  BY <1>1 DEF svcVars, mainVars, lisVars, IInv, MainInv, ChanInv,
              NoInternalPanic, WaitersMatchState, FailureCaseIffFailed
<1> QED BY <1>3, <1>4 DEF IInv

(***************************************************************************)
(* Every step keeps the invariant.                                         *)
(***************************************************************************)
LEMMA NextIInv == IInv /\ [Next]_vars => IInv'
<1> SUFFICES ASSUME IInv, [Next]_vars PROVE IInv'
  OBVIOUS
<1>1. CASE UNCHANGED vars
  <2>1. TypeOK'
    BY <1>1, TypeStutter DEF IInv
  <2>2. MainInv' /\ ChanInv' /\ NoInternalPanic' /\ WaitersMatchState'
        /\ FailureCaseIffFailed'
    BY <1>1 DEF vars, svcVars, mainVars, lisVars, IInv, MainInv, ChanInv,
                NoInternalPanic, WaitersMatchState, FailureCaseIffFailed
  <2> QED BY <2>1, <2>2 DEF IInv
<1>2. CASE panicked = "no" /\ StartAsync
  BY <1>2, StartAsyncIInv
<1>3. CASE panicked = "no" /\ (Main \/ CancelParent)
  BY <1>3, StartFnFailsIInv, EnterRunningIInv, EnterStoppingIInv, FinishIInv,
     LocalMainIInv DEF Main
<1>4. CASE panicked = "no" /\ \E p \in Stoppers : StopAsync(p)
  BY <1>4, StopAsyncIInv
<1>5. CASE panicked = "no" /\ \E l \in Listeners : Listener(l)
  BY <1>5, ListenerIInv
<1>6. CASE panicked = "no" /\ \E w \in Waiters : Waiter(w)
  BY <1>6, WaiterIInv
<1> QED BY <1>1, <1>2, <1>3, <1>4, <1>5, <1>6 DEF Next

\* IInv is an invariant of the specification.
LEMMA IInvHolds == Spec => []IInv
BY InitIInv, NextIInv, PTL DEF Spec

(***************************************************************************)
(* Every variable of a service keeps its type.                             *)
(***************************************************************************)
THEOREM TypeCorrect == Spec => []TypeOK
BY IInvHolds, PTL DEF IInv

(***************************************************************************)
(* mustSwitchState never fails, no channel is closed twice and nothing is  *)
(* sent on a closed channel, for any number of concurrent callers.         *)
(***************************************************************************)
THEOREM NeverPanicsInternally == Spec => []NoInternalPanic
BY IInvHolds, PTL DEF IInv

(***************************************************************************)
(* The waiters' channels are closed in exactly the documented states.      *)
(***************************************************************************)
THEOREM WaitersAlwaysMatch == Spec => []WaitersMatchState
BY IInvHolds, PTL DEF IInv

(***************************************************************************)
(* A service has a failure case exactly when it is Failed.                 *)
(***************************************************************************)
THEOREM FailureCaseExact == Spec => []FailureCaseIffFailed
BY IInvHolds, PTL DEF IInv

(***************************************************************************)
(* Four places in a listener's channel are enough: notifyListeners never   *)
(* blocks under the lock, even if no listener ever runs a callback.        *)
(***************************************************************************)
THEOREM NeverBlocks == Spec => []ListenersNeverBlock
<1>1. IInv => ListenersNeverBlock
  <2> SUFFICES ASSUME IInv, state \notin Terminal, NEW l \in Listeners
               PROVE  Len(chanBuf[l]) < 4
    BY DEF ListenersNeverBlock, HasRoom
  <2>1. Len(chanBuf[l]) <= Rank(state) /\ state \in States
    BY DEF IInv, ChanInv, TypeOK
  <2>2. Rank(state) \in 0..3
    BY <2>1 DEF Rank
  <2>3. chanBuf[l] \in Seq(Events)
    BY DEF IInv, TypeOK
  <2>4. Len(chanBuf[l]) \in Nat
    BY <2>3
  <2> QED BY <2>1, <2>2, <2>4
<1> QED BY <1>1, IInvHolds, PTL

(***************************************************************************)
(* stoppingFn never runs, and no service ends, with a live context.        *)
(***************************************************************************)
THEOREM ContextCancelled == Spec => []ContextCancelledBeforeStopping
<1>1. IInv => ContextCancelledBeforeStopping
  BY DEF IInv, TypeOK, MainInv, ContextCancelledBeforeStopping
<1> QED BY <1>1, IInvHolds, PTL

(***************************************************************************)
(* Whatever path a service takes through its states, the waiters'          *)
(* channels, the failure case and the context agree with its state.        *)
(***************************************************************************)
THEOREM Consistent == Spec => []StateIsConsistent
<1>1. /\ TypeOK /\ WaitersMatchState
      /\ FailureCaseIffFailed /\ ContextCancelledBeforeStopping
      => StateIsConsistent
  BY DEF StateIsConsistent
<1> QED
  BY <1>1, TypeCorrect, WaitersAlwaysMatch, FailureCaseExact, ContextCancelled, PTL

(***************************************************************************)
(* Every step is a step of the contract or leaves its variables alone.     *)
(***************************************************************************)
LEMMA StepRefines == IInv /\ [Next]_vars => [Contract!Next]_(Contract!vars)
<1> SUFFICES ASSUME IInv, [Next]_vars
             PROVE  Contract!Next \/ UNCHANGED <<state, failureCase>>
  BY DEF Contract!vars
<1> USE DEF Contract!Next, Contract!Move
<1>1. CASE UNCHANGED vars
  BY <1>1 DEF vars, svcVars
<1>2. CASE StartAsync
  <2>1. state = "New" /\ state' = "Starting" /\ failureCase' = failureCase
    BY <1>2 DEF StartAsync, SwitchState
  <2> QED BY <2>1 DEF Contract!Transitions
<1>3. CASE StartFnFails
  <2>1. state = "Starting"
    BY <1>3 DEF StartFnFails, IInv, MainInv
  <2>2. state' = "Failed" /\ failureCase' = "startFn"
    BY <1>3, <2>1 DEF StartFnFails, MustSwitchState, SwitchState
  <2> QED BY <2>1, <2>2 DEF Contract!Transitions
<1>4. CASE EnterRunning
  <2>1. state = "Starting"
    BY <1>4 DEF EnterRunning, IInv, MainInv
  <2>2. state' = "Running" /\ failureCase' = failureCase
    BY <1>4, <2>1 DEF EnterRunning, MustSwitchState, SwitchState
  <2> QED BY <2>1, <2>2 DEF Contract!Transitions
<1>5. CASE EnterStopping
  <2>1. state = stoppingFrom /\ state \in {"Starting", "Running"}
    BY <1>5 DEF EnterStopping, IInv, MainInv, TypeOK
  <2>2. state' = "Stopping" /\ failureCase' = failureCase
    BY <1>5, <2>1 DEF EnterStopping, MustSwitchState, SwitchState
  <2> QED BY <2>1, <2>2 DEF Contract!Transitions
<1>6. CASE Finish
  <2>1. state = "Stopping" /\ failure \in Errors \cup {NoError}
    BY <1>6 DEF Finish, IInv, MainInv, TypeOK
  <2>2. \/ failure # NoError /\ state' = "Failed" /\ failureCase' = failure
        \/ failure = NoError /\ state' = "Terminated" /\ failureCase' = failureCase
    BY <1>6, <2>1 DEF Finish, MustSwitchState, SwitchState
  <2> QED BY <2>1, <2>2 DEF Contract!Transitions
<1>7. CASE \E p \in Stoppers : StopAsync(p)
  <2>1. \/ state = "New" /\ state' = "Terminated" /\ failureCase' = failureCase
        \/ UNCHANGED <<state, failureCase>>
    BY <1>7 DEF StopAsync, StopAsyncCheck, StopAsyncSwitch, StopAsyncCancel,
                SwitchState, svcVars
  <2> QED BY <2>1 DEF Contract!Transitions
<1>8. CASE \/ CancelParent \/ StartFnSucceeds \/ CheckCtx \/ RunningFnReturns
           \/ CancelCtx \/ StoppingFnReturns
           \/ \E l \in Listeners : Listener(l)
           \/ \E w \in Waiters : Waiter(w)
  BY <1>8 DEF CancelParent, StartFnSucceeds, CheckCtx, RunningFnReturns,
              CancelCtx, StoppingFnReturns, Listener, AddListener,
              ListenerRuns, ListenerExits, Waiter, Await, AwaitCtxDone,
              AwaitReadState, AwaitReadFailure, svcVars
<1> QED BY <1>1, <1>2, <1>3, <1>4, <1>5, <1>6, <1>7, <1>8 DEF Next, Main

(***************************************************************************)
(* BasicService implements the contract of the Service interface.          *)
(***************************************************************************)
THEOREM Refinement == Spec => ImplementsContract
<1>1. Init => Contract!Init
  BY DEF Init, Contract!Init
<1> QED BY <1>1, StepRefines, IInvHolds, PTL DEF Spec, Contract!Spec, ImplementsContract

-----------------------------------------------------------------------------
(***************************************************************************)
(* What a waiter has read is still true: the state only moves forward.     *)
(***************************************************************************)
Down == {"Stopping", "Terminated", "Failed"}

WaiterOK(r) ==
  /\ r.pc = "readFailure" =>
       IF r.ch = "terminated" THEN state = "Failed" ELSE state \in Down
  /\ r.pc = "done" /\ r.res # "ctxDone" =>
       IF r.ch = "terminated"
       THEN \/ r.res = "ok" /\ state = "Terminated"
            \/ r.res = "failureCase" /\ state = "Failed"
       ELSE r.res # "ok" => state \in Down

WaiterInv == \A w \in Waiters : WaiterOK(waiter[w])

(***************************************************************************)
(* A change of state within the contract keeps what waiters have read.     *)
(***************************************************************************)
LEMMA WaiterKept ==
  ASSUME IInv, [Next]_vars, NEW r, WaiterOK(r)
  PROVE  WaiterOK(r)'
<1>1. Contract!Next \/ UNCHANGED <<state, failureCase>>
  BY StepRefines DEF Contract!vars
<1>2. /\ state = "Failed" => state' = "Failed"
      /\ state = "Terminated" => state' = "Terminated"
      /\ state \in Down => state' \in Down
  BY <1>1 DEF Contract!Next, Contract!Move, Contract!Transitions, Down
<1> QED BY <1>2 DEF WaiterOK

\* A step of a waiter reads what WaiterOK says.
LEMMA WaiterStep ==
  ASSUME IInv, WaiterInv, NEW w \in Waiters, Waiter(w)
  PROVE  WaiterInv'
<1>1. UNCHANGED <<state, failureCase>>
  BY DEF Waiter, Await, AwaitCtxDone, AwaitReadState, AwaitReadFailure, svcVars
<1>2. \A v \in Waiters : v # w => waiter'[v] = waiter[v]
  BY DEF Waiter, Await, AwaitCtxDone, AwaitReadState, AwaitReadFailure, IInv, TypeOK
<1>3. /\ WaiterOK(waiter[w]) /\ waiter \in [Waiters -> WaiterRecs]
      /\ waiter[w] \in WaiterRecs
  BY DEF WaiterInv, IInv, TypeOK
<1>4. WaiterOK(waiter'[w])
  <2>1. CASE \E ch \in WaitChannels : Await(w, ch)
    <3>1. waiter'[w].pc = "waiting"
      BY <1>3, <2>1 DEF Await, WaiterRecs
    <3> QED BY <3>1 DEF WaiterOK
  <2>2. CASE AwaitCtxDone(w)
    <3>1. waiter'[w].pc = "done" /\ waiter'[w].res = "ctxDone"
      BY <1>3, <2>2 DEF AwaitCtxDone, WaiterRecs
    <3> QED BY <3>1 DEF WaiterOK
  <2>3. CASE AwaitReadState(w)
    <3>1. /\ waiter[w].ch \in closed /\ waiter[w].ch \in {"running", "terminated"}
          /\ waiter'[w].ch = waiter[w].ch
          /\ \/ /\ state = Expected(waiter[w].ch)
                /\ waiter'[w].pc = "done" /\ waiter'[w].res = "ok"
             \/ /\ state # Expected(waiter[w].ch)
                /\ waiter'[w].pc = "readFailure"
      BY <1>3, <2>3 DEF AwaitReadState, WaiterRecs
    <3>2. /\ "running" \in closed => state \in Down \cup {"Running"}
          /\ "terminated" \in closed => state \in Terminal
      BY DEF IInv, TypeOK, WaitersMatchState, Down
    <3> QED BY <3>1, <3>2 DEF WaiterOK, Expected
  <2>4. CASE AwaitReadFailure(w)
    <3>1. /\ waiter[w].pc = "readFailure" /\ waiter'[w].pc = "done"
          /\ waiter'[w].ch = waiter[w].ch
          /\ waiter'[w].res = IF failureCase # NoError
                              THEN "failureCase" ELSE "invalidState"
      BY <1>3, <2>4 DEF AwaitReadFailure, WaiterRecs
    <3>2. failureCase # NoError <=> state = "Failed"
      BY DEF IInv, FailureCaseIffFailed
    <3> QED BY <1>3, <3>1, <3>2 DEF WaiterOK
  <2> QED BY <2>1, <2>2, <2>3, <2>4 DEF Waiter
<1> QED BY <1>1, <1>2, <1>4 DEF WaiterInv, WaiterOK

\* WaiterInv is kept by every step.
LEMMA WaiterInvStep == IInv /\ WaiterInv /\ [Next]_vars => WaiterInv'
<1> SUFFICES ASSUME IInv, WaiterInv, [Next]_vars PROVE WaiterInv'
  OBVIOUS
<1>1. CASE \E w \in Waiters : Waiter(w)
  BY <1>1, WaiterStep
<1>2. CASE waiter' = waiter
  BY <1>2, WaiterKept DEF WaiterInv, WaiterOK
<1>3. (\E w \in Waiters : Waiter(w)) \/ waiter' = waiter
  BY DEF Next, vars, Main, StartAsync, CancelParent, StartFnSucceeds, StartFnFails,
         CheckCtx, EnterRunning, RunningFnReturns, EnterStopping, CancelCtx,
         StoppingFnReturns, Finish, StopAsync, StopAsyncCheck, StopAsyncSwitch,
         StopAsyncCancel, Listener, AddListener, ListenerRuns, ListenerExits
<1> QED BY <1>1, <1>2, <1>3

(***************************************************************************)
(* The answers of AwaitRunning and AwaitTerminated, put together from two  *)
(* reads under separate locks, agree with the state for ever after.        *)
(***************************************************************************)
THEOREM AwaitAnswersHold == Spec => []AwaitAnswers
<1>1. Init => WaiterInv
  BY DEF Init, WaiterInv, WaiterOK
<1>2. IInv /\ WaiterInv => AwaitAnswers
  <2> SUFFICES ASSUME IInv, WaiterInv, NEW w \in Waiters,
                      waiter[w].pc = "done", waiter[w].res # "ctxDone"
               PROVE  /\ waiter[w].ch = "terminated" =>
                           /\ waiter[w].res = "ok" <=> state = "Terminated"
                           /\ waiter[w].res = "failureCase" <=> state = "Failed"
                      /\ waiter[w].ch = "running" /\ waiter[w].res # "ok" =>
                           state \in Down
    BY DEF AwaitAnswers, Down
  <2> QED BY DEF WaiterInv, WaiterOK
<1> QED BY <1>1, <1>2, WaiterInvStep, IInvHolds, PTL DEF Spec

-----------------------------------------------------------------------------
(***************************************************************************)
(* Three facts about sequences.                                            *)
(***************************************************************************)
LEMMA ConcatAppend ==
  ASSUME NEW S, NEW d \in Seq(S), NEW b \in Seq(S), NEW e \in S
  PROVE  d \o Append(b, e) = Append(d \o b, e)
<1>1. Append(b, e) \in Seq(S) /\ d \o b \in Seq(S)
  OBVIOUS
<1>2. d \o Append(b, e) \in Seq(S) /\ Append(d \o b, e) \in Seq(S)
  BY <1>1
<1>3. Len(d \o Append(b, e)) = Len(Append(d \o b, e))
  BY <1>1
<1>4. \A i \in 1..Len(d \o Append(b, e)) :
        (d \o Append(b, e))[i] = Append(d \o b, e)[i]
  BY <1>1
<1> QED BY <1>2, <1>3, <1>4, SeqEqual

\* Delivering the head of a queue.
LEMMA MoveHead ==
  ASSUME NEW S, NEW d \in Seq(S), NEW b \in Seq(S), b # << >>
  PROVE  Append(d, Head(b)) \o Tail(b) = d \o b
<1>1. /\ Append(d, Head(b)) \in Seq(S) /\ Tail(b) \in Seq(S)
      /\ Len(Tail(b)) = Len(b) - 1 /\ Len(b) \in Nat \ {0}
  OBVIOUS
<1>2. Append(d, Head(b)) \o Tail(b) \in Seq(S) /\ d \o b \in Seq(S)
  BY <1>1
<1>3. Len(Append(d, Head(b)) \o Tail(b)) = Len(d \o b)
  BY <1>1
<1>4. \A i \in 1..Len(d \o b) : (Append(d, Head(b)) \o Tail(b))[i] = (d \o b)[i]
  BY <1>1
<1> QED BY <1>2, <1>3, <1>4, SeqEqual

\* The part of a history after a position, when the history grows.
LEMMA SubSeqAppend ==
  ASSUME NEW S, NEW h \in Seq(S), NEW e \in S, NEW a \in 0..Len(h)
  PROVE  SubSeq(Append(h, e), a + 1, Len(Append(h, e)))
           = Append(SubSeq(h, a + 1, Len(h)), e)
<1> DEFINE h2 == Append(h, e)
           x == SubSeq(h2, a + 1, Len(h2))
           y == SubSeq(h, a + 1, Len(h))
           z == Append(y, e)
<1>1. h2 \in Seq(S) /\ Len(h2) = Len(h) + 1 /\ Len(h) \in Nat
  OBVIOUS
<1>2. x \in Seq(S) /\ Len(x) = Len(h) + 1 - a
  BY <1>1
<1>3. y \in Seq(S) /\ Len(y) = Len(h) - a
  BY <1>1
<1>4. z \in Seq(S) /\ Len(z) = Len(h) - a + 1
  BY <1>3
<1>5. \A i \in 1..Len(h) + 1 - a : x[i] = z[i]
  BY <1>1, <1>3
<1> HIDE DEF x, z
<1>6. Len(x) = Len(z) /\ \A i \in 1..Len(x) : x[i] = z[i]
  BY <1>1, <1>2, <1>4, <1>5
<1>7. x = z
  BY <1>2, <1>4, <1>6, SeqEqual
<1> QED BY <1>7 DEF x, z

(***************************************************************************)
(* What a listener has seen and will see are the transitions since it was  *)
(* added; one not added yet has seen nothing.                              *)
(***************************************************************************)
Seen(l) == delivered[l] \o chanBuf[l]

LisInv ==
  \A l \in Listeners :
    /\ added[l] \in 0..Len(history)
    /\ IF chanState[l] = "none"
       THEN delivered[l] = << >>
       ELSE Seen(l) = SubSeq(history, added[l] + 1, Len(history))

(***************************************************************************)
(* A step notifies the listeners of one transition, is a listener's own,   *)
(* or does not touch them.                                                 *)
(***************************************************************************)
Notifies ==
  /\ state \notin Terminal
  /\ \E e \in Events, closeChan \in BOOLEAN :
       NotifyListeners(e, closeChan) /\ history' = Append(history, e)

\* A switch of state notifies the listeners.
LEMMA SwitchNotifies ==
  ASSUME NEW from, NEW to, <<from, to>> \in Events, from \notin Terminal,
         NEW chs, NEW closeChan \in BOOLEAN, SwitchState(from, to, chs, closeChan)
  PROVE  Notifies
<1>1. PICK e \in Events : e = <<from, to>>
  OBVIOUS
<1> QED BY <1>1 DEF SwitchState, Notifies

\* The transitions of the contract are events.
LEMMA EventsExist ==
  /\ <<"New", "Starting">> \in Events /\ <<"New", "Terminated">> \in Events
  /\ <<"Starting", "Running">> \in Events /\ <<"Starting", "Stopping">> \in Events
  /\ <<"Starting", "Failed">> \in Events /\ <<"Running", "Stopping">> \in Events
  /\ <<"Stopping", "Terminated">> \in Events /\ <<"Stopping", "Failed">> \in Events
BY DEF Events, Contract!Transitions

\* Each step of the specification is of one of the three kinds.
LEMMA StepKinds ==
  ASSUME IInv, [Next]_vars
  PROVE  \/ Notifies
         \/ \E l \in Listeners : Listener(l)
         \/ UNCHANGED <<history, chanState, chanBuf, added, delivered>>
<1>1. CASE StartAsync
  <2>1. SwitchState("New", "Starting", {}, FALSE)
    BY <1>1 DEF StartAsync
  <2> QED BY <2>1, EventsExist, SwitchNotifies
<1>2. CASE StartFnFails
  <2>1. SwitchState("Starting", "Failed", {"running", "terminated"}, TRUE)
    <3>1. state = "Starting"
      BY <1>2 DEF StartFnFails, IInv, MainInv
    <3> QED BY <1>2, <3>1, MustSwitchEffect DEF StartFnFails
  <2> QED BY <2>1, EventsExist, SwitchNotifies
<1>3. CASE EnterRunning
  <2>1. SwitchState("Starting", "Running", {"running"}, FALSE)
    <3>1. state = "Starting"
      BY <1>3 DEF EnterRunning, IInv, MainInv
    <3> QED BY <1>3, <3>1, MustSwitchEffect DEF EnterRunning
  <2> QED BY <2>1, EventsExist, SwitchNotifies
<1>4. CASE EnterStopping
  <2>1. state = stoppingFrom /\ stoppingFrom \in {"Starting", "Running"}
    BY <1>4 DEF EnterStopping, IInv, MainInv, TypeOK
  <2>2. SwitchState(stoppingFrom, "Stopping",
                    IF stoppingFrom = "Starting" THEN {"running"} ELSE {}, FALSE)
    BY <1>4, <2>1, MustSwitchEffect DEF EnterStopping
  <2> QED BY <2>1, <2>2, EventsExist, SwitchNotifies
<1>5. CASE Finish
  <2>1. SwitchState("Stopping", IF failure # NoError THEN "Failed" ELSE "Terminated",
                    {"terminated"}, TRUE)
    <3>1. state = "Stopping"
      BY <1>5 DEF Finish, IInv, MainInv
    <3> QED BY <1>5, <3>1, MustSwitchEffect DEF Finish
  <2> QED BY <2>1, EventsExist, SwitchNotifies
<1>6. CASE \E p \in Stoppers : StopAsync(p)
  <2>1. \/ SwitchState("New", "Terminated", {"running", "terminated"}, TRUE)
        \/ UNCHANGED <<history, chanState, chanBuf, added, delivered>>
    BY <1>6 DEF StopAsync, StopAsyncCheck, StopAsyncSwitch, StopAsyncCancel,
                svcVars, lisVars
  <2> QED BY <2>1, EventsExist, SwitchNotifies
<1>7. CASE \/ CancelParent \/ StartFnSucceeds \/ CheckCtx \/ RunningFnReturns
           \/ CancelCtx \/ StoppingFnReturns \/ UNCHANGED vars
           \/ \E w \in Waiters : Waiter(w)
  BY <1>7 DEF CancelParent, StartFnSucceeds, CheckCtx, RunningFnReturns,
              CancelCtx, StoppingFnReturns, Waiter, Await, AwaitCtxDone,
              AwaitReadState, AwaitReadFailure, vars, svcVars, lisVars
<1> QED BY <1>1, <1>2, <1>3, <1>4, <1>5, <1>6, <1>7 DEF Next, Main

\* A notification keeps LisInv.
LEMMA NotifyLisInv ==
  ASSUME IInv, LisInv, Notifies
  PROVE  LisInv'
<1>1. PICK e \in Events, closeChan \in BOOLEAN :
        NotifyListeners(e, closeChan) /\ history' = Append(history, e)
  BY DEF Notifies
<1>2. TypeOK /\ \A l \in Listeners : chanState[l] \in {"none", "open"}
  BY DEF IInv, ChanInv, Notifies
<1>a. history \in Seq(Events)
  BY <1>2 DEF TypeOK
<1>3. /\ history \in Seq(Events) /\ Len(history) \in Nat
      /\ Len(history') = Len(history) + 1
  BY <1>a, <1>1, AppendEvent
<1>4. SUFFICES ASSUME NEW l \in Listeners
               PROVE  /\ added'[l] \in 0..Len(history')
                      /\ IF chanState'[l] = "none"
                         THEN delivered'[l] = << >>
                         ELSE delivered'[l] \o chanBuf'[l]
                                = SubSeq(history', added'[l] + 1, Len(history'))
  BY DEF LisInv, Seen
<1>5. added' = added /\ delivered' = delivered
  BY <1>1, <1>2, NotifyEffect
<1>6. added[l] \in 0..Len(history) /\ added'[l] \in 0..Len(history')
  BY <1>3, <1>5 DEF LisInv
<1>7. CASE chanState[l] = "none"
  <2>1. chanState'[l] = "none"
    BY <1>1, <1>2, <1>7, NotifyEffect
  <2> QED BY <1>5, <1>6, <1>7, <2>1 DEF LisInv
<1>8. CASE chanState[l] = "open"
  <2>1. chanState'[l] # "none" /\ chanBuf'[l] = Append(chanBuf[l], e)
    BY <1>1, <1>2, <1>8, NotifyEffect
  <2>2. delivered[l] \in Seq(Events) /\ chanBuf[l] \in Seq(Events)
    BY <1>2 DEF TypeOK
  <2>a. delivered[l] \o Append(chanBuf[l], e) = Append(delivered[l] \o chanBuf[l], e)
    <3>1. \A d, b \in Seq(Events) : d \o Append(b, e) = Append(d \o b, e)
      BY <1>1, ConcatAppend
    <3> QED BY <2>2, <3>1, Zenon
  <2>3. delivered'[l] \o chanBuf'[l] = Append(delivered[l] \o chanBuf[l], e)
    BY <1>5, <2>1, <2>a
  <2>4. delivered[l] \o chanBuf[l] = SubSeq(history, added[l] + 1, Len(history))
    BY <1>8 DEF LisInv, Seen
  <2>5. SubSeq(history', added[l] + 1, Len(history'))
          = Append(SubSeq(history, added[l] + 1, Len(history)), e)
    BY <1>1, <1>3, <1>6, SubSeqAppend
  <2> QED BY <1>5, <1>6, <2>1, <2>3, <2>4, <2>5
<1> QED BY <1>2, <1>7, <1>8

\* The listeners' own steps keep LisInv.
LEMMA ListenerLisInv ==
  ASSUME IInv, LisInv, NEW l \in Listeners, Listener(l)
  PROVE  LisInv'
<1>a. history' = history /\ TypeOK
  BY DEF Listener, AddListener, ListenerRuns, ListenerExits, svcVars, IInv
<1>b. history \in Seq(Events)
  BY <1>a DEF TypeOK
<1>1. history' = history /\ TypeOK /\ Len(history) \in Nat
  BY <1>a, <1>b
<1>2. CASE AddListener(l)
  <2>1. chanBuf[l] = << >> /\ delivered[l] = << >>
    BY <1>2 DEF AddListener, IInv, ChanInv, LisInv
  <2>2. << >> \o << >> = << >>
    BY ConcatEmptySeq, EmptySeq
  <2>3. SubSeq(history, Len(history) + 1, Len(history)) = << >>
    BY <1>1, SubSeqEmpty
  <2>4. Len(history) \in 0..Len(history)
    BY <1>1
  <2> QED BY <1>1, <1>2, <2>1, <2>2, <2>3, <2>4 DEF AddListener, LisInv, Seen, TypeOK
<1>3. CASE ListenerRuns(l)
  <2>1. delivered[l] \in Seq(Events) /\ chanBuf[l] \in Seq(Events) /\ chanBuf[l] # << >>
    BY <1>1, <1>3 DEF ListenerRuns, TypeOK
  <2>2. Append(delivered[l], Head(chanBuf[l])) \o Tail(chanBuf[l]) = Seen(l)
    BY <2>1, MoveHead DEF Seen
  <2>3. chanState[l] # "none"
    BY <2>1 DEF IInv, ChanInv
  <2>4. /\ delivered'[l] = Append(delivered[l], Head(chanBuf[l]))
        /\ chanBuf'[l] = Tail(chanBuf[l])
        /\ \A k \in Listeners : k # l => /\ delivered'[k] = delivered[k]
                                        /\ chanBuf'[k] = chanBuf[k]
        /\ chanState' = chanState /\ added' = added
    BY <1>1, <1>3 DEF ListenerRuns, TypeOK
  <2> QED BY <1>1, <2>2, <2>3, <2>4 DEF LisInv, Seen
<1>4. CASE ListenerExits(l)
  BY <1>1, <1>4 DEF ListenerExits, LisInv, Seen, TypeOK
<1> QED BY <1>2, <1>3, <1>4 DEF Listener

(***************************************************************************)
(* No listener misses, repeats or reorders a transition made after it was  *)
(* added, whenever it was added and however slow its callbacks are.        *)
(***************************************************************************)
THEOREM ListenersSeeAll == Spec => []ListenersSeeEveryTransition
<1>1. Init => LisInv
  <2> SUFFICES ASSUME Init PROVE LisInv
    OBVIOUS
  <2>1. Len(history) = 0
    BY DEF Init
  <2> QED BY <2>1 DEF Init, LisInv
<1>2. IInv /\ LisInv /\ [Next]_vars => LisInv'
  <2>1. ASSUME LisInv, UNCHANGED <<history, chanState, chanBuf, added, delivered>>
        PROVE  LisInv'
    BY <2>1 DEF LisInv, Seen
  <2> QED BY <2>1, StepKinds, NotifyLisInv, ListenerLisInv
<1>3. LisInv => ListenersSeeEveryTransition
  BY DEF LisInv, Seen, ListenersSeeEveryTransition, Registered
<1> QED BY <1>1, <1>2, <1>3, IInvHolds, PTL DEF Spec
=============================================================================
