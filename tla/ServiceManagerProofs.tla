----------------------- MODULE ServiceManagerProofs -----------------------
(***************************************************************************)
(* Proofs about ServiceManager for any services, listeners, watchers and   *)
(* waiters.  Everything the manager keeps is a function of View, the       *)
(* states it has heard of, and only HandleEvent changes View.              *)
(***************************************************************************)
EXTENDS ServiceManager, FiniteSetTheorems, TLAPS

Events == {Failure(s) : s \in Services} \cup {Healthy, Stopped}

Waiter == [pc : {"idle", "waiting", "done"}, ch : {"healthy", "stopped"},
           res : {"none", "ctxDone", "notHealthy", "ok"}]

Types ==
  /\ svc \in [Services -> States]
  /\ stopping \in SUBSET Services
  /\ queue \in [Services -> Seq(Contract!Transitions)]
  /\ toStart \in SUBSET Services /\ toStop \in SUBSET Services
  /\ mstate \in {"unknown", "healthy", "stopped"}
  /\ byState \in [States -> SUBSET Services]
  /\ closed \in SUBSET {"healthy", "stopped"}
  /\ healthyClosed \in BOOLEAN /\ panicked \in BOOLEAN
  /\ chanState \in [Listeners -> {"none", "open", "closed", "exited"}]
  /\ chanBuf \in [Listeners -> Seq(Events)]
  /\ received \in [Watchers -> Seq(Services \X States)]
  /\ waiter \in [Waiters -> Waiter]
  /\ emitted \in Seq(Events)

(***************************************************************************)
(* The events a service has for the manager are consecutive transitions    *)
(* that lead to the state it is in.                                        *)
(***************************************************************************)
Chained(q, st) ==
  \A i \in 1..Len(q) : q[i][2] = IF i < Len(q) THEN q[i + 1][1] ELSE st

Chain == \A s \in Services : Chained(queue[s], svc[s])

(***************************************************************************)
(* The state of the manager and its channels, in terms of View.            *)
(***************************************************************************)
Past == {"Stopping"} \cup Terminal

ManagerFollows ==
  /\ mstate = "healthy" <=> \A s \in Services : View(s) = "Running"
  /\ mstate = "stopped" <=> \A s \in Services : View(s) \in Terminal
  /\ "stopped" \in closed <=> mstate = "stopped"
  /\ \A l \in Listeners : chanState[l] \in {"closed", "exited"} => mstate = "stopped"
  /\ \A w \in Waiters : waiter[w].res = "notHealthy" => \E s \in Services : View(s) \in Past

(***************************************************************************)
(* What an event says is so, and stays so.                                 *)
(***************************************************************************)
Holds(e, failed, hc, ms) ==
  /\ \A s \in Services : e = Failure(s) => s \in failed
  /\ e = Healthy => hc
  /\ e = Stopped => ms = "stopped"

FailedServices == {s \in Services : View(s) = "Failed"}

EventsHold ==
  /\ \A i \in 1..Len(emitted) : Holds(emitted[i], FailedServices, healthyClosed, mstate)
  /\ \A l \in Listeners : \A i \in 1..Len(chanBuf[l]) :
       Holds(chanBuf[l][i], FailedServices, healthyClosed, mstate)

(***************************************************************************)
(* How many events there have been at most: one for each failed service,   *)
(* and two of the manager.                                                 *)
(***************************************************************************)
EventsAreFew ==
  /\ Len(emitted) <= Cardinality(byState["Failed"]) + (IF healthyClosed THEN 1 ELSE 0)
                                                    + (IF mstate = "stopped" THEN 1 ELSE 0)
  /\ \A l \in Listeners : Len(chanBuf[l]) <= Len(emitted)

IInv ==
  /\ Types /\ Chain /\ ByStateIsView /\ HealthyChMeaning /\ ManagerFollows
  /\ EventsHold /\ EventsAreFew /\ EventOrder /\ WatchersSendErrors /\ ~panicked

-----------------------------------------------------------------------------
(***************************************************************************)
(* Sequences of events: what is appended, taken or added to.               *)
(***************************************************************************)
LEMMA AppendChained ==
  ASSUME NEW q \in Seq(Contract!Transitions), NEW from, NEW to, Chained(q, from),
         <<from, to>> \in Contract!Transitions
  PROVE  /\ Append(q, <<from, to>>) \in Seq(Contract!Transitions)
         /\ Append(q, <<from, to>>) # << >>
         /\ Chained(Append(q, <<from, to>>), to)
         /\ Head(Append(q, <<from, to>>))[1] = IF q = << >> THEN from ELSE Head(q)[1]
<1> DEFINE e == <<from, to>>
           r == Append(q, e)
<1>1. e[1] = from /\ e[2] = to
  OBVIOUS
<1> HIDE DEF e
<1>2. /\ r \in Seq(Contract!Transitions) /\ Len(r) = Len(q) + 1 /\ Len(q) \in Nat
      /\ \A i \in 1..Len(q) : r[i] = q[i]
      /\ r[Len(q) + 1] = e
  BY DEF e
<1>3. Chained(r, to)
  <2>1. SUFFICES ASSUME NEW i \in 1..Len(r)
                 PROVE  r[i][2] = IF i < Len(r) THEN r[i + 1][1] ELSE to
    BY DEF Chained
  <2>2. CASE i = Len(q) + 1
    BY <1>1, <1>2, <2>2
  <2>3. CASE i = Len(q)
    BY <1>1, <1>2, <2>3 DEF Chained
  <2>4. CASE i < Len(q)
    BY <1>1, <1>2, <2>4 DEF Chained
  <2> QED
    BY <1>2, <2>2, <2>3, <2>4
<1>4. Head(r)[1] = IF q = << >> THEN from ELSE Head(q)[1]
  BY <1>1, <1>2
<1>5. r # << >>
  <2> HIDE DEF r
  <2> QED
    BY <1>2
<1> QED
  BY <1>2, <1>3, <1>4, <1>5 DEF e

\* The events of a service that are left follow on one another up to its state.
LEMMA TailChained ==
  ASSUME NEW q \in Seq(Contract!Transitions), q # << >>, NEW st, Chained(q, st)
  PROVE  /\ Tail(q) \in Seq(Contract!Transitions)
         /\ Chained(Tail(q), st)
         /\ Head(q) \in Contract!Transitions
         /\ Head(q)[2] = IF Tail(q) = << >> THEN st ELSE Head(Tail(q))[1]
<1>1. /\ Tail(q) \in Seq(Contract!Transitions) /\ Len(q) \in Nat \ {0} /\ Len(Tail(q)) = Len(q) - 1
      /\ \A i \in 1..Len(Tail(q)) : Tail(q)[i] = q[i + 1]
      /\ Head(q) = q[1] /\ q[1] \in Contract!Transitions
  OBVIOUS
<1>2. Chained(Tail(q), st)
  <2>1. SUFFICES ASSUME NEW i \in 1..Len(Tail(q))
                 PROVE  Tail(q)[i][2] = IF i < Len(Tail(q)) THEN Tail(q)[i + 1][1] ELSE st
    BY DEF Chained
  <2>2. i + 1 \in 1..Len(q)
    BY <1>1
  <2> QED
    BY <1>1, <2>2 DEF Chained
<1>3. CASE Tail(q) = << >>
  <2>1. Len(q) = 1
    BY <1>1, <1>3
  <2> QED
    BY <1>1, <1>2, <1>3, <2>1 DEF Chained
<1>4. CASE Tail(q) # << >>
  <2>1. 1 < Len(q) /\ Head(Tail(q)) = q[2]
    BY <1>1, <1>4
  <2> QED
    BY <1>1, <1>2, <1>4, <2>1 DEF Chained
<1> QED
  BY <1>3, <1>4


-----------------------------------------------------------------------------
(***************************************************************************)
(* The counts of serviceStateChanged, in terms of the states they count.   *)
(***************************************************************************)
LEMMA Counts ==
  ASSUME NEW bs \in [States -> SUBSET Services], NEW v \in [Services -> States],
         \A s \in Services, st \in States : s \in bs[st] <=> v[s] = st
  PROVE  /\ AllRunning(bs) <=> \A s \in Services : v[s] = "Running"
         /\ AllDone(bs) <=> \A s \in Services : v[s] \in Terminal
         /\ SomeStopped(bs) <=> \E s \in Services : v[s] \in Past
         /\ Cardinality(bs["Failed"]) \in Nat
         /\ Cardinality(bs["Failed"]) <= Cardinality(Services)
         /\ \A s \in Services : v[s] # "Failed" => Cardinality(bs["Failed"]) < Cardinality(Services)
<1> DEFINE T == bs["Terminated"]
           F == bs["Failed"]
           R == bs["Running"]
           P == bs["Stopping"]
<1>1. T \in SUBSET Services /\ F \in SUBSET Services /\ R \in SUBSET Services /\ P \in SUBSET Services
  BY DEF States, Contract!States
<1>2. /\ \A s \in Services : s \in T <=> v[s] = "Terminated"
      /\ \A s \in Services : s \in F <=> v[s] = "Failed"
      /\ \A s \in Services : s \in R <=> v[s] = "Running"
      /\ \A s \in Services : s \in P <=> v[s] = "Stopping"
  BY DEF States, Contract!States
<1> HIDE DEF T, F, R, P
<1>3. /\ IsFiniteSet(T) /\ IsFiniteSet(F) /\ IsFiniteSet(R) /\ IsFiniteSet(P)
      /\ Cardinality(F) <= Cardinality(Services) /\ Cardinality(R) <= Cardinality(Services)
      /\ Cardinality(F) = Cardinality(Services) => F = Services
      /\ Cardinality(R) = Cardinality(Services) => R = Services
  BY <1>1, ServicesAssumption, FS_Subset
<1>4. /\ Cardinality(T) \in Nat /\ Cardinality(F) \in Nat /\ Cardinality(R) \in Nat
      /\ Cardinality(P) \in Nat /\ Cardinality(Services) \in Nat
  BY <1>3, ServicesAssumption, FS_CardinalityType
<1>5. AllRunning(bs) <=> \A s \in Services : v[s] = "Running"
  <2>1. AllRunning(bs) <=> R = Services
    BY <1>3 DEF AllRunning, R
  <2> QED
    BY <1>1, <1>2, <2>1
<1>6. AllDone(bs) <=> \A s \in Services : v[s] \in Terminal
  <2>1. T \cap F = {}
    BY <1>1, <1>2
  <2>2. Cardinality(T \cup F) = Cardinality(T) + Cardinality(F)
    <3>1. Cardinality(T \cup F) = Cardinality(T) + Cardinality(F) - Cardinality(T \cap F)
      BY <1>3, FS_Union
    <3>2. Cardinality(T \cap F) = 0
      BY <2>1, FS_EmptySet
    <3> QED
      BY <1>4, <3>1, <3>2
  <2>3. T \cup F \in SUBSET Services
    BY <1>1
  <2>4. Cardinality(T) + Cardinality(F) = Cardinality(Services) <=> T \cup F = Services
    BY <2>2, <2>3, ServicesAssumption, FS_Subset
  <2> QED
    BY <1>1, <1>2, <2>4 DEF AllDone, T, F, Terminal, Contract!Terminal
<1>7. SomeStopped(bs) <=> \E s \in Services : v[s] \in Past
  <2>1. /\ Cardinality(T) = 0 <=> T = {}
        /\ Cardinality(F) = 0 <=> F = {}
        /\ Cardinality(P) = 0 <=> P = {}
    BY <1>3, FS_EmptySet
  <2>2. SomeStopped(bs) <=> T # {} \/ F # {} \/ P # {}
    BY <1>4, <2>1 DEF SomeStopped, T, F, P
  <2> QED
    BY <1>1, <1>2, <2>2 DEF Past, Terminal, Contract!Terminal
<1>8. \A s \in Services : v[s] # "Failed" => Cardinality(F) < Cardinality(Services)
  BY <1>2, <1>3, <1>4
<1> QED
  BY <1>3, <1>4, <1>5, <1>6, <1>7, <1>8 DEF F


-----------------------------------------------------------------------------
(***************************************************************************)
(* What the manager has heard of a service is a state, and there is more   *)
(* to hear only if that is not the last one.                               *)
(***************************************************************************)
LEMMA ViewFacts ==
  ASSUME Types, Chain, NEW s \in Services
  PROVE  /\ View(s) \in States
         /\ queue[s] # << >> => /\ <<View(s), Head(queue[s])[2]>> \in Contract!Transitions
                                /\ View(s) = Head(queue[s])[1]
                                /\ View(s) \notin Terminal /\ Head(queue[s])[2] \in States
         /\ queue[s] = << >> => View(s) = svc[s]
<1>1. \A e \in Contract!Transitions : /\ e[1] \in States \ Terminal /\ e[2] \in States
                                      /\ e = <<e[1], e[2]>>
  BY DEF Contract!Transitions, States, Contract!States, Terminal, Contract!Terminal
<1>2. queue[s] \in Seq(Contract!Transitions) /\ svc[s] \in States
  BY DEF Types
<1>3. CASE queue[s] = << >>
  BY <1>2, <1>3 DEF View
<1>4. CASE queue[s] # << >>
  <2>1. Head(queue[s]) \in Contract!Transitions
    BY <1>2, <1>4
  <2> QED
    BY <1>1, <1>4, <2>1 DEF View
<1> QED
  BY <1>3, <1>4

(***************************************************************************)
(* A step that leaves the manager, its listeners and View alone.           *)
(***************************************************************************)
LEMMA ManagerKept ==
  ASSUME IInv, Types', Chain', UNCHANGED <<mgrVars, lisVars, waiter>>,
         \A s \in Services : View(s)' = View(s)
  PROVE  IInv'
<1>1. UNCHANGED <<mstate, byState, closed, healthyClosed, panicked, emitted, chanState, chanBuf,
                  received, waiter>>
  BY DEF mgrVars, lisVars
<1>2. ByStateIsView' /\ HealthyChMeaning' /\ ManagerFollows'
  BY <1>1 DEF IInv, ByStateIsView, HealthyChMeaning, ManagerFollows
<1>3. FailedServices' = FailedServices
  BY DEF FailedServices
<1>4. EventsHold'
  BY <1>1, <1>3 DEF IInv, EventsHold
<1>5. EventsAreFew' /\ EventOrder' /\ WatchersSendErrors' /\ ~panicked'
  BY <1>1 DEF IInv, EventsAreFew, EventOrder, WatchersSendErrors
<1> QED
  BY <1>2, <1>4, <1>5 DEF IInv

(***************************************************************************)
(* A transition of a service adds to what the manager has yet to hear.     *)
(***************************************************************************)
LEMMA TransitionIInv ==
  ASSUME IInv, NEW s \in Services, NEW to \in States, <<svc[s], to>> \in Contract!Transitions,
         Transition(s, to), UNCHANGED <<mgrVars, lisVars, waiter>>,
         stopping' \in SUBSET Services, toStart' \in SUBSET Services, toStop' \in SUBSET Services
  PROVE  IInv'
<1>1. /\ svc \in [Services -> States] /\ queue \in [Services -> Seq(Contract!Transitions)]
      /\ Chained(queue[s], svc[s])
  BY DEF IInv, Types, Chain
<1> DEFINE q == Append(queue[s], <<svc[s], to>>)
<1>2. /\ q \in Seq(Contract!Transitions) /\ q # << >> /\ Chained(q, to)
      /\ Head(q)[1] = IF queue[s] = << >> THEN svc[s] ELSE Head(queue[s])[1]
  BY <1>1, AppendChained
<1>3. svc' = [svc EXCEPT ![s] = to] /\ queue' = [queue EXCEPT ![s] = q]
  BY DEF Transition
<1> HIDE DEF q
<1>4. /\ svc' \in [Services -> States] /\ queue' \in [Services -> Seq(Contract!Transitions)]
      /\ svc'[s] = to /\ queue'[s] = q
      /\ \A r \in Services \ {s} : svc'[r] = svc[r] /\ queue'[r] = queue[r]
  BY <1>1, <1>2, <1>3
<1>5. Types'
  BY <1>4 DEF IInv, Types, mgrVars, lisVars
<1>6. Chain'
  BY <1>2, <1>4 DEF IInv, Chain
<1>7. \A r \in Services : View(r)' = View(r)
  BY <1>2, <1>4 DEF View
<1> QED
  BY <1>5, <1>6, <1>7, ManagerKept

\* A step that no service's state changes in keeps the invariant.
LEMMA ServicesKeptIInv ==
  ASSUME IInv, UNCHANGED <<svc, queue, mgrVars, lisVars, waiter>>,
         stopping' \in SUBSET Services, toStart' \in SUBSET Services, toStop' \in SUBSET Services
  PROVE  IInv'
<1>1. Types' /\ Chain' /\ \A s \in Services : View(s)' = View(s)
  BY DEF IInv, Types, Chain, View, mgrVars, lisVars
<1> QED
  BY <1>1, ManagerKept

(***************************************************************************)
(* The steps of the services, and of those who start and stop them.        *)
(***************************************************************************)
LEMMA ServiceStepsIInv ==
  ASSUME IInv,
         \/ StartAsync \/ StopAsync
         \/ \E s \in Services : \/ ServiceMoves(s) \/ ExternalStart(s) \/ ExternalStop(s)
                                \/ StartAsyncNext(s) \/ StopAsyncNext(s)
  PROVE  IInv'
<1>1. stopping \in SUBSET Services /\ toStart \in SUBSET Services /\ toStop \in SUBSET Services
  BY DEF IInv, Types
<1>2. {<<"New", "Starting">>, <<"New", "Terminated">>} \subseteq Contract!Transitions
      /\ {"Starting", "Terminated"} \subseteq States
  BY DEF Contract!Transitions, States, Contract!States
<1>3. CASE StartAsync \/ StopAsync
  BY <1>1, <1>3, ServicesKeptIInv DEF StartAsync, StopAsync, svcVars
<1>4. ASSUME NEW s \in Services, ServiceMoves(s)
      PROVE  IInv'
  BY <1>1, <1>4, TransitionIInv DEF ServiceMoves, callVars
<1>5. ASSUME NEW s \in Services, ExternalStart(s)
      PROVE  IInv'
  BY <1>1, <1>2, <1>5, TransitionIInv DEF ExternalStart, StartService, callVars
<1>6. ASSUME NEW s \in Services, StopService(s), UNCHANGED <<mgrVars, lisVars, waiter>>,
             toStart' \in SUBSET Services, toStop' \in SUBSET Services
      PROVE  IInv'
  <2>1. CASE svc[s] = "New"
    BY <1>1, <1>2, <1>6, <2>1, TransitionIInv DEF StopService
  <2>2. CASE svc[s] # "New"
    BY <1>1, <1>6, <2>2, ServicesKeptIInv DEF StopService
  <2> QED
    BY <2>1, <2>2
<1>7. ASSUME NEW s \in Services, ExternalStop(s)
      PROVE  IInv'
  BY <1>1, <1>6, <1>7 DEF ExternalStop, callVars
<1>8. ASSUME NEW s \in Services, StartAsyncNext(s)
      PROVE  IInv'
  <2>1. /\ stopping' \in SUBSET Services /\ toStart' \in SUBSET Services /\ toStop' \in SUBSET Services
        /\ UNCHANGED <<mgrVars, lisVars, waiter>> /\ StartService(s)
    BY <1>1, <1>8 DEF StartAsyncNext
  <2>2. CASE svc[s] = "New"
    BY <1>2, <2>1, <2>2, TransitionIInv DEF StartService
  <2>3. CASE svc[s] # "New"
    BY <2>1, <2>3, ServicesKeptIInv DEF StartService
  <2> QED
    BY <2>2, <2>3
<1>9. ASSUME NEW s \in Services, StopAsyncNext(s)
      PROVE  IInv'
  <2>1. /\ toStart' \in SUBSET Services /\ toStop' \in SUBSET Services
        /\ UNCHANGED <<mgrVars, lisVars, waiter>>
    BY <1>1, <1>9 DEF StopAsyncNext
  <2>2. CASE svc[s] \in Terminal
    BY <1>1, <1>9, <2>1, <2>2, ServicesKeptIInv DEF StopAsyncNext, svcVars
  <2>3. CASE svc[s] \notin Terminal
    BY <1>6, <1>9, <2>1, <2>3 DEF StopAsyncNext
  <2> QED
    BY <2>2, <2>3
<1> QED
  BY <1>3, <1>4, <1>5, <1>7, <1>8, <1>9


-----------------------------------------------------------------------------
(***************************************************************************)
(* The events of one state change.                                         *)
(***************************************************************************)
OrderedEvents(es) ==
  \A i, j \in 1..Len(es) :
    i < j => es[i] # Stopped /\ es[i] # es[j] /\ (es[j] = Healthy => es[i] = Healthy)

\* The three kinds of events can be told apart.
LEMMA EventsDiffer ==
  ASSUME NEW s \in Services
  PROVE  /\ Failure(s) # Healthy /\ Failure(s) # Stopped /\ Healthy # Stopped
         /\ Failure(s)[1] = "failure" /\ Failure(s)[2] = s
         /\ Healthy[1] = "healthy" /\ Stopped[1] = "stopped"
         /\ \A r \in Services : Failure(s) = Failure(r) => s = r
<1>1. \A r \in Services : Failure(r)[1] = "failure" /\ Failure(r)[2] = r
  BY DEF Failure
<1>2. Healthy[1] = "healthy" /\ Stopped[1] = "stopped"
  BY DEF Healthy, Stopped
<1> QED
  BY <1>1, <1>2

\* What serviceStateChanged sends for one event: at most two notices, a failure first.
LEMMA NoticesFacts ==
  ASSUME NEW s \in Services, NEW to, NEW e \in {Healthy, Stopped}, NEW change \in {<< >>, <<e>>},
         change = <<Healthy>> => to # "Failed"
  PROVE  LET es == Notices(s, to, change)
         IN  /\ es \in Seq(Events) /\ OrderedEvents(es)
             /\ Len(es) = (IF to = "Failed" THEN 1 ELSE 0) + Len(change)
             /\ \A i \in 1..Len(es) : \/ es[i] = Failure(s) /\ to = "Failed"
                                      \/ es[i] = e /\ change = <<e>>
<1> DEFINE es == Notices(s, to, change)
<1>1. Failure(s) \in Events /\ e \in Events /\ change \in Seq(Events)
  <2>1. Failure(s) \in Events /\ e \in Events
    BY DEF Events
  <2>2. << >> \in Seq(Events) /\ <<e>> \in Seq(Events)
    BY <2>1
  <2> QED
    BY <2>1, <2>2
<1>2. CASE to = "Failed"
  <2>1. es = <<Failure(s)>> \o change
    BY <1>2 DEF Notices
  <2>2. <<Failure(s)>> \in Seq(Events) /\ Len(<<Failure(s)>>) = 1 /\ <<Failure(s)>>[1] = Failure(s)
    BY <1>1
  <2>3. CASE change = << >>
    <3>1. es \in Seq(Events) /\ Len(es) = 1 /\ es[1] = Failure(s)
      BY <1>1, <2>1, <2>2, <2>3
    <3> HIDE DEF es
    <3>2. OrderedEvents(es)
      BY <3>1 DEF OrderedEvents
    <3> QED
      BY <1>2, <2>3, <3>1, <3>2 DEF es
  <2>4. CASE change = <<e>>
    <3>1. es \in Seq(Events) /\ Len(es) = 2 /\ es[1] = Failure(s) /\ es[2] = e
      BY <1>1, <2>1, <2>2, <2>4
    <3>2. e = Stopped
      BY <1>2, <2>4
    <3> HIDE DEF es
    <3>3. OrderedEvents(es)
      BY <3>1, <3>2, EventsDiffer DEF OrderedEvents
    <3> QED
      BY <1>2, <2>4, <3>1, <3>3 DEF es
  <2> QED
    BY <2>3, <2>4
<1>3. CASE to # "Failed"
  <2>1. es = change
    BY <1>1, <1>3 DEF Notices
  <2>2. Len(change) <= 1 /\ Len(change) \in Nat /\ (change # << >> => change[1] = e /\ change = <<e>>)
    <3>1. Len(<< >>) = 0 /\ Len(<<e>>) = 1 /\ <<e>>[1] = e
      OBVIOUS
    <3>2. CASE change = << >>
      BY <3>1, <3>2
    <3>3. CASE change = <<e>>
      BY <3>1, <3>3
    <3> QED
      BY <3>2, <3>3
  <2>3. OrderedEvents(change)
    BY <2>2 DEF OrderedEvents
  <2>4. \A i \in 1..Len(change) : change[i] = e /\ change = <<e>>
    BY <2>2
  <2> QED
    BY <1>1, <1>3, <2>1, <2>3, <2>4
<1> QED
  BY <1>2, <1>3

(***************************************************************************)
(* New events after old ones.                                              *)
(***************************************************************************)
LEMMA EventsAppended ==
  ASSUME NEW E \in Seq(Events), NEW es \in Seq(Events)
  PROVE  /\ E \o es \in Seq(Events) /\ Len(E \o es) = Len(E) + Len(es)
         /\ \A i \in 1..Len(E \o es) : \/ i \in 1..Len(E) /\ (E \o es)[i] = E[i]
                                       \/ i - Len(E) \in 1..Len(es) /\ (E \o es)[i] = es[i - Len(E)]
         /\ (/\ OrderedEvents(E) /\ OrderedEvents(es)
             /\ \A i \in 1..Len(E), j \in 1..Len(es) :
                  E[i] # Stopped /\ E[i] # es[j] /\ (es[j] = Healthy => E[i] = Healthy))
            => OrderedEvents(E \o es)
<1> DEFINE a == E \o es
<1>1. /\ a \in Seq(Events) /\ Len(a) = Len(E) + Len(es) /\ Len(E) \in Nat /\ Len(es) \in Nat
      /\ \A i \in 1..Len(a) : a[i] = IF i <= Len(E) THEN E[i] ELSE es[i - Len(E)]
  OBVIOUS
<1> HIDE DEF a
<1>2. \A i \in 1..Len(a) : \/ i \in 1..Len(E) /\ a[i] = E[i]
                           \/ i - Len(E) \in 1..Len(es) /\ a[i] = es[i - Len(E)]
  BY <1>1
<1>3. ASSUME OrderedEvents(E), OrderedEvents(es),
             \A i \in 1..Len(E), j \in 1..Len(es) :
               E[i] # Stopped /\ E[i] # es[j] /\ (es[j] = Healthy => E[i] = Healthy),
             NEW i \in 1..Len(a), NEW j \in 1..Len(a), i < j
      PROVE  a[i] # Stopped /\ a[i] # a[j] /\ (a[j] = Healthy => a[i] = Healthy)
  <2>1. CASE j <= Len(E)
    <3>1. i \in 1..Len(E) /\ j \in 1..Len(E) /\ a[i] = E[i] /\ a[j] = E[j]
      BY <1>1, <1>3, <2>1
    <3> QED
      BY <1>3, <3>1 DEF OrderedEvents
  <2>2. CASE i <= Len(E) /\ j > Len(E)
    <3>1. i \in 1..Len(E) /\ j - Len(E) \in 1..Len(es) /\ a[i] = E[i] /\ a[j] = es[j - Len(E)]
      BY <1>1, <1>3, <2>2
    <3> QED
      BY <1>3, <3>1
  <2>3. CASE i > Len(E)
    <3>1. /\ i - Len(E) \in 1..Len(es) /\ j - Len(E) \in 1..Len(es) /\ i - Len(E) < j - Len(E)
          /\ a[i] = es[i - Len(E)] /\ a[j] = es[j - Len(E)]
      BY <1>1, <1>3, <2>3
    <3> QED
      BY <1>3, <3>1 DEF OrderedEvents
  <2> QED
    BY <1>1, <2>1, <2>2, <2>3
<1> QED
  BY <1>1, <1>2, <1>3 DEF a, OrderedEvents


-----------------------------------------------------------------------------
(***************************************************************************)
(* What HandleEvent(s) does, when View(s) becomes to and es are sent.      *)
(***************************************************************************)
Effect(s, to, es) ==
  /\ byState' \in [States -> SUBSET Services]
  /\ byState'["Failed"] = IF to = "Failed" THEN byState["Failed"] \cup {s} ELSE byState["Failed"]
  /\ <<View(s), to>> \in Contract!Transitions /\ View(s)' = to /\ to \in States
  /\ \A r \in Services \ {s} : View(r)' = View(r)
  /\ ByStateIsView' /\ HealthyChMeaning'
  /\ mstate' \in {"unknown", "healthy", "stopped"} /\ mstate # "stopped"
  /\ mstate' = "healthy" <=> \A r \in Services : View(r)' = "Running"
  /\ mstate' = "stopped" <=> \A r \in Services : View(r)' \in Terminal
  /\ closed' \in SUBSET {"healthy", "stopped"} /\ ("stopped" \in closed' <=> mstate' = "stopped")
  /\ healthyClosed' \in BOOLEAN /\ (healthyClosed => healthyClosed')
  /\ mstate' = "healthy" => ~healthyClosed /\ healthyClosed'
  /\ panicked' = FALSE
  /\ NotifyListeners(es, mstate' = "stopped")
  /\ es \in Seq(Events) /\ OrderedEvents(es)
  /\ Len(es) = (IF to = "Failed" THEN 1 ELSE 0) + (IF mstate' = "unknown" THEN 0 ELSE 1)
  /\ \A i \in 1..Len(es) : \/ es[i] = Failure(s) /\ to = "Failed"
                           \/ es[i] = Healthy /\ mstate' = "healthy"
                           \/ es[i] = Stopped /\ mstate' = "stopped"

\* serviceStateChanged as a whole: what is closed and sent is determined by View before and after.
LEMMA HandleEventEffect ==
  ASSUME IInv, NEW s \in Services, HandleEvent(s)
  PROVE  \E es : Effect(s, Head(queue[s])[2], es)
<1> DEFINE from == Head(queue[s])[1]
           to == Head(queue[s])[2]
           w == [r \in Services |-> IF r = s THEN to ELSE View(r)]
           bs == Moved(s, from, to)
<1>1. /\ Types /\ Chain /\ queue[s] # << >>
      /\ queue \in [Services -> Seq(Contract!Transitions)] /\ svc \in [Services -> States]
      /\ byState \in [States -> SUBSET Services] /\ closed \in SUBSET {"healthy", "stopped"}
      /\ healthyClosed \in BOOLEAN
  BY DEF IInv, Types, HandleEvent
<1>2. /\ <<from, to>> \in Contract!Transitions /\ View(s) = from /\ from \notin Terminal
      /\ from \in States /\ to \in States
      /\ \A r \in Services : View(r) \in States
  BY <1>1, ViewFacts
<1>3. /\ from # to
      /\ to = "Running" => from = "Starting"
      /\ from = "Running" => to = "Stopping"
      /\ from \in Past => to \in Past
      /\ "Failed" \in States /\ from # "Failed"
      /\ "Running" \notin Past /\ "Starting" \notin Past /\ Terminal \subseteq Past
      /\ "Running" \notin Terminal /\ "Failed" \in Terminal
  BY <1>2 DEF Contract!Transitions, Past, Terminal, Contract!Terminal, States, Contract!States
<1>4. /\ Chained(queue[s], svc[s])
      /\ svc' = svc /\ queue' = [queue EXCEPT ![s] = Tail(@)]
  BY <1>1 DEF Chain, HandleEvent
<1>5. View(s)' = to /\ \A r \in Services \ {s} : View(r)' = View(r)
  <2>1. to = IF Tail(queue[s]) = << >> THEN svc[s] ELSE Head(Tail(queue[s]))[1]
    BY <1>1, <1>4, TailChained
  <2>2. queue'[s] = Tail(queue[s]) /\ \A r \in Services \ {s} : queue'[r] = queue[r]
    BY <1>1, <1>4
  <2>3. svc' = svc
    BY <1>4
  <2> HIDE DEF to
  <2>4. View(s)' = to
    BY <2>1, <2>2, <2>3 DEF View
  <2>5. \A r \in Services \ {s} : View(r)' = View(r)
    BY <2>2, <2>3 DEF View
  <2> QED
    BY <2>4, <2>5
<1>6. byState' = bs /\ bs = [byState EXCEPT ![from] = @ \ {s}, ![to] = @ \cup {s}]
  BY DEF HandleEvent, ServiceStateChanged, Moved
<1>7. HandleEvent(s) => \/ AllRunning(bs) /\ BecomeHealthy(Notices(s, to, <<Healthy>>))
                        \/ ~AllRunning(bs) /\ AllDone(bs) /\ BecomeStopped(Notices(s, to, <<Stopped>>))
                        \/ ~AllRunning(bs) /\ ~AllDone(bs) /\ BecomeUnknown(bs, Notices(s, to, << >>))
  BY DEF HandleEvent, ServiceStateChanged
<1> HIDE DEF from, to, bs
<1>8. w \in [Services -> States] /\ \A r \in Services : View(r)' = w[r]
  BY <1>2, <1>5
<1>9. /\ w[s] = to /\ \A r \in Services \ {s} : w[r] = View(r)
  OBVIOUS
<1> HIDE DEF w
<1>10. /\ bs \in [States -> SUBSET Services]
       /\ bs["Failed"] = IF to = "Failed" THEN byState["Failed"] \cup {s} ELSE byState["Failed"]
  BY <1>1, <1>2, <1>3, <1>6
<1>11. \A r \in Services, st \in States : r \in bs[st] <=> w[r] = st
  <2>1. \A r \in Services, st \in States : r \in byState[st] <=> View(r) = st
    BY DEF IInv, ByStateIsView
  <2> QED
    BY <1>1, <1>2, <1>3, <1>6, <1>9, <2>1
<1>12. /\ AllRunning(bs) <=> \A r \in Services : w[r] = "Running"
       /\ AllDone(bs) <=> \A r \in Services : w[r] \in Terminal
       /\ SomeStopped(bs) <=> \E r \in Services : w[r] \in Past
  BY <1>8, <1>10, <1>11, Counts
<1>13. ByStateIsView'
  <2>1. byState' = bs
    BY <1>6
  <2>2. SUFFICES ASSUME NEW r \in Services, NEW st \in States
                 PROVE  r \in byState'[st] <=> View(r)' = st
    BY DEF ByStateIsView
  <2> QED
    BY <1>8, <1>11, <2>1
<1>14. /\ mstate # "stopped" /\ "stopped" \notin closed
       /\ \A l \in Listeners : chanState[l] \notin {"closed", "exited"}
       /\ "healthy" \in closed <=> healthyClosed
       /\ healthyClosed <=> \/ \A r \in Services : View(r) = "Running"
                            \/ \E r \in Services : View(r) \in Past
  BY <1>2 DEF IInv, ManagerFollows, HealthyChMeaning, Past
<1>15. healthyClosed => \E r \in Services : w[r] \in Past
  <2>1. CASE \A r \in Services : View(r) = "Running"
    BY <1>2, <1>3, <1>9, <2>1 DEF Past
  <2>2. CASE \E r \in Services : View(r) \in Past
    BY <1>2, <1>3, <1>9, <2>2
  <2> QED
    BY <1>14, <2>1, <2>2
<1>16. AllRunning(bs) => ~healthyClosed /\ to # "Failed"
  BY <1>3, <1>9, <1>12, <1>15
<1>17. Services # {}
  BY ServicesAssumption
<1>18. CASE AllRunning(bs)
  <2> DEFINE es == Notices(s, to, <<Healthy>>)
  <2>1. /\ mstate' = "healthy" /\ healthyClosed' = TRUE /\ closed' = closed \cup {"healthy"}
        /\ panicked' = (\/ {"healthy"} \cap closed # {}
                        \/ es # << >> /\ \E l \in Listeners : chanState[l] \in {"closed", "exited"})
        /\ NotifyListeners(es, FALSE)
    BY <1>7, <1>18 DEF BecomeHealthy, Close
  <2>2. /\ es \in Seq(Events) /\ OrderedEvents(es) /\ Len(es) = 1
        /\ \A i \in 1..Len(es) : es[i] = Healthy
    <3>1. Len(<<Healthy>>) = 1 /\ Healthy \in {Healthy, Stopped} /\ to # "Failed"
      BY <1>16, <1>18
    <3>2. /\ es \in Seq(Events) /\ OrderedEvents(es)
          /\ Len(es) = (IF to = "Failed" THEN 1 ELSE 0) + Len(<<Healthy>>)
          /\ \A i \in 1..Len(es) : \/ es[i] = Failure(s) /\ to = "Failed"
                                   \/ es[i] = Healthy /\ <<Healthy>> = <<Healthy>>
      BY <3>1, NoticesFacts
    <3> HIDE DEF es
    <3> QED
      BY <3>1, <3>2
  <2>3. panicked' = FALSE
    BY <1>14, <1>16, <1>18, <2>1
  <2> HIDE DEF es
  <2>4. \A r \in Services : w[r] = "Running"
    BY <1>12, <1>18
  <2>5. ~\A r \in Services : w[r] \in Terminal
    BY <1>3, <1>17, <2>4
  <2>6. HealthyChMeaning'
    BY <1>8, <2>1, <2>4 DEF HealthyChMeaning
  <2>7. NotifyListeners(es, mstate' = "stopped")
    <3>1. (mstate' = "stopped") = FALSE
      BY <2>1
    <3> QED
      BY <2>1, <3>1
  <2>8. closed' \in SUBSET {"healthy", "stopped"} /\ "stopped" \notin closed'
    BY <1>1, <1>14, <2>1
  <2>9. mstate' = "stopped" <=> \A r \in Services : View(r)' \in Terminal
    BY <1>8, <2>1, <2>5
  <2>10. mstate' = "healthy" <=> \A r \in Services : View(r)' = "Running"
    BY <1>8, <2>1, <2>4
  <2>11. Effect(s, to, es)
    BY <1>2, <1>5, <1>6, <1>10, <1>13, <1>14, <1>16, <1>18, <2>1, <2>2, <2>3, <2>6, <2>7, <2>8, <2>9, <2>10
       DEF Effect
  <2> QED
    BY <2>11 DEF to
<1>19. CASE ~AllRunning(bs) /\ AllDone(bs)
  <2> DEFINE es == Notices(s, to, <<Stopped>>)
  <2>1. /\ mstate' = "stopped" /\ healthyClosed' = TRUE /\ closed' = closed \cup ({"stopped"} \cup GiveUpHealthy)
        /\ panicked' = (\/ ({"stopped"} \cup GiveUpHealthy) \cap closed # {}
                        \/ es # << >> /\ \E l \in Listeners : chanState[l] \in {"closed", "exited"})
        /\ NotifyListeners(es, TRUE)
    BY <1>7, <1>19 DEF BecomeStopped, Close
  <2>2. /\ es \in Seq(Events) /\ OrderedEvents(es) /\ Len(es) = (IF to = "Failed" THEN 1 ELSE 0) + 1
        /\ \A i \in 1..Len(es) : (es[i] = Failure(s) /\ to = "Failed") \/ es[i] = Stopped
    <3>1. Len(<<Stopped>>) = 1 /\ <<Stopped>>[1] = Stopped /\ <<Healthy>>[1] = Healthy
      OBVIOUS
    <3>2. <<Stopped>> # <<Healthy>>
      BY <3>1, EventsDiffer
    <3> QED
      BY <3>1, <3>2, NoticesFacts
  <2>3. panicked' = FALSE
    BY <1>14, <2>1 DEF GiveUpHealthy
  <2> HIDE DEF es
  <2>4. \A r \in Services : w[r] \in Terminal
    BY <1>12, <1>19
  <2>5. (~\A r \in Services : w[r] = "Running") /\ (\E r \in Services : w[r] \in Past)
    BY <1>3, <1>17, <2>4
  <2>6. HealthyChMeaning'
    BY <1>8, <1>14, <2>1, <2>5 DEF HealthyChMeaning, GiveUpHealthy, Past
  <2>7. NotifyListeners(es, mstate' = "stopped")
    <3>1. (mstate' = "stopped") = TRUE
      BY <2>1
    <3> QED
      BY <2>1, <3>1
  <2>8. closed' \in SUBSET {"healthy", "stopped"} /\ "stopped" \in closed'
    BY <1>1, <2>1 DEF GiveUpHealthy
  <2>9. mstate' = "stopped" <=> \A r \in Services : View(r)' \in Terminal
    BY <1>8, <2>1, <2>4
  <2>10. mstate' = "healthy" <=> \A r \in Services : View(r)' = "Running"
    BY <1>8, <2>1, <2>5
  <2>11. Effect(s, to, es)
    BY <1>2, <1>5, <1>6, <1>10, <1>13, <1>14, <2>1, <2>2, <2>3, <2>6, <2>7, <2>8, <2>9, <2>10 DEF Effect
  <2> QED
    BY <2>11 DEF to
<1>20. CASE ~AllRunning(bs) /\ ~AllDone(bs)
  <2> DEFINE es == Notices(s, to, << >>)
             chs == IF SomeStopped(bs) THEN GiveUpHealthy ELSE {}
  <2>1. /\ mstate' = "unknown" /\ healthyClosed' = (healthyClosed \/ SomeStopped(bs)) /\ closed' = closed \cup chs
        /\ panicked' = (\/ chs \cap closed # {}
                        \/ es # << >> /\ \E l \in Listeners : chanState[l] \in {"closed", "exited"})
        /\ NotifyListeners(es, FALSE)
    BY <1>7, <1>20 DEF BecomeUnknown, Close
  <2>2. /\ es \in Seq(Events) /\ OrderedEvents(es) /\ Len(es) = (IF to = "Failed" THEN 1 ELSE 0) + 0
        /\ \A i \in 1..Len(es) : es[i] = Failure(s) /\ to = "Failed"
    <3>1. Len(<< >>) = 0 /\ Len(<<Stopped>>) = 1 /\ Len(<<Healthy>>) = 1
      OBVIOUS
    <3>2. << >> # <<Healthy>> /\ << >> # <<Stopped>>
      BY <3>1
    <3> QED
      BY <3>1, <3>2, NoticesFacts
  <2>3. panicked' = FALSE
    BY <1>14, <2>1 DEF GiveUpHealthy
  <2>4. chs \in SUBSET {"healthy"} /\ (~healthyClosed => (chs = {"healthy"} <=> SomeStopped(bs)))
    BY DEF GiveUpHealthy
  <2> HIDE DEF es, chs
  <2>5. (~\A r \in Services : w[r] = "Running") /\ (~\A r \in Services : w[r] \in Terminal)
    BY <1>12, <1>20
  <2>6. HealthyChMeaning'
    <3>1. healthyClosed' <=> \E r \in Services : w[r] \in Past
      BY <1>12, <1>15, <2>1
    <3>2. "healthy" \in closed' <=> healthyClosed'
      BY <1>14, <2>1, <2>4
    <3> QED
      BY <1>8, <2>5, <3>1, <3>2 DEF HealthyChMeaning, Past
  <2>7. NotifyListeners(es, mstate' = "stopped")
    <3>1. (mstate' = "stopped") = FALSE
      BY <2>1
    <3> QED
      BY <2>1, <3>1
  <2>8. closed' \in SUBSET {"healthy", "stopped"} /\ "stopped" \notin closed'
    BY <1>1, <1>14, <2>1, <2>4
  <2>9. mstate' = "stopped" <=> \A r \in Services : View(r)' \in Terminal
    BY <1>8, <2>1, <2>5
  <2>10. mstate' = "healthy" <=> \A r \in Services : View(r)' = "Running"
    BY <1>8, <2>1, <2>5
  <2>11. healthyClosed' \in BOOLEAN /\ (healthyClosed => healthyClosed')
    BY <2>1
  <2>12. Effect(s, to, es)
    BY <1>2, <1>5, <1>6, <1>10, <1>13, <1>14, <2>1, <2>2, <2>3, <2>6, <2>7, <2>8, <2>9, <2>10, <2>11 DEF Effect
  <2> QED
    BY <2>12 DEF to
<1> QED
  BY <1>18, <1>19, <1>20


(***************************************************************************)
(* The manager handles an event.                                           *)
(***************************************************************************)
LEMMA HandleEventIInv ==
  ASSUME IInv, NEW s \in Services, HandleEvent(s)
  PROVE  IInv'
<1> DEFINE to == Head(queue[s])[2]
<1>1. PICK es : Effect(s, to, es)
  BY HandleEventEffect
<1>2. /\ Types /\ Chain /\ queue[s] # << >>
      /\ svc' = svc /\ stopping' = stopping /\ toStart' = toStart /\ toStop' = toStop /\ waiter' = waiter
      /\ queue' = [queue EXCEPT ![s] = Tail(@)]
  BY DEF IInv, HandleEvent, callVars
<1>3. /\ \A l \in Listeners : HasRoom(l, Len(es))
      /\ chanBuf' = [l \in Listeners |-> IF chanState[l] = "open" THEN chanBuf[l] \o es ELSE chanBuf[l]]
      /\ chanState' = [l \in Listeners |-> IF mstate' = "stopped" /\ chanState[l] = "open"
                                           THEN "closed" ELSE chanState[l]]
      /\ emitted' = emitted \o es
      /\ received' = received
  BY <1>1 DEF Effect, NotifyListeners
<1> HIDE DEF to
<1>4. /\ es \in Seq(Events) /\ emitted \in Seq(Events) /\ chanBuf \in [Listeners -> Seq(Events)]
      /\ chanState \in [Listeners -> {"none", "open", "closed", "exited"}]
      /\ Len(es) \in Nat /\ Len(emitted) \in Nat /\ \A l \in Listeners : Len(chanBuf[l]) \in Nat
  BY <1>1, <1>2 DEF Effect, Types
<1>5. View(s) \notin Terminal /\ View(s) # "Failed" /\ (View(s) \in Past => to \in Past)
  BY <1>1, <1>2, ViewFacts DEF Effect, Past, Terminal, Contract!Terminal, Contract!Transitions
<1>6. Chain' /\ queue' \in [Services -> Seq(Contract!Transitions)]
  <2>1. /\ queue \in [Services -> Seq(Contract!Transitions)]
        /\ \A r \in Services : Chained(queue[r], svc[r])
    BY <1>2 DEF Types, Chain
  <2>2. Tail(queue[s]) \in Seq(Contract!Transitions) /\ Chained(Tail(queue[s]), svc[s])
    BY <1>2, <2>1, TailChained
  <2>3. /\ queue'[s] = Tail(queue[s]) /\ \A r \in Services \ {s} : queue'[r] = queue[r]
        /\ queue' \in [Services -> Seq(Contract!Transitions)]
    BY <1>2, <2>1, <2>2
  <2> QED
    BY <1>2, <2>1, <2>2, <2>3 DEF Chain
<1>7. /\ emitted \o es \in Seq(Events) /\ Len(emitted \o es) = Len(emitted) + Len(es)
      /\ \A i \in 1..Len(emitted \o es) :
           \/ i \in 1..Len(emitted) /\ (emitted \o es)[i] = emitted[i]
           \/ i - Len(emitted) \in 1..Len(es) /\ (emitted \o es)[i] = es[i - Len(emitted)]
  BY <1>4, EventsAppended
<1>8. ASSUME NEW l \in Listeners
      PROVE  /\ chanBuf[l] \o es \in Seq(Events) /\ Len(chanBuf[l] \o es) = Len(chanBuf[l]) + Len(es)
             /\ \A i \in 1..Len(chanBuf[l] \o es) :
                  \/ i \in 1..Len(chanBuf[l]) /\ (chanBuf[l] \o es)[i] = chanBuf[l][i]
                  \/ i - Len(chanBuf[l]) \in 1..Len(es)
                     /\ (chanBuf[l] \o es)[i] = es[i - Len(chanBuf[l])]
  BY <1>4, EventsAppended
<1>9. chanBuf' \in [Listeners -> Seq(Events)]
  BY <1>3, <1>4, <1>8
<1>10. chanState' \in [Listeners -> {"none", "open", "closed", "exited"}]
  BY <1>3, <1>4
<1>11. Types'
  BY <1>1, <1>2, <1>3, <1>6, <1>7, <1>9, <1>10 DEF Types, Effect
<1>12. ManagerFollows'
  <2>1. ASSUME NEW l \in Listeners, chanState'[l] \in {"closed", "exited"}
        PROVE  mstate' = "stopped"
    BY <1>1, <1>3, <1>4, <2>1 DEF IInv, ManagerFollows, Effect
  <2>2. ASSUME NEW w \in Waiters, waiter'[w].res = "notHealthy"
        PROVE  \E r \in Services : View(r)' \in Past
    <3>1. PICK r \in Services : View(r) \in Past
      BY <1>2, <2>2 DEF IInv, ManagerFollows
    <3>2. CASE r = s
      BY <1>1, <1>5, <3>1, <3>2 DEF Effect
    <3>3. CASE r # s
      BY <1>1, <3>1, <3>3 DEF Effect
    <3> QED
      BY <3>2, <3>3
  <2> QED
    BY <1>1, <2>1, <2>2 DEF ManagerFollows, Effect
<1>13. \A e \in Events : Holds(e, FailedServices, healthyClosed, mstate) => Holds(e, FailedServices', healthyClosed', mstate')
  BY <1>1, <1>5 DEF Holds, FailedServices, Effect
<1>14. \A i \in 1..Len(es) : Holds(es[i], FailedServices', healthyClosed', mstate')
  <2>1. SUFFICES ASSUME NEW i \in 1..Len(es)
                 PROVE  Holds(es[i], FailedServices', healthyClosed', mstate')
    OBVIOUS
  <2>2. CASE es[i] = Failure(s) /\ to = "Failed"
    BY <1>1, <2>2, EventsDiffer DEF Holds, FailedServices, Effect
  <2>3. CASE es[i] = Healthy /\ mstate' = "healthy"
    BY <1>1, <2>3, EventsDiffer DEF Holds, FailedServices, Effect
  <2>4. CASE es[i] = Stopped /\ mstate' = "stopped"
    BY <1>1, <2>4, EventsDiffer DEF Holds, FailedServices, Effect
  <2> QED
    BY <1>1, <2>2, <2>3, <2>4 DEF Effect
<1>15. EventsHold'
  <2>1. /\ \A i \in 1..Len(emitted) : emitted[i] \in Events /\ Holds(emitted[i], FailedServices, healthyClosed, mstate)
        /\ \A l \in Listeners : \A i \in 1..Len(chanBuf[l]) :
             chanBuf[l][i] \in Events /\ Holds(chanBuf[l][i], FailedServices, healthyClosed, mstate)
    BY <1>4 DEF IInv, EventsHold
  <2>2. ASSUME NEW i \in 1..Len(emitted')
        PROVE  Holds(emitted'[i], FailedServices', healthyClosed', mstate')
    BY <1>3, <1>7, <1>13, <1>14, <2>1
  <2>3. ASSUME NEW l \in Listeners, NEW i \in 1..Len(chanBuf'[l])
        PROVE  Holds(chanBuf'[l][i], FailedServices', healthyClosed', mstate')
    <3>1. CASE chanState[l] = "open"
      <4>1. chanBuf'[l] = chanBuf[l] \o es
        BY <1>3, <3>1
      <4>2. \/ i \in 1..Len(chanBuf[l]) /\ chanBuf'[l][i] = chanBuf[l][i]
            \/ i - Len(chanBuf[l]) \in 1..Len(es) /\ chanBuf'[l][i] = es[i - Len(chanBuf[l])]
        BY <1>8, <4>1
      <4> QED
        BY <1>13, <1>14, <2>1, <4>2
    <3>2. CASE chanState[l] # "open"
      <4>1. chanBuf'[l] = chanBuf[l]
        BY <1>3, <3>2
      <4> QED
        BY <1>13, <2>1, <4>1
    <3> QED
      BY <3>1, <3>2
  <2> QED
    BY <2>2, <2>3 DEF EventsHold
<1>16. EventsAreFew'
  <2> DEFINE F == byState["Failed"]
  <2>1. F \in SUBSET Services /\ IsFiniteSet(F) /\ Cardinality(F) \in Nat
    <3>1. F \in SUBSET Services
      BY <1>2 DEF Types, States, Contract!States
    <3> QED
      BY <3>1, ServicesAssumption, FS_Subset, FS_CardinalityType
  <2>2. s \notin F
    BY <1>5 DEF IInv, ByStateIsView, States, Contract!States
  <2>3. Cardinality(F \cup {s}) = Cardinality(F) + 1
    BY <2>1, <2>2, FS_AddElement
  <2> HIDE DEF F
  <2>4. Cardinality(byState'["Failed"]) = Cardinality(F) + IF to = "Failed" THEN 1 ELSE 0
    BY <1>1, <2>1, <2>3 DEF Effect, F
  <2>5. Len(emitted) <= Cardinality(F) + (IF healthyClosed THEN 1 ELSE 0)
    BY <1>1, <2>1 DEF IInv, EventsAreFew, Effect, F
  <2>6. /\ Len(es) = (IF to = "Failed" THEN 1 ELSE 0) + (IF mstate' = "unknown" THEN 0 ELSE 1)
        /\ mstate' \in {"unknown", "healthy", "stopped"}
        /\ healthyClosed => healthyClosed'
        /\ mstate' = "healthy" => ~healthyClosed /\ healthyClosed'
    BY <1>1 DEF Effect
  <2>7. Len(emitted') <= Cardinality(byState'["Failed"]) + (IF healthyClosed' THEN 1 ELSE 0)
                                                         + (IF mstate' = "stopped" THEN 1 ELSE 0)
    BY <1>3, <1>4, <1>7, <2>1, <2>4, <2>5, <2>6
  <2>8. ASSUME NEW l \in Listeners
        PROVE  Len(chanBuf'[l]) <= Len(emitted')
    <3>1. Len(chanBuf[l]) <= Len(emitted)
      BY DEF IInv, EventsAreFew
    <3> QED
      BY <1>3, <1>4, <1>7, <1>8, <3>1
  <2> QED
    BY <2>7, <2>8 DEF EventsAreFew
<1>17. EventOrder'
  <2>1. OrderedEvents(emitted) /\ OrderedEvents(es)
    BY <1>1 DEF IInv, EventOrder, OrderedEvents, Effect
  <2>2. ASSUME NEW i \in 1..Len(emitted), NEW j \in 1..Len(es)
        PROVE  emitted[i] # Stopped /\ emitted[i] # es[j] /\ (es[j] = Healthy => emitted[i] = Healthy)
    <3>1. emitted[i] \in Events /\ Holds(emitted[i], FailedServices, healthyClosed, mstate)
      BY <1>4 DEF IInv, EventsHold
    <3>2. emitted[i] # Stopped /\ emitted[i] # Failure(s)
      BY <1>1, <1>5, <3>1 DEF Holds, FailedServices, Effect
    <3>3. CASE es[j] = Failure(s) \/ es[j] = Stopped
      BY <3>2, <3>3, EventsDiffer
    <3>4. CASE es[j] = Healthy /\ mstate' = "healthy"
      <4>1. emitted[i] # Healthy
        BY <1>1, <3>1, <3>4 DEF Holds, FailedServices, Effect
      <4>2. PICK r \in Services : emitted[i] = Failure(r)
        BY <3>1, <3>2, <4>1 DEF Events
      <4>3. View(r) = "Failed" /\ r # s /\ View(r)' = "Running"
        BY <1>1, <1>5, <3>1, <3>4, <4>2 DEF Holds, FailedServices, Effect
      <4> QED
        BY <1>1, <4>3 DEF Effect
    <3> QED
      BY <1>1, <3>3, <3>4 DEF Effect
  <2>3. OrderedEvents(emitted \o es)
    BY <1>4, <2>1, <2>2, EventsAppended
  <2> QED
    BY <1>3, <2>3 DEF EventOrder, OrderedEvents
<1>18. WatchersSendErrors'
  BY <1>3 DEF IInv, WatchersSendErrors
<1> QED
  BY <1>1, <1>6, <1>11, <1>12, <1>15, <1>16, <1>17, <1>18 DEF IInv, Effect


-----------------------------------------------------------------------------
(***************************************************************************)
(* The steps of the listeners: one is added, handles an event, or ends.    *)
(***************************************************************************)
LEMMA ListenerStepsIInv ==
  ASSUME IInv, NEW l \in Listeners, AddListener(l) \/ ListenerRuns(l) \/ ListenerExits(l)
  PROVE  IInv'
<1>1. /\ UNCHANGED <<svc, stopping, queue, toStart, toStop, waiter>>
      /\ UNCHANGED <<mstate, byState, closed, healthyClosed, panicked, emitted>>
  BY DEF AddListener, ListenerRuns, ListenerExits, svcVars, callVars, mgrVars
<1>2. /\ chanState \in [Listeners -> {"none", "open", "closed", "exited"}]
      /\ chanBuf \in [Listeners -> Seq(Events)] /\ received \in [Watchers -> Seq(Services \X States)]
      /\ svc \in [Services -> States]
  BY DEF IInv, Types
<1>3. \A s \in Services : View(s)' = View(s)
  BY <1>1 DEF View
<1>4. FailedServices' = FailedServices
  BY <1>3 DEF FailedServices
<1>5. ByStateIsView' /\ HealthyChMeaning' /\ Chain' /\ EventOrder' /\ ~panicked'
  BY <1>1, <1>3 DEF IInv, ByStateIsView, HealthyChMeaning, Chain, EventOrder
<1>6. CASE AddListener(l) \/ ListenerExits(l)
  <2>1. UNCHANGED <<chanBuf, received>>
    BY <1>6 DEF AddListener, ListenerExits
  <2>2. /\ chanState' \in [Listeners -> {"none", "open", "closed", "exited"}]
        /\ \A k \in Listeners : chanState'[k] \in {"closed", "exited"} => chanState[k] \in {"closed", "exited"}
    BY <1>2, <1>6 DEF AddListener, ListenerExits
  <2>3. Types'
    BY <1>1, <2>1, <2>2 DEF IInv, Types
  <2>4. ManagerFollows'
    BY <1>1, <1>3, <2>2 DEF IInv, ManagerFollows
  <2>5. EventsHold' /\ EventsAreFew' /\ WatchersSendErrors'
    BY <1>1, <1>4, <2>1 DEF IInv, EventsHold, EventsAreFew, WatchersSendErrors
  <2> QED
    BY <1>5, <2>3, <2>4, <2>5 DEF IInv
<1>7. CASE ListenerRuns(l)
  <2> DEFINE e == Head(chanBuf[l])
  <2>1. /\ chanState' = chanState /\ chanBuf[l] # << >>
        /\ chanBuf' = [chanBuf EXCEPT ![l] = Tail(@)]
        /\ IF l \in Watchers /\ e[1] = "failure"
           THEN received' = [received EXCEPT ![l] = Append(@, <<e[2], svc[e[2]]>>)]
           ELSE received' = received
    BY <1>7 DEF ListenerRuns
  <2>2. /\ e = chanBuf[l][1] /\ 1 \in 1..Len(chanBuf[l]) /\ e \in Events
        /\ Tail(chanBuf[l]) \in Seq(Events) /\ Len(Tail(chanBuf[l])) = Len(chanBuf[l]) - 1
        /\ Len(chanBuf[l]) \in Nat
        /\ \A i \in 1..Len(Tail(chanBuf[l])) :
             i + 1 \in 1..Len(chanBuf[l]) /\ Tail(chanBuf[l])[i] = chanBuf[l][i + 1]
    BY <1>2, <2>1
  <2>3. Holds(e, FailedServices, healthyClosed, mstate)
    BY <2>2 DEF IInv, EventsHold
  <2> HIDE DEF e
  <2>4. /\ chanBuf' \in [Listeners -> Seq(Events)] /\ chanBuf'[l] = Tail(chanBuf[l])
        /\ \A k \in Listeners \ {l} : chanBuf'[k] = chanBuf[k]
    BY <1>2, <2>1, <2>2
  <2>5. ASSUME e[1] = "failure"
        PROVE  e[2] \in Services /\ svc[e[2]] = "Failed"
    <3>1. PICK s \in Services : e = Failure(s)
      <4>1. Healthy[1] = "healthy" /\ Stopped[1] = "stopped"
        BY DEF Healthy, Stopped
      <4> QED
        BY <2>2, <2>5, <4>1 DEF Events
    <3>2. e[2] = s /\ View(s) = "Failed"
      BY <2>3, <3>1, EventsDiffer DEF Holds, FailedServices
    <3> QED
      BY <3>2, ViewFacts DEF IInv, Terminal, Contract!Terminal
  <2>6. /\ received' \in [Watchers -> Seq(Services \X States)]
        /\ WatchersSendErrors'
    <3>1. CASE l \in Watchers /\ e[1] = "failure"
      <4> DEFINE x == <<e[2], svc[e[2]]>>
      <4>1. x \in Services \X States /\ x[2] = "Failed"
        BY <1>2, <2>5, <3>1
      <4>2. received' = [received EXCEPT ![l] = Append(@, x)]
        BY <2>1, <3>1
      <4> HIDE DEF x
      <4>3. received[l] \in Seq(Services \X States)
        BY <1>2, <3>1
      <4>4. /\ Append(received[l], x) \in Seq(Services \X States)
            /\ \A i \in 1..Len(Append(received[l], x)) :
                 \/ i \in 1..Len(received[l]) /\ Append(received[l], x)[i] = received[l][i]
                 \/ Append(received[l], x)[i] = x
        BY <4>1, <4>3
      <4>5. /\ received' \in [Watchers -> Seq(Services \X States)]
            /\ received'[l] = Append(received[l], x)
            /\ \A k \in Watchers \ {l} : received'[k] = received[k]
        BY <1>2, <3>1, <4>2, <4>4
      <4>6. ASSUME NEW k \in Watchers, NEW i \in 1..Len(received'[k])
            PROVE  received'[k][i][2] = "Failed"
        <5>1. CASE k = l
          <6>1. \A j \in 1..Len(received[l]) : received[l][j][2] = "Failed"
            BY <3>1 DEF IInv, WatchersSendErrors
          <6> QED
            BY <4>1, <4>4, <4>5, <5>1, <6>1
        <5>2. CASE k # l
          BY <4>5, <5>2 DEF IInv, WatchersSendErrors
        <5> QED
          BY <5>1, <5>2
      <4> QED
        BY <4>5, <4>6 DEF WatchersSendErrors
    <3>2. CASE ~(l \in Watchers /\ e[1] = "failure")
      BY <1>2, <2>1, <3>2 DEF IInv, WatchersSendErrors
    <3> QED
      BY <3>1, <3>2
  <2>7. Types'
    BY <1>1, <2>1, <2>4, <2>6 DEF IInv, Types
  <2>8. ManagerFollows'
    BY <1>1, <1>3, <2>1 DEF IInv, ManagerFollows
  <2>9. EventsHold'
    <3>1. ASSUME NEW k \in Listeners, NEW i \in 1..Len(chanBuf'[k])
          PROVE  Holds(chanBuf'[k][i], FailedServices, healthyClosed, mstate)
      <4>1. CASE k = l
        BY <2>2, <2>4, <4>1 DEF IInv, EventsHold
      <4>2. CASE k # l
        BY <2>4, <4>2 DEF IInv, EventsHold
      <4> QED
        BY <4>1, <4>2
    <3> QED
      BY <1>1, <1>4, <3>1 DEF IInv, EventsHold
  <2>10. EventsAreFew'
    <3>1. Len(emitted) \in Nat
      BY DEF IInv, Types
    <3>2. \A k \in Listeners : Len(chanBuf'[k]) <= Len(emitted)
      BY <2>2, <2>4, <3>1 DEF IInv, EventsAreFew
    <3> QED
      BY <1>1, <3>2 DEF IInv, EventsAreFew
  <2> QED
    BY <1>5, <2>6, <2>7, <2>8, <2>9, <2>10 DEF IInv
<1> QED
  BY <1>6, <1>7

(***************************************************************************)
(* The steps of those who wait.                                            *)
(***************************************************************************)
LEMMA WaiterStepsIInv ==
  ASSUME IInv, NEW w \in Waiters,
         \/ \E ch \in {"healthy", "stopped"} : Await(w, ch)
         \/ AwaitCtxDone(w) \/ AwaitReleased(w)
  PROVE  IInv'
<1>1. /\ UNCHANGED <<svc, stopping, queue, toStart, toStop, chanState, chanBuf, received>>
      /\ UNCHANGED <<mstate, byState, closed, healthyClosed, panicked, emitted>>
  BY DEF Await, AwaitCtxDone, AwaitReleased, svcVars, callVars, mgrVars, lisVars
<1>2. waiter \in [Waiters -> Waiter] /\ waiter[w] \in Waiter
  BY DEF IInv, Types
<1>3. \A s \in Services : View(s)' = View(s)
  BY <1>1 DEF View
<1>4. FailedServices' = FailedServices
  BY <1>3 DEF FailedServices
<1>5. /\ waiter' \in [Waiters -> Waiter]
      /\ \A x \in Waiters \ {w} : waiter'[x] = waiter[x]
      /\ waiter'[w].res = "notHealthy" =>
           \/ waiter[w].res = "notHealthy"
           \/ "healthy" \in closed /\ mstate # "healthy"
  <2>1. ASSUME NEW ch \in {"healthy", "stopped"}, Await(w, ch)
        PROVE  /\ waiter'[w] \in Waiter /\ waiter'[w].res = waiter[w].res
               /\ DOMAIN waiter' = Waiters /\ waiter' = [x \in Waiters |-> waiter'[x]]
               /\ \A x \in Waiters \ {w} : waiter'[x] = waiter[x]
    BY <1>2, <2>1 DEF Await, Waiter
  <2>2. ASSUME AwaitCtxDone(w)
        PROVE  /\ waiter'[w] \in Waiter /\ waiter'[w].res = "ctxDone"
               /\ DOMAIN waiter' = Waiters /\ waiter' = [x \in Waiters |-> waiter'[x]]
               /\ \A x \in Waiters \ {w} : waiter'[x] = waiter[x]
    BY <1>2, <2>2 DEF AwaitCtxDone, Waiter
  <2>3. ASSUME AwaitReleased(w)
        PROVE  /\ waiter'[w] \in Waiter
               /\ waiter'[w].res = "notHealthy" => "healthy" \in closed /\ mstate # "healthy"
               /\ DOMAIN waiter' = Waiters /\ waiter' = [x \in Waiters |-> waiter'[x]]
               /\ \A x \in Waiters \ {w} : waiter'[x] = waiter[x]
    BY <1>2, <2>3 DEF AwaitReleased, Waiter
  <2>4. /\ waiter'[w] \in Waiter /\ waiter' = [x \in Waiters |-> waiter'[x]]
        /\ \A x \in Waiters \ {w} : waiter'[x] = waiter[x]
    BY <2>1, <2>2, <2>3
  <2>5. waiter' \in [Waiters -> Waiter]
    BY <1>2, <2>4
  <2> QED
    BY <2>1, <2>2, <2>3, <2>4, <2>5
<1>6. ManagerFollows'
  <2>1. ASSUME NEW x \in Waiters, waiter'[x].res = "notHealthy"
        PROVE  \E s \in Services : View(s) \in Past
    <3>1. CASE waiter[x].res = "notHealthy"
      BY <3>1 DEF IInv, ManagerFollows
    <3>2. CASE "healthy" \in closed /\ mstate # "healthy"
      BY <3>2 DEF IInv, ManagerFollows, HealthyChMeaning, Past
    <3> QED
      BY <1>5, <2>1, <3>1, <3>2
  <2> QED
    BY <1>1, <1>3, <2>1 DEF IInv, ManagerFollows
<1>7. Types'
  BY <1>1, <1>5 DEF IInv, Types
<1>8. ByStateIsView' /\ HealthyChMeaning' /\ Chain' /\ EventOrder' /\ ~panicked'
  BY <1>1, <1>3 DEF IInv, ByStateIsView, HealthyChMeaning, Chain, EventOrder
<1>9. EventsHold' /\ EventsAreFew' /\ WatchersSendErrors'
  BY <1>1, <1>4 DEF IInv, EventsHold, EventsAreFew, WatchersSendErrors
<1> QED
  BY <1>6, <1>7, <1>8, <1>9 DEF IInv


-----------------------------------------------------------------------------
(***************************************************************************)
(* IInv holds at first, every step keeps it, and so it always holds.       *)
(***************************************************************************)
LEMMA InitIInv == Init => IInv
<1> SUFFICES ASSUME Init
             PROVE  IInv
  OBVIOUS
<1>1. /\ svc = [s \in Services |-> "New"] /\ queue = [s \in Services |-> << >>]
      /\ byState = [st \in States |-> IF st = "New" THEN Services ELSE {}]
      /\ chanBuf = [l \in Listeners |-> << >>] /\ received = [l \in Watchers |-> << >>]
      /\ waiter = [w \in Waiters |-> [pc |-> "idle", ch |-> "healthy", res |-> "none"]]
      /\ emitted = << >> /\ healthyClosed = FALSE /\ mstate = "unknown" /\ closed = {} /\ ~panicked
      /\ chanState = [l \in Listeners |-> "none"]
  BY DEF Init
<1>2. "New" \in States /\ "Failed" \in States /\ "New" \notin Past /\ "New" \notin Terminal
      /\ "Failed" # "New"
  BY DEF States, Contract!States, Past, Terminal, Contract!Terminal
<1>3. \A s \in Services : View(s) = "New"
  BY <1>1 DEF View
<1>4. [pc |-> "idle", ch |-> "healthy", res |-> "none"] \in Waiter
  BY DEF Waiter
<1>5. Types
  <2>1. /\ queue \in [Services -> Seq(Contract!Transitions)] /\ emitted \in Seq(Events)
        /\ chanBuf \in [Listeners -> Seq(Events)] /\ received \in [Watchers -> Seq(Services \X States)]
    BY <1>1
  <2>2. /\ svc \in [Services -> States] /\ byState \in [States -> SUBSET Services]
        /\ chanState \in [Listeners -> {"none", "open", "closed", "exited"}]
        /\ waiter \in [Waiters -> Waiter]
    BY <1>1, <1>2, <1>4
  <2>3. /\ stopping \in SUBSET Services /\ toStart \in SUBSET Services /\ toStop \in SUBSET Services
        /\ mstate \in {"unknown", "healthy", "stopped"} /\ closed \in SUBSET {"healthy", "stopped"}
        /\ healthyClosed \in BOOLEAN /\ panicked \in BOOLEAN
    BY DEF Init
  <2> QED
    BY <2>1, <2>2, <2>3 DEF Types
<1>6. Chain
  BY <1>1 DEF Chain, Chained
<1>7. ByStateIsView
  BY <1>1, <1>2, <1>3 DEF ByStateIsView
<1>8. HealthyChMeaning
  BY <1>1, <1>2, <1>3, ServicesAssumption DEF HealthyChMeaning, Past
<1>9. ManagerFollows
  BY <1>1, <1>2, <1>3, ServicesAssumption DEF ManagerFollows
<1>10. EventsHold /\ EventOrder /\ WatchersSendErrors
  BY <1>1 DEF EventsHold, EventOrder, WatchersSendErrors
<1>11. EventsAreFew
  <2>1. byState["Failed"] = {} /\ Cardinality({}) = 0
    BY <1>1, <1>2, FS_EmptySet
  <2>2. Len(emitted) = 0 /\ \A l \in Listeners : Len(chanBuf[l]) = 0
    BY <1>1
  <2>3. healthyClosed = FALSE /\ mstate = "unknown"
    BY <1>1
  <2> QED
    BY <2>1, <2>2, <2>3 DEF EventsAreFew
<1> QED
  BY <1>1, <1>5, <1>6, <1>7, <1>8, <1>9, <1>10, <1>11 DEF IInv

\* Every step keeps the invariant.
LEMMA NextIInv == IInv /\ [Next]_vars => IInv'
<1> SUFFICES ASSUME IInv, [Next]_vars
             PROVE  IInv'
  OBVIOUS
<1>1. CASE UNCHANGED vars
  <2>1. /\ UNCHANGED <<svc, queue, mgrVars, lisVars, waiter>>
        /\ UNCHANGED <<stopping, toStart, toStop>>
    BY <1>1 DEF vars, svcVars, callVars
  <2>2. stopping' \in SUBSET Services /\ toStart' \in SUBSET Services /\ toStop' \in SUBSET Services
    BY <2>1 DEF IInv, Types
  <2> QED
    BY <2>1, <2>2, ServicesKeptIInv
<1>2. CASE Next
  BY <1>2, ServiceStepsIInv, HandleEventIInv, ListenerStepsIInv, WaiterStepsIInv DEF Next
<1> QED
  BY <1>1, <1>2

\* So it holds throughout.
LEMMA IInvHolds == Spec => []IInv
BY InitIInv, NextIInv, PTL DEF Spec

(***************************************************************************)
(* serviceStateChanged closes each channel of the manager at most once and *)
(* sends nothing to a closed one, in whatever order the events of the      *)
(* services arrive.                                                        *)
(***************************************************************************)
THEOREM NoPanic == Spec => []NeverPanics
<1>1. IInv => NeverPanics
  BY DEF IInv, NeverPanics
<1> QED
  BY <1>1, IInvHolds, PTL

(***************************************************************************)
(* The room that is left in the channels of the listeners.                 *)
(***************************************************************************)
LEMMA RoomLeft ==
  ASSUME IInv, NEW l \in Listeners
  PROVE  /\ Len(chanBuf[l]) <= ListenerBuf
         /\ \A s \in Services : queue[s] # << >> => Len(chanBuf[l]) + 2 <= ListenerBuf
<1> DEFINE v == [s \in Services |-> View(s)]
           F == Cardinality(byState["Failed"])
           N == Cardinality(Services)
<1>1. Types /\ Chain
  BY DEF IInv
<1>2. v \in [Services -> States] /\ \A s \in Services : v[s] = View(s)
  BY <1>1, ViewFacts
<1>3. /\ byState \in [States -> SUBSET Services]
      /\ \A s \in Services, st \in States : s \in byState[st] <=> View(s) = st
  BY <1>1 DEF IInv, Types, ByStateIsView
<1> HIDE DEF v
<1>4. F \in Nat /\ F <= N /\ \A s \in Services : v[s] # "Failed" => F < N
  BY <1>2, <1>3, Counts
<1>5. N \in Nat
  BY ServicesAssumption, FS_CardinalityType
<1>6. /\ Len(chanBuf[l]) \in Nat /\ Len(emitted) \in Nat
      /\ Len(chanBuf[l]) <= Len(emitted)
      /\ Len(emitted) <= F + (IF healthyClosed THEN 1 ELSE 0) + (IF mstate = "stopped" THEN 1 ELSE 0)
  BY <1>1 DEF IInv, EventsAreFew, Types
<1>7. ListenerBuf = N + 2
  BY DEF ListenerBuf
<1> HIDE DEF F, N
<1>8. ASSUME NEW s \in Services, queue[s] # << >>
      PROVE  Len(chanBuf[l]) + 2 <= N + 2
  <2>1. View(s) \notin Terminal /\ View(s) # "Failed"
    BY <1>1, <1>8, ViewFacts DEF Terminal, Contract!Terminal
  <2>2. F < N
    BY <1>2, <1>4, <2>1
  <2>3. mstate # "stopped"
    BY <2>1 DEF IInv, ManagerFollows
  <2> QED
    BY <1>4, <1>5, <1>6, <2>2, <2>3
<1>9. Len(chanBuf[l]) <= N + 2
  BY <1>4, <1>5, <1>6
<1> QED
  BY <1>7, <1>8, <1>9

(***************************************************************************)
(* What the manager knows and answers is right although it trails its      *)
(* services: stoppedCh means that all have ended by now, healthyCh what    *)
(* its comment says, and the error of AwaitHealthy is final.               *)
(***************************************************************************)
THEOREM AnswersAreRight == Spec => []AnswersHold
<1>1. IInv => TypeOK
  BY RoomLeft DEF IInv, Types, TypeOK
<1>2. IInv => StoppedIsReal
  <2>1. SUFFICES ASSUME IInv, mstate = "stopped" \/ "stopped" \in closed
                 PROVE  /\ mstate = "stopped" /\ "stopped" \in closed
                        /\ \A s \in Services : svc[s] \in Terminal /\ queue[s] = << >>
    BY DEF StoppedIsReal
  <2>2. /\ mstate = "stopped" /\ "stopped" \in closed
        /\ \A s \in Services : View(s) \in Terminal
    BY <2>1 DEF IInv, ManagerFollows
  <2>3. \A s \in Services : queue[s] = << >> /\ View(s) = svc[s]
    BY <2>1, <2>2, ViewFacts DEF IInv
  <2> QED
    BY <2>2, <2>3
<1>3. IInv => NotHealthyIsFinal
  <2>1. "Running" \notin Past
    BY DEF Past, Terminal, Contract!Terminal
  <2> QED
    BY <2>1 DEF IInv, ManagerFollows, NotHealthyIsFinal
<1>4. IInv => AnswersHold
  BY <1>1, <1>2, <1>3 DEF IInv, AnswersHold
<1> QED
  BY <1>4, IInvHolds, PTL

(***************************************************************************)
(* A channel with room for a failure of every service, Healthy and Stopped *)
(* never fills up, so notifyListeners never blocks with m.mu held; events  *)
(* are in order; and a failure watcher always finds a failure case.        *)
(***************************************************************************)
THEOREM ListenersServed == Spec => []ListenersAreServed
<1>1. ASSUME IInv, NEW l \in Listeners, NEW s \in Services, queue[s] # << >>
      PROVE  HasRoom(l, IF Head(queue[s])[2] = "Failed" THEN 2 ELSE 1)
  <2>1. Len(chanBuf[l]) + 2 <= ListenerBuf
    BY <1>1, RoomLeft
  <2>2. Len(chanBuf[l]) \in Nat
    BY <1>1 DEF IInv, Types
  <2>3. ListenerBuf \in Nat
    BY ServicesAssumption, FS_CardinalityType DEF ListenerBuf
  <2>4. Len(chanBuf[l]) + 1 <= ListenerBuf
    BY <2>1, <2>2, <2>3
  <2> QED
    BY <2>1, <2>4 DEF HasRoom
<1>2. IInv => ListenersAreServed
  BY <1>1 DEF ListenersAreServed, ListenersNeverBlock, IInv
<1> QED
  BY <1>2, IInvHolds, PTL
=============================================================================
