------------------------ MODULE ModuleServicesProofs ------------------------
(***************************************************************************)
(* Proofs about ModuleServices, for any application: any modules, any      *)
(* dependencies without a cycle, any targets.                              *)
(***************************************************************************)
EXTENDS ModuleServices, FiniteSetTheorems, TLAPS

States == {"New", "Starting", "Running", "Stopping", "Terminated", "Failed"}

PCs == {"none", "deps", "await", "run", "stop", "dependants", "stopping"}

Wrappers == [state : States, pc : PCs, waiting : SUBSET Modules, cancelled : BOOLEAN]

Types ==
  /\ conf \in Confs /\ initialised \in SUBSET Modules /\ next \in Nat
  /\ stopDeps \in [Modules -> SUBSET Modules]
  /\ wrapper \in [Modules -> Wrappers] /\ inner \in [Modules -> States]
  /\ told \in SUBSET Modules /\ orphans \in SUBSET Modules
  /\ used \in [{"maxStops", "maxFailures"} -> Nat]

(***************************************************************************)
(* Nothing is initialised before the first target.                         *)
(***************************************************************************)
InitInv == next = 1 => initialised = {}

(***************************************************************************)
(* The position of a wrapper and its state, and what both say of the       *)
(* service inside.  One in use, in a wrapper that is over, is an orphan.   *)
(***************************************************************************)
StateOf(pc) ==
  CASE pc = "none" -> {"New"} \cup Terminal
    [] pc \in {"deps", "await"} -> {"Starting"}
    [] pc = "run" -> {"Running"}
    [] OTHER -> {"Stopping"}

WrapperInv(m) ==
  /\ wrapper[m].state # "New" => m \in Services
  /\ wrapper[m].state \in StateOf(wrapper[m].pc)
  /\ wrapper[m].state = "New" \/ wrapper[m].pc = "deps" => inner[m] = "New"
  /\ wrapper[m].pc \in {"await", "run", "stop", "dependants", "stopping"} => inner[m] # "New"
  /\ wrapper[m].pc \in {"run", "stop", "dependants", "stopping"} => inner[m] # "Starting"
  /\ InUse(m) /\ wrapper[m].pc \notin {"await", "run", "stop", "dependants"} => m \in orphans
  /\ wrapper[m].pc = "stopping" => m \in told
  /\ m \in told => /\ wrapper[m].pc \in {"none", "stopping"} /\ wrapper[m].state # "New"
                   /\ inner[m] \notin {"New", "Starting", "Running"}

(***************************************************************************)
(* The dependencies a wrapper does not wait for any more, and all of them  *)
(* once its service is started, have been running.                         *)
(***************************************************************************)
HasRun(d) == inner[d] \notin {"New", "Starting"}

StartInv(m) ==
  /\ wrapper[m].pc = "deps" =>
       /\ wrapper[m].waiting \subseteq startDeps(m)
       /\ \A d \in startDeps(m) \ wrapper[m].waiting : HasRun(d)
  /\ inner[m] # "New" => \A d \in startDeps(m) : HasRun(d)

(***************************************************************************)
(* The dependants it does not wait for any more are over.                  *)
(***************************************************************************)
Over(n) == wrapper[n].state \in Terminal

StopInv(d) ==
  /\ wrapper[d].pc = "dependants" => \A n \in (stopDeps[d] \cap Services) \ wrapper[d].waiting : Over(n)
  /\ d \in told => \A n \in stopDeps[d] \cap Services : Over(n)

(***************************************************************************)
(* Of an application with one target whose modules all have services.      *)
(***************************************************************************)
Whole == Len(conf.targets) = 1 /\ conf.serviced = Modules

AllDependants == Whole => \A m \in Services : \A d \in conf.deps[m] : d \in Services /\ m \in stopDeps[d]

(***************************************************************************)
(* If nothing failed a service ends because its wrapper stopped it.        *)
(***************************************************************************)
EndsWhenTold == used.maxFailures = 0 => \A d \in Modules : inner[d] \in {"Stopping"} \cup Terminal => d \in told

(***************************************************************************)
(* When the service of a module is stopped, whatever depends on it, also   *)
(* from further up, does not have its own service in use, and is not going *)
(* to start it: it waits for a module that will not run any more.          *)
(***************************************************************************)
PastRunning(x) == wrapper[x].state \in {"Stopping"} \cup Terminal

NotUsed(m) ==
  /\ wrapper[m].pc \notin {"await", "run", "stop", "dependants"}
  /\ wrapper[m].pc = "deps" => \E x \in wrapper[m].waiting : PastRunning(x)

NobodyUsesTheStopped ==
  Whole /\ Undisturbed => \A m \in Services : \A d \in DependenciesForModule(m) \cap told : NotUsed(m)

\* StopAsync is called of services only.
StopsServices == stopping \subseteq Services

IInv ==
  /\ Types /\ InitInv
  /\ \A m \in Modules : WrapperInv(m) /\ StartInv(m) /\ StopInv(m)
  /\ AllDependants /\ EndsWhenTold /\ NobodyUsesTheStopped

-----------------------------------------------------------------------------
(***************************************************************************)
(* What DependenciesForModule returns: the dependencies of a module and    *)
(* all of theirs, and nothing else; never the module itself.               *)
(***************************************************************************)
LEMMA ConfFacts ==
  ASSUME conf \in Confs
  PROVE  /\ \A m \in Modules : conf.deps[m] \subseteq Modules
         /\ DOMAIN conf.targets = 1..Len(conf.targets) /\ Len(conf.targets) \in Nat
BY AcyclicAssumption DEF Modules

\* DependenciesForModule is the transitive closure of the direct dependencies.
LEMMA DepsFacts ==
  ASSUME conf \in Confs, NEW m \in Modules
  PROVE  /\ DependenciesForModule(m) \in SUBSET Modules
         /\ conf.deps[m] \subseteq DependenciesForModule(m)
         /\ \A n \in DependenciesForModule(m) : conf.deps[n] \subseteq DependenciesForModule(m)
         /\ \A n \in DependenciesForModule(m) : DependenciesForModule(n) \subseteq DependenciesForModule(m)
         /\ \A d \in DependenciesForModule(m) : d \in conf.deps[m] \/ \E n \in DependenciesForModule(m) : d \in conf.deps[n]
<1> DEFINE D == DependenciesForModule(m)
<1>1. \A n \in Modules : conf.deps[n] \subseteq Modules
  BY ConfFacts
<1>2. D \in SUBSET Modules
  BY DEF DependenciesForModule
<1>3. conf.deps[m] \subseteq D
  BY <1>1 DEF DependenciesForModule
<1>4. ASSUME NEW n \in D, NEW d \in conf.deps[n]
      PROVE  d \in D
  <2>1. d \in Modules
    BY <1>1, <1>2, <1>4
  <2>2. ASSUME NEW S \in SUBSET Modules, conf.deps[m] \subseteq S, Closed(S)
        PROVE  d \in S
    <3>1. n \in S
      BY <2>2 DEF DependenciesForModule
    <3> QED
      BY <1>4, <2>2, <3>1 DEF Closed
  <2> QED
    BY <2>1, <2>2 DEF DependenciesForModule
<1>5. Closed(D)
  BY <1>4 DEF Closed
<1>6. ASSUME NEW n \in D
      PROVE  DependenciesForModule(n) \subseteq D
  <2>1. conf.deps[n] \subseteq D
    BY <1>4, <1>6
  <2> HIDE DEF D
  <2> QED
    BY <1>2, <1>5, <2>1 DEF DependenciesForModule
<1>7. ASSUME NEW d \in D
      PROVE  d \in conf.deps[m] \/ \E n \in D : d \in conf.deps[n]
  <2> DEFINE S == conf.deps[m] \cup {x \in D : \E n \in D : x \in conf.deps[n]}
  <2>1. S \in SUBSET Modules
    BY <1>1, <1>2
  <2>2. S \subseteq D
    BY <1>3
  <2>3. Closed(S)
    BY <1>4, <2>2 DEF Closed
  <2>4. d \in S
    <3> HIDE DEF S
    <3>1. conf.deps[m] \subseteq S
      BY DEF S
    <3> QED
      BY <1>7, <2>1, <2>3, <3>1 DEF DependenciesForModule
  <2> QED
    BY <2>4
<1> QED
  BY <1>2, <1>3, <1>4, <1>6, <1>7

\* No module depends on itself: ranks decrease along dependencies.
LEMMA NotItself ==
  ASSUME conf \in Confs, NEW m \in Modules
  PROVE  m \notin DependenciesForModule(m)
<1> DEFINE c == Cardinality(Modules)
<1>1. PICK rank \in [Modules -> 1..c] : \A x \in Modules : \A d \in conf.deps[x] : rank[d] < rank[x]
  BY AcyclicAssumption DEF Modules
<1>2. c \in Nat
  BY AcyclicAssumption, FS_CardinalityType DEF Modules
<1> HIDE DEF c
<1>3. \A x \in Modules : rank[x] \in Nat
  BY <1>1, <1>2
<1> DEFINE S == {x \in Modules : rank[x] < rank[m]}
<1>4. conf.deps[m] \subseteq S
  BY <1>1, ConfFacts
<1>5. Closed(S)
  <2> SUFFICES ASSUME NEW x \in S, NEW d \in conf.deps[x]
               PROVE  d \in S
    BY DEF Closed
  <2>1. d \in Modules /\ x \in Modules /\ rank[x] < rank[m]
    BY ConfFacts
  <2>2. rank[d] < rank[x]
    BY <1>1, <2>1
  <2> QED
    BY <1>3, <2>1, <2>2
<1>6. S \in SUBSET Modules /\ m \notin S
  BY <1>3
<1> HIDE DEF S
<1> QED
  BY <1>4, <1>5, <1>6 DEF DependenciesForModule

\* After initialisation the application stays as it is.
LEMMA SameDeps ==
  ASSUME UNCHANGED initVars
  PROVE  /\ Modules' = Modules /\ Services' = Services /\ conf' = conf /\ stopDeps' = stopDeps
         /\ initialised' = initialised /\ next' = next /\ Whole' = Whole
         /\ \A m : DependenciesForModule(m)' = DependenciesForModule(m)
         /\ \A m : startDeps(m)' = startDeps(m)
<1>1. conf' = conf /\ initialised' = initialised /\ next' = next /\ stopDeps' = stopDeps
  BY DEF initVars
<1>2. Modules' = Modules /\ Services' = Services /\ Whole' = Whole
  BY <1>1 DEF Modules, Services, Whole
<1>3. ASSUME NEW m
      PROVE  DependenciesForModule(m)' = DependenciesForModule(m)
  BY <1>1 DEF DependenciesForModule, Modules, Closed
<1>4. ASSUME NEW m
      PROVE  startDeps(m)' = startDeps(m)
  BY <1>2, <1>3 DEF startDeps
<1> QED
  BY <1>1, <1>2, <1>3, <1>4


-----------------------------------------------------------------------------
(***************************************************************************)
(* A step of one module: nothing of the others changes, and what its       *)
(* wrapper and its service have left behind stays behind.                  *)
(***************************************************************************)
Local(m) ==
  /\ UNCHANGED initVars
  /\ wrapper' \in [Modules -> Wrappers] /\ inner' \in [Modules -> States]
  /\ told' \in SUBSET Modules /\ orphans' \in SUBSET Modules
  /\ used' \in [{"maxStops", "maxFailures"} -> Nat]
  /\ \A n \in Modules \ {m} : /\ wrapper'[n] = wrapper[n] /\ inner'[n] = inner[n]
                              /\ n \in told' <=> n \in told
                              /\ n \in orphans' <=> n \in orphans
  /\ told \subseteq told' /\ orphans \subseteq orphans'
  /\ used'.maxFailures = 0 => used.maxFailures = 0

OnlyForward(m) ==
  /\ HasRun(m) => HasRun(m)'
  /\ Over(m) => Over(m)'
  /\ PastRunning(m) => PastRunning(m)'

(***************************************************************************)
(* What is left to show of a step of module m.                             *)
(***************************************************************************)
OwnInv(m) == WrapperInv(m) /\ StartInv(m) /\ StopInv(m)

\* What a step that concerns one module has to show to keep the invariant.
LEMMA LocalStep ==
  ASSUME IInv, NEW m \in Modules, Local(m), OnlyForward(m), OwnInv(m)',
         used'.maxFailures = 0 /\ inner'[m] \in {"Stopping"} \cup Terminal => m \in told',
         Whole /\ Undisturbed' /\ m \in Services /\ DependenciesForModule(m) \cap told # {} => NotUsed(m)',
         Whole /\ Undisturbed' /\ m \notin told /\ m \in told' =>
           \A n \in Services : m \in DependenciesForModule(n) => NotUsed(n)
  PROVE  IInv'
<1>1. /\ Modules' = Modules /\ Services' = Services /\ conf' = conf /\ stopDeps' = stopDeps
      /\ initialised' = initialised /\ next' = next /\ Whole' = Whole
      /\ \A x : DependenciesForModule(x)' = DependenciesForModule(x)
      /\ \A x : startDeps(x)' = startDeps(x)
  BY SameDeps DEF Local
<1>2. /\ \A n \in Modules \ {m} : /\ wrapper'[n] = wrapper[n] /\ inner'[n] = inner[n]
                                  /\ n \in told' <=> n \in told
                                  /\ n \in orphans' <=> n \in orphans
      /\ told \subseteq told' /\ orphans \subseteq orphans'
      /\ used'.maxFailures = 0 => used.maxFailures = 0
  BY DEF Local
<1>3. Types'
  <2>1. Wrappers' = Wrappers
    BY <1>1 DEF Wrappers
  <2> QED
    BY <1>1, <2>1 DEF Local, IInv, Types
<1>4. InitInv'
  BY <1>1 DEF IInv, InitInv
<1>5. \A x \in Modules : /\ HasRun(x) => HasRun(x)'
                         /\ Over(x) => Over(x)'
                         /\ PastRunning(x) => PastRunning(x)'
  BY <1>2 DEF OnlyForward, HasRun, Over, PastRunning
<1>6. /\ Services \in SUBSET Modules /\ wrapper \in [Modules -> Wrappers] /\ stopDeps \in [Modules -> SUBSET Modules]
      /\ told \in SUBSET Modules /\ conf \in Confs
  BY DEF IInv, Types, Services
<1>7. ASSUME NEW n \in Modules
      PROVE  WrapperInv(n)' /\ StartInv(n)' /\ StopInv(n)'
  <2>1. CASE n = m
    BY <2>1 DEF OwnInv
  <2>2. CASE n # m
    <3>1. /\ wrapper'[n] = wrapper[n] /\ inner'[n] = inner[n] /\ (n \in told' <=> n \in told)
          /\ (n \in orphans' <=> n \in orphans)
      BY <1>2, <2>2
    <3>2. WrapperInv(n) /\ StartInv(n) /\ StopInv(n)
      BY DEF IInv
    <3>3. WrapperInv(n)'
      BY <1>1, <3>1, <3>2 DEF WrapperInv, InUse
    <3>4. StartInv(n)'
      <4>1. startDeps(n) \subseteq Modules
        BY <1>6 DEF startDeps
      <4> QED
        BY <1>1, <1>5, <3>1, <3>2, <4>1 DEF StartInv
    <3>5. StopInv(n)'
      BY <1>1, <1>5, <1>6, <3>1, <3>2 DEF StopInv
    <3> QED
      BY <3>3, <3>4, <3>5
  <2> QED
    BY <2>1, <2>2
<1>8. AllDependants'
  BY <1>1 DEF IInv, AllDependants
<1>9. EndsWhenTold'
  BY <1>1, <1>2 DEF IInv, EndsWhenTold
<1>10. NobodyUsesTheStopped'
  <2> SUFFICES ASSUME Whole, Undisturbed', NEW n \in Services, NEW d \in DependenciesForModule(n), d \in told'
               PROVE  NotUsed(n)'
    BY <1>1 DEF NobodyUsesTheStopped
  <2>1. Undisturbed
    BY <1>2 DEF Undisturbed
  <2>2. NotUsed(n)
    <3>1. CASE d \in told
      BY <2>1, <3>1 DEF IInv, NobodyUsesTheStopped
    <3>2. CASE d \notin told
      <4>1. d = m
        <5>1. d \in Modules
          BY <1>6, DepsFacts
        <5> QED
          BY <1>2, <3>2, <5>1
      <4> QED
        BY <3>2, <4>1
    <3> QED
      BY <3>1, <3>2
  <2>3. CASE n # m
    <3>1. wrapper'[n] = wrapper[n] /\ wrapper[n].waiting \in SUBSET Modules
      BY <1>2, <1>6, <2>3 DEF Wrappers
    <3> QED
      BY <1>5, <2>2, <3>1 DEF NotUsed
  <2>4. CASE n = m
    <3>1. d # m
      BY <1>6, <2>4, NotItself
    <3>2. d \in Modules
      BY <1>6, DepsFacts
    <3>3. d \in told
      BY <1>2, <3>1, <3>2
    <3> QED
      BY <2>4, <3>3
  <2> QED
    BY <2>3, <2>4
<1> QED
  BY <1>1, <1>3, <1>4, <1>7, <1>8, <1>9, <1>10 DEF IInv


(***************************************************************************)
(* The parts of this that most steps have in common.                       *)
(***************************************************************************)
LEMMA WrapperStep ==
  ASSUME IInv, NEW m \in Modules, UNCHANGED <<initVars, inner, told, orphans, used>>,
         NEW w \in Wrappers, wrapper' = [wrapper EXCEPT ![m] = w]
  PROVE  Local(m) /\ wrapper'[m] = w
<1>1. /\ wrapper \in [Modules -> Wrappers] /\ inner \in [Modules -> States]
      /\ told \in SUBSET Modules /\ orphans \in SUBSET Modules
      /\ used \in [{"maxStops", "maxFailures"} -> Nat]
  BY DEF IInv, Types
<1>2. /\ wrapper' \in [Modules -> Wrappers] /\ wrapper'[m] = w
      /\ \A n \in Modules \ {m} : wrapper'[n] = wrapper[n]
  BY <1>1
<1> QED
  BY <1>1, <1>2 DEF Local

\* A step outside of the waiting for dependencies keeps what was waited for.
LEMMA StartKept ==
  ASSUME IInv, NEW m \in Modules, Local(m), OnlyForward(m), wrapper'[m].pc # "deps",
         inner'[m] # "New" => inner[m] # "New"
  PROVE  StartInv(m)'
<1>1. startDeps(m)' = startDeps(m) /\ Modules' = Modules
  BY SameDeps DEF Local
<1>2. startDeps(m) \subseteq Modules
  BY DEF startDeps, Services, IInv, Types
<1>3. \A d \in Modules : HasRun(d) => HasRun(d)'
  BY DEF Local, OnlyForward, HasRun
<1>4. StartInv(m)
  BY DEF IInv
<1> QED
  BY <1>1, <1>2, <1>3, <1>4 DEF StartInv

\* A step outside of the waiting for dependants keeps what was waited for.
LEMMA StopKept ==
  ASSUME IInv, NEW m \in Modules, Local(m), OnlyForward(m), wrapper'[m].pc # "dependants", told' = told
  PROVE  StopInv(m)'
<1>1. Services' = Services /\ stopDeps' = stopDeps
  BY SameDeps DEF Local
<1>2. stopDeps[m] \in SUBSET Modules
  BY DEF IInv, Types
<1>3. \A d \in Modules : Over(d) => Over(d)'
  BY DEF Local, OnlyForward, Over
<1>4. StopInv(m)
  BY DEF IInv
<1> QED
  BY <1>1, <1>2, <1>3, <1>4 DEF StopInv

\* A module above one that was told to stop was not in use before the step either.
LEMMA NotUsedBefore ==
  ASSUME IInv, NEW m \in Services, Local(m), Whole, Undisturbed', DependenciesForModule(m) \cap told # {}
  PROVE  NotUsed(m)
<1>1. Undisturbed
  BY DEF Local, Undisturbed
<1> QED
  BY <1>1 DEF IInv, NobodyUsesTheStopped

(***************************************************************************)
(* A step of the wrapper alone that leads to another position.             *)
(***************************************************************************)
LEMMA SetStep ==
  ASSUME IInv, NEW m \in Modules, UNCHANGED <<initVars, inner, told, used>>,
         orphans' = orphans \/ orphans' = orphans \cup {m},
         NEW state \in States \ {"New"}, NEW pc \in {"none", "run", "stop"}, Set(m, state, pc),
         wrapper[m].state \in {"Starting", "Running", "Stopping"}, state \in StateOf(pc),
         wrapper[m].state = "Stopping" => state \in Terminal,
         pc # "none" => wrapper[m].pc \in {"await", "run"} /\ HasRun(m),
         pc = "none" /\ InUse(m) => m \in orphans'
  PROVE  IInv'
<1> DEFINE w == [wrapper[m] EXCEPT !.state = state, !.pc = pc]
<1>1. /\ wrapper \in [Modules -> Wrappers] /\ inner \in [Modules -> States]
      /\ told \in SUBSET Modules /\ orphans \in SUBSET Modules
      /\ used \in [{"maxStops", "maxFailures"} -> Nat]
  BY DEF IInv, Types
<1>2. w \in Wrappers /\ w.state = state /\ w.pc = pc
  <2>1. state \in States /\ pc \in PCs
    BY DEF PCs
  <2>2. wrapper[m] \in [state : States, pc : PCs, waiting : SUBSET Modules, cancelled : BOOLEAN]
    BY <1>1 DEF Wrappers
  <2>3. w \in [state : States, pc : PCs, waiting : SUBSET Modules, cancelled : BOOLEAN]
    BY <2>1, <2>2
  <2>4. w.state = state /\ w.pc = pc
    BY <2>2
  <2> QED
    BY <2>3, <2>4 DEF Wrappers
<1>3. wrapper' = [wrapper EXCEPT ![m] = w]
  BY <1>1 DEF Set
<1> HIDE DEF w
<1>4. /\ wrapper' \in [Modules -> Wrappers] /\ wrapper'[m] = w
      /\ \A n \in Modules \ {m} : wrapper'[n] = wrapper[n]
  BY <1>1, <1>2, <1>3
<1>5. Local(m)
  BY <1>1, <1>4 DEF Local
<1>6. /\ Services' = Services /\ Whole' = Whole
      /\ WrapperInv(m) /\ StartInv(m) /\ StopInv(m)
  BY <1>5, SameDeps DEF Local, IInv
<1>7. OnlyForward(m)
  BY <1>2, <1>4 DEF OnlyForward, HasRun, Over, PastRunning, Terminal
<1>8. WrapperInv(m)'
  <2>1. m \in Services /\ wrapper[m].pc # "none"
    BY <1>6 DEF WrapperInv, StateOf, Terminal
  <2>2. m \in told => pc = "none" /\ inner[m] \notin {"New", "Starting", "Running"}
    BY <1>6, <2>1 DEF WrapperInv
  <2> QED
    BY <1>2, <1>4, <1>6, <2>1, <2>2 DEF WrapperInv, InUse, HasRun
<1>9. StartInv(m)' /\ StopInv(m)'
  BY <1>2, <1>4, <1>5, <1>7, StartKept, StopKept
<1>10. used'.maxFailures = 0 /\ inner'[m] \in {"Stopping"} \cup Terminal => m \in told'
  BY DEF IInv, EndsWhenTold
<1>11. Whole /\ Undisturbed' /\ m \in Services /\ DependenciesForModule(m) \cap told # {} => NotUsed(m)'
  <2> SUFFICES ASSUME Whole, Undisturbed', m \in Services, DependenciesForModule(m) \cap told # {}
               PROVE  NotUsed(m)'
    OBVIOUS
  <2>1. NotUsed(m)
    BY <1>5, NotUsedBefore
  <2> QED
    BY <1>2, <1>4, <2>1 DEF NotUsed
<1> QED
  BY <1>5, <1>7, <1>8, <1>9, <1>10, <1>11, LocalStep DEF OwnInv


\* The steps of a wrapper that tell the service inside nothing.
LEMMA SetStepsInv ==
  ASSUME IInv, NEW m \in Modules,
         \/ DependencyFails(m) \/ Started(m) \/ StartFails(m) \/ RunEnds(m)
         \/ (Stop(m) /\ inner[m] # "Running") \/ InnerStopped(m)
  PROVE  IInv'
<1>1. /\ WrapperInv(m) /\ wrapper[m].pc \in PCs /\ inner[m] \in States
      /\ wrapper[m].state \in StateOf(wrapper[m].pc)
  BY DEF IInv, Types, WrapperInv, Wrappers
<1>2. /\ "Failed" \in States \ {"New"} /\ "Running" \in States \ {"New"} /\ "Stopping" \in States \ {"New"}
      /\ Ended(m) \in States \ {"New"}
      /\ "Failed" \in StateOf("none") /\ Ended(m) \in StateOf("none")
      /\ "Running" \in StateOf("run") /\ "Stopping" \in StateOf("stop")
      /\ "Failed" \in Terminal /\ Ended(m) \in Terminal
  BY DEF States, StateOf, Ended, Terminal
<1>3. ASSUME wrapper[m].pc \in {"deps", "await", "run", "stop", "stopping"}
      PROVE  /\ wrapper[m].state \in {"Starting", "Running", "Stopping"}
             /\ wrapper[m].pc \in {"deps", "await"} => wrapper[m].state = "Starting"
             /\ wrapper[m].pc = "run" => wrapper[m].state = "Running"
  BY <1>1, <1>3 DEF StateOf
<1>4. CASE DependencyFails(m)
  <2>1. /\ wrapper[m].pc = "deps" /\ Set(m, "Failed", "none") /\ UNCHANGED <<initVars, inner, told, orphans, used>>
    BY <1>4 DEF DependencyFails
  <2>2. ~InUse(m)
    BY <1>1, <2>1 DEF WrapperInv, InUse
  <2> QED
    BY <1>2, <1>3, <2>1, <2>2, SetStep
<1>5. CASE Started(m)
  <2>1. /\ wrapper[m].pc = "await" /\ inner[m] = "Running" /\ UNCHANGED <<initVars, inner, told, orphans, used>>
        /\ Set(m, "Stopping", "stop") \/ Set(m, "Running", "run")
    BY <1>5 DEF Started
  <2>2. HasRun(m)
    BY <2>1 DEF HasRun
  <2>3. CASE Set(m, "Stopping", "stop")
    BY <1>2, <1>3, <2>1, <2>2, <2>3, SetStep
  <2>4. CASE Set(m, "Running", "run")
    BY <1>2, <1>3, <2>1, <2>2, <2>4, SetStep
  <2> QED
    BY <2>1, <2>3, <2>4
<1>6. CASE StartFails(m)
  <2>1. /\ wrapper[m].pc = "await" /\ Set(m, "Failed", "none") /\ UNCHANGED <<initVars, inner, told, used>>
        /\ orphans' = orphans \/ orphans' = orphans \cup {m}
        /\ InUse(m) => m \in orphans'
    BY <1>6 DEF StartFails, InUse, Terminal
  <2> QED
    BY <1>2, <1>3, <2>1, SetStep
<1>7. CASE RunEnds(m)
  <2>1. /\ wrapper[m].pc = "run" /\ Set(m, "Stopping", "stop") /\ UNCHANGED <<initVars, inner, told, orphans, used>>
    BY <1>7 DEF RunEnds
  <2>2. HasRun(m)
    BY <1>1, <2>1 DEF WrapperInv, HasRun
  <2> QED
    BY <1>2, <1>3, <2>1, <2>2, SetStep
<1>8. CASE Stop(m) /\ inner[m] # "Running"
  <2>1. /\ wrapper[m].pc = "stop" /\ Set(m, Ended(m), "none") /\ UNCHANGED <<initVars, inner, told, orphans, used>>
    BY <1>8 DEF Stop
  <2>2. ~InUse(m)
    BY <1>1, <1>8, <2>1 DEF WrapperInv, InUse
  <2> QED
    BY <1>2, <1>3, <2>1, <2>2, SetStep
<1>9. CASE InnerStopped(m)
  <2>1. /\ wrapper[m].pc = "stopping" /\ Set(m, Ended(m), "none") /\ UNCHANGED <<initVars, inner, told, orphans, used>>
        /\ inner[m] \in Terminal
    BY <1>9 DEF InnerStopped
  <2>2. ~InUse(m)
    BY <2>1 DEF InUse, Terminal
  <2> QED
    BY <1>2, <1>3, <2>1, <2>2, SetStep
<1> QED
  BY <1>4, <1>5, <1>6, <1>7, <1>8, <1>9

(***************************************************************************)
(* A wrapper starts: it waits for all its dependencies, also for those     *)
(* that will not run any more.                                             *)
(***************************************************************************)
LEMMA StartAsyncInv ==
  ASSUME IInv, NEW m \in Modules, StartAsync(m)
  PROVE  IInv'
<1> DEFINE w == [wrapper[m] EXCEPT !.state = "Starting", !.pc = "deps", !.waiting = startDeps(m)]
<1>1. /\ wrapper \in [Modules -> Wrappers] /\ conf \in Confs /\ wrapper[m] \in Wrappers
  BY DEF IInv, Types
<1>2. /\ m \in Services /\ wrapper[m].state = "New" /\ wrapper' = [wrapper EXCEPT ![m] = w]
      /\ UNCHANGED <<initVars, inner, told, orphans, used>>
  BY <1>1 DEF StartAsync
<1>3. startDeps(m) \in SUBSET Modules
  BY DEF startDeps, Services, IInv, Types
<1>4. w \in Wrappers /\ w.state = "Starting" /\ w.pc = "deps" /\ w.waiting = startDeps(m)
  <2>1. "Starting" \in States /\ "deps" \in PCs
    BY DEF States, PCs
  <2> QED
    BY <1>1, <1>3, <2>1 DEF Wrappers
<1> HIDE DEF w
<1>5. Local(m) /\ wrapper'[m] = w
  BY <1>2, <1>4, WrapperStep
<1>6. /\ Services' = Services /\ Whole' = Whole /\ startDeps(m)' = startDeps(m) /\ stopDeps' = stopDeps
      /\ WrapperInv(m) /\ StartInv(m) /\ StopInv(m)
  BY <1>2, SameDeps DEF IInv
<1>7. inner'[m] = "New" /\ inner[m] = "New" /\ m \notin told /\ told' = told /\ orphans' = orphans
  BY <1>2, <1>6 DEF WrapperInv
<1>8. OnlyForward(m)
  BY <1>2, <1>7 DEF OnlyForward, HasRun, Over, PastRunning, Terminal
<1>9. WrapperInv(m)'
  BY <1>2, <1>4, <1>5, <1>6, <1>7 DEF WrapperInv, StateOf, InUse
<1>10. StartInv(m)'
  BY <1>4, <1>5, <1>6, <1>7 DEF StartInv
<1>11. StopInv(m)'
  BY <1>4, <1>5, <1>7, <1>8, StopKept
<1>12. ASSUME DependenciesForModule(m) \cap told # {}
       PROVE  NotUsed(m)'
  <2>1. PICK d \in DependenciesForModule(m) : d \in told
    BY <1>12
  <2>2. d \in Modules /\ d # m
    BY <1>1, <1>7, <2>1, DepsFacts
  <2>3. WrapperInv(d)
    BY <2>2 DEF IInv
  <2>4. d \in Services /\ PastRunning(d)
    BY <2>1, <2>3 DEF WrapperInv, StateOf, PastRunning, Terminal
  <2>5. PastRunning(d)' /\ d \in startDeps(m)
    BY <1>5, <2>1, <2>2, <2>4 DEF Local, PastRunning, startDeps
  <2> QED
    BY <1>4, <1>5, <2>5 DEF NotUsed
<1>13. used'.maxFailures = 0 /\ inner'[m] \in {"Stopping"} \cup Terminal => m \in told'
  BY <1>7 DEF Terminal
<1> QED
  BY <1>5, <1>7, <1>8, <1>9, <1>10, <1>11, <1>12, <1>13, LocalStep DEF OwnInv

(***************************************************************************)
(* A dependency is running, and not waited for any more.                   *)
(***************************************************************************)
LEMMA DependencyRunsInv ==
  ASSUME IInv, NEW m \in Modules, DependencyRuns(m)
  PROVE  IInv'
<1>1. /\ wrapper \in [Modules -> Wrappers] /\ conf \in Confs /\ wrapper[m] \in Wrappers
      /\ wrapper[m].waiting \in SUBSET Modules
  BY DEF IInv, Types, Wrappers
<1>2. PICK d \in wrapper[m].waiting : /\ wrapper[d].state = "Running"
                                      /\ wrapper' = [wrapper EXCEPT ![m].waiting = @ \ {d}]
  BY DEF DependencyRuns
<1>3. wrapper[m].pc = "deps" /\ UNCHANGED <<initVars, inner, told, orphans, used>>
  BY DEF DependencyRuns
<1> DEFINE rest == wrapper[m].waiting \ {d}
           w == [wrapper[m] EXCEPT !.waiting = rest]
<1>4. wrapper' = [wrapper EXCEPT ![m] = w]
  BY <1>1, <1>2
<1>5. rest \in SUBSET Modules
  BY <1>1
<1>6. w \in Wrappers /\ w.state = wrapper[m].state /\ w.pc = "deps" /\ w.waiting = rest
  BY <1>1, <1>3, <1>5 DEF Wrappers
<1> HIDE DEF w
<1>7. Local(m) /\ wrapper'[m] = w
  BY <1>3, <1>4, <1>6, WrapperStep
<1>8. /\ Services' = Services /\ Whole' = Whole /\ startDeps(m)' = startDeps(m) /\ stopDeps' = stopDeps
      /\ inner' = inner /\ told' = told /\ orphans' = orphans /\ used' = used
      /\ WrapperInv(m) /\ StartInv(m) /\ StopInv(m)
  BY <1>3, SameDeps DEF IInv
<1>9. inner[m] = "New"
  BY <1>3, <1>8 DEF WrapperInv
<1>10. OnlyForward(m)
  BY <1>6, <1>7, <1>8 DEF OnlyForward, HasRun, Over, PastRunning
<1>11. WrapperInv(m)'
  BY <1>3, <1>6, <1>7, <1>8 DEF WrapperInv, InUse
<1>12. StartInv(m)'
  <2>1. HasRun(d)
    <3>1. WrapperInv(d) /\ wrapper[d].pc \in PCs
      BY <1>1 DEF IInv, Types, Wrappers
    <3>2. wrapper[d].pc = "run"
      BY <1>2, <3>1 DEF WrapperInv, StateOf, Terminal, PCs
    <3> QED
      BY <3>1, <3>2 DEF WrapperInv, HasRun
  <2>2. \A x \in startDeps(m) \ rest : HasRun(x)
    BY <1>3, <1>8, <2>1 DEF StartInv
  <2>3. rest \subseteq startDeps(m)
    BY <1>3, <1>8 DEF StartInv
  <2> HIDE DEF rest
  <2> QED
    BY <1>6, <1>7, <1>8, <1>9, <2>2, <2>3 DEF StartInv, HasRun
<1>13. StopInv(m)'
  BY <1>6, <1>7, <1>8, <1>10, StopKept
<1>14. ASSUME Whole, Undisturbed', m \in Services, DependenciesForModule(m) \cap told # {}
       PROVE  NotUsed(m)'
  <2>1. NotUsed(m)
    BY <1>7, <1>14, NotUsedBefore
  <2>2. PICK x \in wrapper[m].waiting : PastRunning(x)
    BY <1>3, <2>1 DEF NotUsed
  <2>3. x \in rest
    BY <1>2, <2>2 DEF PastRunning, Terminal
  <2>4. x \in Modules
    BY <1>1
  <2>5. PastRunning(x)'
    BY <1>6, <1>7, <2>2, <2>4 DEF PastRunning, Local
  <2> HIDE DEF rest
  <2> QED
    BY <1>6, <1>7, <2>3, <2>5 DEF NotUsed
<1>15. used'.maxFailures = 0 /\ inner'[m] \in {"Stopping"} \cup Terminal => m \in told'
  BY <1>8, <1>9 DEF Terminal
<1> QED
  BY <1>7, <1>8, <1>10, <1>11, <1>12, <1>13, <1>14, <1>15, LocalStep DEF OwnInv


(***************************************************************************)
(* All dependencies have been running, and the service is started.         *)
(***************************************************************************)
LEMMA StartInnerInv ==
  ASSUME IInv, NEW m \in Modules, StartInner(m)
  PROVE  IInv'
<1> DEFINE w == [wrapper[m] EXCEPT !.state = "Starting", !.pc = "await"]
<1>1. /\ wrapper \in [Modules -> Wrappers] /\ wrapper[m] \in Wrappers /\ inner \in [Modules -> States]
      /\ told \in SUBSET Modules /\ orphans \in SUBSET Modules
      /\ used \in [{"maxStops", "maxFailures"} -> Nat]
  BY DEF IInv, Types
<1>2. /\ wrapper[m].pc = "deps" /\ wrapper[m].waiting = {} /\ wrapper' = [wrapper EXCEPT ![m] = w]
      /\ inner' = [inner EXCEPT ![m] = "Starting"] /\ UNCHANGED <<initVars, told, orphans, used>>
  BY <1>1 DEF StartInner, Set
<1>3. w \in Wrappers /\ w.state = "Starting" /\ w.pc = "await"
  <2>1. "Starting" \in States /\ "await" \in PCs
    BY DEF States, PCs
  <2> QED
    BY <1>1, <2>1 DEF Wrappers
<1> HIDE DEF w
<1>4. /\ wrapper' \in [Modules -> Wrappers] /\ wrapper'[m] = w
      /\ inner' \in [Modules -> States] /\ inner'[m] = "Starting"
      /\ \A n \in Modules \ {m} : wrapper'[n] = wrapper[n] /\ inner'[n] = inner[n]
  BY <1>1, <1>2, <1>3 DEF States
<1>5. Local(m)
  BY <1>1, <1>2, <1>4 DEF Local
<1>6. /\ Services' = Services /\ Whole' = Whole /\ startDeps(m)' = startDeps(m) /\ stopDeps' = stopDeps
      /\ WrapperInv(m) /\ StartInv(m) /\ StopInv(m)
  BY <1>2, SameDeps DEF IInv
<1>7. inner[m] = "New" /\ m \notin told /\ told' = told /\ orphans' = orphans /\ wrapper[m].state = "Starting"
  BY <1>2, <1>6 DEF WrapperInv, StateOf
<1>8. OnlyForward(m)
  BY <1>7 DEF OnlyForward, HasRun, Over, PastRunning, Terminal
<1>9. WrapperInv(m)'
  BY <1>3, <1>4, <1>6, <1>7 DEF WrapperInv, StateOf, InUse
<1>10. StartInv(m)'
  <2>1. \A d \in startDeps(m) : d \in Modules /\ HasRun(d)
    BY <1>2, <1>6 DEF StartInv, startDeps, Services, IInv, Types
  <2>2. \A d \in startDeps(m) : HasRun(d)'
    BY <1>4, <1>7, <2>1 DEF HasRun
  <2> QED
    BY <1>3, <1>4, <1>6, <2>2 DEF StartInv
<1>11. StopInv(m)'
  BY <1>3, <1>4, <1>5, <1>7, <1>8, StopKept
<1>12. ASSUME Whole, Undisturbed', m \in Services, DependenciesForModule(m) \cap told # {}
       PROVE  NotUsed(m)'
  BY <1>2, <1>5, <1>12, NotUsedBefore DEF NotUsed
<1>13. used'.maxFailures = 0 /\ inner'[m] \in {"Stopping"} \cup Terminal => m \in told'
  BY <1>4 DEF Terminal
<1> QED
  BY <1>5, <1>7, <1>8, <1>9, <1>10, <1>11, <1>12, <1>13, LocalStep DEF OwnInv

(***************************************************************************)
(* The wrapper begins to wait for its dependants, and waits for one less.  *)
(***************************************************************************)
LEMMA WaitInv ==
  ASSUME IInv, NEW m \in Modules, (Stop(m) /\ inner[m] = "Running") \/ DependantStops(m)
  PROVE  IInv'
<1>1. /\ wrapper \in [Modules -> Wrappers] /\ wrapper[m] \in Wrappers
      /\ wrapper[m].waiting \in SUBSET Modules /\ stopDeps[m] \in SUBSET Modules
  BY DEF IInv, Types, Wrappers
<1>2. /\ wrapper[m].pc \in {"stop", "dependants"} /\ UNCHANGED <<initVars, inner, told, orphans, used>>
  BY DEF Stop, DependantStops
<1>3. /\ Services' = Services /\ Whole' = Whole /\ startDeps(m)' = startDeps(m) /\ stopDeps' = stopDeps
      /\ inner' = inner /\ told' = told /\ orphans' = orphans /\ used' = used
      /\ WrapperInv(m) /\ StartInv(m) /\ StopInv(m)
  BY <1>2, SameDeps DEF IInv
<1>4. PICK rest \in SUBSET Modules :
        /\ wrapper' = [wrapper EXCEPT ![m] = [@ EXCEPT !.pc = "dependants", !.waiting = rest]]
        /\ \A n \in (stopDeps[m] \cap Services) \ rest : Over(n)
  <2>1. CASE Stop(m) /\ inner[m] = "Running"
    <3> DEFINE r == stopDeps[m] \cap Services
    <3>1. wrapper' = [wrapper EXCEPT ![m] = [@ EXCEPT !.pc = "dependants", !.waiting = r]]
      BY <1>1, <2>1 DEF Stop
    <3>2. r \in SUBSET Modules /\ (stopDeps[m] \cap Services) \ r = {}
      BY <1>1
    <3> QED
      BY <3>1, <3>2
  <2>2. CASE DependantStops(m)
    <3>1. PICK n \in wrapper[m].waiting : /\ wrapper[n].state \in Terminal
                                          /\ wrapper' = [wrapper EXCEPT ![m].waiting = @ \ {n}]
      BY <2>2 DEF DependantStops
    <3>2. wrapper[m].pc = "dependants"
      BY <2>2 DEF DependantStops
    <3> DEFINE r == wrapper[m].waiting \ {n}
    <3>3. [wrapper[m] EXCEPT !.pc = "dependants", !.waiting = r] = [wrapper[m] EXCEPT !.waiting = r]
      BY <1>1, <3>2 DEF Wrappers
    <3>4. wrapper' = [wrapper EXCEPT ![m] = [@ EXCEPT !.pc = "dependants", !.waiting = r]]
      BY <1>1, <3>1, <3>3
    <3>5. \A x \in (stopDeps[m] \cap Services) \ r : Over(x)
      BY <1>3, <3>1, <3>2 DEF StopInv, Over
    <3>6. r \in SUBSET Modules
      BY <1>1
    <3> QED
      BY <3>4, <3>5, <3>6
  <2> QED
    BY <2>1, <2>2
<1> DEFINE w == [wrapper[m] EXCEPT !.pc = "dependants", !.waiting = rest]
<1>5. w \in Wrappers /\ w.state = wrapper[m].state /\ w.pc = "dependants" /\ w.waiting = rest
  <2>1. "dependants" \in PCs
    BY DEF PCs
  <2> QED
    BY <1>1, <2>1 DEF Wrappers
<1>6. wrapper' = [wrapper EXCEPT ![m] = w]
  BY <1>1, <1>4
<1> HIDE DEF w
<1>7. Local(m) /\ wrapper'[m] = w
  BY <1>2, <1>5, <1>6, WrapperStep
<1>8. OnlyForward(m)
  BY <1>3, <1>5, <1>7 DEF OnlyForward, HasRun, Over, PastRunning
<1>9. WrapperInv(m)'
  BY <1>2, <1>3, <1>5, <1>7 DEF WrapperInv, StateOf, InUse
<1>10. StartInv(m)'
  BY <1>3, <1>5, <1>7, <1>8, StartKept
<1>11. StopInv(m)'
  <2>1. \A n \in Modules : Over(n) => Over(n)'
    BY <1>7, <1>8 DEF Local, OnlyForward, Over
  <2>2. m \notin told
    BY <1>2, <1>3 DEF WrapperInv
  <2> QED
    BY <1>1, <1>3, <1>4, <1>5, <1>7, <2>1, <2>2 DEF StopInv
<1>12. ASSUME Whole, Undisturbed', m \in Services, DependenciesForModule(m) \cap told # {}
       PROVE  NotUsed(m)'
  BY <1>2, <1>7, <1>12, NotUsedBefore DEF NotUsed
<1>13. used'.maxFailures = 0 /\ inner'[m] \in {"Stopping"} \cup Terminal => m \in told'
  BY <1>3 DEF IInv, EndsWhenTold
<1> QED
  BY <1>3, <1>7, <1>8, <1>9, <1>10, <1>11, <1>12, <1>13, LocalStep DEF OwnInv

(***************************************************************************)
(* The service is stopped.  Its direct dependants are over; if the module  *)
(* between it and one further up has ever been running it has been stopped *)
(* itself, and if not the one further up still waits for it, in vain.      *)
(***************************************************************************)
LEMMA NoDependantLeft ==
  ASSUME IInv, Whole, Undisturbed, NEW m \in Services, \A n \in stopDeps[m] \cap Services : Over(n),
         NEW n \in Services, m \in DependenciesForModule(n)
  PROVE  NotUsed(n)
<1>1. /\ conf \in Confs /\ Services \in SUBSET Modules /\ n \in Modules /\ m \in Modules
      /\ wrapper \in [Modules -> Wrappers] /\ inner \in [Modules -> States]
  BY DEF IInv, Types, Services
<1>2. /\ \A x \in Services : conf.deps[x] \subseteq Services
      /\ \A x \in Services : m \in conf.deps[x] => Over(x)
  BY DEF IInv, AllDependants
<1>3. CASE m \in conf.deps[n]
  <2>1. Over(n) /\ WrapperInv(n) /\ wrapper[n].pc \in PCs
    BY <1>1, <1>2, <1>3 DEF IInv, Wrappers
  <2>2. wrapper[n].pc = "none"
    BY <2>1 DEF Over, WrapperInv, StateOf, Terminal, PCs
  <2> QED
    BY <2>2 DEF NotUsed
<1>4. ASSUME NEW x \in DependenciesForModule(n), m \in conf.deps[x]
      PROVE  NotUsed(n)
  <2>1. x \in Services
    <3>1. conf.deps[n] \subseteq Services /\ Closed(Services)
      BY <1>2 DEF Closed
    <3> QED
      BY <1>1, <3>1 DEF DependenciesForModule
  <2>2. x \in Modules /\ Over(x) /\ WrapperInv(x) /\ StartInv(n) /\ wrapper[x].pc \in PCs /\ inner[x] \in States
    BY <1>1, <1>2, <1>4, <2>1 DEF IInv, Wrappers
  <2>3. CASE HasRun(x)
    <3>1. wrapper[x].pc = "none" /\ x \notin orphans /\ used.maxFailures = 0
      BY <2>2 DEF Over, WrapperInv, StateOf, Terminal, PCs, Undisturbed
    <3>2. inner[x] \in {"Stopping"} \cup Terminal
      BY <2>2, <2>3, <3>1 DEF WrapperInv, InUse, HasRun, States, Terminal
    <3>3. x \in told
      BY <2>2, <3>1, <3>2 DEF IInv, EndsWhenTold
    <3> QED
      BY <3>3 DEF IInv, NobodyUsesTheStopped
  <2>4. CASE ~HasRun(x)
    <3>1. x \in startDeps(n)
      BY <2>1 DEF startDeps
    <3>2. inner[n] = "New"
      BY <2>2, <2>4, <3>1 DEF StartInv
    <3>3. wrapper[n].pc \notin {"await", "run", "stop", "dependants"}
      BY <1>1, <3>2 DEF IInv, WrapperInv
    <3>4. wrapper[n].pc = "deps" => x \in wrapper[n].waiting
      BY <2>2, <2>4, <3>1 DEF StartInv
    <3>5. PastRunning(x)
      BY <2>2 DEF Over, PastRunning
    <3> QED
      BY <3>3, <3>4, <3>5 DEF NotUsed
  <2> QED
    BY <2>3, <2>4
<1> QED
  BY <1>1, <1>3, <1>4, DepsFacts

\* A wrapper tells its service to stop: the step for which the order matters.
LEMMA StopInnerInv ==
  ASSUME IInv, NEW m \in Modules, StopInner(m)
  PROVE  IInv'
<1> DEFINE w == [wrapper[m] EXCEPT !.state = "Stopping", !.pc = "stopping"]
           i == IF inner[m] = "Running" THEN "Stopping" ELSE inner[m]
<1>1. /\ wrapper \in [Modules -> Wrappers] /\ wrapper[m] \in Wrappers /\ inner \in [Modules -> States]
      /\ told \in SUBSET Modules /\ orphans \in SUBSET Modules
      /\ used \in [{"maxStops", "maxFailures"} -> Nat]
  BY DEF IInv, Types
<1>2. /\ wrapper[m].pc = "dependants" /\ wrapper[m].waiting = {} /\ wrapper' = [wrapper EXCEPT ![m] = w]
      /\ inner' = [inner EXCEPT ![m] = i] /\ told' = told \cup {m} /\ UNCHANGED <<initVars, orphans, used>>
  BY <1>1 DEF StopInner, Set
<1>3. w \in Wrappers /\ w.state = "Stopping" /\ w.pc = "stopping"
  <2>1. "Stopping" \in States /\ "stopping" \in PCs
    BY DEF States, PCs
  <2> QED
    BY <1>1, <2>1 DEF Wrappers
<1>4. /\ WrapperInv(m) /\ StartInv(m) /\ StopInv(m)
  BY DEF IInv
<1>5. /\ inner[m] \notin {"New", "Starting"} /\ m \notin told /\ wrapper[m].state = "Stopping" /\ m \in Services
  BY <1>2, <1>4 DEF WrapperInv, StateOf
<1>6. i \in States /\ i \notin {"New", "Starting", "Running"}
  BY <1>1, <1>5 DEF States
<1> HIDE DEF w, i
<1>7. /\ wrapper' \in [Modules -> Wrappers] /\ wrapper'[m] = w
      /\ inner' \in [Modules -> States] /\ inner'[m] = i
      /\ \A n \in Modules \ {m} : wrapper'[n] = wrapper[n] /\ inner'[n] = inner[n]
  BY <1>1, <1>2, <1>3, <1>6
<1>8. Local(m)
  BY <1>1, <1>2, <1>7 DEF Local
<1>9. /\ Services' = Services /\ Whole' = Whole /\ startDeps(m)' = startDeps(m) /\ stopDeps' = stopDeps
      /\ orphans' = orphans /\ used' = used
  BY <1>2, SameDeps
<1>10. OnlyForward(m)
  BY <1>3, <1>5, <1>6, <1>7 DEF OnlyForward, HasRun, Over, PastRunning, Terminal
<1>11. WrapperInv(m)'
  BY <1>2, <1>3, <1>5, <1>6, <1>7, <1>9 DEF WrapperInv, StateOf, InUse
<1>12. StartInv(m)'
  BY <1>3, <1>5, <1>7, <1>8, <1>10, StartKept
<1>13. \A n \in stopDeps[m] \cap Services : Over(n)
  BY <1>2, <1>4 DEF StopInv
<1>14. StopInv(m)'
  <2>1. \A n \in Modules : Over(n) => Over(n)'
    BY <1>8, <1>10 DEF Local, OnlyForward, Over
  <2>2. stopDeps[m] \in SUBSET Modules
    BY DEF IInv, Types
  <2> QED
    BY <1>3, <1>7, <1>9, <1>13, <2>1, <2>2 DEF StopInv
<1>15. m \in told'
  BY <1>2
<1>16. ASSUME Whole, Undisturbed', m \in Services, DependenciesForModule(m) \cap told # {}
       PROVE  NotUsed(m)'
  BY <1>2, <1>8, <1>16, NotUsedBefore DEF NotUsed
<1>17. ASSUME Whole, Undisturbed'
       PROVE  \A n \in Services : m \in DependenciesForModule(n) => NotUsed(n)
  <2>1. Undisturbed
    BY <1>9, <1>17 DEF Undisturbed
  <2> QED
    BY <1>5, <1>13, <1>17, <2>1, NoDependantLeft
<1> QED
  BY <1>8, <1>10, <1>11, <1>12, <1>14, <1>15, <1>16, <1>17, LocalStep DEF OwnInv


(***************************************************************************)
(* The service goes on, as it is told to or by itself.                     *)
(***************************************************************************)
LEMMA InnerInv ==
  ASSUME IInv, NEW m \in Modules, InnerSteps(m) \/ InnerEnds(m)
  PROVE  IInv'
<1>1. /\ wrapper \in [Modules -> Wrappers] /\ inner \in [Modules -> States]
      /\ told \in SUBSET Modules /\ orphans \in SUBSET Modules
      /\ used \in [{"maxStops", "maxFailures"} -> Nat]
      /\ WrapperInv(m) /\ StartInv(m) /\ StopInv(m)
  BY DEF IInv, Types
<1>2. /\ inner[m] \in {"Starting", "Running", "Stopping"} /\ UNCHANGED <<initVars, wrapper, told, orphans>>
  BY DEF InnerSteps, InnerEnds
<1>3. PICK i \in {"Running", "Stopping", "Terminated", "Failed"} :
        /\ inner' = [inner EXCEPT ![m] = i]
        /\ i = "Running" => inner[m] = "Starting"
        /\ \/ used' = used /\ (i # "Running" => inner[m] = "Stopping")
           \/ Use("maxFailures")
  <2>1. CASE InnerSteps(m)
    BY <1>1, <2>1 DEF InnerSteps
  <2>2. CASE InnerEnds(m)
    <3>1. /\ Use("maxFailures")
          /\ inner' = [inner EXCEPT ![m] = "Failed"] \/ inner' = [inner EXCEPT ![m] = "Stopping"]
      BY <2>2 DEF InnerEnds
    <3> QED
      BY <3>1
  <2> QED
    BY <2>1, <2>2
<1>4. used' = used \/ (used' \in [{"maxStops", "maxFailures"} -> Nat] /\ used'.maxFailures # 0)
  <2>1. CASE Use("maxFailures")
    <3>1. used' = [used EXCEPT !["maxFailures"] = used["maxFailures"] + 1] /\ used["maxFailures"] \in Nat
      BY <1>1, <2>1 DEF Use
    <3> DEFINE u == used["maxFailures"] + 1
    <3>2. u \in Nat /\ u # 0
      BY <3>1
    <3> HIDE DEF u
    <3>3. used' = [used EXCEPT !["maxFailures"] = u]
      BY <3>1 DEF u
    <3> QED
      BY <1>1, <3>2, <3>3
  <2> QED
    BY <1>3, <2>1
<1>5. /\ inner' \in [Modules -> States] /\ inner'[m] = i
      /\ \A n \in Modules \ {m} : inner'[n] = inner[n]
  BY <1>1, <1>3 DEF States
<1>6. Local(m)
  BY <1>1, <1>2, <1>4, <1>5 DEF Local
<1>7. /\ Services' = Services /\ Whole' = Whole /\ startDeps(m)' = startDeps(m) /\ stopDeps' = stopDeps
      /\ wrapper' = wrapper /\ told' = told /\ orphans' = orphans
  BY <1>2, SameDeps
<1>8. OnlyForward(m)
  BY <1>3, <1>5, <1>7 DEF OnlyForward, HasRun, Over, PastRunning
<1>9. WrapperInv(m)'
  BY <1>1, <1>2, <1>3, <1>5, <1>7 DEF WrapperInv, InUse
<1>10. wrapper[m].pc # "deps" /\ StartInv(m)'
  <2>1. wrapper[m].pc # "deps"
    BY <1>1, <1>2 DEF WrapperInv
  <2> QED
    BY <1>2, <1>6, <1>7, <1>8, <2>1, StartKept
<1>11. StopInv(m)'
  BY <1>1, <1>7 DEF StopInv, Over
<1>12. used'.maxFailures = 0 /\ inner'[m] \in {"Stopping"} \cup Terminal => m \in told'
  <2> SUFFICES ASSUME used'.maxFailures = 0, i \in {"Stopping"} \cup Terminal
               PROVE  m \in told
    BY <1>5, <1>7
  <2>1. used' = used /\ i # "Running"
    BY <1>4 DEF Terminal
  <2>2. ~Use("maxFailures")
    <3>1. used["maxFailures"] \in Nat
      BY <1>1
    <3> QED
      BY <1>1, <2>1, <3>1 DEF Use
  <2>3. inner[m] = "Stopping" /\ used.maxFailures = 0
    BY <1>3, <2>1, <2>2
  <2> QED
    BY <2>3 DEF IInv, EndsWhenTold
<1>13. ASSUME Whole, Undisturbed', m \in Services, DependenciesForModule(m) \cap told # {}
       PROVE  NotUsed(m)'
  <2>1. NotUsed(m)
    BY <1>6, <1>13, NotUsedBefore
  <2> QED
    BY <1>7, <2>1 DEF NotUsed, PastRunning
<1> QED
  BY <1>6, <1>7, <1>8, <1>9, <1>10, <1>11, <1>12, <1>13, LocalStep DEF OwnInv

(***************************************************************************)
(* Wrappers are told to stop: a new one is over, the others will notice.   *)
(***************************************************************************)
LEMMA StoppedFacts ==
  ASSUME NEW w \in Wrappers
  PROVE  /\ Stopped(w) \in Wrappers /\ Stopped(w).pc = w.pc /\ Stopped(w).waiting = w.waiting
         /\ \/ Stopped(w).state = w.state
            \/ w.state = "New" /\ Stopped(w).state = "Terminated"
<1>1. w \in [state : States, pc : PCs, waiting : SUBSET Modules, cancelled : BOOLEAN] /\ "Terminated" \in States
  BY DEF Wrappers, States
<1>2. CASE w.state = "New"
  <2> DEFINE r == [w EXCEPT !.state = "Terminated"]
  <2>1. Stopped(w) = r
    BY <1>2 DEF Stopped
  <2>2. r \in [state : States, pc : PCs, waiting : SUBSET Modules, cancelled : BOOLEAN]
    BY <1>1
  <2>3. r.pc = w.pc /\ r.waiting = w.waiting /\ r.state = "Terminated"
    BY <1>1
  <2> QED
    BY <1>2, <2>1, <2>2, <2>3 DEF Wrappers
<1>3. CASE w.state # "New"
  <2> DEFINE r == [w EXCEPT !.cancelled = TRUE]
  <2>1. Stopped(w) = r
    BY <1>3 DEF Stopped
  <2>2. r \in [state : States, pc : PCs, waiting : SUBSET Modules, cancelled : BOOLEAN]
    BY <1>1
  <2>3. r.pc = w.pc /\ r.waiting = w.waiting /\ r.state = w.state
    BY <1>1
  <2> QED
    BY <2>1, <2>2, <2>3 DEF Wrappers
<1> QED
  BY <1>2, <1>3

\* StopAsync of one module, by whoever calls it or on the way through all.
LEMMA StoppingInv ==
  ASSUME IInv, StopsServices, StopAll \/ \E m \in Modules : StopAsync(m) \/ StopNext(m)
  PROVE  IInv'
<1>1. /\ wrapper \in [Modules -> Wrappers] /\ inner \in [Modules -> States]
      /\ told \in SUBSET Modules /\ orphans \in SUBSET Modules /\ stopDeps \in [Modules -> SUBSET Modules]
      /\ used \in [{"maxStops", "maxFailures"} -> Nat] /\ Services \in SUBSET Modules
  BY DEF IInv, Types, Services
<1>2. UNCHANGED <<initVars, inner, told, orphans>>
  BY DEF StopAll, StopAsync, StopNext
<1>3. used' \in [{"maxStops", "maxFailures"} -> Nat] /\ used'.maxFailures = used.maxFailures
  <2>1. CASE used' = used
    BY <1>1, <2>1
  <2>2. CASE Use("maxStops")
    <3> DEFINE u == used["maxStops"] + 1
    <3>1. used' = [used EXCEPT !["maxStops"] = u] /\ u \in Nat
      BY <1>1, <2>2 DEF Use
    <3> HIDE DEF u
    <3> QED
      BY <1>1, <3>1
  <2> QED
    BY <2>1, <2>2 DEF StopAll, StopAsync, StopNext
<1>4. /\ Modules' = Modules /\ Services' = Services /\ conf' = conf /\ stopDeps' = stopDeps
      /\ initialised' = initialised /\ next' = next /\ Whole' = Whole
      /\ inner' = inner /\ told' = told /\ orphans' = orphans
      /\ \A x : DependenciesForModule(x)' = DependenciesForModule(x)
      /\ \A x : startDeps(x)' = startDeps(x)
  BY <1>2, SameDeps
<1>5. /\ wrapper' \in [Modules -> Wrappers]
      /\ \A n \in Modules : wrapper'[n] = wrapper[n] \/ (n \in Services /\ wrapper'[n] = Stopped(wrapper[n]))
  <2>1. \A n \in Modules : Stopped(wrapper[n]) \in Wrappers
    BY <1>1, StoppedFacts
  <2>2. CASE StopAll
    BY <1>1, <2>2 DEF StopAll
  <2>3. ASSUME NEW m \in Modules, StopAsync(m) \/ StopNext(m)
        PROVE  /\ wrapper' \in [Modules -> Wrappers]
               /\ \A n \in Modules : wrapper'[n] = wrapper[n] \/ (n \in Services /\ wrapper'[n] = Stopped(wrapper[n]))
    <3> DEFINE w == Stopped(wrapper[m])
    <3>1. wrapper' = [wrapper EXCEPT ![m] = w] /\ m \in Services /\ w \in Wrappers
      BY <1>1, <2>1, <2>3 DEF StopAsync, StopNext, StopsServices
    <3> HIDE DEF w
    <3>2. wrapper' \in [Modules -> Wrappers] /\ wrapper'[m] = w /\ \A n \in Modules \ {m} : wrapper'[n] = wrapper[n]
      BY <1>1, <3>1
    <3> QED
      BY <3>1, <3>2 DEF w
  <2> QED
    BY <2>2, <2>3
<1>6. \A n \in Modules :
        /\ wrapper'[n].pc = wrapper[n].pc /\ wrapper'[n].waiting = wrapper[n].waiting
        /\ \/ wrapper'[n].state = wrapper[n].state
           \/ n \in Services /\ wrapper[n].state = "New" /\ wrapper'[n].state = "Terminated"
  BY <1>1, <1>5, StoppedFacts
<1>7. Types' /\ InitInv'
  <2>1. Wrappers' = Wrappers
    BY <1>4 DEF Wrappers
  <2> QED
    BY <1>3, <1>4, <1>5, <2>1 DEF IInv, Types, InitInv
<1>8. \A n \in Modules : (Over(n) => Over(n)') /\ (PastRunning(n) => PastRunning(n)')
  BY <1>6 DEF Over, PastRunning, Terminal
<1>9. ASSUME NEW n \in Modules
      PROVE  WrapperInv(n)' /\ StartInv(n)' /\ StopInv(n)'
  <2>1. WrapperInv(n) /\ StartInv(n) /\ StopInv(n) /\ wrapper[n].pc \in PCs
    BY <1>1 DEF IInv, Wrappers
  <2>2. WrapperInv(n)'
    <3>1. wrapper'[n].state \in StateOf(wrapper'[n].pc)
      BY <1>6, <2>1 DEF WrapperInv, StateOf, Terminal, PCs
    <3>2. wrapper[n].state = "New" => n \notin told
      BY <2>1 DEF WrapperInv
    <3> QED
      BY <1>4, <1>6, <2>1, <3>1, <3>2 DEF WrapperInv, InUse
  <2>3. StartInv(n)'
    BY <1>4, <1>6, <2>1 DEF StartInv, HasRun
  <2>4. StopInv(n)'
    BY <1>1, <1>4, <1>6, <1>8, <2>1 DEF StopInv
  <2> QED
    BY <2>2, <2>3, <2>4
<1>10. AllDependants' /\ EndsWhenTold'
  BY <1>3, <1>4 DEF IInv, AllDependants, EndsWhenTold
<1>11. NobodyUsesTheStopped'
  <2> SUFFICES ASSUME Whole, Undisturbed', NEW n \in Services, NEW d \in DependenciesForModule(n), d \in told
               PROVE  NotUsed(n)'
    BY <1>4 DEF NobodyUsesTheStopped
  <2>1. NotUsed(n)
    BY <1>3, <1>4 DEF IInv, NobodyUsesTheStopped, Undisturbed
  <2>2. wrapper[n].waiting \in SUBSET Modules /\ n \in Modules
    BY <1>1 DEF Wrappers
  <2> QED
    BY <1>6, <1>8, <2>1, <2>2 DEF NotUsed
<1> QED
  BY <1>4, <1>7, <1>9, <1>10, <1>11 DEF IInv

(***************************************************************************)
(* The next target is initialised, or an error ends it: no module has a    *)
(* wrapper that does anything by then.                                     *)
(***************************************************************************)
LEMMA InitialisingInv ==
  ASSUME IInv, initModule \/ InitFails
  PROVE  IInv'
<1> DEFINE l == Len(conf.targets)
           T == Target
           deps == DependenciesForModule(T) \cup {T}
<1>1. /\ conf \in Confs /\ initialised \in SUBSET Modules /\ next \in Nat
      /\ stopDeps \in [Modules -> SUBSET Modules]
      /\ wrapper \in [Modules -> Wrappers] /\ inner \in [Modules -> States]
      /\ told \in SUBSET Modules /\ orphans \in SUBSET Modules
      /\ used \in [{"maxStops", "maxFailures"} -> Nat]
  BY DEF IInv, Types
<1>2. next \in 1..l /\ l \in Nat /\ UNCHANGED <<conf, wrapper, inner, told, orphans, used>>
  BY <1>1, ConfFacts DEF initModule, InitFails
<1>3. Services = {} /\ Modules' = Modules
  BY <1>2 DEF Services, Modules
<1>4. \A m \in Modules : /\ wrapper[m].state = "New" /\ wrapper[m].pc = "none" /\ inner[m] = "New" /\ m \notin told
  <2> SUFFICES ASSUME NEW m \in Modules
               PROVE  wrapper[m].state = "New" /\ wrapper[m].pc = "none" /\ inner[m] = "New" /\ m \notin told
    OBVIOUS
  <2>1. WrapperInv(m) /\ wrapper[m].pc \in PCs
    BY <1>1 DEF IInv, Wrappers
  <2>2. wrapper[m].state = "New"
    BY <1>3, <2>1 DEF WrapperInv
  <2> QED
    BY <2>1, <2>2 DEF WrapperInv, StateOf, Terminal, PCs
<1>5. told = {}
  BY <1>1, <1>4
<1>6. /\ initialised' \in SUBSET Modules /\ next' \in Nat /\ stopDeps' \in [Modules -> SUBSET Modules]
      /\ next' # 1
  <2>1. CASE InitFails
    BY <1>1, <2>1 DEF InitFails
  <2>2. CASE initModule
    <3>1. T \in Modules /\ next' = next + 1 /\ initialised' = initialised \cup deps
          /\ stopDeps' = [m \in Modules |-> IF m \in deps \ initialised THEN findInverseDependencies(m, T) ELSE stopDeps[m]]
      BY <2>2 DEF initModule
    <3>2. deps \in SUBSET Modules
      BY <1>1, <3>1, DepsFacts
    <3>3. \A m \in Modules : findInverseDependencies(m, T) \in SUBSET Modules
      BY <3>2 DEF findInverseDependencies
    <3> QED
      BY <1>1, <1>2, <3>1, <3>2, <3>3
  <2> QED
    BY <2>1, <2>2
<1>7. Types' /\ InitInv'
  <2>1. Wrappers' = Wrappers
    BY <1>3 DEF Wrappers
  <2> QED
    BY <1>1, <1>2, <1>3, <1>6, <2>1 DEF Types, InitInv
<1>8. ASSUME NEW m \in Modules
      PROVE  WrapperInv(m)' /\ StartInv(m)' /\ StopInv(m)'
  <2>1. /\ wrapper'[m].state = "New" /\ wrapper'[m].pc = "none" /\ inner'[m] = "New" /\ m \notin told'
    BY <1>2, <1>4
  <2> QED
    BY <2>1 DEF WrapperInv, StartInv, StopInv, StateOf, InUse
<1>9. EndsWhenTold'
  BY <1>2, <1>3, <1>4 DEF EndsWhenTold, Terminal
<1>10. NobodyUsesTheStopped'
  BY <1>2, <1>5 DEF NobodyUsesTheStopped
<1>11. AllDependants'
  <2> SUFFICES ASSUME Whole', NEW m \in Services', NEW d \in conf.deps[m]
               PROVE  d \in Services' /\ m \in stopDeps'[d]
    BY <1>2 DEF AllDependants
  <2>1. l = 1 /\ conf.serviced = Modules /\ next = 1 /\ initialised = {}
    <3>1. l = 1 /\ conf.serviced = Modules
      BY <1>2, <1>3 DEF Whole
    <3>2. next = 1
      BY <1>2, <3>1
    <3> QED
      BY <3>1, <3>2 DEF IInv, InitInv
  <2>2. next' = 2
    BY <1>2, <2>1 DEF Services
  <2>3. /\ T \in Modules /\ initialised' = deps
        /\ stopDeps' = [x \in Modules |-> IF x \in deps THEN findInverseDependencies(x, T) ELSE stopDeps[x]]
    BY <2>1, <2>2 DEF initModule, InitFails
  <2>4. deps \in SUBSET Modules
    BY <1>1, <2>3, DepsFacts
  <2>5. Services' = deps
    BY <1>2, <2>1, <2>2, <2>3, <2>4 DEF Services
  <2>6. d \in deps /\ m \in deps
    BY <1>1, <2>3, <2>5, DepsFacts
  <2>7. m \in findInverseDependencies(d, T)
    BY <2>6 DEF findInverseDependencies
  <2> HIDE DEF deps
  <2> QED
    BY <2>3, <2>4, <2>5, <2>6, <2>7
<1> QED
  BY <1>3, <1>7, <1>8, <1>9, <1>10, <1>11 DEF IInv


-----------------------------------------------------------------------------
(***************************************************************************)
(* The invariant holds at the beginning and after every step.              *)
(***************************************************************************)
LEMMA InitIInv == Init => IInv
<1> SUFFICES ASSUME Init
             PROVE  IInv
  OBVIOUS
<1> DEFINE w == [state |-> "New", pc |-> "none", waiting |-> {}, cancelled |-> FALSE]
<1>1. /\ conf \in Confs /\ initialised = {} /\ next = 1 /\ stopDeps = [m \in Modules |-> {}]
      /\ wrapper = [m \in Modules |-> w] /\ inner = [m \in Modules |-> "New"] /\ told = {} /\ orphans = {}
      /\ used = [maxStops |-> 0, maxFailures |-> 0]
  BY DEF Init
<1>2. w \in Wrappers /\ w.state = "New" /\ w.pc = "none"
  BY DEF Wrappers, States, PCs
<1> HIDE DEF w
<1>3. Services = {}
  BY <1>1 DEF Services
<1>4. Types
  <2>1. used \in [{"maxStops", "maxFailures"} -> Nat]
    BY <1>1
  <2> QED
    BY <1>1, <1>2, <2>1 DEF Types, States
<1>5. \A m \in Modules : WrapperInv(m) /\ StartInv(m) /\ StopInv(m)
  BY <1>1, <1>2 DEF WrapperInv, StartInv, StopInv, StateOf, InUse
<1>6. InitInv /\ AllDependants /\ EndsWhenTold /\ NobodyUsesTheStopped
  BY <1>1, <1>3 DEF InitInv, AllDependants, EndsWhenTold, NobodyUsesTheStopped, Terminal
<1> QED
  BY <1>4, <1>5, <1>6 DEF IInv

\* Stuttering.
LEMMA SameIInv ==
  ASSUME IInv, UNCHANGED vars
  PROVE  IInv'
<1>1. /\ Modules' = Modules /\ Services' = Services /\ conf' = conf /\ stopDeps' = stopDeps
      /\ initialised' = initialised /\ next' = next /\ Whole' = Whole
      /\ \A x : DependenciesForModule(x)' = DependenciesForModule(x)
      /\ \A x : startDeps(x)' = startDeps(x)
  BY SameDeps DEF vars
<1>2. wrapper' = wrapper /\ inner' = inner /\ told' = told /\ orphans' = orphans /\ used' = used
  BY DEF vars
<1>3. Types' /\ InitInv'
  BY <1>1, <1>2 DEF IInv, Types, InitInv, Wrappers
<1>4. \A m \in Modules : WrapperInv(m)' /\ StartInv(m)' /\ StopInv(m)'
  BY <1>1, <1>2 DEF IInv, WrapperInv, StartInv, StopInv, InUse, HasRun, Over
<1>5. AllDependants' /\ EndsWhenTold' /\ NobodyUsesTheStopped'
  BY <1>1, <1>2 DEF IInv, AllDependants, EndsWhenTold, NobodyUsesTheStopped, NotUsed, PastRunning, Undisturbed
<1> QED
  BY <1>1, <1>3, <1>4, <1>5 DEF IInv

\* Which services there are is settled when the first one can be stopped.
LEMMA NextStopsServices == IInv /\ StopsServices /\ [Next]_vars => StopsServices'
<1> SUFFICES ASSUME IInv, StopsServices, [Next]_vars
             PROVE  StopsServices'
  OBVIOUS
<1>1. CASE initModule \/ InitFails
  <2>1. conf \in Confs /\ next \in DOMAIN conf.targets /\ stopping' = stopping
    BY <1>1 DEF initModule, InitFails, IInv, Types
  <2>2. next \in 1..Len(conf.targets) /\ Len(conf.targets) \in Nat
    BY <2>1, AcyclicAssumption
  <2>3. stopping = {}
    BY <2>2 DEF StopsServices, Services
  <2> QED
    BY <2>1, <2>3 DEF StopsServices
<1>2. ASSUME UNCHANGED initVars, stopping' = stopping \/ stopping' = Services \/ \E m \in Modules : stopping' = stopping \ {m}
      PROVE  StopsServices'
  <2>1. Services' = Services
    BY <1>2, SameDeps
  <2> QED
    BY <1>2, <2>1 DEF StopsServices
<1>3. CASE StopAll \/ \E m \in Modules : StopNext(m)
  BY <1>2, <1>3 DEF StopAll, StopNext
<1>4. CASE UNCHANGED vars \/ \E m \in Modules : StartAsync(m) \/ StopAsync(m)
  BY <1>2, <1>4 DEF vars, StartAsync, StopAsync
<1>5. ASSUME NEW m \in Modules, WrapperSteps(m) \/ InnerSteps(m) \/ InnerEnds(m)
      PROVE  StopsServices'
  <2>1. UNCHANGED <<initVars, stopping>>
    BY <1>5 DEF WrapperSteps, DependencyRuns, DependencyFails, StartInner, Started, StartFails, RunEnds, Stop,
                DependantStops, StopInner, InnerStopped, InnerSteps, InnerEnds
  <2> QED
    BY <1>2, <2>1
<1> QED
  BY <1>1, <1>3, <1>4, <1>5 DEF Next

\* Every step keeps the invariant.
LEMMA NextIInv == IInv /\ StopsServices /\ [Next]_vars => IInv'
<1> SUFFICES ASSUME IInv, StopsServices, [Next]_vars
             PROVE  IInv'
  OBVIOUS
<1>1. CASE UNCHANGED vars
  BY <1>1, SameIInv
<1>2. CASE initModule \/ InitFails
  BY <1>2, InitialisingInv
<1>3. CASE StopAll \/ \E m \in Modules : StopAsync(m) \/ StopNext(m)
  BY <1>3, StoppingInv
<1>4. ASSUME NEW m \in Modules, StartAsync(m) \/ WrapperSteps(m) \/ InnerSteps(m) \/ InnerEnds(m)
      PROVE  IInv'
  <2>1. CASE StartAsync(m)
    BY <2>1, StartAsyncInv
  <2>2. CASE WrapperSteps(m)
    <3>1. CASE DependencyRuns(m)
      BY <3>1, DependencyRunsInv
    <3>2. CASE StartInner(m)
      BY <3>2, StartInnerInv
    <3>3. CASE StopInner(m)
      BY <3>3, StopInnerInv
    <3>4. CASE Stop(m) \/ DependantStops(m)
      BY <3>4, WaitInv, SetStepsInv
    <3>5. CASE DependencyFails(m) \/ Started(m) \/ StartFails(m) \/ RunEnds(m) \/ InnerStopped(m)
      BY <3>5, SetStepsInv
    <3> QED
      BY <2>2, <3>1, <3>2, <3>3, <3>4, <3>5 DEF WrapperSteps
  <2>3. CASE InnerSteps(m) \/ InnerEnds(m)
    BY <2>3, InnerInv
  <2> QED
    BY <1>4, <2>1, <2>2, <2>3
<1> QED
  BY <1>1, <1>2, <1>3, <1>4 DEF Next

\* So it holds throughout.
LEMMA IInvHolds == Spec => []IInv
<1>1. Init => StopsServices
  BY DEF Init, StopsServices
<1> QED
  BY <1>1, InitIInv, NextIInv, NextStopsServices, PTL DEF Spec

(***************************************************************************)
(* Of any application: a service starts after all that its module depends  *)
(* on, and stops before it.  The start waits for all dependencies, the     *)
(* stop only for direct dependants; what is between the two makes up for   *)
(* the difference.                                                         *)
(***************************************************************************)
THEOREM ModulesAreOrdered == Spec => []DependencyOrder
<1>1. ASSUME IInv
      PROVE  StartsAfterDependencies
  <2>1. Services \in SUBSET Modules
    BY <1>1 DEF IInv, Types, Services
  <2>2. \A m \in Services : StartInv(m)
    BY <1>1, <2>1 DEF IInv
  <2> QED
    BY <2>2 DEF StartsAfterDependencies, StartInv, startDeps, HasRun
<1>2. ASSUME IInv, Whole, NEW d \in told, NEW m \in Services
      PROVE  /\ d \in conf.deps[m] /\ m \notin orphans => ~InUse(m)
             /\ d \in DependenciesForModule(m) /\ Undisturbed => ~InUse(m)
  <2>1. m \in Modules /\ WrapperInv(m) /\ wrapper[m].pc \in PCs /\ d \in Modules
    BY <1>2 DEF IInv, Types, Services, Wrappers
  <2>2. ASSUME d \in conf.deps[m], m \notin orphans
        PROVE  ~InUse(m)
    <3>1. m \in stopDeps[d]
      BY <1>2, <2>2 DEF IInv, AllDependants
    <3>2. Over(m)
      BY <1>2, <2>1, <3>1 DEF IInv, StopInv
    <3>3. wrapper[m].pc = "none"
      BY <2>1, <3>2 DEF WrapperInv, Over, StateOf, Terminal, PCs
    <3> QED
      BY <2>1, <2>2, <3>3 DEF WrapperInv
  <2>3. ASSUME d \in DependenciesForModule(m), Undisturbed
        PROVE  ~InUse(m)
    <3>1. NotUsed(m) /\ m \notin orphans
      BY <1>2, <2>3 DEF IInv, NobodyUsesTheStopped, Undisturbed
    <3> QED
      BY <2>1, <3>1 DEF WrapperInv, NotUsed
  <2> QED
    BY <2>2, <2>3
<1>3. IInv => DependencyOrder
  BY <1>1, <1>2 DEF DependencyOrder, StopsBeforeDependencies, Whole
<1> QED
  BY <1>3, IInvHolds, PTL
=============================================================================
