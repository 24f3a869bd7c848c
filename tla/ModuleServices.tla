-------------------------- MODULE ModuleServices --------------------------
(***************************************************************************)
(* modules/: the modules of an application are initialised in the order of *)
(* their dependencies, and the service of each is wrapped in one that      *)
(* starts after the services it depends on and stops before them.  The     *)
(* wrapper is a BasicService; of the service inside only its states are    *)
(* kept.                                                                   *)
(***************************************************************************)
EXTENDS Naturals, FiniteSets, Sequences

CONSTANTS Confs   \* applications

(***************************************************************************)
(* deps, the direct dependencies of each module; serviced, the modules     *)
(* whose initFn returns a service; targets, given to InitModuleServices;   *)
(* and the bounds maxStops (of single modules) and maxFailures.            *)
(***************************************************************************)
VARIABLES
  conf,
  initialised,  \* initMap
  next,         \* the target that is initialised next; 0 after an error
  stopDeps,     \* module -> findInverseDependencies, when it was initialised
  wrapper,      \* module -> [state, pc, waiting, cancelled]
  inner,        \* module -> the state of its own service
  told,         \* the modules whose wrapper has stopped their service
  orphans,      \* the modules that failed to start and left their service as it was
  used,         \* what is used up of the bounds
  stopping      \* the services whose StopAsync the manager of the services has still to call

initVars == <<conf, initialised, next, stopDeps>>
vars == <<initVars, wrapper, inner, told, orphans, used, stopping>>

Modules == DOMAIN conf.deps
Terminal == {"Terminated", "Failed"}

(***************************************************************************)
(* Every dependency is a module, or listDeps panics; and there is no       *)
(* cycle, or it does not return.                                           *)
(***************************************************************************)
ASSUME AcyclicAssumption ==
  \A c \in Confs :
    LET M == DOMAIN c.deps IN
    /\ IsFiniteSet(M) /\ DOMAIN c.targets = 1..Len(c.targets) /\ Len(c.targets) \in Nat
    /\ \A m \in M : c.deps[m] \subseteq M
    /\ \E rank \in [M -> 1..Cardinality(M)] : \A m \in M : \A d \in c.deps[m] : rank[d] < rank[m]

-----------------------------------------------------------------------------
\* listDeps goes on to the dependencies of what it finds.
Closed(S) == \A n \in S : conf.deps[n] \subseteq S

\* All that a module depends on, directly or not.
DependenciesForModule(m) ==
  {d \in Modules : \A S \in SUBSET Modules : (conf.deps[m] \subseteq S /\ Closed(S)) => d \in S}

\* Fault: only the target itself is searched.
findInverseDependencies_Target(mod, target) == {n \in {target} : mod \in conf.deps[n]}

(***************************************************************************)
(* orderedDeps yields any order in which modules follow their dependencies *)
(* (a map is ranged over), with the target last: what depends on a module  *)
(* comes after it in all of them.                                          *)
(***************************************************************************)
findInverseDependencies(mod, target) == {n \in DependenciesForModule(target) \cup {target} : mod \in conf.deps[n]}

Target == conf.targets[next]

initModule ==
  LET deps == DependenciesForModule(Target) \cup {Target} IN
  /\ next \in DOMAIN conf.targets /\ Target \in Modules
  /\ initialised' = initialised \cup deps
  /\ stopDeps' = [m \in Modules |-> IF m \in deps \ initialised THEN findInverseDependencies(m, Target) ELSE stopDeps[m]]
  /\ next' = next + 1
  /\ UNCHANGED <<conf, wrapper, inner, told, orphans, used, stopping>>

\* An unknown name, or an initFn with an error.
InitFails ==
  /\ next \in DOMAIN conf.targets
  /\ IF Target \in Modules THEN used.maxFailures < conf.maxFailures ELSE TRUE
  /\ next' = 0
  /\ UNCHANGED <<conf, initialised, stopDeps, wrapper, inner, told, orphans, used, stopping>>

\* servicesMap: complete when the first service starts.
Services == IF next = Len(conf.targets) + 1 THEN initialised \cap conf.serviced ELSE {}

startDeps(m) == DependenciesForModule(m) \cap Services

-----------------------------------------------------------------------------
Init ==
  /\ conf \in Confs
  /\ initialised = {} /\ next = 1
  /\ stopDeps = [m \in Modules |-> {}]
  /\ wrapper = [m \in Modules |-> [state |-> "New", pc |-> "none", waiting |-> {}, cancelled |-> FALSE]]
  /\ inner = [m \in Modules |-> "New"]
  /\ told = {} /\ orphans = {}
  /\ used = [maxStops |-> 0, maxFailures |-> 0] /\ stopping = {}

Use(bound) == used[bound] < conf[bound] /\ used' = [used EXCEPT ![bound] = @ + 1]

Set(m, state, pc) == wrapper' = [wrapper EXCEPT ![m].state = state, ![m].pc = pc]

\* StartAsync of the wrapper, by whoever runs the services.
StartAsync(m) ==
  /\ m \in Services /\ wrapper[m].state = "New"
  /\ wrapper' = [wrapper EXCEPT ![m] = [@ EXCEPT !.state = "Starting", !.pc = "deps", !.waiting = startDeps(m)]]
  /\ UNCHANGED <<initVars, inner, told, orphans, used, stopping>>

Stopped(w) == IF w.state = "New" THEN [w EXCEPT !.state = "Terminated"] ELSE [w EXCEPT !.cancelled = TRUE]

StopAsync(m) ==
  /\ m \in Services /\ wrapper[m].state \notin Terminal /\ ~wrapper[m].cancelled /\ Use("maxStops")
  /\ wrapper' = [wrapper EXCEPT ![m] = Stopped(@)]
  /\ UNCHANGED <<initVars, inner, told, orphans, stopping>>

\* StopAsync of the manager of all services, which calls one after the other in whatever order it has them.
StopAll ==
  /\ stopping = {} /\ \E m \in Services : wrapper[m].state \notin Terminal /\ ~wrapper[m].cancelled
  /\ stopping' = Services
  /\ UNCHANGED <<initVars, wrapper, inner, told, orphans, used>>

StopNext(m) ==
  /\ m \in stopping
  /\ wrapper' = [wrapper EXCEPT ![m] = Stopped(@)]
  /\ stopping' = stopping \ {m}
  /\ UNCHANGED <<initVars, inner, told, orphans, used>>

-----------------------------------------------------------------------------
(***************************************************************************)
(* start: AwaitRunning of one dependency after the other, in any order;    *)
(* the context, or a dependency that is past Running, makes it fail.       *)
(***************************************************************************)
DependencyRuns(m) ==
  /\ wrapper[m].pc = "deps"
  /\ \E d \in wrapper[m].waiting :
       /\ wrapper[d].state = "Running"
       /\ wrapper' = [wrapper EXCEPT ![m].waiting = @ \ {d}]
  /\ UNCHANGED <<initVars, inner, told, orphans, used, stopping>>

DependencyFails(m) ==
  /\ wrapper[m].pc = "deps"
  /\ \E d \in wrapper[m].waiting : wrapper[m].cancelled \/ wrapper[d].state \in Terminal \cup {"Stopping"}
  /\ Set(m, "Failed", "none")
  /\ UNCHANGED <<initVars, inner, told, orphans, used, stopping>>

\* The service gets a context of its own.
StartInner(m) ==
  /\ wrapper[m].pc = "deps" /\ wrapper[m].waiting = {}
  /\ Set(m, "Starting", "await")
  /\ inner' = [inner EXCEPT ![m] = "Starting"]
  /\ UNCHANGED <<initVars, told, orphans, used, stopping>>

\* main of BasicService: a context that has ended by now leads to Stopping.
Started(m) ==
  /\ wrapper[m].pc = "await" /\ inner[m] = "Running"
  /\ IF wrapper[m].cancelled THEN Set(m, "Stopping", "stop") ELSE Set(m, "Running", "run")
  /\ UNCHANGED <<initVars, inner, told, orphans, used, stopping>>

\* When start fails nobody stops the service it has started.
StartFails(m) ==
  /\ wrapper[m].pc = "await" /\ (wrapper[m].cancelled \/ inner[m] \notin {"Starting", "Running"})
  /\ Set(m, "Failed", "none")
  /\ orphans' = IF inner[m] \in Terminal THEN orphans ELSE orphans \cup {m}
  /\ UNCHANGED <<initVars, inner, told, used, stopping>>

\* Fault: the end of the context is not noticed.
RunOver_Inner(m) == inner[m] \in Terminal

\* run waits for the service or for the context.
RunOver(m) == wrapper[m].cancelled \/ inner[m] \in Terminal

RunEnds(m) ==
  /\ wrapper[m].pc = "run" /\ RunOver(m)
  /\ Set(m, "Stopping", "stop")
  /\ UNCHANGED <<initVars, inner, told, orphans, used, stopping>>

\* Whether the wrapper ends as Failed.
Ended(m) == IF inner[m] = "Failed" THEN "Failed" ELSE "Terminated"

\* stop: only a service that is running is waited for and stopped.
Stop(m) ==
  /\ wrapper[m].pc = "stop"
  /\ IF inner[m] = "Running"
     THEN wrapper' = [wrapper EXCEPT ![m].pc = "dependants", ![m].waiting = stopDeps[m] \cap Services]
     ELSE Set(m, Ended(m), "none")
  /\ UNCHANGED <<initVars, inner, told, orphans, used, stopping>>

\* waitForModulesToStop: however they stop, and without a deadline.
DependantStops(m) ==
  /\ wrapper[m].pc = "dependants"
  /\ \E n \in wrapper[m].waiting :
       /\ wrapper[n].state \in Terminal
       /\ wrapper' = [wrapper EXCEPT ![m].waiting = @ \ {n}]
  /\ UNCHANGED <<initVars, inner, told, orphans, used, stopping>>

\* StopAndAwaitTerminated.
StopInner(m) ==
  /\ wrapper[m].pc = "dependants" /\ wrapper[m].waiting = {}
  /\ Set(m, "Stopping", "stopping")
  /\ inner' = [inner EXCEPT ![m] = IF @ = "Running" THEN "Stopping" ELSE @]
  /\ told' = told \cup {m}
  /\ UNCHANGED <<initVars, orphans, used, stopping>>

InnerStopped(m) ==
  /\ wrapper[m].pc = "stopping" /\ inner[m] \in Terminal
  /\ Set(m, Ended(m), "none")
  /\ UNCHANGED <<initVars, inner, told, orphans, used, stopping>>

WrapperSteps(m) ==
  \/ DependencyRuns(m) \/ DependencyFails(m) \/ StartInner(m) \/ Started(m) \/ StartFails(m)
  \/ RunEnds(m) \/ Stop(m) \/ DependantStops(m) \/ StopInner(m) \/ InnerStopped(m)

-----------------------------------------------------------------------------
\* The service inside starts and stops when it is told to.
InnerSteps(m) ==
  /\ inner[m] \in {"Starting", "Stopping"}
  /\ inner' = [inner EXCEPT ![m] = IF @ = "Starting" THEN "Running" ELSE "Terminated"]
  /\ UNCHANGED <<initVars, wrapper, told, orphans, used, stopping>>

\* It fails, or comes to an end by itself.
InnerEnds(m) ==
  /\ inner[m] \in {"Starting", "Running", "Stopping"} /\ Use("maxFailures")
  /\ \/ inner' = [inner EXCEPT ![m] = "Failed"]
     \/ inner[m] = "Running" /\ inner' = [inner EXCEPT ![m] = "Stopping"]
  /\ UNCHANGED <<initVars, wrapper, told, orphans, stopping>>

Next ==
  \/ initModule \/ InitFails \/ StopAll
  \/ \E m \in Modules : StartAsync(m) \/ StopAsync(m) \/ StopNext(m) \/ WrapperSteps(m) \/ InnerSteps(m) \/ InnerEnds(m)

(***************************************************************************)
(* The goroutine of every wrapper runs, as does the one that stops all,    *)
(* and no service hangs.                                                   *)
(***************************************************************************)
Fairness == \A m \in UNION {DOMAIN c.deps : c \in Confs} :
  WF_vars(m \in Modules /\ (WrapperSteps(m) \/ InnerSteps(m))) /\ WF_vars(m \in Modules /\ StopNext(m))

Spec == Init /\ [][Next]_vars /\ Fairness

-----------------------------------------------------------------------------
(***************************************************************************)
(* "they start after their dependencies have been started": when a service *)
(* is started every service it depends on, directly or not, has been       *)
(* running, also if a module between them has no service or another target *)
(* has brought it in.                                                      *)
(***************************************************************************)
StartsAfterDependencies ==
  \A m \in Services : inner[m] # "New" => \A d \in DependenciesForModule(m) \cap Services : inner[d] \notin {"New", "Starting"}

\* No service has ended by itself or was left behind.
Undisturbed == used.maxFailures = 0 /\ orphans = {}

(***************************************************************************)
(* "and stop before their dependencies are stopped": a wrapper does not    *)
(* stop its service while one that directly depends on it runs, unless     *)
(* that one was left behind when its start was interrupted; and, if        *)
(* nothing has failed, not while one further up runs.  Of an application   *)
(* with one target whose modules all have services.                        *)
(***************************************************************************)
InUse(m) == inner[m] \in {"Starting", "Running"}

StopsBeforeDependencies ==
  (Len(conf.targets) = 1 /\ conf.serviced = Modules) =>
    \A d \in told : \A m \in Services :
      /\ d \in conf.deps[m] /\ m \notin orphans => ~InUse(m)
      /\ d \in DependenciesForModule(m) /\ Undisturbed => ~InUse(m)

(***************************************************************************)
(* Modules wait for others to start and for others to stop, the latter     *)
(* without a deadline: once all are being stopped, one after the other and *)
(* from whatever they are doing, all of them end.                          *)
(***************************************************************************)
StopOfAllEnds == stopping # {} ~> \A m \in Services : wrapper[m].state \in Terminal

(***************************************************************************)
(* If all are started all of them get to run, or one fails or is stopped.  *)
(***************************************************************************)
StartOfAllRuns ==
  (Services # {} /\ \A m \in Services : wrapper[m].state # "New")
    ~> (\/ \A m \in Services : wrapper[m].state = "Running"
        \/ \E m \in Services : wrapper[m].cancelled \/ wrapper[m].state \in Terminal)

(***************************************************************************)
(* Services start after what they depend on and stop before it, for the    *)
(* two lists of modules from which the code takes the one order and the    *)
(* other.                                                                  *)
(***************************************************************************)
DependencyOrder == StartsAfterDependencies /\ StopsBeforeDependencies

(***************************************************************************)
(* Waiting for dependencies to start, and for dependants to stop, comes to *)
(* an end.                                                                 *)
(***************************************************************************)
NobodyWaitsForEver == StopOfAllEnds /\ StartOfAllRuns
=============================================================================
