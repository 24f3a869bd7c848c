------------------------- MODULE MCServiceManager -------------------------
(***************************************************************************)
(* ServiceManager for TLC.  A behaviour either adds listeners or calls the *)
(* Await methods: the two only meet in what the manager does, and together *)
(* they multiply the states.                                               *)
(***************************************************************************)
EXTENDS ServiceManager

ListenersOrWaiters ==
  \/ \A l \in Listeners : chanState[l] = "none"
  \/ \A w \in Waiters : waiter[w].pc = "idle"

MCFairSpec == Init /\ [][Next /\ ListenersOrWaiters']_vars /\ Fairness
=============================================================================
