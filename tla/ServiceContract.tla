------------------------- MODULE ServiceContract -------------------------
(***************************************************************************)
(* What the Service interface (services/service.go) promises about the     *)
(* state of a service: the states, the transitions between them, and that  *)
(* a service has a failure case exactly when it is Failed.  BasicService   *)
(* implements it; ServiceManager is built on it.                           *)
(***************************************************************************)
VARIABLES state, failureCase

vars == <<state, failureCase>>

States == {"New", "Starting", "Running", "Stopping", "Terminated", "Failed"}

Terminal == {"Terminated", "Failed"}

(***************************************************************************)
(* The failure case of a service is the error of the first of its three    *)
(* functions that failed; only its origin matters here.                    *)
(***************************************************************************)
NoError == "nil"
Errors == {"startFn", "runningFn", "stoppingFn"}

(***************************************************************************)
(* The transitions a service may take.  <<"Starting", "Stopping">> is the  *)
(* case of a service told to stop while it starts.                         *)
(***************************************************************************)
Transitions ==
  { <<"New", "Starting">>, <<"New", "Terminated">>,
    <<"Starting", "Running">>, <<"Starting", "Stopping">>,
    <<"Starting", "Failed">>, <<"Running", "Stopping">>,
    <<"Stopping", "Terminated">>, <<"Stopping", "Failed">> }

Init == state = "New" /\ failureCase = NoError

Move(to) ==
  /\ <<state, to>> \in Transitions
  /\ state' = to
  /\ IF to = "Failed" THEN failureCase' \in Errors
                      ELSE UNCHANGED failureCase

Next == \E to \in States : Move(to)

Spec == Init /\ [][Next]_vars
=============================================================================
