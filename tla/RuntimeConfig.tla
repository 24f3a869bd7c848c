--------------------------- MODULE RuntimeConfig ---------------------------
(***************************************************************************)
(* runtimeconfig/manager.go: the file is loaded when the manager starts    *)
(* and with every tick from then on, and what is loaded is sent to the     *)
(* listeners that have room for it.  One listener is modelled: the one     *)
(* that feeds MultiClient.                                                 *)
(***************************************************************************)
EXTENDS KVConf, Sequences

VARIABLES
  file,       \* the content of the file: [ok, cfg]
  manager,    \* [pc, config]: "new", "running", "notify", "stopped", "failed"; GetConfig's value
  listener    \* [state, buf, closes]: "none", "open" or "closed"; how often it was closed

managerVars == <<file, manager, listener>>

NoConfig == [primary |-> "", mirroring |-> "nil"]

ManagerInit ==
  /\ file \in {[ok |-> TRUE, cfg |-> c] : c \in conf.files}
  /\ manager = [pc |-> "new", config |-> NoConfig, listening |-> FALSE]
  /\ listener = [state |-> "none", buf |-> <<>>, closes |-> 0]

\* Somebody edits the file, and may get it wrong.
FileChanges ==
  /\ Use("maxEdits")
  /\ file' \in {[ok |-> b, cfg |-> c] : b \in BOOLEAN, c \in conf.files}
  /\ UNCHANGED <<conf, manager, listener>>

-----------------------------------------------------------------------------
(***************************************************************************)
(* loadConfig, by starting or with a tick: setConfig and callListeners are *)
(* two lock sections.  Without a good file starting fails, and what a tick *)
(* finds is ignored.                                                       *)
(***************************************************************************)
LoadConfig ==
  /\ manager.pc \in {"new", "running"} /\ file.ok
  /\ manager' = [manager EXCEPT !.config = file.cfg, !.pc = "notify"]
  /\ UNCHANGED <<conf, used, file, listener>>

LoadFails ==
  /\ manager.pc = "new" /\ ~file.ok
  /\ manager' = [manager EXCEPT !.pc = "failed"]
  /\ UNCHANGED <<conf, used, file, listener>>

(***************************************************************************)
(* "nobody is listening or buffer full": a value is dropped.  A channel    *)
(* without a buffer takes a value if its receiver waits.                   *)
(***************************************************************************)
HasRoom(waiting) == Len(listener.buf) < conf.buffer \/ (waiting /\ listener.buf = <<>>)

callListeners(waiting) ==
  /\ manager.pc = "notify"
  /\ manager' = [manager EXCEPT !.pc = "running"]
  /\ listener' = IF manager.listening /\ HasRoom(waiting)
                 THEN [listener EXCEPT !.buf = Append(@, manager.config)] ELSE listener
  /\ UNCHANGED <<conf, used, file>>

-----------------------------------------------------------------------------
\* listening: the channel is in om.listeners.
CreateListenerChannel ==
  /\ listener.state = "none"
  /\ listener' = [listener EXCEPT !.state = "open"]
  /\ manager' = [manager EXCEPT !.listening = TRUE]
  /\ UNCHANGED <<conf, used, file>>

Closed == [listener EXCEPT !.state = "closed", !.closes = @ + 1]

CloseListenerChannel ==
  /\ manager.listening /\ Use("maxCloses")
  /\ listener' = Closed
  /\ manager' = [manager EXCEPT !.listening = FALSE]
  /\ UNCHANGED <<conf, file>>

StoppedManager == [manager EXCEPT !.pc = "stopped", !.listening = FALSE]

\* The context ends between two ticks, and stopping closes all channels.
StopManager ==
  /\ manager.pc = "running" /\ Use("maxStops")
  /\ listener' = IF manager.listening THEN Closed ELSE listener
  /\ manager' = StoppedManager
  /\ UNCHANGED <<conf, file>>

(***************************************************************************)
(* A listener's channel is closed once, by CloseListenerChannel or by the  *)
(* manager that stops, and nothing is sent to it from then on: either      *)
(* would be a panic.                                                       *)
(***************************************************************************)
ListenerClosedOnce ==
  /\ listener.closes <= 1
  /\ listener.state = "closed" => ~manager.listening
=============================================================================
