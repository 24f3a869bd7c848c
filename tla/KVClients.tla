----------------------------- MODULE KVClients -----------------------------
(***************************************************************************)
(* The kv.Client implementations over stores outside the process: consul,  *)
(* etcd, and the MultiClient over several stores with the runtime          *)
(* configuration that drives it.  conf.store says which of them runs, and  *)
(* the variables of the others stay as they are.                           *)
(***************************************************************************)
EXTENDS RemoteStore, MultiClient

(***************************************************************************)
(* What a configuration says: the keys that are written, the capacity of   *)
(* the channel of the runtime configuration, whether writes are mirrored   *)
(* at first, and the bounds of what may happen.                            *)
(***************************************************************************)
ASSUME ConfsAssumption ==
  /\ {"maxCalls", "maxDeletes", "maxErrors", "maxResets", "maxBreaks", "maxEdits", "maxCloses", "maxStops"} = Bounds
  /\ \A c \in Confs : c.keys \subseteq Keys /\ c.buffer \in Nat /\ c.mirroring \in BOOLEAN

vars == <<conf, used, remoteVars, multiVars>>

Init == ConfInit /\ RemoteInit /\ ManagerInit /\ MultiInit

IsMulti == conf.store = "multi"

Next ==
  \/ ~IsMulti /\ RemoteNext /\ UNCHANGED multiVars
  \/ IsMulti /\ MultiNext /\ UNCHANGED remoteVars

(***************************************************************************)
(* Every goroutine runs, and the ticker of the manager ticks.              *)
(***************************************************************************)
Fairness ==
  /\ WF_vars(~IsMulti /\ QuerySteps /\ UNCHANGED multiVars)
  /\ WF_vars(IsMulti /\ (LoadConfig \/ callListeners(switch.pc = "select")) /\ UNCHANGED <<clientVars, remoteVars>>)
  /\ WF_vars(IsMulti /\ SwitchSteps /\ UNCHANGED remoteVars)
  /\ \A w \in Watchers : WF_vars(IsMulti /\ FnSteps(w) /\ UNCHANGED remoteVars)

Spec == Init /\ [][Next]_vars /\ Fairness

\* Every variable holds a value of its kind, and no channel more than its capacity.
StoresTypeOK == RemoteTypeOK /\ MultiTypeOK

(***************************************************************************)
(* Indexes left from earlier attempts make an attempt of a CAS fail that   *)
(* nobody has disturbed in one case only, etcd's with a key deleted        *)
(* between two attempts; and a listener's channel is closed once, whoever  *)
(* does it first.                                                          *)
(***************************************************************************)
ClientsAreSound == StoresTypeOK /\ ListenerClosedOnce /\ RefusedOnlyIfDisturbed

(***************************************************************************)
(* MultiClient follows the runtime configuration: the primary becomes what *)
(* the file says, although values are dropped on the way, and the watches  *)
(* go over to it.                                                          *)
(***************************************************************************)
FollowsFile == FileIsApplied /\ SwitchRestartsWatches
=============================================================================
