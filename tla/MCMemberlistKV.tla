-------------------------- MODULE MCMemberlistKV --------------------------
(***************************************************************************)
(* MemberlistKV for TLC.                                                   *)
(***************************************************************************)
EXTENDS MemberlistKV, TLC

Symmetry == Permutations(Nodes) \cup Permutations(Callers)

\* An instance may move between nodes, or has one node of its own.
AnyHome == [i \in Instances |-> Nodes]
OneHome ==
  LET h == CHOOSE f \in [Instances -> Nodes] : \A i, j \in Instances : i # j => f[i] # f[j]
  IN [i \in Instances |-> {h[i]}]

SharedToken == [i \in Instances |-> {1}]
TokenEach == [i \in Instances |-> {i}]

(***************************************************************************)
(* The instances that are written, or are about to be.                     *)
(***************************************************************************)
Named ==
  UNION ({DOMAIN store[n].value : n \in Nodes}
           \cup {DOMAIN cas[n][c].out : n \in Nodes, c \in Callers})

(***************************************************************************)
(* The bounds of the safety run: at most three values on the network, two  *)
(* if a node stops; a third CAS call, which a version mismatch takes, with *)
(* instance 1 only, in the first second and without stops.                 *)
(***************************************************************************)
FewValuesAndCalls ==
  /\ Cardinality(net) + stops <= 3
  /\ calls > 2 => stops = 0 /\ now = 1 /\ Named \subseteq {1}

(***************************************************************************)
(* The bound of the liveness run: time goes on where only instance 1 is    *)
(* written.  It holds back Tick and CasRead, of which no fairness is       *)
(* assumed, and nothing else.                                              *)
(***************************************************************************)
OneInstanceLater == now' > 1 => Named' \subseteq {1}
=============================================================================
