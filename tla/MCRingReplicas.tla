-------------------------- MODULE MCRingReplicas --------------------------
(***************************************************************************)
(* RingReplicas for TLC: two instances register, change state and leave,   *)
(* and one comes back.  Both claim token 1, only the second claims token   *)
(* 2.  A descriptor that is merged in need not be normalised, so LEFT      *)
(* comes with tokens.                                                      *)
(***************************************************************************)
EXTENDS RingReplicas, TLC

Symmetry == Permutations(Replicas)

Published(i, s, t) == [j \in {i} |-> [state |-> s, ts |-> t, tokens |-> 1..i]]

MCUpdates ==
  {Published(1, "ACTIVE", 1), Published(1, "LEAVING", 2), Published(1, "LEFT", 2),
   Published(2, "JOINING", 1), Published(2, "LEFT", 2), Published(2, "ACTIVE", 3)}
=============================================================================
