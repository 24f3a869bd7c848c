------------------------------- MODULE KVConf ------------------------------
(***************************************************************************)
(* What the models of the key-value clients share: the configuration, and  *)
(* how much of its bounds is used up.                                      *)
(***************************************************************************)
EXTENDS Naturals

CONSTANTS
  Confs,    \* configurations
  Bounds    \* the names of their bounds

ASSUME BoundsAssumption == \A c \in Confs : Bounds \subseteq DOMAIN c /\ \A b \in Bounds : c[b] \in Nat

VARIABLES conf, used

ConfInit == conf \in Confs /\ used = [b \in Bounds |-> 0]

Use(bound) == used[bound] < conf[bound] /\ used' = [used EXCEPT ![bound] = @ + 1]
=============================================================================
