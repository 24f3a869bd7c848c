---------------------------- MODULE MCQuorumOps ----------------------------
(***************************************************************************)
(* QuorumOps for TLC: small rings, each instance with one token.           *)
(***************************************************************************)
EXTENDS QuorumOps

Conf(rf, zoneAware, quorum) == [rf |-> rf, zoneAware |-> zoneAware, quorum |-> quorum]

Desc(states, zones, old) ==
  [i \in DOMAIN states |-> [state |-> states[i], zone |-> zones[i], tokens |-> {10 * i}, reg |-> 0,
                            ts |-> IF i \in old THEN "old" ELSE "fresh"]]

\* All ACTIVE but for at most one instance, and at most one without heartbeats.
OneOdd(n) == {[[i \in 1..n |-> "ACTIVE"] EXCEPT ![j] = s] :
                j \in {1, n}, s \in {"ACTIVE", "LEAVING", "PENDING", "JOINING"}}
OneOld(n) == {{}, {2}}
NoZones(n) == [i \in 1..n |-> ""]

Plain(n, rf) == {[desc |-> Desc(s, NoZones(n), o), cfg |-> Conf(rf, FALSE, TRUE), keys |-> <<5>>] :
                   s \in OneOdd(n), o \in OneOld(n)}

Zoned(zones, rf) == {[desc |-> Desc(s, zones, o), cfg |-> Conf(rf, TRUE, TRUE), keys |-> <<5>>] :
                       s \in OneOdd(Len(zones)), o \in OneOld(Len(zones))}

\* Two keys whose replicas overlap.
TwoKeys == {[desc |-> Desc([i \in 1..4 |-> "ACTIVE"], NoZones(4), {}), cfg |-> Conf(3, FALSE, TRUE), keys |-> <<5, 15>>]}

Ignoring == {[desc |-> Desc([i \in 1..3 |-> "ACTIVE"], NoZones(3), o), cfg |-> Conf(3, FALSE, FALSE), keys |-> <<5>>] :
               o \in OneOld(3)}

Empty == {[desc |-> [i \in {} |-> {}], cfg |-> Conf(3, FALSE, TRUE), keys |-> <<5>>]}

MCScenarios ==
  Plain(2, 3) \cup Plain(4, 3) \cup Plain(3, 2) \cup Zoned(<<"a", "b", "a", "c">>, 3)
    \cup Zoned(<<"a", "b", "b">>, 3) \cup TwoKeys \cup Ignoring \cup Empty
=============================================================================
