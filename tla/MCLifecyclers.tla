--------------------------- MODULE MCLifecyclers ---------------------------
(***************************************************************************)
(* Lifecyclers for TLC: configurations that differ in what they exercise.   *)
(***************************************************************************)
EXTENDS Lifecyclers, TLC

Switches == {"heartbeat", "observe", "tokensFile", "unregister", "flush", "transfers", "checkRing", "forget"}

Conf(kind, S, members, aging, probed, starts, errors, lost) ==
  [kind |-> kind, members |-> members, aging |-> aging, probed |-> probed,
   numTokens |-> IF members = {1} THEN 2 ELSE 1, maxStarts |-> starts,
   maxErrors |-> errors, maxLosses |-> lost, old |-> {}] @@ [x \in Switches |-> x \in S]

Old(S, c) == [c EXCEPT !.old = S]

FullConfs == {Conf("full", {"heartbeat", "unregister", "flush", "transfers"}, {1, 2}, {}, Other, 3, 1, 0),
              Conf("full", {"heartbeat", "observe", "tokensFile", "unregister"}, {1}, {}, Other, 3, 1, 0),
              Conf("full", {"heartbeat", "observe"}, {1, 2}, {}, Other, 2, 0, 0),
              Conf("full", {"heartbeat", "transfers", "checkRing"}, {1, 2}, Instances, 2, 2, 0, 1),
              Conf("full", {"transfers"}, {1, 2}, {}, 2, 2, 1, 0),
              Conf("full", {}, {1}, Instances, 1, 2, 1, 0),
              Old({1}, Conf("full", {"heartbeat", "observe"}, {1}, {}, 1, 2, 1, 0))}

BasicConfs == {Conf("basic", {"heartbeat", "observe", "unregister"}, {1}, {}, Other, 3, 1, 0),
               Conf("basic", {"heartbeat", "tokensFile", "unregister"}, {1}, {}, Other, 3, 1, 0),
               Conf("basic", {"heartbeat", "forget"}, {1, 2}, {1}, Other, 2, 0, 0),
               Conf("basic", {"heartbeat", "unregister"}, {1}, {}, Other, 2, 1, 1),
               Conf("basic", {"observe", "unregister"}, {1, 2}, {}, Other, 2, 0, 0),
               Old({1}, Conf("basic", {"heartbeat", "observe"}, {1}, {}, Other, 2, 1, 0))}

MCConfs == FullConfs \cup BasicConfs
=============================================================================
