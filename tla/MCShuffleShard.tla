-------------------------- MODULE MCShuffleShard --------------------------
(***************************************************************************)
(* ShuffleShard for TLC.                                                   *)
(***************************************************************************)
EXTENDS ShuffleShard

\* Tokens of different instances alternate.
TwoTokens == <<{1, 6}, {2}, {3, 7}, {4}, {5}>>

Plain == [zoneAware |-> FALSE, excluded |-> {}, zone |-> <<"a", "a", "b", "b">>, tokens |-> SubSeq(TwoTokens, 1, 4),
          lookback |-> 1, initial |-> {1, 2, 3}, size |-> 1, keys |-> {0, 2, 4, 6},
          maxTime |-> 3, maxChanges |-> 3, maxSize |-> 2, maxReads |-> 0]

Zoned == [Plain EXCEPT !.zoneAware = TRUE, !.zone = <<"a", "b", "a", "b", "a">>, !.tokens = TwoTokens,
            !.initial = {1, 2, 3, 4}, !.keys = {0, 3, 5}]

Cached == [Plain EXCEPT !.initial = {1, 2, 3, 4}, !.keys = {0, 4}, !.maxTime = 0, !.maxReads = 3]

\* A zone comes and goes; and a ring outgrows the shard with three instances in one zone and one in the other.
Rezoned == [Zoned EXCEPT !.initial = {1, 2, 3}, !.size = 2, !.keys = {0, 4}]
Unbalanced == [Zoned EXCEPT !.initial = {1, 2, 3, 5}, !.size = 3, !.maxSize = 4, !.keys = {0, 4}, !.maxChanges = 2, !.maxTime = 2]

MCConfs == { Plain, [Plain EXCEPT !.lookback = 2, !.maxSize = 1, !.maxChanges = 4], Zoned, Rezoned, Unbalanced, Cached,
             [Cached EXCEPT !.excluded = {"b"}, !.zoneAware = TRUE, !.initial = {1, 2}, !.maxChanges = 2] }
===========================================================================
