------------------------- MODULE MCModuleServices -------------------------
(***************************************************************************)
(* ModuleServices for TLC.                                                 *)
(***************************************************************************)
EXTENDS ModuleServices

\* c needs b, which needs a; or, both c and b need a and d needs both.
Chain == [deps |-> [a |-> {}, b |-> {"a"}, c |-> {"b"}], serviced |-> {"a", "b", "c"}, targets |-> <<"c">>,
          maxStops |-> 1, maxFailures |-> 1]
Diamond == [deps |-> [a |-> {}, b |-> {"a"}, c |-> {"a"}, d |-> {"b", "c"}], serviced |-> {"a", "b", "c", "d"},
            targets |-> <<"d">>, maxStops |-> 1, maxFailures |-> 0]

MCConfs == { Chain, Diamond, [Chain EXCEPT !.serviced = {"a", "c"}], [Chain EXCEPT !.targets = <<"b", "c">>],
             [Chain EXCEPT !.targets = <<"b", "x">>] }
===========================================================================
