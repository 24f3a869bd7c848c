---------------------------- MODULE MCKVClients ----------------------------
(***************************************************************************)
(* One run over several configurations, each with the bounds that make its *)
(* cases happen.                                                           *)
(***************************************************************************)
EXTENDS KVClients, TLC

CONSTANTS k1, k2, s1, s2

MCBounds == {"maxCalls", "maxDeletes", "maxErrors", "maxResets", "maxBreaks", "maxEdits", "maxCloses", "maxStops"}

Cfg(p, mirror) == [primary |-> p, mirroring |-> mirror]

Base == [store |-> "consul", watch |-> "key", keys |-> {k1}, files |-> {Cfg(s1, "nil")}, buffer |-> 0, mirroring |-> TRUE]
        @@ [b \in MCBounds |-> 0]

Consul == [Base EXCEPT !.maxCalls = 2]
Etcd == [Consul EXCEPT !.store = "etcd"]
Multi == [Base EXCEPT !.store = "multi", !.maxEdits = 2, !.files = {Cfg(s1, "nil"), Cfg(s2, "nil")}]

MCConfs ==
  { [Consul EXCEPT !.maxCalls = 3, !.maxDeletes = 1, !.maxErrors = 1],
    [Consul EXCEPT !.maxResets = 2],
    [Consul EXCEPT !.watch = "prefix", !.maxResets = 1],
    [Consul EXCEPT !.watch = "prefix", !.keys = {k1, k2}, !.maxDeletes = 1, !.maxBreaks = 1],
    [Etcd EXCEPT !.maxCalls = 3, !.maxErrors = 1],
    [Etcd EXCEPT !.maxCalls = 3, !.maxDeletes = 1],
    [Etcd EXCEPT !.watch = "prefix", !.keys = {k1, k2}, !.maxCalls = 3, !.maxBreaks = 1],
    Multi,
    [Multi EXCEPT !.maxCalls = 2, !.maxErrors = 1, !.maxEdits = 1],
    [Multi EXCEPT !.maxCalls = 1, !.mirroring = FALSE, !.files = {Cfg("", "on"), Cfg(s2, "off")}, !.buffer = 1],
    [Multi EXCEPT !.maxCloses = 1, !.maxStops = 1] }
=============================================================================
