-------------------------- MODULE ReplicationSetDo --------------------------
(***************************************************************************)
(* ring/replication_set.go and replication_set_tracker.go:                 *)
(* ReplicationSet.Do runs a function on every instance of a set, holding   *)
(* back as many as may fail, and returns when enough have succeeded or too *)
(* many have failed.  An instance is a pair [id, zone].                    *)
(***************************************************************************)
EXTENDS Integers, Sequences, SequencesExt, FiniteSets, FiniteSetsExt

VARIABLES
  doPc,        \* Do itself: where it is, or what it returned
  rset,        \* the replication set
  delay,       \* whether a delay was asked for
  req,         \* the goroutine of each instance
  ch,          \* the results it has yet to receive; there is room for all, and
               \* as they are sent in any order their order is not kept
  forceStart,  \* the starts in the channel of that name
  gotOk,       \* instances whose success was received
  gotErr,      \* instances whose failure was received
  doCtx        \* whether the caller's context has ended

doVars == <<doPc, rset, delay, req, ch, forceStart, gotOk, gotErr, doCtx>>

Members == ToSet(rset.instances)

\* Do has returned, and its deferred cancel() has run, or its caller's context has ended.
DoReturned == doPc \in {"ok", "failed", "ctx"}
DoCancelled == doCtx \/ DoReturned

DoInit ==
  /\ doPc = "idle" /\ delay = FALSE /\ doCtx = FALSE
  /\ rset = [ok |-> TRUE, instances |-> << >>, maxErrors |-> 0, maxZones |-> 0]
  /\ req = [i \in {} |-> {}]
  /\ ch = {} /\ forceStart = 0
  /\ gotOk = {} /\ gotErr = {}

-----------------------------------------------------------------------------
(***************************************************************************)
(* The trackers, as functions of what has been received.  The default one  *)
(* counts results; the one for zones counts zones: a zone has succeeded    *)
(* when all its instances have, and failed when one has.                   *)
(***************************************************************************)
ByZone == rset.maxZones > 0
ZonesOfSet(S) == {i.zone : i \in S}

TrackerSucceeded(ok, err) ==
  IF ByZone
  THEN Cardinality({z \in ZonesOfSet(Members) : \A i \in Members : i.zone = z => i \in ok})
         >= Cardinality(ZonesOfSet(Members)) - rset.maxZones
  ELSE Cardinality(ok) >= Cardinality(Members) - rset.maxErrors

TrackerFailed(err) ==
  IF ByZone THEN Cardinality(ZonesOfSet(err)) > rset.maxZones
  ELSE Cardinality(err) > rset.maxErrors

-----------------------------------------------------------------------------
(***************************************************************************)
(* The goroutines that wait before they start: the last maxErrors ones, if *)
(* there is a delay and zones do not count.                                *)
(***************************************************************************)
Delays(rs, d) == d /\ rs.maxZones = 0
HeldBack(rs, d) ==
  {rs.instances[x] : x \in {y \in 1..Len(rs.instances) : Delays(rs, d) /\ y > Len(rs.instances) - rs.maxErrors}}

DoCall(rs, d) ==
  /\ doPc = "idle"
  /\ rset' = rs /\ delay' = d
  /\ req' = [i \in ToSet(rs.instances) |-> IF i \in HeldBack(rs, d) THEN "delayed" ELSE "running"]
  /\ doPc' = "loop"
  /\ UNCHANGED <<ch, forceStart, gotOk, gotErr, doCtx>>

(***************************************************************************)
(* A goroutine held back starts when its timer fires or when it takes a    *)
(* start from forceStart, and ends without a request once Do has returned. *)
(***************************************************************************)
TimerFires(i) ==
  /\ req[i] = "delayed"
  /\ req' = [req EXCEPT ![i] = "running"]
  /\ UNCHANGED <<doPc, rset, delay, ch, forceStart, gotOk, gotErr, doCtx>>

TakesForceStart(i) ==
  /\ req[i] = "delayed" /\ forceStart > 0
  /\ forceStart' = forceStart - 1
  /\ req' = [req EXCEPT ![i] = "running"]
  /\ UNCHANGED <<doPc, rset, delay, ch, gotOk, gotErr, doCtx>>

Abandons(i) ==
  /\ req[i] = "delayed" /\ DoCancelled
  /\ req' = [req EXCEPT ![i] = "abandoned"]
  /\ UNCHANGED <<doPc, rset, delay, ch, forceStart, gotOk, gotErr, doCtx>>

Answers(i, ok) ==
  /\ req[i] = "running"
  /\ req' = [req EXCEPT ![i] = "answered"]
  /\ ch' = ch \cup {[from |-> i, ok |-> ok]}
  /\ UNCHANGED <<doPc, rset, delay, forceStart, gotOk, gotErr, doCtx>>

(***************************************************************************)
(* Do: "for !tracker.succeeded()"; a result is received and recorded, and  *)
(* an error that is not yet fatal starts one of those held back.           *)
(***************************************************************************)
LoopEnds ==
  /\ doPc = "loop" /\ TrackerSucceeded(gotOk, gotErr)
  /\ doPc' = "ok"
  /\ UNCHANGED <<rset, delay, req, ch, forceStart, gotOk, gotErr, doCtx>>

\* Fault: a failure does not start another request.
AfterError_NoForce(err) == IF TrackerFailed(err) THEN "failed" ELSE "loop"

AfterError(err) ==
  IF TrackerFailed(err) THEN "failed" ELSE IF Delays(rset, delay) THEN "force" ELSE "loop"

Receive(r) ==
  /\ doPc = "loop" /\ ~TrackerSucceeded(gotOk, gotErr) /\ r \in ch
  /\ ch' = ch \ {r}
  /\ gotOk' = IF r.ok THEN gotOk \cup {r.from} ELSE gotOk
  /\ gotErr' = IF r.ok THEN gotErr ELSE gotErr \cup {r.from}
  /\ doPc' = IF r.ok THEN "loop" ELSE AfterError(gotErr')
  /\ UNCHANGED <<rset, delay, req, forceStart, doCtx>>

ForceStart ==
  /\ doPc = "force" /\ forceStart < rset.maxErrors
  /\ forceStart' = forceStart + 1
  /\ doPc' = "loop"
  /\ UNCHANGED <<rset, delay, req, ch, gotOk, gotErr, doCtx>>

CtxEnds ==
  /\ ~doCtx /\ doPc # "idle"
  /\ doCtx' = TRUE
  /\ UNCHANGED <<doPc, rset, delay, req, ch, forceStart, gotOk, gotErr>>

DoCtxDone ==
  /\ doPc = "loop" /\ ~TrackerSucceeded(gotOk, gotErr) /\ doCtx
  /\ doPc' = "ctx"
  /\ UNCHANGED <<rset, delay, req, ch, forceStart, gotOk, gotErr, doCtx>>

-----------------------------------------------------------------------------
(***************************************************************************)
(* Sending to forceStart never blocks the loop that also has to receive    *)
(* the results: it has room for every error that is not fatal.             *)
(***************************************************************************)
ForceStartHasRoom == doPc = "force" => forceStart < rset.maxErrors
=============================================================================
