-------------------------- MODULE BasicLifecycler --------------------------
(***************************************************************************)
(* ring/basic_lifecycler.go and basic_lifecycler_delegates.go: the keeper  *)
(* of a ring entry whose states are up to its delegates, here              *)
(* LeaveOnStopping, AutoForget and TokensPersistency around one that, like *)
(* the users of the package, registers as JOINING, keeps the tokens it has *)
(* and generates the rest, and becomes ACTIVE when running.                *)
(*                                                                         *)
(* While stopping two goroutines update the entry: the main one sends      *)
(* heartbeats, the delegate's changes the state.  An update is two steps:  *)
(* the CAS, and the assignment of the entry it has seen or written to      *)
(* currInstanceDesc.                                                       *)
(***************************************************************************)
EXTENDS RingStore

VARIABLE bl   \* the lifecycler of each instance

basicVars == <<storeVars, bl>>

(***************************************************************************)
(* desc is currInstanceDesc, if registered.  main and delegate are the two *)
(* goroutines' updates: the entry to be assigned, [set, e], once the CAS   *)
(* is through.  leaving is the place of the delegate's goroutine.          *)
(***************************************************************************)
Nothing == [set |-> FALSE, e |-> ZeroEntry]
Something(e) == [set |-> TRUE, e |-> e]

NewBasicLifecycler(starts) ==
  [pc |-> "starting", desc |-> Nothing, main |-> Nothing, delegate |-> Nothing,
   leaving |-> "no", starts |-> starts]

Gone(starts, how) == [NewBasicLifecycler(starts) EXCEPT !.pc = how]

BasicInit == StoreInit /\ bl = [i \in Instances |-> Gone(0, "down")]

BasicStarts == MapThenSumSet(LAMBDA i : bl[i].starts, Instances)
IsDown(i) == bl[i].pc \in {"down", "unregistered"}
MainIdle(i) == ~bl[i].main.set

BasicStart(i) ==
  /\ i \in conf.members /\ IsDown(i) /\ BasicStarts < conf.maxStarts
  /\ bl' = [bl EXCEPT ![i] = NewBasicLifecycler(@.starts + 1)]
  /\ UNCHANGED storeVars

-----------------------------------------------------------------------------
(***************************************************************************)
(* TokensPersistency: the file counts unless the ring has tokens for the   *)
(* instance.                                                               *)
(***************************************************************************)
ExistingTokens(i) ==
  LET inRing == MyTokens(ring.ing, i)
  IN IF conf.tokensFile /\ inRing = {} THEN disk[i] ELSE inRing

\* "we have to honor the previous value (even if it was zero...)".
RegisteredAt(i) == IF i \in DOMAIN ring.ing THEN GetRegisteredAt(ring.ing[i].reg) ELSE bl[i].starts

AfterRegister(tokens) == IF tokens # {} /\ conf.observe THEN "observing" ELSE "notify"

(***************************************************************************)
(* registerInstance always overwrites the entry.  If it fails, starting    *)
(* does, and nothing is cleaned up.                                        *)
(***************************************************************************)
registerInstance(i, o) ==
  LET mine == ExistingTokens(i) IN
  /\ bl[i].pc = "starting"
  /\ \E new \in GenerateTokens(conf.numTokens - Cardinality(mine), TakenTokens(ring.ing)) :
       LET d == AddIngester(ring.ing, i, mine \cup new, "JOINING", RegisteredAt(i)) IN
       /\ CAS(o, d)
       /\ bl' = [bl EXCEPT ![i] = IF o = "ok" THEN [@ EXCEPT !.pc = AfterRegister(mine \cup new), !.desc = Something(d[i])]
                                  ELSE Gone(@.starts, "down")]
  /\ UNCHANGED <<conf, disk, losses>>

\* OnRingInstanceTokens stores them, if there are any; the service is Running.
NotifyTokens(i) ==
  LET tokens == bl[i].desc.e.tokens IN
  /\ bl[i].pc = "notify" /\ MainIdle(i)
  /\ IF tokens # {} THEN StoreToFile(i, tokens) ELSE UNCHANGED disk
  /\ bl' = [bl EXCEPT ![i].pc = "running"]
  /\ UNCHANGED <<conf, ring, casErrors, losses>>

-----------------------------------------------------------------------------
(***************************************************************************)
(* updateInstance.  "instance missing in the ring, adding it back".        *)
(***************************************************************************)
Inserted(i) ==
  IF i \in DOMAIN ring.ing THEN ring.ing
  ELSE AddIngester(ring.ing, i, bl[i].desc.e.tokens, bl[i].desc.e.state, GetRegisteredAt(bl[i].desc.e.reg))

(***************************************************************************)
(* The CAS, after which the lifecycler is b: e becomes the entry in d, and *)
(* is to be assigned by the goroutine.  What has not changed is not        *)
(* stored, but assigned all the same.                                      *)
(***************************************************************************)
UpdateCAS(i, o, goroutine, d, e, b) ==
  /\ CAS(o, IF d = ring.ing /\ e = d[i] THEN d ELSE Put(d, i, e))
  /\ bl' = [bl EXCEPT ![i] = IF o = "ok" THEN [b EXCEPT ![goroutine] = Something(e)] ELSE b]
  /\ UNCHANGED <<conf, disk, losses>>

\* The lock of currState is held for the assignment only.
UpdateAssigns(i, goroutine) ==
  /\ bl[i][goroutine].set
  /\ bl' = [bl EXCEPT ![i] = [@ EXCEPT !.desc = bl[i][goroutine], ![goroutine] = Nothing]]
  /\ UNCHANGED storeVars

\* AutoForget removes all entries with old heartbeats; this instance's is written after that.
Forget(d) == [x \in {y \in DOMAIN d : ~conf.forget \/ d[y].ts = "fresh"} |-> d[x]]

\* Fault: the heartbeat writes the state the lifecycler knows.
Refreshed_State(i, e) == [e EXCEPT !.ts = "fresh", !.state = bl[i].desc.e.state]

Refreshed(i, e) == [e EXCEPT !.ts = "fresh"]

heartbeat(i, o) ==
  LET d == Inserted(i) IN
  /\ conf.heartbeat /\ MainIdle(i) /\ bl[i].pc \in {"observing", "running", "stopping"}
  /\ i \in DOMAIN d
  /\ UpdateCAS(i, o, "main", Forget(d), Refreshed(i, d[i]), bl[i])

changeStateBy(i, o, goroutine, state, b) ==
  LET d == Inserted(i) IN
  /\ i \in DOMAIN d
  /\ UpdateCAS(i, o, goroutine, d, IF d[i].state = state THEN d[i] ELSE [d[i] EXCEPT !.state = state, !.ts = "fresh"], b)

SameTokens(mine, i) == mine = bl[i].desc.e.tokens

(***************************************************************************)
(* verifyTokens, each time the observe period is over: the tokens are      *)
(* those of currInstanceDesc and starting goes on, or those that are       *)
(* missing are replaced.  With an error it observes on.                    *)
(***************************************************************************)
TokensVerified(i, o) ==
  LET d == Inserted(i) IN
  /\ bl[i].pc = "observing" /\ MainIdle(i) /\ i \in DOMAIN d
  /\ SameTokens(MyTokens(d, i), i)
  /\ UpdateCAS(i, o, "main", d, d[i], [bl[i] EXCEPT !.pc = IF o = "ok" THEN "notify" ELSE "observing"])

TokensReplaced(i, o) ==
  LET d == Inserted(i)
      mine == MyTokens(d, i)
  IN /\ bl[i].pc = "observing" /\ MainIdle(i) /\ i \in DOMAIN d
     /\ ~SameTokens(mine, i)
     /\ \E new \in GenerateTokens(conf.numTokens - Cardinality(mine), TakenTokens(d)) :
          UpdateCAS(i, o, "main", d, [d[i] EXCEPT !.tokens = mine \cup new, !.ts = "fresh"], bl[i])

-----------------------------------------------------------------------------
\* ChangeState(ACTIVE), called by the user of the lifecycler and run by running().
ChangeState(i, o) ==
  /\ bl[i].pc = "running" /\ MainIdle(i) /\ bl[i].desc.e.state = "JOINING"
  /\ changeStateBy(i, o, "main", "ACTIVE", bl[i])

(***************************************************************************)
(* The service is stopped.  While the tokens are observed this makes       *)
(* starting fail; later it starts the delegate's goroutine.                *)
(***************************************************************************)
BasicStop(i) ==
  /\ MainIdle(i)
  /\ \/ /\ bl[i].pc = "observing"
        /\ bl' = [bl EXCEPT ![i] = Gone(@.starts, "down")]
     \/ /\ bl[i].pc = "running"
        /\ bl' = [bl EXCEPT ![i] = [@ EXCEPT !.pc = "stopping", !.leaving = "change"]]
  /\ UNCHANGED storeVars

\* LeaveOnStopping, on the delegate's goroutine; an error is logged.
OnRingInstanceStopping(i, o) ==
  /\ bl[i].leaving = "change"
  /\ changeStateBy(i, o, "delegate", "LEAVING", [bl[i] EXCEPT !.leaving = "next"])

\* The delegate that comes next returns, and done is closed.
StoppingReturns(i) ==
  /\ bl[i].leaving = "next" /\ ~bl[i].delegate.set
  /\ bl' = [bl EXCEPT ![i].leaving = "done"]
  /\ UNCHANGED storeVars

\* Fault: the delegate is not waited for.
HeartbeatLoopOver_AtOnce(i) == TRUE

HeartbeatLoopOver(i) == bl[i].leaving = "done"

HeartbeatLoopEnds(i) ==
  /\ bl[i].pc = "stopping" /\ MainIdle(i) /\ HeartbeatLoopOver(i)
  /\ bl' = [bl EXCEPT ![i] = IF conf.unregister THEN [@ EXCEPT !.pc = "unregister"] ELSE Gone(@.starts, "down")]
  /\ UNCHANGED storeVars

unregisterInstance(i, o) ==
  /\ bl[i].pc = "unregister"
  /\ IF ring.exists THEN CAS(o, RemoveIngester(ring.ing, i)) ELSE UNCHANGED <<ring, casErrors>>
  /\ bl' = [bl EXCEPT ![i] = IF o = "ok" /\ ring.exists THEN [@ EXCEPT !.pc = "unregistered", !.desc = Nothing] ELSE Gone(@.starts, "down")]
  /\ UNCHANGED <<conf, disk, losses>>

BasicCrash(i) ==
  /\ ~IsDown(i) /\ BasicStarts < conf.maxStarts
  /\ bl' = [bl EXCEPT ![i] = Gone(@.starts, "down")]
  /\ UNCHANGED storeVars

\* As in Lifecycler, conflicts show while the tokens are observed.
BasicRingChanges ==
  /\ \/ LosesRing
     \/ \E i \in Instances : HeartbeatAges(i)
     \/ \E i \in Instances : bl[i].pc = "observing" /\ LosesToken(i)
  /\ UNCHANGED bl

-----------------------------------------------------------------------------
MainSteps(i, o) ==
  \/ registerInstance(i, o) \/ TokensVerified(i, o) \/ TokensReplaced(i, o) \/ NotifyTokens(i)
  \/ ChangeState(i, o) \/ HeartbeatLoopEnds(i) \/ unregisterInstance(i, o)

DelegateSteps(i, o) ==
  OnRingInstanceStopping(i, o) \/ UpdateAssigns(i, "delegate") \/ StoppingReturns(i)

BasicNext ==
  \/ BasicRingChanges
  \/ \E i \in Instances : BasicStart(i) \/ BasicStop(i) \/ BasicCrash(i) \/ UpdateAssigns(i, "main")
  \/ \E i \in Instances, o \in Outcomes : MainSteps(i, o) \/ DelegateSteps(i, o) \/ heartbeat(i, o)

BasicSpec == BasicInit /\ [][BasicNext]_basicVars

(***************************************************************************)
(* Both goroutines run, timers fire, and the store does not fail for ever. *)
(* What waits in a select next to the heartbeat's timer is not passed over *)
(* for ever.                                                               *)
(***************************************************************************)
BasicFairness ==
  \A i \in Instances : /\ SF_basicVars(MainSteps(i, "ok")) /\ WF_basicVars(DelegateSteps(i, "ok"))
                       /\ WF_basicVars(UpdateAssigns(i, "main")) /\ WF_basicVars(heartbeat(i, "ok"))

-----------------------------------------------------------------------------
\* Every variable holds a value of its kind; currInstanceDesc is there from registration on.
BasicTypeOK ==
  \A i \in Instances :
    /\ bl[i].pc \in {"down", "starting", "observing", "notify", "running", "stopping", "unregister", "unregistered"}
    /\ bl[i].leaving \in {"no", "change", "next", "done"}
    /\ \A x \in {"desc", "main", "delegate"} :
         /\ bl[i][x].e.state \in {"JOINING", "ACTIVE", "LEAVING"} /\ bl[i][x].e.tokens \subseteq TokenSpace
         /\ bl[i][x].set \in BOOLEAN
    /\ bl[i].pc \in {"observing", "notify", "running", "stopping", "unregister"} => bl[i].desc.set

(***************************************************************************)
(* An instance that was removed from the ring stays away from it until it  *)
(* is started again: no update of the delegate's goroutine or of a         *)
(* heartbeat, which would put it back, comes after unregisterInstance.     *)
(***************************************************************************)
UnregisteredStaysAway == \A i \in Instances : bl[i].pc = "unregistered" => i \notin DOMAIN ring.ing

(***************************************************************************)
(* Once the delegate has made a stopping instance LEAVING, no heartbeat of *)
(* the main goroutine, which knows of that only later, makes it anything   *)
(* else.                                                                   *)
(***************************************************************************)
LeavingStays ==
  [][\A i \in Instances \cap DOMAIN ring.ing \cap DOMAIN ring'.ing :
       (bl[i].pc = "stopping" /\ ring.ing[i].state = "LEAVING") => ring'.ing[i].state = "LEAVING"]_basicVars

(***************************************************************************)
(* "This could happen if the backend store restarted or the instance has   *)
(* been forgotten.  In this case, we do re-insert it": it comes back.      *)
(***************************************************************************)
ComesBack ==
  \A i \in Instances :
    (conf.heartbeat /\ bl[i].pc \in {"observing", "running"} /\ i \notin DOMAIN ring.ing)
      ~> (i \in DOMAIN ring.ing \/ bl[i].pc \notin {"observing", "running"})

(***************************************************************************)
(* "If instance doesn't own its tokens anymore, this method generates new  *)
(* tokens and stores them to the ring": verified tokens are complete,      *)
(* whatever was lost to another instance meanwhile.  Only without          *)
(* heartbeats: see VerifiedIsComplete.                                     *)
(***************************************************************************)
LostTokensAreReplaced ==
  \A i \in Instances :
    (~conf.heartbeat /\ losses = 0 /\ bl[i].pc = "notify") => Cardinality(bl[i].desc.e.tokens) = conf.numTokens

(***************************************************************************)
(* The same with heartbeats, as the comment has it.  A heartbeat during    *)
(* the observe period copies the ring's reduced tokens to                  *)
(* currInstanceDesc, and verifyTokens compares the ring with itself.       *)
(***************************************************************************)
VerifiedIsComplete ==
  \A i \in Instances :
    (losses = 0 /\ bl[i].pc = "notify") => Cardinality(bl[i].desc.e.tokens) = conf.numTokens
=============================================================================
