---------------------------- MODULE Lifecycler ----------------------------
(***************************************************************************)
(* ring/lifecycler.go: the keepers of several instances' ring entries, one *)
(* process each, over one store.  A lifecycler registers, joins by itself  *)
(* after JoinAfter unless another instance hands its tokens over first,    *)
(* sends heartbeats, and leaves when stopped, handing its own tokens over  *)
(* if it can.  Processes crash and come back, finding what the ring and    *)
(* the tokens file hold; the store fails, loses everything, or, if the     *)
(* ring is gossiped, takes tokens away from an instance.                   *)
(*                                                                         *)
(* Everything a lifecycler does to the ring happens on its main goroutine: *)
(* loop(), which runs ChangeState and ClaimTokensFor for their callers,    *)
(* then stopping().                                                        *)
(***************************************************************************)
EXTENDS RingStore

(***************************************************************************)
(* conf says which of heartbeat, observe, tokensFile, unregister, flush,   *)
(* transfers and checkRing are on, and which instance is probed: asked     *)
(* whether it is ready.                                                    *)
(***************************************************************************)
VARIABLES
  lc,        \* the lifecycler of each instance
  transfer   \* the handover under way, [from, to, phase]; phase "none" if there is none

vars == <<storeVars, lc, transfer>>
envVars == <<conf, transfer, losses>>

(***************************************************************************)
(* A lifecycler: its place in the code, what stateMtx guards, whether the  *)
(* JoinAfter timer and the ObservePeriod timer are set, and readiness:     *)
(* readySince zero, set, or ready latched; probe, a CheckReady under way   *)
(* that has seen the local tokens and not yet the ring.                    *)
(*                                                                         *)
(* unclaimed is not in the code: it remembers that the CAS of the last     *)
(* ClaimTokensFor has failed and was not stored.                           *)
(***************************************************************************)
NewLifecycler(starts) ==
  [pc |-> "starting", state |-> "PENDING", tokens |-> {}, reg |-> 0,
   join |-> FALSE, observe |-> FALSE, ready |-> "no", probe |-> FALSE, unclaimed |-> FALSE,
   starts |-> starts]

NotRunning(starts) == [NewLifecycler(starts) EXCEPT !.pc = "down"]

NoTransfer == [from |-> Other, to |-> Other, phase |-> "none"]

Init ==
  /\ StoreInit
  /\ lc = [i \in Instances |-> NotRunning(0)]
  /\ transfer = NoTransfer

Starts == MapThenSumSet(LAMBDA i : lc[i].starts, Instances)

Up(i) == lc[i].pc # "down"
InLoop(i) == lc[i].pc = "loop"
ShuttingDown(i) == lc[i].pc \in {"transferring", "flushing", "sleeping"}

-----------------------------------------------------------------------------
(***************************************************************************)
(* initRing.  With an error the loop is not entered, and stopping cleans   *)
(* nothing up: the process is as good as gone.                             *)
(***************************************************************************)
Start(i) ==
  /\ i \in conf.members /\ ~Up(i) /\ Starts < conf.maxStarts
  /\ lc' = [lc EXCEPT ![i] = NewLifecycler(lc[i].starts + 1)]
  /\ UNCHANGED <<ring, disk, casErrors, envVars>>

InitNew(i, o) ==
  LET tokens == disk[i]
      state == IF Cardinality(tokens) >= conf.numTokens THEN "ACTIVE" ELSE "PENDING"
  IN /\ lc[i].pc = "starting" /\ i \notin DOMAIN ring.ing
     /\ CAS(o, AddIngester(ring.ing, i, tokens, state, lc[i].starts))
     /\ lc' = [lc EXCEPT ![i] = IF o = "ok" THEN [@ EXCEPT !.pc = "loop", !.join = TRUE, !.state = state,
                                                           !.tokens = tokens, !.reg = lc[i].starts]
                                ELSE NotRunning(@.starts)]
     /\ UNCHANGED <<disk, envVars>>

\* "we can't change the registered timestamp (even if it's zero)".
RegistrationOf(i) == GetRegisteredAt(ring.ing[i].reg)

\* Fault: the tokens are left in the ring only.
TokensFound_None(i) == {}

TokensFound(i) == ring.ing[i].tokens

\* Found as JOINING: a copy of the entry becomes PENDING and the ring is stored as it was.
InitJoining(i, o) ==
  /\ lc[i].pc = "starting" /\ i \in DOMAIN ring.ing /\ ring.ing[i].state = "JOINING"
  /\ CAS(o, ring.ing)
  /\ lc' = [lc EXCEPT ![i] = IF o = "ok" THEN [@ EXCEPT !.pc = "loop", !.join = TRUE, !.reg = RegistrationOf(i)]
                             ELSE NotRunning(@.starts)]
  /\ UNCHANGED <<disk, envVars>>

\* Found in another state; a full set of tokens makes LEAVING ACTIVE.
InitExisting(i, o) ==
  LET e == ring.ing[i]
      state == IF e.state = "LEAVING" /\ Cardinality(e.tokens) = conf.numTokens THEN "ACTIVE" ELSE e.state
  IN /\ lc[i].pc = "starting" /\ i \in DOMAIN ring.ing /\ e.state # "JOINING"
     /\ CAS(o, IF ~conf.heartbeat /\ state # e.state
               THEN [ring.ing EXCEPT ![i].state = state, ![i].ts = "fresh"] ELSE ring.ing)
     /\ lc' = [lc EXCEPT ![i] = IF o = "ok" THEN [@ EXCEPT !.pc = "loop", !.join = TRUE, !.state = state,
                                                           !.tokens = TokensFound(i), !.reg = RegistrationOf(i)]
                                ELSE NotRunning(@.starts)]
     /\ IF Ran(o) THEN StoreToFile(i, TokensFound(i)) ELSE UNCHANGED disk
     /\ UNCHANGED envVars

InitRing(i, o) == InitNew(i, o) \/ InitJoining(i, o) \/ InitExisting(i, o)

-----------------------------------------------------------------------------
(***************************************************************************)
(* The heartbeat: the entry is refreshed but for its tokens, or put back.  *)
(***************************************************************************)
updateConsul(d, i, state) ==
  IF i \in DOMAIN d
  THEN [d EXCEPT ![i].state = state, ![i].ts = "fresh", ![i].reg = Unix(lc[i].reg)]
  ELSE AddIngester(d, i, lc[i].tokens, state, lc[i].reg)

Heartbeat(i, o) ==
  /\ conf.heartbeat /\ (InLoop(i) \/ ShuttingDown(i))
  /\ CAS(o, updateConsul(ring.ing, i, lc[i].state))
  /\ UNCHANGED <<lc, disk, envVars>>

Disallowed(from, to) ==
  <<from, to>> \notin {<<"PENDING", "JOINING">>, <<"JOINING", "PENDING">>, <<"JOINING", "ACTIVE">>,
                       <<"PENDING", "ACTIVE">>, <<"ACTIVE", "LEAVING">>}

(***************************************************************************)
(* changeState, after which the lifecycler goes on as next.  The local     *)
(* state changes before the CAS and stays if that fails.                   *)
(***************************************************************************)
changeState(i, state, o, next) ==
  IF Disallowed(lc[i].state, state)
  THEN /\ o = "ok"
       /\ lc' = [lc EXCEPT ![i] = next]
       /\ UNCHANGED <<ring, casErrors>>
  ELSE /\ CAS(o, updateConsul(ring.ing, i, state))
       /\ lc' = [lc EXCEPT ![i] = [next EXCEPT !.state = state]]

-----------------------------------------------------------------------------
MissingTokens(mine) == conf.numTokens - Cardinality(mine)

(***************************************************************************)
(* The timer of JoinAfter fires, once.                                     *)
(***************************************************************************)
autoJoin(i, o) ==
  LET mine == MyTokens(ring.ing, i)
      state == IF conf.observe THEN "JOINING" ELSE "ACTIVE"
  IN /\ InLoop(i) /\ lc[i].join /\ lc[i].state = "PENDING"
     /\ \E new \in GenerateTokens(MissingTokens(mine), TakenTokens(ring.ing)) :
          /\ CAS(o, AddIngester(ring.ing, i, mine \cup new, state, lc[i].reg))
          /\ lc' = [lc EXCEPT ![i] = IF o = "ok" THEN [@ EXCEPT !.join = FALSE, !.state = state,
                                                                !.tokens = mine \cup new, !.observe = conf.observe,
                                                                !.unclaimed = FALSE]
                                     ELSE NotRunning(@.starts)]
          /\ IF Ran(o) THEN StoreToFile(i, mine \cup new) ELSE UNCHANGED disk
     /\ UNCHANGED envVars

JoinTimerIgnored(i) ==
  /\ InLoop(i) /\ lc[i].join /\ lc[i].state # "PENDING"
  /\ lc' = [lc EXCEPT ![i].join = FALSE]
  /\ UNCHANGED <<ring, disk, casErrors, envVars>>

\* Fault: the timer is not set again when tokens had to be replaced.
ObserveAgain_Never(i) == [lc[i] EXCEPT !.observe = FALSE]

ObserveAgain(i) == [lc[i] EXCEPT !.observe = TRUE]

(***************************************************************************)
(* The timer of ObservePeriod fires: verifyTokens finds the tokens in the  *)
(* ring, and the instance goes on to become ACTIVE; or it replaces those   *)
(* that are missing, or fails, and observes on.                            *)
(***************************************************************************)
VerifiedTokens(i) ==
  /\ InLoop(i) /\ lc[i].observe
  /\ MyTokens(ring.ing, i) = lc[i].tokens
  /\ lc' = [lc EXCEPT ![i] = [@ EXCEPT !.pc = "verified", !.observe = FALSE]]
  /\ UNCHANGED <<ring, disk, casErrors, envVars>>

ReplacesTokens(i, o) ==
  LET mine == MyTokens(ring.ing, i) IN
  /\ InLoop(i) /\ lc[i].observe /\ mine # lc[i].tokens
  /\ \E new \in GenerateTokens(MissingTokens(mine), TakenTokens(ring.ing)) :
       /\ CAS(o, AddIngester(ring.ing, i, mine \cup new, lc[i].state, lc[i].reg))
       /\ lc' = [lc EXCEPT ![i] = IF Ran(o) THEN [ObserveAgain(i) EXCEPT !.tokens = mine \cup new] ELSE ObserveAgain(i)]
       /\ IF Ran(o) THEN StoreToFile(i, mine \cup new) ELSE UNCHANGED disk
  /\ UNCHANGED envVars

\* Fault: the local state changes only if the CAS goes through.
BecomesActive_IfStored(i, o) ==
  /\ lc[i].pc = "verified"
  /\ CAS(o, updateConsul(ring.ing, i, "ACTIVE"))
  /\ lc' = [lc EXCEPT ![i] = [@ EXCEPT !.pc = "loop", !.state = IF o = "ok" THEN "ACTIVE" ELSE @]]
  /\ UNCHANGED <<disk, envVars>>

\* An error is logged: the next heartbeat brings the ring up to date.
BecomesActive(i, o) ==
  /\ lc[i].pc = "verified"
  /\ changeState(i, "ACTIVE", o, [lc[i] EXCEPT !.pc = "loop"])
  /\ UNCHANGED <<disk, envVars>>

-----------------------------------------------------------------------------
(***************************************************************************)
(* A handover: TransferOut of instance from, which is stopping, reaches    *)
(* instance to, which calls ChangeState(JOINING), takes the data over,     *)
(* calls ClaimTokensFor(from) and ChangeState(ACTIVE), and answers; if     *)
(* something goes wrong it calls ChangeState(PENDING).  Every one of these *)
(* calls is run by loop().                                                 *)
(***************************************************************************)
\* The sender learns of the end, if it is still there and not replaced by Other.
TransferEnds(phase) ==
  transfer' = IF transfer.from = Other THEN NoTransfer ELSE [transfer EXCEPT !.phase = phase]

TransferStarts(from, to, o) ==
  /\ conf.transfers /\ transfer.phase = "none"
  /\ lc[from].pc = "transferring" /\ InLoop(to)
  /\ from \in DOMAIN ring.ing /\ ring.ing[from].state = "LEAVING"
  /\ ~Disallowed(lc[to].state, "JOINING")
  /\ changeState(to, "JOINING", o, lc[to])
  /\ transfer' = [from |-> from, to |-> to, phase |-> "receiving"]
  /\ UNCHANGED <<disk, conf, losses>>

(***************************************************************************)
(* ClaimTokensFor, called while the sender waits: its instance "must be in *)
(* the LEAVING state".  An error of the CAS is logged: what its function   *)
(* has claimed, or nothing, becomes the local tokens, and nil is returned. *)
(***************************************************************************)
ClaimTokensFor(from, to, o) ==
  LET claimed == IF ring.exists /\ Ran(o) THEN MyTokens(ring.ing, from) ELSE {} IN
  /\ transfer.phase = "receiving" /\ InLoop(to) /\ from # Other
  /\ IF ring.exists
     THEN CAS(o, [ClaimTokens(ring.ing, from, to) EXCEPT ![to].ts = "fresh"])
     ELSE UNCHANGED <<ring, casErrors>>
  /\ lc' = [lc EXCEPT ![to] = [@ EXCEPT !.tokens = claimed, !.unclaimed = ~(ring.exists /\ IsStored(o))]]
  /\ StoreToFile(to, claimed)
  /\ transfer' = [transfer EXCEPT !.phase = "claimed"]
  /\ UNCHANGED <<conf, losses>>

TransferSucceeds(from, to, o) ==
  /\ transfer.phase = "claimed" /\ InLoop(to)
  /\ changeState(to, "ACTIVE", o, lc[to])
  /\ TransferEnds("succeeded")
  /\ UNCHANGED <<disk, conf, losses>>

TransferFails(from, to, o) ==
  /\ transfer.phase \in {"receiving", "claimed"} /\ InLoop(to)
  /\ changeState(to, "PENDING", o, lc[to])
  /\ TransferEnds("failed")
  /\ UNCHANGED <<disk, conf, losses>>

-----------------------------------------------------------------------------
(***************************************************************************)
(* The service is stopped: loop() returns nil at its next turn and         *)
(* stopping() begins with LEAVING, which it cannot get to from PENDING or  *)
(* JOINING; the error is logged.  The calls of a handover to it get        *)
(* "lifecycler not running" from now on, ChangeState(PENDING) too, and its *)
(* sender, whose TransferOut returns at any time after that, an error.     *)
(***************************************************************************)
Stop(i) ==
  /\ InLoop(i)
  /\ lc' = [lc EXCEPT ![i] = [@ EXCEPT !.pc = "stopping", !.join = FALSE, !.observe = FALSE]]
  /\ IF transfer.to = i /\ transfer.phase \in {"receiving", "claimed"} THEN TransferEnds("failed")
     ELSE UNCHANGED transfer
  /\ UNCHANGED <<ring, disk, casErrors, conf, losses>>

StopLeaves(i, o) ==
  /\ lc[i].pc = "stopping"
  /\ changeState(i, "LEAVING", o, [lc[i] EXCEPT !.pc = "transferring"])
  /\ UNCHANGED <<disk, envVars>>

\* Fault: the end of a transfer that failed is not noticed.
TransferOver_Succeeded == {"succeeded"}

TransferOver == {"succeeded", "failed"}

(***************************************************************************)
(* processShutdown, on its own goroutine: TransferOut returns, Flush is    *)
(* called if it failed, FinalSleep.                                        *)
(***************************************************************************)
TransferOut(i) ==
  LET mine == transfer.from = i
      succeeded == mine /\ transfer.phase = "succeeded"
  IN /\ lc[i].pc = "transferring"
     /\ mine => transfer.phase \in TransferOver
     /\ lc' = [lc EXCEPT ![i].pc = IF conf.flush /\ ~succeeded THEN "flushing" ELSE "sleeping"]
     /\ transfer' = IF mine THEN NoTransfer ELSE transfer
     /\ UNCHANGED <<ring, disk, casErrors, conf, losses>>

Flush(i) ==
  /\ lc[i].pc = "flushing"
  /\ lc' = [lc EXCEPT ![i].pc = "sleeping"]
  /\ UNCHANGED <<ring, disk, casErrors, envVars>>

\* heartbeatLoop ends.
ShutdownDone(i) ==
  /\ lc[i].pc = "sleeping"
  /\ lc' = [lc EXCEPT ![i] = IF conf.unregister THEN [@ EXCEPT !.pc = "unregister"] ELSE NotRunning(@.starts)]
  /\ UNCHANGED <<ring, disk, casErrors, envVars>>

\* Nothing to remove from a ring that is gone.
unregister(i, o) ==
  /\ lc[i].pc = "unregister"
  /\ IF ring.exists THEN CAS(o, RemoveIngester(ring.ing, i)) ELSE o = "ok" /\ UNCHANGED <<ring, casErrors>>
  /\ lc' = [lc EXCEPT ![i] = NotRunning(@.starts)]
  /\ UNCHANGED <<disk, envVars>>

-----------------------------------------------------------------------------
HealthyForReadiness(i) ==
  /\ ring.exists
  /\ IF conf.checkRing THEN IsReady(ring.ing)
     ELSE i \in DOMAIN ring.ing /\ InstanceIsReady(ring.ing[i])

(***************************************************************************)
(* CheckReady, on a goroutine of its caller.  Unready, for want of tokens, *)
(* with a Get that fails or a ring that is not healthy, readySince is      *)
(* reset; else it is ready for good once MinReadyDuration is over.         *)
(***************************************************************************)
CheckTokens(i) ==
  /\ i = conf.probed /\ Up(i) /\ lc[i].ready # "ready" /\ ~lc[i].probe
  /\ lc' = [lc EXCEPT ![i] = IF @.tokens # {} THEN [@ EXCEPT !.probe = TRUE] ELSE [@ EXCEPT !.ready = "no"]]
  /\ UNCHANGED <<ring, disk, casErrors, envVars>>

CheckReady(i) ==
  /\ lc[i].probe
  /\ \E ready \in {"no", "waiting", "ready"} :
       /\ ready # "no" => HealthyForReadiness(i)
       /\ lc' = [lc EXCEPT ![i] = [@ EXCEPT !.probe = FALSE, !.ready = ready]]
  /\ UNCHANGED <<ring, disk, casErrors, envVars>>

-----------------------------------------------------------------------------
(***************************************************************************)
(* The environment.  When the receiver dies the transfer has failed; when  *)
(* the sender does the receiver goes on alone.                             *)
(***************************************************************************)
Crash(i) ==
  /\ Up(i) /\ Starts < conf.maxStarts
  /\ lc' = [lc EXCEPT ![i] = NotRunning(@.starts)]
  /\ IF transfer.to = i /\ transfer.phase # "succeeded" THEN TransferEnds("failed")
     ELSE transfer' = IF transfer.from # i THEN transfer
                      ELSE IF transfer.phase \in {"succeeded", "failed"} THEN NoTransfer
                      ELSE [transfer EXCEPT !.from = Other]
  /\ UNCHANGED <<ring, disk, casErrors, conf, losses>>

\* The code does not look for conflicts after its observation.
RingChanges ==
  /\ \/ LosesRing
     \/ \E i \in Instances : HeartbeatAges(i)
     \/ \E i \in Instances : lc[i].pc # "verified" /\ lc[i].state # "ACTIVE" /\ LosesToken(i)
  /\ UNCHANGED <<lc, transfer>>

-----------------------------------------------------------------------------
JoinSteps(i, o) ==
  \/ InitRing(i, o) \/ autoJoin(i, o) \/ JoinTimerIgnored(i)
  \/ VerifiedTokens(i) \/ ReplacesTokens(i, o) \/ BecomesActive(i, o)

LeaveSteps(i, o) ==
  StopLeaves(i, o) \/ TransferOut(i) \/ Flush(i) \/ ShutdownDone(i) \/ unregister(i, o)

\* What the receiver does next in the handover under way.
TransferSteps(o) ==
  /\ transfer.to \in Instances
  /\ \/ ClaimTokensFor(transfer.from, transfer.to, o)
     \/ TransferSucceeds(transfer.from, transfer.to, o)
     \/ TransferFails(transfer.from, transfer.to, o)

Next ==
  \/ RingChanges
  \/ \E i \in Instances : Start(i) \/ Stop(i) \/ CheckTokens(i) \/ CheckReady(i) \/ Crash(i)
  \/ \E o \in Outcomes :
       \/ TransferSteps(o)
       \/ \E i \in Instances : JoinSteps(i, o) \/ LeaveSteps(i, o) \/ Heartbeat(i, o)
       \/ \E i, j \in Instances : TransferStarts(i, j, o)

Spec == Init /\ [][Next]_vars

(***************************************************************************)
(* Timers fire, the steps of the main goroutine and the handover go on,    *)
(* and the store does not fail for ever.  Nothing makes a process stop,    *)
(* crash or start, nor one instance send its tokens to another.            *)
(***************************************************************************)
Fairness ==
  /\ WF_vars(TransferSteps("ok"))
  /\ \A i \in Instances : WF_vars(JoinSteps(i, "ok") \/ LeaveSteps(i, "ok")) /\ WF_vars(Heartbeat(i, "ok"))

FairSpec == Spec /\ Fairness

-----------------------------------------------------------------------------
TypeOK ==
  /\ ring.exists \in BOOLEAN /\ DOMAIN ring.ing \subseteq Instances \cup {Other}
  /\ \A i \in DOMAIN ring.ing :
       /\ ring.ing[i].state \in {"PENDING", "JOINING", "ACTIVE", "LEAVING"}
       /\ ring.ing[i].tokens \subseteq TokenSpace /\ Cardinality(ring.ing[i].tokens) <= conf.numTokens
  /\ \A i \in Instances :
       /\ lc[i].pc \in {"down", "starting", "loop", "verified", "stopping", "transferring", "flushing",
                        "sleeping", "unregister"}
       /\ lc[i].state \in {"PENDING", "JOINING", "ACTIVE", "LEAVING"}
       /\ lc[i].ready \in {"no", "waiting", "ready"} /\ lc[i].probe \in BOOLEAN /\ lc[i].unclaimed \in BOOLEAN
       /\ lc[i].tokens \subseteq TokenSpace /\ disk[i] \subseteq TokenSpace
  /\ transfer.phase \in {"none", "receiving", "claimed", "succeeded", "failed"}

(***************************************************************************)
(* An ACTIVE instance knows its tokens: those the lifecycler would put     *)
(* back into an empty ring are those that the ring has, so that a ring     *)
(* lost and rebuilt by heartbeats is the ring there was.  There are two    *)
(* exceptions.  One is an instance whose ClaimTokensFor has failed, until  *)
(* it is restarted: see ClaimAssignsTokens.  The other is a gossiped ring  *)
(* with handovers: nobody observes those tokens, and one may be lost       *)
(* before the handover is complete.                                        *)
(***************************************************************************)
Unobserved == conf.observe /\ conf.transfers

ActiveKnowsTokens ==
  \A i \in DOMAIN ring.ing \cap Instances :
    (losses = 0 /\ ~Unobserved /\ ~lc[i].unclaimed /\ InLoop(i) /\ lc[i].state = "ACTIVE") =>
      lc[i].tokens = ring.ing[i].tokens

(***************************************************************************)
(* "ClaimTokensFor takes all the tokens for the supplied ingester and      *)
(* assigns them to this ingester": when it has returned nil, the ring has  *)
(* them there.  A CAS that failed is only logged (lifecycler.go:362).      *)
(***************************************************************************)
ClaimAssignsTokens ==
  (losses = 0 /\ transfer.phase = "claimed") => MyTokens(ring.ing, transfer.to) = lc[transfer.to].tokens

(***************************************************************************)
(* An instance that reports itself ready for the first time has tokens in  *)
(* the ring, with the same two exceptions.  A third is that CheckReady     *)
(* sees tokens, and before it sees the ring a handover replaces them by    *)
(* those of a sender that has none.                                        *)
(***************************************************************************)
ReadyHasTokens ==
  [][\A i \in Instances :
       (losses = 0 /\ ~Unobserved /\ ~lc[i].unclaimed /\ lc'[i].ready = "ready" /\ lc[i].ready # "ready") =>
         lc[i].tokens = {} \/ MyTokens(ring.ing, i) # {}]_vars

(***************************************************************************)
(* With heartbeats, a lifecycler that is PENDING with its timer still to   *)
(* fire, or observes its tokens, makes its instance ACTIVE in the ring,    *)
(* whatever the store does meanwhile; or it is stopped, fails, or a        *)
(* handover to it does after the timer has fired.                          *)
(***************************************************************************)
Joins ==
  \A i \in Instances :
    (conf.heartbeat /\ InLoop(i) /\ ((lc[i].state = "PENDING" /\ lc[i].join) \/ lc[i].observe))
      ~> (ActiveInRing(i) \/ lc[i].pc \notin {"loop", "verified"} \/ (lc[i].state = "PENDING" /\ ~lc[i].join))
=============================================================================
