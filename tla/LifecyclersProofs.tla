------------------------- MODULE LifecyclersProofs -------------------------
(***************************************************************************)
(* What holds of the ring and its lifecyclers for any number of instances, *)
(* tokens, starts and failing updates: no token has two owners, instances  *)
(* know their tokens, one that was removed stays away, and no update       *)
(* undoes what an entry says.                                              *)
(***************************************************************************)
EXTENDS Lifecyclers, FiniteSetTheorems, TLAPS

RingStates == {"PENDING", "JOINING", "ACTIVE", "LEAVING"}
BasicStates == {"JOINING", "ACTIVE", "LEAVING"}

\* A set of tokens that one instance can have.
Toks == {T \in SUBSET TokenSpace : Cardinality(T) <= conf.numTokens}

\* The times of registration that an entry can have.
Regs == Nat \cup {ZeroTime}

Entries(states) == [state : states, tokens : Toks, ts : {"fresh", "old"}, reg : Regs]

IsRing(d, states) ==
  /\ DOMAIN d \subseteq Instances \cup {Other}
  /\ d = [x \in DOMAIN d |-> d[x]]
  /\ \A x \in DOMAIN d : d[x] \in Entries(states)

(***************************************************************************)
(* The store: what the entries and the files are, and that no token has    *)
(* two owners.                                                             *)
(***************************************************************************)
StoreOK(states) ==
  /\ conf \in Confs /\ losses \in Nat
  /\ ring = [exists |-> ring.exists, ing |-> ring.ing] /\ ring.exists \in BOOLEAN
  /\ IsRing(ring.ing, states)
  /\ ~ring.exists => DOMAIN ring.ing = {}
  /\ disk = [i \in Instances |-> disk[i]]

OneOwner(d) == \A i, j \in DOMAIN d : i # j => d[i].tokens \cap d[j].tokens = {}

FileOK(i) == disk[i] \in Toks /\ (~conf.tokensFile => disk[i] = {})

-----------------------------------------------------------------------------
(***************************************************************************)
(* The full lifecycler.  The invariant says of each instance how its       *)
(* lifecycler and its entry in the ring go together.                       *)
(***************************************************************************)
Lcs == [pc : {"down", "starting", "loop", "verified", "stopping", "transferring", "flushing",
              "sleeping", "unregister"},
        state : RingStates, tokens : Toks, reg : Nat, join : BOOLEAN, observe : BOOLEAN,
        ready : {"no", "waiting", "ready"}, probe : BOOLEAN, unclaimed : BOOLEAN, starts : Nat]

Live(i) == lc[i].pc \notin {"down", "starting"}
Shutting(i) == lc[i].pc \in {"transferring", "flushing", "sleeping", "unregister"}

\* Nothing else than its lifecycler takes tokens from an instance.
Watched == losses = 0 /\ ~Unobserved

\* And it has got those that it claimed.
Sure(i) == Watched /\ ~lc[i].unclaimed

Busy == transfer.phase \in {"receiving", "claimed"}

LcOK(i) ==
  /\ lc[i] \in Lcs /\ FileOK(i)
  /\ ~Live(i) => lc[i].tokens = {} /\ lc[i].state = "PENDING"
  /\ (Watched /\ lc[i].observe) => (InLoop(i) /\ conf.observe /\ lc[i].state = "JOINING")

\* The entry is there, with the time of registration that the lifecycler knows.
EntryOK(i) ==
  (losses = 0 /\ Live(i)) =>
    i \in DOMAIN ring.ing /\ GetRegisteredAt(ring.ing[i].reg) = lc[i].reg

\* An instance that the ring has as ACTIVE or LEAVING got there by its lifecycler.
StateOK(i) ==
  (Watched /\ Live(i)) =>
    /\ ring.ing[i].state \in {"ACTIVE", "LEAVING"} => lc[i].state \in {"ACTIVE", "LEAVING"}
    /\ Shutting(i) => lc[i].state # "ACTIVE"

\* It knows its tokens if it is ACTIVE or about to be.
TokensOK(i) ==
  (Sure(i) /\ Live(i) /\ (lc[i].state = "ACTIVE" \/ ring.ing[i].state = "ACTIVE" \/ lc[i].pc = "verified")) =>
    lc[i].tokens = ring.ing[i].tokens

\* The receiver and the sender of tokens keep still until the handover is over.
ReceiverOK(i) ==
  (Watched /\ Busy /\ transfer.to = i) =>
    /\ conf.transfers /\ InLoop(i) /\ lc[i].state = "JOINING"
    /\ (transfer.phase = "claimed" /\ Sure(i)) => lc[i].tokens = ring.ing[i].tokens

SenderOK(i) ==
  (Watched /\ Busy /\ transfer.from = i) =>
    lc[i].pc = "transferring" /\ ring.ing[i].state = "LEAVING"

FullOK(i) == LcOK(i) /\ EntryOK(i) /\ StateOK(i) /\ TokensOK(i) /\ ReceiverOK(i) /\ SenderOK(i)

TransferOK ==
  transfer \in [from : Instances \cup {Other}, to : Instances \cup {Other},
                phase : {"none", "receiving", "claimed", "succeeded", "failed"}]

FullInv ==
  /\ StoreOK(RingStates) /\ TransferOK
  /\ lc = [i \in Instances |-> lc[i]]
  /\ TokensHaveOneOwner
  /\ \A i \in Instances : FullOK(i)

-----------------------------------------------------------------------------
(***************************************************************************)
(* The basic lifecycler.                                                   *)
(***************************************************************************)
Updates == [set : BOOLEAN, e : Entries(BasicStates)]

Bls == [pc : {"down", "starting", "observing", "notify", "running", "stopping", "unregister", "unregistered"},
        desc : Updates, main : Updates, delegate : Updates,
        leaving : {"no", "change", "next", "done"}, starts : Nat]

IsFull(T) == Cardinality(T) = conf.numTokens

HasEntry(i) == bl[i].pc \in {"observing", "notify", "running", "stopping", "unregister"}

BlOK(i) ==
  /\ bl[i] \in Bls /\ FileOK(i)
  /\ HasEntry(i) => bl[i].desc.set
  /\ bl[i].leaving = "change" => bl[i].pc = "stopping"
  /\ bl[i].pc = "unregistered" => i \notin DOMAIN ring.ing

\* Nobody else removes the entry, unless it is forgotten.
StaysOK(i) == (losses = 0 /\ ~conf.forget /\ HasEntry(i)) => i \in DOMAIN ring.ing

\* Without heartbeats no incomplete set of tokens gets into the lifecycler.
CompleteOK(i) ==
  (~conf.heartbeat /\ losses = 0) =>
    /\ bl[i].pc \in {"observing", "notify"} => IsFull(bl[i].desc.e.tokens)
    /\ bl[i].pc \in {"starting", "observing", "notify"} => ~bl[i].delegate.set
    /\ bl[i].pc = "starting" => ~bl[i].main.set
    /\ (bl[i].pc \in {"observing", "notify"} /\ bl[i].main.set) => IsFull(bl[i].main.e.tokens)
    /\ disk[i] = {} \/ IsFull(disk[i])

BasicOK(i) == BlOK(i) /\ StaysOK(i) /\ CompleteOK(i)

BasicInv ==
  /\ StoreOK(BasicStates)
  /\ bl = [i \in Instances |-> bl[i]]
  /\ TokensHaveOneOwner
  /\ \A i \in Instances : BasicOK(i)

-----------------------------------------------------------------------------
\* The lifecyclers of the other kind do nothing.
Inv ==
  \/ conf.kind = "full" /\ FullInv /\ bl = [i \in Instances |-> Gone(0, "down")]
  \/ conf.kind = "basic" /\ BasicInv /\ lc = [i \in Instances |-> NotRunning(0)] /\ transfer = NoTransfer


-----------------------------------------------------------------------------
(***************************************************************************)
(* Sets of tokens.                                                         *)
(***************************************************************************)
\* A registration time is read as it was written, and unknown as unknown.
LEMMA Times ==
  /\ \A t \in Nat : t \in Regs /\ Unix(t) \in Regs /\ GetRegisteredAt(t) = t /\ GetRegisteredAt(Unix(t)) = t
  /\ \A r \in Regs : GetRegisteredAt(r) \in Nat
BY DEF Regs, Unix, GetRegisteredAt, ZeroTime

\* A set of tokens that one instance can have is finite; without some it still is one.
LEMMA TokensFinite ==
  ASSUME conf \in Confs, NEW T \in Toks
  PROVE  /\ conf.numTokens \in Nat \ {0} /\ T \subseteq TokenSpace
         /\ IsFiniteSet(T) /\ Cardinality(T) \in Nat /\ Cardinality(T) <= conf.numTokens
         /\ \A U \in SUBSET T : U \in Toks
<1>1. T \subseteq TokenSpace /\ Cardinality(T) <= conf.numTokens
  BY DEF Toks
<1>2. IsFiniteSet(T)
  BY <1>1, FS_Subset, NamesAssumption
<1>3. Cardinality(T) \in Nat /\ conf.numTokens \in Nat \ {0}
  BY <1>2, FS_CardinalityType, NumTokensAssumption
<1>4. ASSUME NEW U \in SUBSET T PROVE U \in Toks
  <2>1. IsFiniteSet(U) /\ Cardinality(U) <= Cardinality(T)
    BY <1>2, FS_Subset
  <2>2. Cardinality(U) \in Nat
    BY <2>1, FS_CardinalityType
  <2>3. Cardinality(U) <= conf.numTokens
    BY <1>1, <1>3, <2>1, <2>2
  <2> QED
    BY <1>1, <2>3 DEF Toks
<1> QED
  BY <1>1, <1>2, <1>3, <1>4

\* No token, or one, is a set of tokens that an instance can have.
LEMMA SmallTokens ==
  ASSUME conf \in Confs
  PROVE  {} \in Toks /\ \A t \in TokenSpace : {t} \in Toks
<1>1. conf.numTokens \in Nat \ {0}
  BY NumTokensAssumption
<1>2. Cardinality({}) = 0
  BY FS_EmptySet
<1>3. \A t \in TokenSpace : Cardinality({t}) = 1
  BY FS_Singleton
<1> QED
  BY <1>1, <1>2, <1>3 DEF Toks

(***************************************************************************)
(* GenerateTokens makes a set of tokens complete, with tokens that nobody  *)
(* has, if those there are are all in the ring.                            *)
(***************************************************************************)
LEMMA TokensGenerated ==
  ASSUME conf \in Confs, NEW mine \in Toks, NEW taken,
         NEW new \in GenerateTokens(conf.numTokens - Cardinality(mine), taken)
  PROVE  /\ mine \cup new \in Toks /\ new \cap taken = {}
         /\ (mine \subseteq taken \/ IsFull(mine)) => IsFull(mine \cup new)
<1>1. /\ conf.numTokens \in Nat \ {0} /\ mine \subseteq TokenSpace
      /\ IsFiniteSet(mine) /\ Cardinality(mine) \in Nat /\ Cardinality(mine) <= conf.numTokens
  BY TokensFinite
<1>2. CASE Cardinality(mine) = conf.numTokens
  <2>1. new = {}
    BY <1>1, <1>2 DEF GenerateTokens
  <2>2. mine \cup new = mine /\ new \cap taken = {}
    BY <2>1
  <2> QED
    BY <1>2, <2>2 DEF IsFull
<1>3. CASE Cardinality(mine) # conf.numTokens
  <2>0. ~(conf.numTokens - Cardinality(mine) <= 0)
    BY <1>1, <1>3
  <2>1. new \subseteq TokenSpace \ taken /\ Cardinality(new) = conf.numTokens - Cardinality(mine)
    BY <2>0 DEF GenerateTokens, kSubset
  <2>2. IsFiniteSet(new)
    BY <2>1, FS_Subset, NamesAssumption
  <2>3. IsFiniteSet(mine \cap new)
    BY <1>1, FS_Subset
  <2>4. Cardinality(new) \in Nat /\ Cardinality(mine \cap new) \in Nat
    BY <2>2, <2>3, FS_CardinalityType
  <2>5. Cardinality(mine \cup new) = Cardinality(mine) + Cardinality(new) - Cardinality(mine \cap new)
    BY <1>1, <2>2, FS_Union
  <2>6. Cardinality(mine \cup new) = conf.numTokens - Cardinality(mine \cap new)
    BY <1>1, <2>1, <2>4, <2>5
  <2>7. Cardinality(mine \cup new) <= conf.numTokens
    BY <1>1, <2>4, <2>6
  <2>8. mine \cup new \in Toks
    BY <1>1, <2>1, <2>7 DEF Toks
  <2>9. ASSUME mine \subseteq taken PROVE IsFull(mine \cup new)
    <3>1. mine \cap new = {}
      BY <2>1, <2>9
    <3>2. Cardinality(mine \cap new) = 0
      BY <3>1, FS_EmptySet
    <3> QED
      BY <1>1, <2>6, <3>2 DEF IsFull
  <2> QED
    BY <1>3, <2>1, <2>8, <2>9 DEF IsFull
<1> QED
  BY <1>2, <1>3

-----------------------------------------------------------------------------
(***************************************************************************)
(* Editing a descriptor.                                                   *)
(***************************************************************************)
\* A descriptor with an entry put into it is one.
LEMMA PutRing ==
  ASSUME NEW states, NEW d, IsRing(d, states), NEW i \in Instances \cup {Other}, NEW e \in Entries(states)
  PROVE  IsRing(Put(d, i, e), states)
<1> DEFINE p == Put(d, i, e)
<1>1. /\ DOMAIN p = DOMAIN d \cup {i} /\ p[i] = e /\ \A x \in DOMAIN d \ {i} : p[x] = d[x]
      /\ p = [x \in DOMAIN p |-> p[x]]
  BY DEF Put
<1> HIDE DEF p
<1>2. DOMAIN p \subseteq Instances \cup {Other}
  BY <1>1 DEF IsRing
<1>3. \A x \in DOMAIN p : p[x] \in Entries(states)
  BY <1>1 DEF IsRing
<1>4. IsRing(p, states)
  BY <1>1, <1>2, <1>3, Zenon DEF IsRing
<1> QED
  BY <1>4 DEF p

\* A part of a descriptor is one.
LEMMA PartRing ==
  ASSUME NEW states, NEW d, IsRing(d, states), NEW X \in SUBSET DOMAIN d
  PROVE  /\ IsRing([x \in X |-> d[x]], states)
         /\ OneOwner(d) => OneOwner([x \in X |-> d[x]])
BY DEF IsRing, OneOwner

\* An entry whose tokens nobody else has leaves every token one owner.
LEMMA PutOneOwner ==
  ASSUME NEW d, OneOwner(d), NEW i, NEW e, \A x \in DOMAIN d \ {i} : e.tokens \cap d[x].tokens = {}
  PROVE  OneOwner(Put(d, i, e))
<1> DEFINE p == Put(d, i, e)
<1>1. DOMAIN p = DOMAIN d \cup {i} /\ p[i] = e /\ \A x \in DOMAIN d \ {i} : p[x] = d[x]
  BY DEF Put
<1> HIDE DEF p
<1>2. OneOwner(p)
  BY <1>1 DEF OneOwner
<1> QED
  BY <1>2 DEF p

\* Tokens of an instance and new ones are not among those of another.
LEMMA OwnOrNew ==
  ASSUME NEW d, OneOwner(d), NEW i, NEW new, new \cap TakenTokens(d) = {}
  PROVE  \A x \in DOMAIN d \ {i} : (MyTokens(d, i) \cup new) \cap d[x].tokens = {}
<1> SUFFICES ASSUME NEW x \in DOMAIN d \ {i} PROVE (MyTokens(d, i) \cup new) \cap d[x].tokens = {}
  OBVIOUS
<1>1. MyTokens(d, i) \cap d[x].tokens = {}
  BY DEF MyTokens, EntryOf, ZeroEntry, OneOwner
<1>2. d[x].tokens \subseteq TakenTokens(d)
  BY DEF TakenTokens
<1> QED
  BY <1>1, <1>2

\* The own tokens are taken.
LEMMA MineTaken ==
  ASSUME NEW d, NEW i
  PROVE  MyTokens(d, i) \subseteq TakenTokens(d)
BY DEF MyTokens, EntryOf, ZeroEntry, TakenTokens


-----------------------------------------------------------------------------
(***************************************************************************)
(* Steps that edit one entry.                                              *)
(***************************************************************************)
\* The entries of all instances but i stay as they are.
OthersStay(i) ==
  \A j \in (Instances \cup {Other}) \ {i} :
    /\ j \in DOMAIN ring'.ing <=> j \in DOMAIN ring.ing
    /\ j \in DOMAIN ring.ing => ring'.ing[j] = ring.ing[j]

\* They stay as they are or are removed.
OthersKept(i) ==
  \A j \in (DOMAIN ring'.ing) \ {i} : j \in DOMAIN ring.ing /\ ring'.ing[j] = ring.ing[j]

\* While the store keeps the ring, entries that stay keep their time of registration.
RegsKept == losses = 0 => \A x \in DOMAIN ring.ing \cap DOMAIN ring'.ing : 
                                   GetRegisteredAt(ring'.ing[x].reg) = GetRegisteredAt(ring.ing[x].reg)

DiskStays(i) ==
  disk' = [j \in Instances |-> disk'[j]] /\ \A j \in Instances \ {i} : disk'[j] = disk[j]

\* What tokens and entries are is up to the configuration.
LEMMA SameTypes ==
  ASSUME conf' = conf, NEW states
  PROVE  Toks' = Toks /\ Entries(states)' = Entries(states) /\ Lcs' = Lcs
BY DEF Toks, Entries, Lcs

\* The tokens file of one instance is written.
LEMMA FileStored ==
  ASSUME NEW i \in Instances, NEW T, disk = [j \in Instances |-> disk[j]],
         StoreToFile(i, T) \/ UNCHANGED disk
  PROVE  DiskStays(i) /\ disk'[i] \in {disk[i], T} /\ (~conf.tokensFile => disk'[i] = disk[i])
BY DEF StoreToFile, DiskStays

\* A CAS that puts entry e into the ring, stored or not.
LEMMA CASPut ==
  ASSUME NEW states, StoreOK(states), NEW o, NEW i \in Instances \cup {Other}, NEW e \in Entries(states),
         CAS(o, Put(ring.ing, i, e)), conf' = conf, losses' = losses, disk' = [j \in Instances |-> disk'[j]]
  PROVE  /\ StoreOK(states)' /\ OthersStay(i)
         /\ \/ ring' = ring /\ ~IsStored(o)
            \/ IsStored(o) /\ i \in DOMAIN ring'.ing /\ ring'.ing[i] = e
<1>1. IsRing(Put(ring.ing, i, e), states)
  BY PutRing DEF StoreOK
<1>2. CASE ~IsStored(o)
  <2>1. ring' = ring
    BY <1>2 DEF CAS
  <2>2. StoreOK(states)'
    BY <2>1, SameTypes DEF StoreOK, IsRing
  <2> QED
    BY <1>2, <2>1, <2>2 DEF OthersStay
<1>3. CASE IsStored(o)
  <2> DEFINE p == Put(ring.ing, i, e)
  <2>1. ring' = [exists |-> TRUE, ing |-> p]
    BY <1>3 DEF CAS, NewRing
  <2>2. DOMAIN p = DOMAIN ring.ing \cup {i} /\ p[i] = e /\ \A x \in DOMAIN ring.ing \ {i} : p[x] = ring.ing[x]
    BY DEF Put
  <2>3. IsRing(p, states)
    BY <1>1
  <2>4. ring'.ing = p /\ ring'.exists = TRUE
    BY <2>1
  <2>5. /\ DOMAIN p \subseteq Instances \cup {Other} /\ p = [x \in DOMAIN p |-> p[x]]
        /\ \A x \in DOMAIN p : p[x] \in Entries(states)
    BY <2>3 DEF IsRing
  <2> HIDE DEF p
  <2>6. IsRing(ring.ing, states)'
    BY <2>4, <2>5, SameTypes DEF IsRing
  <2>7. StoreOK(states)'
    BY <2>1, <2>4, <2>6 DEF StoreOK
  <2>8. OthersStay(i)
    BY <2>2, <2>4 DEF OthersStay
  <2> QED
    BY <1>3, <2>2, <2>4, <2>7, <2>8
<1> QED
  BY <1>2, <1>3


\* The tokens that the entry of i has after a step nobody else has had before it.
TokensFree(i) ==
  (losses = 0 /\ ~conf.tokensFile /\ ~conf.forget /\ i \in DOMAIN ring'.ing) =>
    \A x \in DOMAIN ring.ing \ {i} : ring'.ing[i].tokens \cap ring.ing[x].tokens = {}

RegOK(i) ==
  (losses = 0 /\ i \in DOMAIN ring.ing \cap DOMAIN ring'.ing) =>
    GetRegisteredAt(ring'.ing[i].reg) = GetRegisteredAt(ring.ing[i].reg)

\* An edit of one entry that takes no token of another leaves one owner to every token.
LEMMA EditOneOwner ==
  ASSUME NEW i, OthersKept(i), TokensFree(i), conf' = conf, losses' = losses, TokensHaveOneOwner
  PROVE  TokensHaveOneOwner'
<1> SUFFICES ASSUME losses = 0, ~conf.tokensFile, ~conf.forget, NEW x \in DOMAIN ring'.ing, NEW y \in DOMAIN ring'.ing, x # y
             PROVE  ring'.ing[x].tokens \cap ring'.ing[y].tokens = {}
  BY DEF TokensHaveOneOwner
<1>1. \A z \in DOMAIN ring'.ing \ {i} : z \in DOMAIN ring.ing /\ ring'.ing[z] = ring.ing[z]
  BY DEF OthersKept
<1>2. CASE x = i
  BY <1>1, <1>2 DEF TokensFree
<1>3. CASE y = i
  BY <1>1, <1>3 DEF TokensFree
<1>4. CASE x # i /\ y # i
  BY <1>1, <1>4 DEF TokensHaveOneOwner
<1> QED
  BY <1>2, <1>3, <1>4

\* Such an edit that keeps its time of registration keeps them all.
LEMMA EditRegs ==
  ASSUME NEW i, OthersStay(i), RegOK(i), DOMAIN ring'.ing \subseteq Instances \cup {Other}
  PROVE  RegsKept
<1>1. \A z \in DOMAIN ring'.ing \ {i} : z \in DOMAIN ring.ing /\ ring'.ing[z] = ring.ing[z]
  BY DEF OthersStay
<1> QED
  BY <1>1 DEF RegsKept, RegOK

-----------------------------------------------------------------------------
(***************************************************************************)
(* Steps of the full lifecycler.                                           *)
(***************************************************************************)
\* No handover begins for instance j, as its receiver or its sender, and none goes on; or as it should.
RoleKept(j) ==
  \/ /\ (Busy' /\ transfer'.to = j) => (Busy /\ transfer.to = j /\ transfer'.phase = transfer.phase)
     /\ (Busy' /\ transfer'.from = j) => (Busy /\ transfer.from = j)
  \/ ReceiverOK(j)' /\ SenderOK(j)'

\* Nothing that the invariant says of instance j changes, but for what others know of it.
Untouched(j) ==
  /\ lc'[j] = lc[j] /\ disk'[j] = disk[j]
  /\ j \in DOMAIN ring'.ing <=> j \in DOMAIN ring.ing
  /\ j \in DOMAIN ring.ing => ring'.ing[j] = ring.ing[j]
  /\ RoleKept(j)

\* What the invariant says of such an instance stays true.
LEMMA UntouchedOK ==
  ASSUME NEW j \in Instances, FullOK(j), Untouched(j), conf' = conf, losses' = losses
  PROVE  FullOK(j)'
<1>0. Watched' = Watched
  BY DEF Watched, Unobserved
<1>1. LcOK(j)'
  BY <1>0, SameTypes DEF FullOK, Untouched, LcOK, FileOK, Live, InLoop
<1>2. EntryOK(j)'
  BY DEF FullOK, Untouched, EntryOK, Live
<1>3. ASSUME losses = 0, Live(j)
      PROVE  ring'.ing[j] = ring.ing[j]
  BY <1>3 DEF FullOK, EntryOK, Untouched
<1>4. StateOK(j)'
  BY <1>0, <1>3 DEF FullOK, Untouched, StateOK, Live, Shutting, Watched
<1>5. TokensOK(j)'
  BY <1>0, <1>3 DEF FullOK, Untouched, TokensOK, Sure, Live, Watched
<1>6. ReceiverOK(j)'
  BY <1>0, <1>3 DEF FullOK, Untouched, RoleKept, ReceiverOK, Sure, InLoop, Live, Watched
<1>7. SenderOK(j)'
  BY <1>0, <1>3 DEF FullOK, Untouched, RoleKept, SenderOK, Live, Watched
<1> QED
  BY <1>1, <1>2, <1>4, <1>5, <1>6, <1>7 DEF FullOK


LcStays(i) == lc' = [j \in Instances |-> lc'[j]] /\ \A j \in Instances \ {i} : lc'[j] = lc[j]

\* An instance that reports itself ready for the first time has tokens.
ReadyOK(i) ==
  (Sure(i) /\ lc'[i].ready = "ready" /\ lc[i].ready # "ready") =>
    lc[i].tokens = {} \/ MyTokens(ring.ing, i) # {}

\* What every step of the full lifecycler does.
FullStepOK == FullInv' /\ RegsKept /\ \A j \in Instances : ReadyOK(j)

(***************************************************************************)
(* A step of one instance that edits at most its own entry keeps the       *)
(* invariant if it keeps what that says of the instance itself.            *)
(***************************************************************************)
LEMMA FullEdit ==
  ASSUME FullInv, NEW i \in Instances, conf' = conf, losses' = losses, StoreOK(RingStates)', TransferOK',
         OthersStay(i), TokensFree(i), RegOK(i), DiskStays(i), LcStays(i),
         \A j \in Instances \ {i} : RoleKept(j), FullOK(i)', ReadyOK(i)
  PROVE  FullStepOK
<1>1. DOMAIN ring.ing \subseteq Instances \cup {Other} /\ DOMAIN ring'.ing \subseteq Instances \cup {Other}
  BY DEF FullInv, StoreOK, IsRing
<1>2. TokensHaveOneOwner'
  <2>1. OthersKept(i)
    BY <1>1 DEF OthersKept, OthersStay
  <2> QED
    BY <2>1, EditOneOwner DEF FullInv
<1>3. RegsKept
  BY <1>1, EditRegs
<1>4. ASSUME NEW j \in Instances, j # i PROVE FullOK(j)' /\ ReadyOK(j)
  <2>1. lc'[j] = lc[j] /\ disk'[j] = disk[j] /\ RoleKept(j)
    BY <1>4 DEF LcStays, DiskStays
  <2>2. (j \in DOMAIN ring'.ing <=> j \in DOMAIN ring.ing) /\ (j \in DOMAIN ring.ing => ring'.ing[j] = ring.ing[j])
    BY <1>4 DEF OthersStay
  <2>3. FullOK(j)'
    BY <2>1, <2>2, UntouchedOK DEF Untouched, FullInv
  <2>4. ReadyOK(j)
    BY <2>1 DEF ReadyOK
  <2> QED
    BY <2>3, <2>4
<1>5. \A j \in Instances : FullOK(j)' /\ ReadyOK(j)
  BY <1>4
<1>6. FullInv'
  BY <1>2, <1>5 DEF FullInv, LcStays
<1> QED
  BY <1>3, <1>5, <1>6 DEF FullStepOK

\* The same for a step that leaves the ring, the files and the handover alone.
LEMMA FullLocal ==
  ASSUME FullInv, NEW i \in Instances, UNCHANGED <<conf, ring, disk, losses>>, TransferOK', LcStays(i),
         \A j \in Instances \ {i} : RoleKept(j), FullOK(i)', ReadyOK(i)
  PROVE  FullStepOK
<1>1. StoreOK(RingStates)'
  BY SameTypes DEF FullInv, StoreOK, IsRing
<1>2. OthersStay(i) /\ DiskStays(i)
  BY DEF OthersStay, DiskStays, FullInv, StoreOK
<1>3. RegOK(i)
  BY DEF RegOK
<1>4. TokensFree(i)
  BY DEF TokensFree, FullInv, TokensHaveOneOwner
<1> QED
  BY <1>1, <1>2, <1>3, <1>4, FullEdit

\* The handover is as before.
LEMMA SameTransfer ==
  ASSUME transfer' = transfer, TransferOK
  PROVE  TransferOK' /\ \A j \in Instances : RoleKept(j)
BY DEF TransferOK, RoleKept, Busy

\* A lifecycler that is down or starts, and neither sends nor receives, has nothing to keep.
LEMMA DownOK ==
  ASSUME FullInv, NEW i \in Instances, conf' = conf, losses' = losses, FileOK(i)',
         \/ lc'[i] = NotRunning(lc[i].starts)
         \/ lc'[i] = NewLifecycler(lc[i].starts + 1),
         Watched => ~(Busy' /\ i \in {transfer'.to, transfer'.from})
  PROVE  FullOK(i)' /\ ReadyOK(i)
<1>0. Watched' = Watched
  BY DEF Watched, Unobserved
<1>1. lc[i].starts \in Nat /\ {} \in Toks
  BY SmallTokens DEF FullInv, FullOK, LcOK, Lcs, StoreOK
<1>2. \E p \in {"down", "starting"}, n \in {lc[i].starts, lc[i].starts + 1} :
        lc'[i] = [pc |-> p, state |-> "PENDING", tokens |-> {}, reg |-> 0, join |-> FALSE, observe |-> FALSE,
                  ready |-> "no", probe |-> FALSE, unclaimed |-> FALSE, starts |-> n]
  BY DEF NotRunning, NewLifecycler
<1>3. lc'[i] \in Lcs
  BY <1>1, <1>2 DEF Lcs, RingStates
<1>4. LcOK(i)'
  BY <1>1, <1>2, <1>3, SameTypes DEF LcOK, Live
<1>5. EntryOK(i)' /\ StateOK(i)' /\ TokensOK(i)'
  BY <1>2 DEF EntryOK, StateOK, TokensOK, Live
<1>6. ReceiverOK(i)' /\ SenderOK(i)'
  BY <1>0 DEF ReceiverOK, SenderOK
<1>7. ReadyOK(i)
  BY <1>2 DEF ReadyOK
<1> QED
  BY <1>4, <1>5, <1>6, <1>7 DEF FullOK


\* A step that makes l the lifecycler of instance i.
LEMMA LcSet ==
  ASSUME FullInv, NEW i \in Instances, NEW l, lc' = [lc EXCEPT ![i] = l]
  PROVE  LcStays(i) /\ lc'[i] = l
BY DEF FullInv, LcStays

\* The tokens file stays right as long as nothing is written to it.
LEMMA SameFile ==
  ASSUME FullInv, NEW i \in Instances, conf' = conf, disk' = disk
  PROVE  FileOK(i)'
BY SameTypes DEF FullInv, FullOK, LcOK, FileOK

\* While tokens are watched only a lifecycler in its loop receives and only one that stops sends.
LEMMA NoRole ==
  ASSUME FullInv, NEW i \in Instances, lc[i].pc \notin {"loop", "transferring"}
  PROVE  Watched => ~(Busy /\ i \in {transfer.to, transfer.from})
BY DEF FullInv, FullOK, ReceiverOK, SenderOK, InLoop

\* Start makes a new lifecycler.
LEMMA StartOK == ASSUME FullInv, NEW i \in Instances, Start(i) PROVE FullStepOK
<1>1. LcStays(i) /\ lc'[i] = NewLifecycler(lc[i].starts + 1)
  BY LcSet DEF Start
<1>2. UNCHANGED <<conf, ring, disk, losses, transfer>> /\ lc[i].pc = "down"
  BY DEF Start, envVars, Up
<1>3. FileOK(i)' /\ Busy' = Busy
  BY <1>2, SameFile DEF Busy
<1>4. FullOK(i)' /\ ReadyOK(i)
  BY <1>1, <1>2, <1>3, NoRole, DownOK
<1>5. TransferOK' /\ \A j \in Instances : RoleKept(j)
  BY <1>2, SameTransfer DEF FullInv
<1> QED
  BY <1>1, <1>2, <1>4, <1>5, FullLocal

(***************************************************************************)
(* A step that changes nothing but where the lifecycler is, its timers and *)
(* its readiness, towards the end of its life or within the loop.          *)
(***************************************************************************)
LEMMA MovesOK ==
  ASSUME FullInv, NEW i \in Instances, UNCHANGED <<conf, ring, disk, losses>>, LcStays(i),
         lc'[i] \in Lcs, lc'[i].state = lc[i].state, lc'[i].tokens = lc[i].tokens,
         lc'[i].reg = lc[i].reg, lc'[i].unclaimed = lc[i].unclaimed,
         Watched /\ lc'[i].observe => lc[i].observe /\ lc'[i].pc = "loop",
         Live(i), Live(i)', Watched /\ Shutting(i)' => Shutting(i),
         Watched /\ lc'[i].pc = "verified" => lc[i].tokens = MyTokens(ring.ing, i),
         TransferOK', \A j \in Instances : RoleKept(j),
         Watched /\ Busy' /\ i \in {transfer'.to, transfer'.from} => lc'[i].pc = lc[i].pc,
         ReadyOK(i)
  PROVE  FullStepOK
<1>0. Watched' = Watched
  BY DEF Watched, Unobserved
<1>1. FullOK(i)
  BY DEF FullInv
<1>2. LcOK(i)'
  BY <1>0, <1>1, SameTypes, SameFile DEF FullOK, LcOK, Live, InLoop
<1>3. EntryOK(i)'
  BY <1>1 DEF FullOK, EntryOK, Live
<1>4. StateOK(i)'
  BY <1>0, <1>1 DEF FullOK, StateOK, Live
<1>5. TokensOK(i)'
  BY <1>0, <1>1 DEF FullOK, TokensOK, EntryOK, MyTokens, EntryOf, Watched, Sure
<1>6. ReceiverOK(i)' /\ SenderOK(i)'
  BY <1>0, <1>1 DEF FullOK, ReceiverOK, SenderOK, RoleKept, InLoop, Sure
<1>7. FullOK(i)'
  BY <1>2, <1>3, <1>4, <1>5, <1>6 DEF FullOK
<1> QED
  BY <1>7, FullLocal


\* The timer of JoinAfter fires in vain.
LEMMA JoinTimerIgnoredOK == ASSUME FullInv, NEW i \in Instances, JoinTimerIgnored(i) PROVE FullStepOK
<1>1. lc[i] \in Lcs /\ lc[i].pc = "loop" /\ TransferOK
  BY DEF FullInv, FullOK, LcOK, JoinTimerIgnored, InLoop
<1>2. LcStays(i) /\ lc'[i] = [lc[i] EXCEPT !.join = FALSE]
  BY DEF FullInv, LcStays, JoinTimerIgnored
<1>3. UNCHANGED <<conf, ring, disk, losses, transfer>>
  BY DEF JoinTimerIgnored, envVars
<1>4. /\ lc'[i] \in Lcs /\ lc'[i].pc = "loop" /\ lc'[i].state = lc[i].state /\ lc'[i].tokens = lc[i].tokens
      /\ lc'[i].reg = lc[i].reg /\ lc'[i].unclaimed = lc[i].unclaimed /\ lc'[i].observe = lc[i].observe /\ lc'[i].ready = lc[i].ready
  BY <1>1, <1>2 DEF Lcs
<1>5. TransferOK' /\ \A j \in Instances : RoleKept(j)
  BY <1>1, <1>3, SameTransfer
<1>6. Live(i) /\ Live(i)' /\ ~Shutting(i)' /\ ReadyOK(i)
  BY <1>1, <1>4 DEF Live, Shutting, ReadyOK
<1> QED
  BY <1>1, <1>2, <1>3, <1>4, <1>5, <1>6, MovesOK

\* The tokens observed are those in the ring.
LEMMA VerifiedTokensOK == ASSUME FullInv, NEW i \in Instances, VerifiedTokens(i) PROVE FullStepOK
<1>0. lc[i] \in Lcs
  BY DEF FullInv, FullOK, LcOK
<1>1. lc[i].pc = "loop" /\ TransferOK /\ lc[i].tokens = MyTokens(ring.ing, i) /\ (Watched => conf.observe)
  BY DEF FullInv, FullOK, LcOK, VerifiedTokens, InLoop
<1>2. LcStays(i) /\ lc'[i] = [lc[i] EXCEPT !.pc = "verified", !.observe = FALSE]
  BY LcSet DEF VerifiedTokens
<1>3. UNCHANGED <<conf, ring, disk, losses, transfer>>
  BY DEF VerifiedTokens, envVars
<1>4. /\ lc'[i] \in Lcs /\ lc'[i].pc = "verified" /\ lc'[i].state = lc[i].state /\ lc'[i].tokens = lc[i].tokens
      /\ lc'[i].reg = lc[i].reg /\ lc'[i].unclaimed = lc[i].unclaimed /\ lc'[i].observe = FALSE /\ lc'[i].ready = lc[i].ready
  BY <1>0, <1>2 DEF Lcs
<1>5. TransferOK' /\ \A j \in Instances : RoleKept(j)
  BY <1>1, <1>3, SameTransfer
<1>6. Live(i) /\ Live(i)' /\ ~Shutting(i)' /\ ReadyOK(i)
  BY <1>1, <1>4 DEF Live, Shutting, ReadyOK
<1>7. Watched => ~(Busy' /\ i \in {transfer'.to, transfer'.from})
  BY <1>1, <1>3 DEF FullInv, FullOK, ReceiverOK, SenderOK, Watched, Unobserved, Busy
<1> QED
  BY <1>1, <1>2, <1>3, <1>4, <1>5, <1>6, <1>7, MovesOK

\* The loop is left, and with it a handover that the instance receives.
LEMMA StopOK == ASSUME FullInv, NEW i \in Instances, Stop(i) PROVE FullStepOK
<1>1. lc[i] \in Lcs /\ lc[i].pc = "loop" /\ TransferOK
  BY DEF FullInv, FullOK, LcOK, Stop, InLoop
<1>2. LcStays(i) /\ lc'[i] = [lc[i] EXCEPT !.pc = "stopping", !.join = FALSE, !.observe = FALSE]
  BY LcSet DEF Stop
<1>3. UNCHANGED <<conf, ring, disk, losses>>
  BY DEF Stop
<1>4. /\ lc'[i] \in Lcs /\ lc'[i].pc = "stopping" /\ lc'[i].state = lc[i].state /\ lc'[i].tokens = lc[i].tokens
      /\ lc'[i].reg = lc[i].reg /\ lc'[i].unclaimed = lc[i].unclaimed /\ lc'[i].observe = FALSE /\ lc'[i].ready = lc[i].ready
  BY <1>1, <1>2 DEF Lcs
<1>5. Live(i) /\ Live(i)' /\ ~Shutting(i)' /\ ReadyOK(i)
  BY <1>1, <1>4 DEF Live, Shutting, ReadyOK
<1>6. Watched /\ Busy => transfer.from # i
  BY <1>1 DEF FullInv, FullOK, SenderOK
<1>7. CASE transfer.to = i /\ Busy
  <2>1. transfer' = IF transfer.from = Other THEN NoTransfer ELSE [transfer EXCEPT !.phase = "failed"]
    BY <1>7 DEF Stop, TransferEnds, Busy
  <2>2. TransferOK' /\ ~Busy'
    BY <1>1, <2>1 DEF TransferOK, NoTransfer, Busy
  <2>3. \A j \in Instances : RoleKept(j)
    BY <2>2 DEF RoleKept
  <2> QED
    BY <1>1, <1>2, <1>3, <1>4, <1>5, <2>2, <2>3, MovesOK
<1>8. CASE ~(transfer.to = i /\ Busy)
  <2>1. transfer' = transfer
    BY <1>8 DEF Stop, Busy
  <2>2. TransferOK' /\ \A j \in Instances : RoleKept(j)
    BY <1>1, <2>1, SameTransfer
  <2>3. Watched => ~(Busy' /\ i \in {transfer'.to, transfer'.from})
    BY <1>6, <1>8, <2>1 DEF Busy
  <2> QED
    BY <1>1, <1>2, <1>3, <1>4, <1>5, <2>2, <2>3, MovesOK
<1> QED
  BY <1>7, <1>8

\* TransferOut returns when the handover is over.
LEMMA TransferOutOK == ASSUME FullInv, NEW i \in Instances, TransferOut(i) PROVE FullStepOK
<1>0. Watched => ~lc[i].observe
  BY DEF FullInv, FullOK, LcOK, InLoop, TransferOut
<1>1. lc[i] \in Lcs /\ lc[i].pc = "transferring" /\ TransferOK
  BY DEF FullInv, FullOK, LcOK, TransferOut
<1> DEFINE next == IF conf.flush /\ ~(transfer.from = i /\ transfer.phase = "succeeded") THEN "flushing" ELSE "sleeping"
<1>2. LcStays(i) /\ lc'[i] = [lc[i] EXCEPT !.pc = next]
  BY DEF FullInv, LcStays, TransferOut
<1>3. UNCHANGED <<conf, ring, disk, losses>> /\ transfer' = IF transfer.from = i THEN NoTransfer ELSE transfer
  BY DEF TransferOut
<1>4. next \in {"flushing", "sleeping"}
  OBVIOUS
<1> HIDE DEF next
<1>5. /\ lc'[i] \in Lcs /\ lc'[i].pc = next /\ lc'[i].state = lc[i].state /\ lc'[i].tokens = lc[i].tokens
      /\ lc'[i].reg = lc[i].reg /\ lc'[i].unclaimed = lc[i].unclaimed /\ lc'[i].observe = lc[i].observe /\ lc'[i].ready = lc[i].ready
  BY <1>1, <1>2, <1>4 DEF Lcs
<1>6. TransferOK' /\ \A j \in Instances : RoleKept(j)
  BY <1>1, <1>3 DEF TransferOK, NoTransfer, RoleKept, Busy
<1>7. Live(i) /\ Live(i)' /\ Shutting(i) /\ ReadyOK(i)
  BY <1>1, <1>4, <1>5 DEF Live, Shutting, ReadyOK
<1>8. Watched => ~(Busy' /\ i \in {transfer'.to, transfer'.from})
  BY <1>1, <1>3, NamesAssumption DEF FullInv, FullOK, ReceiverOK, InLoop, Busy, NoTransfer
<1> QED
  BY <1>0, <1>1, <1>2, <1>3, <1>4, <1>5, <1>6, <1>7, <1>8, MovesOK

\* Flush returns.
LEMMA FlushOK == ASSUME FullInv, NEW i \in Instances, Flush(i) PROVE FullStepOK
<1>0. Watched => ~lc[i].observe
  BY DEF FullInv, FullOK, LcOK, InLoop, Flush
<1>1. lc[i] \in Lcs /\ lc[i].pc = "flushing" /\ TransferOK
  BY DEF FullInv, FullOK, LcOK, Flush
<1>2. LcStays(i) /\ lc'[i] = [lc[i] EXCEPT !.pc = "sleeping"]
  BY DEF FullInv, LcStays, Flush
<1>3. UNCHANGED <<conf, ring, disk, losses, transfer>>
  BY DEF Flush, envVars
<1>4. /\ lc'[i] \in Lcs /\ lc'[i].pc = "sleeping" /\ lc'[i].state = lc[i].state /\ lc'[i].tokens = lc[i].tokens
      /\ lc'[i].reg = lc[i].reg /\ lc'[i].unclaimed = lc[i].unclaimed /\ lc'[i].observe = lc[i].observe /\ lc'[i].ready = lc[i].ready
  BY <1>1, <1>2 DEF Lcs
<1>5. TransferOK' /\ \A j \in Instances : RoleKept(j)
  BY <1>1, <1>3, SameTransfer
<1>6. Live(i) /\ Live(i)' /\ Shutting(i) /\ ReadyOK(i)
  BY <1>1, <1>4 DEF Live, Shutting, ReadyOK
<1>7. Watched => ~(Busy' /\ i \in {transfer'.to, transfer'.from})
  BY <1>1, <1>3, NoRole DEF Busy
<1> QED
  BY <1>0, <1>1, <1>2, <1>3, <1>4, <1>5, <1>6, <1>7, MovesOK


\* The heartbeat loop ends, and the instance is unregistered or just gone.
LEMMA ShutdownDoneOK == ASSUME FullInv, NEW i \in Instances, ShutdownDone(i) PROVE FullStepOK
<1>0. Watched => ~lc[i].observe
  BY DEF FullInv, FullOK, LcOK, InLoop, ShutdownDone
<1>1. lc[i] \in Lcs /\ lc[i].pc = "sleeping" /\ TransferOK
  BY DEF FullInv, FullOK, LcOK, ShutdownDone
<1>2. UNCHANGED <<conf, ring, disk, losses, transfer>>
  BY DEF ShutdownDone, envVars
<1>3. TransferOK' /\ \A j \in Instances : RoleKept(j)
  BY <1>1, <1>2, SameTransfer
<1>4. Watched => ~(Busy' /\ i \in {transfer'.to, transfer'.from})
  BY <1>1, <1>2, NoRole DEF Busy
<1>5. CASE conf.unregister
  <2>1. LcStays(i) /\ lc'[i] = [lc[i] EXCEPT !.pc = "unregister"]
    BY <1>5, LcSet DEF ShutdownDone
  <2>2. /\ lc'[i] \in Lcs /\ lc'[i].pc = "unregister" /\ lc'[i].state = lc[i].state /\ lc'[i].tokens = lc[i].tokens
        /\ lc'[i].reg = lc[i].reg /\ lc'[i].unclaimed = lc[i].unclaimed /\ lc'[i].observe = lc[i].observe /\ lc'[i].ready = lc[i].ready
    BY <1>1, <2>1 DEF Lcs
  <2>3. Live(i) /\ Live(i)' /\ Shutting(i) /\ ReadyOK(i)
    BY <1>1, <2>2 DEF Live, Shutting, ReadyOK
  <2> QED
    BY <1>0, <1>2, <1>3, <1>4, <2>1, <2>2, <2>3, MovesOK
<1>6. CASE ~conf.unregister
  <2>1. LcStays(i) /\ lc'[i] = NotRunning(lc[i].starts)
    BY <1>6, LcSet DEF ShutdownDone
  <2>2. FullOK(i)' /\ ReadyOK(i)
    BY <1>2, <1>4, <2>1, SameFile, DownOK
  <2> QED
    BY <1>2, <1>3, <2>1, <2>2, FullLocal
<1> QED
  BY <1>5, <1>6

\* A probe changes nothing that the invariant speaks of.
LEMMA ProbeOK ==
  ASSUME FullInv, NEW i \in Instances, UNCHANGED <<conf, ring, disk, losses, transfer>>, LcStays(i),
         lc'[i] \in Lcs, lc'[i].pc = lc[i].pc, lc'[i].state = lc[i].state, lc'[i].tokens = lc[i].tokens,
         lc'[i].reg = lc[i].reg, lc'[i].unclaimed = lc[i].unclaimed, lc'[i].observe = lc[i].observe, ReadyOK(i)
  PROVE  FullStepOK
<1>1. TransferOK /\ FullOK(i)
  BY DEF FullInv
<1>2. TransferOK' /\ \A j \in Instances : RoleKept(j)
  BY <1>1, SameTransfer
<1>3. Watched' = Watched /\ Busy' = Busy
  BY DEF Watched, Unobserved, Busy
<1>4. LcOK(i)'
  BY <1>1, <1>3, SameTypes DEF FullOK, LcOK, FileOK, Live, InLoop
<1>5. EntryOK(i)' /\ StateOK(i)'
  BY <1>1, <1>3 DEF FullOK, EntryOK, StateOK, Live, Shutting
<1>6. TokensOK(i)'
  BY <1>1, <1>3 DEF FullOK, TokensOK, Live, Sure
<1>7. ReceiverOK(i)' /\ SenderOK(i)'
  BY <1>1, <1>3 DEF FullOK, ReceiverOK, SenderOK, InLoop, Sure
<1>8. FullOK(i)'
  BY <1>4, <1>5, <1>6, <1>7 DEF FullOK
<1> QED
  BY <1>2, <1>8, FullLocal

\* CheckReady looks at the local tokens.
LEMMA CheckTokensOK == ASSUME FullInv, NEW i \in Instances, CheckTokens(i) PROVE FullStepOK
<1>1. lc[i] \in Lcs
  BY DEF FullInv, FullOK, LcOK
<1>2. UNCHANGED <<conf, ring, disk, losses, transfer>>
  BY DEF CheckTokens, envVars
<1>3. LcStays(i) /\ lc'[i] \in {[lc[i] EXCEPT !.probe = TRUE], [lc[i] EXCEPT !.ready = "no"]}
  <2>1. CASE lc[i].tokens # {}
    <3>1. lc' = [lc EXCEPT ![i] = [lc[i] EXCEPT !.probe = TRUE]]
      BY <2>1 DEF CheckTokens, FullInv
    <3> QED
      BY <3>1, LcSet
  <2>2. CASE lc[i].tokens = {}
    <3>1. lc' = [lc EXCEPT ![i] = [lc[i] EXCEPT !.ready = "no"]]
      BY <2>2 DEF CheckTokens, FullInv
    <3> QED
      BY <3>1, LcSet
  <2> QED
    BY <2>1, <2>2
<1>4. /\ lc'[i] \in Lcs /\ lc'[i].pc = lc[i].pc /\ lc'[i].state = lc[i].state /\ lc'[i].tokens = lc[i].tokens
      /\ lc'[i].reg = lc[i].reg /\ lc'[i].unclaimed = lc[i].unclaimed /\ lc'[i].observe = lc[i].observe
      /\ lc'[i].ready \in {lc[i].ready, "no"}
  BY <1>1, <1>3 DEF Lcs
<1>5. ReadyOK(i)
  BY <1>4 DEF ReadyOK
<1> QED
  BY <1>2, <1>3, <1>4, <1>5, ProbeOK

(***************************************************************************)
(* CheckReady looks at the ring: an entry that is ACTIVE there has the     *)
(* tokens of its lifecycler.                                               *)
(***************************************************************************)
LEMMA CheckReadyOK == ASSUME FullInv, NEW i \in Instances, CheckReady(i) PROVE FullStepOK
<1>1. lc[i] \in Lcs /\ FullOK(i)
  BY DEF FullInv, FullOK, LcOK
<1>2. UNCHANGED <<conf, ring, disk, losses, transfer>>
  BY DEF CheckReady, envVars
<1>3. PICK r \in {"no", "waiting", "ready"} :
        /\ r # "no" => HealthyForReadiness(i)
        /\ lc' = [lc EXCEPT ![i] = [lc[i] EXCEPT !.probe = FALSE, !.ready = r]]
  BY DEF CheckReady
<1>4. LcStays(i) /\ lc'[i] = [lc[i] EXCEPT !.probe = FALSE, !.ready = r]
  BY <1>3, LcSet
<1>5. /\ lc'[i] \in Lcs /\ lc'[i].pc = lc[i].pc /\ lc'[i].state = lc[i].state /\ lc'[i].tokens = lc[i].tokens
      /\ lc'[i].reg = lc[i].reg /\ lc'[i].unclaimed = lc[i].unclaimed /\ lc'[i].observe = lc[i].observe
      /\ lc'[i].ready = r
  BY <1>1, <1>4 DEF Lcs
<1>6. ReadyOK(i)
  <2> SUFFICES ASSUME Sure(i), HealthyForReadiness(i), lc[i].tokens # {} PROVE MyTokens(ring.ing, i) # {}
    BY <1>3, <1>5 DEF ReadyOK
  <2>1. i \in DOMAIN ring.ing => ring.ing[i].state = "ACTIVE"
    BY DEF HealthyForReadiness, IsReady, InstanceIsReady
  <2>2. Live(i)
    BY <1>1 DEF FullOK, LcOK
  <2>3. i \in DOMAIN ring.ing
    BY <1>1, <2>2 DEF FullOK, EntryOK, Watched, Sure
  <2>4. lc[i].tokens = ring.ing[i].tokens
    BY <1>1, <2>1, <2>2, <2>3 DEF FullOK, TokensOK
  <2> QED
    BY <2>3, <2>4 DEF MyTokens, EntryOf
<1> QED
  BY <1>2, <1>4, <1>5, <1>6, ProbeOK

\* The process dies, and with it its part in a handover.
LEMMA CrashOK == ASSUME FullInv, NEW i \in Instances, Crash(i) PROVE FullStepOK
<1>1. TransferOK /\ i # Other
  BY NamesAssumption DEF FullInv
<1>2. UNCHANGED <<conf, ring, disk, losses>>
  BY DEF Crash
<1>3. LcStays(i) /\ lc'[i] = NotRunning(lc[i].starts)
  BY LcSet DEF Crash
<1>4. CASE transfer.to = i /\ transfer.phase # "succeeded"
  <2>1. transfer' = IF transfer.from = Other THEN NoTransfer ELSE [transfer EXCEPT !.phase = "failed"]
    BY <1>4 DEF Crash, TransferEnds
  <2>2. TransferOK' /\ ~Busy'
    BY <1>1, <2>1 DEF TransferOK, NoTransfer, Busy
  <2>3. \A j \in Instances : RoleKept(j)
    BY <2>2 DEF RoleKept
  <2>4. FullOK(i)' /\ ReadyOK(i)
    BY <1>2, <1>3, <2>2, SameFile, DownOK
  <2> QED
    BY <1>2, <1>3, <2>2, <2>3, <2>4, FullLocal
<1>5. CASE ~(transfer.to = i /\ transfer.phase # "succeeded")
  <2>1. transfer' = IF transfer.from # i THEN transfer
                    ELSE IF transfer.phase \in {"succeeded", "failed"} THEN NoTransfer
                    ELSE [transfer EXCEPT !.from = Other]
    BY <1>5 DEF Crash
  <2>2. TransferOK' /\ (Busy' => i \notin {transfer'.to, transfer'.from})
    BY <1>1, <1>5, <2>1 DEF TransferOK, NoTransfer, Busy
  <2>3. \A j \in Instances : RoleKept(j)
    BY <1>1, <2>1, NamesAssumption DEF RoleKept, TransferOK, Busy, NoTransfer
  <2>4. FullOK(i)' /\ ReadyOK(i)
    BY <1>2, <1>3, <2>2, SameFile, DownOK
  <2> QED
    BY <1>2, <1>3, <2>2, <2>3, <2>4, FullLocal
<1> QED
  BY <1>4, <1>5


(***************************************************************************)
(* updateConsul, in a CAS: the entry has the new state, and, while the     *)
(* store keeps the ring, the tokens and the registration it had.           *)
(***************************************************************************)
UpdateOf(i, state) ==
  IF i \in DOMAIN ring.ing
  THEN [ring.ing[i] EXCEPT !.state = state, !.ts = "fresh", !.reg = Unix(lc[i].reg)]
  ELSE [state |-> state, tokens |-> lc[i].tokens, ts |-> "fresh", reg |-> lc[i].reg]

\* The lifecycler's entry goes on with another state.
Updated(i, state) ==
  /\ StoreOK(RingStates)' /\ OthersStay(i) /\ TokensFree(i) /\ RegOK(i)
  /\ losses = 0 => /\ i \in DOMAIN ring'.ing /\ ring'.ing[i].tokens = ring.ing[i].tokens
                   /\ GetRegisteredAt(ring'.ing[i].reg) = GetRegisteredAt(ring.ing[i].reg)
                   /\ ring'.ing[i].state \in {ring.ing[i].state, state}

\* What updateConsul puts into the ring is an entry.
LEMMA UpdateIsPut ==
  ASSUME FullInv, NEW i \in Instances, NEW state \in RingStates
  PROVE  /\ updateConsul(ring.ing, i, state) = Put(ring.ing, i, UpdateOf(i, state))
         /\ UpdateOf(i, state) \in Entries(RingStates)
<1>1. lc[i] \in Lcs /\ IsRing(ring.ing, RingStates)
  BY DEF FullInv, FullOK, LcOK, StoreOK
<1>2. lc[i].tokens \in Toks /\ lc[i].reg \in Nat
  BY <1>1 DEF Lcs
<1>3. Unix(lc[i].reg) \in Regs /\ lc[i].reg \in Regs
  BY <1>2, Times
<1>4. CASE i \in DOMAIN ring.ing
  <2> DEFINE e == ring.ing[i]
             r == Unix(lc[i].reg)
  <2>1. e \in Entries(RingStates) /\ ring.ing = [x \in DOMAIN ring.ing |-> ring.ing[x]]
    BY <1>1, <1>4 DEF IsRing
  <2>2. updateConsul(ring.ing, i, state) = [ring.ing EXCEPT ![i].state = state, ![i].ts = "fresh", ![i].reg = r]
    BY <1>4 DEF updateConsul
  <2>3. UpdateOf(i, state) = [ring.ing[i] EXCEPT !.state = state, !.ts = "fresh", !.reg = r]
    BY <1>4 DEF UpdateOf
  <2>4. r \in Regs
    BY <1>3
  <2> HIDE DEF r
  <2>5. [ring.ing EXCEPT ![i].state = state, ![i].ts = "fresh", ![i].reg = r]
          = Put(ring.ing, i, [ring.ing[i] EXCEPT !.state = state, !.ts = "fresh", !.reg = r])
    BY <1>4, <2>1 DEF Put
  <2>6. [e EXCEPT !.state = state, !.ts = "fresh", !.reg = r] \in Entries(RingStates)
    BY <2>1, <2>4 DEF Entries
  <2> QED
    BY <2>2, <2>3, <2>5, <2>6
<1>5. CASE i \notin DOMAIN ring.ing
  BY <1>2, <1>3, <1>5 DEF updateConsul, AddIngester, UpdateOf, Entries
<1> QED
  BY <1>4, <1>5

\* A CAS with updateConsul changes the state of the entry, or nothing.
LEMMA CASUpdates ==
  ASSUME FullInv, NEW i \in Instances, NEW state \in RingStates, NEW o, Live(i),
         CAS(o, updateConsul(ring.ing, i, state)), UNCHANGED <<conf, losses, disk>>
  PROVE  Updated(i, state)
<1> DEFINE e == UpdateOf(i, state)
<1>1. CAS(o, Put(ring.ing, i, e)) /\ e \in Entries(RingStates)
  BY UpdateIsPut
<1>2. StoreOK(RingStates) /\ disk' = [j \in Instances |-> disk'[j]]
  BY DEF FullInv, StoreOK
<1>3. losses = 0 => i \in DOMAIN ring.ing /\ GetRegisteredAt(ring.ing[i].reg) = lc[i].reg
  BY DEF FullInv, FullOK, EntryOK
<1>4. i \in DOMAIN ring.ing => ring.ing[i] \in Entries(RingStates)
  BY <1>2 DEF StoreOK, IsRing
<1>5. losses = 0 => /\ e.tokens = ring.ing[i].tokens /\ e.state = state
                    /\ GetRegisteredAt(e.reg) = GetRegisteredAt(ring.ing[i].reg)
  <2> SUFFICES ASSUME losses = 0
               PROVE  /\ e.tokens = ring.ing[i].tokens /\ e.state = state
                      /\ GetRegisteredAt(e.reg) = GetRegisteredAt(ring.ing[i].reg)
    OBVIOUS
  <2>1. e.tokens = ring.ing[i].tokens /\ e.reg = Unix(lc[i].reg) /\ e.state = state
    BY <1>3, <1>4 DEF UpdateOf, Entries
  <2>2. lc[i].reg \in Nat
    BY DEF FullInv, FullOK, LcOK, Lcs
  <2> HIDE DEF e
  <2> QED
    BY <1>3, <2>1, <2>2, Times
<1> HIDE DEF e
<1>6. /\ StoreOK(RingStates)' /\ OthersStay(i)
      /\ ring' = ring \/ (i \in DOMAIN ring'.ing /\ ring'.ing[i] = e)
  BY <1>1, <1>2, CASPut
<1>7. losses = 0 => /\ i \in DOMAIN ring'.ing /\ ring'.ing[i].tokens = ring.ing[i].tokens
                    /\ GetRegisteredAt(ring'.ing[i].reg) = GetRegisteredAt(ring.ing[i].reg)
                    /\ ring'.ing[i].state \in {ring.ing[i].state, state}
  BY <1>3, <1>5, <1>6
<1>8. RegOK(i)
  BY <1>3, <1>7 DEF RegOK
<1>9. TokensFree(i)
  BY <1>3, <1>7 DEF TokensFree, FullInv, TokensHaveOneOwner
<1> QED
  BY <1>6, <1>7, <1>8, <1>9 DEF Updated

(***************************************************************************)
(* changeState: the local state changes if it may, the entry's with it or  *)
(* later.                                                                  *)
(***************************************************************************)
LEMMA StateChanges ==
  ASSUME FullInv, NEW i \in Instances, NEW state \in RingStates, NEW o, NEW next, Live(i),
         next \in Lcs, next.state = lc[i].state,
         changeState(i, state, o, next), UNCHANGED <<conf, losses, disk>>
  PROVE  /\ Updated(i, state) /\ LcStays(i)
         /\ \/ Disallowed(lc[i].state, state) /\ ring' = ring /\ lc'[i] = next
            \/ ~Disallowed(lc[i].state, state) /\ lc'[i] = [next EXCEPT !.state = state]
<1>1. CASE Disallowed(lc[i].state, state)
  <2>1. ring' = ring /\ lc' = [lc EXCEPT ![i] = next]
    BY <1>1 DEF changeState
  <2>2. LcStays(i) /\ lc'[i] = next
    BY <2>1, LcSet
  <2>3. StoreOK(RingStates)' /\ OthersStay(i)
    BY <2>1, SameTypes DEF FullInv, StoreOK, IsRing, OthersStay
  <2>4. RegOK(i) /\ TokensFree(i)
    BY <2>1 DEF RegOK, TokensFree, FullInv, TokensHaveOneOwner
  <2>5. losses = 0 => i \in DOMAIN ring.ing
    BY DEF FullInv, FullOK, EntryOK
  <2>6. Updated(i, state)
    BY <2>1, <2>3, <2>4, <2>5 DEF Updated
  <2> QED
    BY <1>1, <2>1, <2>2, <2>6
<1>2. CASE ~Disallowed(lc[i].state, state)
  <2>1. CAS(o, updateConsul(ring.ing, i, state)) /\ lc' = [lc EXCEPT ![i] = [next EXCEPT !.state = state]]
    BY <1>2 DEF changeState
  <2>2. LcStays(i) /\ lc'[i] = [next EXCEPT !.state = state]
    BY <2>1, LcSet
  <2> QED
    BY <1>2, <2>1, <2>2, CASUpdates
<1> QED
  BY <1>1, <1>2


(***************************************************************************)
(* A step that updates an entry and may change its lifecycler's state, but *)
(* not the tokens.                                                         *)
(***************************************************************************)
LEMMA UpdateOK ==
  ASSUME FullInv, NEW i \in Instances, NEW state, UNCHANGED <<conf, losses, disk>>, Updated(i, state), LcStays(i),
         Live(i), Live(i)', lc'[i] \in Lcs, lc'[i].tokens = lc[i].tokens, lc'[i].reg = lc[i].reg,
         lc'[i].unclaimed = lc[i].unclaimed, lc'[i].ready = lc[i].ready,
         Watched /\ lc'[i].observe => (InLoop(i)' /\ conf.observe /\ lc'[i].state = "JOINING"),
         Watched /\ ring'.ing[i].state \in {"ACTIVE", "LEAVING"} => lc'[i].state \in {"ACTIVE", "LEAVING"},
         Watched /\ Shutting(i)' => lc'[i].state # "ACTIVE",
         Sure(i) /\ (lc'[i].state = "ACTIVE" \/ ring'.ing[i].state = "ACTIVE" \/ lc'[i].pc = "verified") =>
           lc[i].tokens = ring.ing[i].tokens,
         TransferOK', \A j \in Instances \ {i} : RoleKept(j), ReceiverOK(i)', SenderOK(i)'
  PROVE  FullStepOK
<1>0. Watched' = Watched
  BY DEF Watched, Unobserved
<1>1. LcOK(i)'
  BY <1>0, SameTypes, SameFile DEF LcOK, Live
<1>2. losses = 0 => /\ i \in DOMAIN ring'.ing /\ ring'.ing[i].tokens = ring.ing[i].tokens
                    /\ GetRegisteredAt(ring'.ing[i].reg) = GetRegisteredAt(ring.ing[i].reg)
  BY DEF Updated
<1>3. EntryOK(i)'
  BY <1>2 DEF FullInv, FullOK, EntryOK
<1>4. StateOK(i)'
  BY <1>0 DEF StateOK
<1>5. TokensOK(i)'
  BY <1>0, <1>2 DEF TokensOK, Watched, Sure
<1>6. FullOK(i)'
  BY <1>1, <1>3, <1>4, <1>5 DEF FullOK
<1>7. ReadyOK(i) /\ DiskStays(i)
  BY DEF ReadyOK, DiskStays, FullInv, StoreOK
<1> QED
  BY <1>6, <1>7, FullEdit DEF Updated

\* A heartbeat writes the lifecycler's state.
LEMMA HeartbeatOK == ASSUME FullInv, NEW i \in Instances, NEW o, Heartbeat(i, o) PROVE FullStepOK
<1>1. FullOK(i) /\ lc[i] \in Lcs /\ TransferOK
  BY DEF FullInv, FullOK, LcOK
<1>2. UNCHANGED <<conf, losses, disk, lc, transfer>> /\ Live(i)
  BY DEF Heartbeat, envVars, InLoop, ShuttingDown, Live
<1>3. lc[i].state \in RingStates
  BY <1>1 DEF Lcs
<1>4. Updated(i, lc[i].state)
  BY <1>2, <1>3, CASUpdates DEF Heartbeat
<1>5. losses = 0 => /\ ring'.ing[i].tokens = ring.ing[i].tokens
                    /\ ring'.ing[i].state \in {ring.ing[i].state, lc[i].state}
  BY <1>4 DEF Updated
<1>6. LcStays(i) /\ Live(i)'
  BY <1>2 DEF LcStays, FullInv, Live
<1>7. TransferOK' /\ \A j \in Instances : RoleKept(j)
  BY <1>1, <1>2, SameTransfer
<1>8. Watched' = Watched /\ Busy' = Busy
  BY <1>2 DEF Watched, Unobserved, Busy
<1>9. ReceiverOK(i)'
  BY <1>1, <1>2, <1>5, <1>8 DEF FullOK, ReceiverOK, InLoop, Watched, Sure
<1>10. SenderOK(i)'
  BY <1>1, <1>2, <1>5, <1>8 DEF FullOK, SenderOK, StateOK, Shutting, Live, Watched
<1>11. Watched => (lc[i].observe => (InLoop(i)' /\ conf.observe /\ lc[i].state = "JOINING"))
  BY <1>1, <1>2 DEF FullOK, LcOK, InLoop
<1>12. /\ Watched /\ ring'.ing[i].state \in {"ACTIVE", "LEAVING"} => lc[i].state \in {"ACTIVE", "LEAVING"}
       /\ Watched /\ Shutting(i)' => lc'[i].state # "ACTIVE"
  BY <1>1, <1>2, <1>5 DEF FullOK, StateOK, Shutting, Watched
<1>13. Sure(i) /\ (lc'[i].state = "ACTIVE" \/ ring'.ing[i].state = "ACTIVE" \/ lc'[i].pc = "verified") =>
         lc[i].tokens = ring.ing[i].tokens
  BY <1>1, <1>2, <1>5 DEF FullOK, TokensOK, Watched, Sure
<1> QED
  BY <1>1, <1>2, <1>4, <1>6, <1>7, <1>9, <1>10, <1>11, <1>12, <1>13, UpdateOK

\* The change of state at the end of a phase: its outcome, with the place where the lifecycler goes on.
LEMMA MovesState ==
  ASSUME FullInv, NEW i \in Instances, NEW state \in RingStates, NEW o, NEW p, Live(i),
         [lc[i] EXCEPT !.pc = p] \in Lcs, p \notin {"down", "starting"},
         changeState(i, state, o, [lc[i] EXCEPT !.pc = p]), UNCHANGED <<conf, losses, disk>>
  PROVE  /\ Updated(i, state) /\ LcStays(i) /\ Live(i)'
         /\ lc'[i] \in Lcs /\ lc'[i].tokens = lc[i].tokens /\ lc'[i].reg = lc[i].reg /\ lc'[i].unclaimed = lc[i].unclaimed /\ lc'[i].ready = lc[i].ready
         /\ lc'[i].observe = lc[i].observe /\ lc'[i].pc = p
         /\ \/ Disallowed(lc[i].state, state) /\ ring' = ring /\ lc'[i].state = lc[i].state
            \/ ~Disallowed(lc[i].state, state) /\ lc'[i].state = state
<1> DEFINE next == [lc[i] EXCEPT !.pc = p]
<1>1. lc[i] \in Lcs
  BY DEF FullInv, FullOK, LcOK
<1>2. /\ next.state = lc[i].state /\ next.pc = p /\ next.tokens = lc[i].tokens /\ next.reg = lc[i].reg
      /\ next.observe = lc[i].observe /\ next.ready = lc[i].ready /\ next \in Lcs
      /\ next.unclaimed = lc[i].unclaimed
  BY <1>1 DEF Lcs
<1> HIDE DEF next
<1>3. changeState(i, state, o, next)
  BY DEF next
<1>4. /\ Updated(i, state) /\ LcStays(i)
      /\ \/ Disallowed(lc[i].state, state) /\ ring' = ring /\ lc'[i] = next
         \/ ~Disallowed(lc[i].state, state) /\ lc'[i] = [next EXCEPT !.state = state]
  BY <1>2, <1>3, StateChanges
<1>5. /\ [next EXCEPT !.state = state] \in Lcs
      /\ [next EXCEPT !.state = state].tokens = next.tokens /\ [next EXCEPT !.state = state].reg = next.reg
      /\ [next EXCEPT !.state = state].ready = next.ready /\ [next EXCEPT !.state = state].observe = next.observe
      /\ [next EXCEPT !.state = state].unclaimed = next.unclaimed
      /\ [next EXCEPT !.state = state].pc = next.pc /\ [next EXCEPT !.state = state].state = state
  BY <1>2 DEF Lcs
<1> QED
  BY <1>2, <1>4, <1>5 DEF Live


\* An instance whose tokens were verified becomes ACTIVE.
LEMMA BecomesActiveOK == ASSUME FullInv, NEW i \in Instances, NEW o, BecomesActive(i, o) PROVE FullStepOK
<1>1. FullOK(i) /\ lc[i] \in Lcs /\ TransferOK /\ lc[i].pc = "verified"
  BY DEF FullInv, FullOK, LcOK, BecomesActive
<1>2. UNCHANGED <<conf, losses, disk, transfer>> /\ Live(i)
  BY <1>1 DEF BecomesActive, envVars, Live
<1>3. [lc[i] EXCEPT !.pc = "loop"] \in Lcs /\ "ACTIVE" \in RingStates
  BY <1>1 DEF Lcs, RingStates
<1>4. changeState(i, "ACTIVE", o, [lc[i] EXCEPT !.pc = "loop"])
  BY DEF BecomesActive
<1>5. /\ Updated(i, "ACTIVE") /\ LcStays(i) /\ Live(i)'
      /\ lc'[i] \in Lcs /\ lc'[i].tokens = lc[i].tokens /\ lc'[i].reg = lc[i].reg /\ lc'[i].unclaimed = lc[i].unclaimed /\ lc'[i].ready = lc[i].ready
      /\ lc'[i].observe = lc[i].observe /\ lc'[i].pc = "loop"
      /\ \/ Disallowed(lc[i].state, "ACTIVE") /\ ring' = ring /\ lc'[i].state = lc[i].state
         \/ lc'[i].state = "ACTIVE"
  BY <1>2, <1>3, <1>4, MovesState
<1>6. TransferOK' /\ \A j \in Instances : RoleKept(j)
  BY <1>1, <1>2, SameTransfer
<1>7. Watched => ~(Busy' /\ i \in {transfer'.to, transfer'.from})
  BY <1>1, <1>2, NoRole DEF Busy
<1>8. Watched' = Watched
  BY <1>2 DEF Watched, Unobserved
<1>9. ReceiverOK(i)' /\ SenderOK(i)'
  BY <1>7, <1>8 DEF ReceiverOK, SenderOK
<1>10. (Watched => ~lc[i].observe) /\ (Sure(i) => lc[i].tokens = ring.ing[i].tokens)
  BY <1>1, <1>2 DEF FullOK, LcOK, TokensOK, InLoop
<1>11. Watched /\ ring'.ing[i].state \in {"ACTIVE", "LEAVING"} => lc'[i].state \in {"ACTIVE", "LEAVING"}
  BY <1>1, <1>2, <1>5 DEF FullOK, StateOK
<1>12. ~Shutting(i)'
  BY <1>5 DEF Shutting
<1> QED
  BY <1>2, <1>5, <1>6, <1>9, <1>10, <1>11, <1>12, UpdateOK

\* An instance that stops is LEAVING, unless it was never ACTIVE.
LEMMA StopLeavesOK == ASSUME FullInv, NEW i \in Instances, NEW o, StopLeaves(i, o) PROVE FullStepOK
<1>1. FullOK(i) /\ lc[i] \in Lcs /\ TransferOK /\ lc[i].pc = "stopping"
  BY DEF FullInv, FullOK, LcOK, StopLeaves
<1>2. UNCHANGED <<conf, losses, disk, transfer>> /\ Live(i)
  BY <1>1 DEF StopLeaves, envVars, Live
<1>3. [lc[i] EXCEPT !.pc = "transferring"] \in Lcs /\ "LEAVING" \in RingStates
  BY <1>1 DEF Lcs, RingStates
<1>4. changeState(i, "LEAVING", o, [lc[i] EXCEPT !.pc = "transferring"])
  BY DEF StopLeaves
<1>5. /\ Updated(i, "LEAVING") /\ LcStays(i) /\ Live(i)'
      /\ lc'[i] \in Lcs /\ lc'[i].tokens = lc[i].tokens /\ lc'[i].reg = lc[i].reg /\ lc'[i].unclaimed = lc[i].unclaimed /\ lc'[i].ready = lc[i].ready
      /\ lc'[i].observe = lc[i].observe /\ lc'[i].pc = "transferring"
      /\ \/ Disallowed(lc[i].state, "LEAVING") /\ ring' = ring /\ lc'[i].state = lc[i].state
         \/ lc'[i].state = "LEAVING"
  BY <1>2, <1>3, <1>4, MovesState
<1>6. TransferOK' /\ \A j \in Instances : RoleKept(j)
  BY <1>1, <1>2, SameTransfer
<1>7. Watched => ~(Busy' /\ i \in {transfer'.to, transfer'.from})
  BY <1>1, <1>2, NoRole DEF Busy
<1>8. Watched' = Watched
  BY <1>2 DEF Watched, Unobserved
<1>9. ReceiverOK(i)' /\ SenderOK(i)'
  BY <1>7, <1>8 DEF ReceiverOK, SenderOK
<1>10. Watched => ~lc[i].observe
  BY <1>1, <1>2 DEF FullOK, LcOK, InLoop
<1>11. Watched /\ ring'.ing[i].state \in {"ACTIVE", "LEAVING"} => lc'[i].state \in {"ACTIVE", "LEAVING"}
  BY <1>1, <1>2, <1>5 DEF FullOK, StateOK
<1>12. lc'[i].state # "ACTIVE"
  BY <1>5 DEF Disallowed
<1>13. losses = 0 => ring'.ing[i].state \in {ring.ing[i].state, "LEAVING"}
  BY <1>5 DEF Updated
<1>14. Sure(i) /\ (lc'[i].state = "ACTIVE" \/ ring'.ing[i].state = "ACTIVE" \/ lc'[i].pc = "verified") =>
         lc[i].tokens = ring.ing[i].tokens
  BY <1>1, <1>2, <1>5, <1>12, <1>13 DEF FullOK, TokensOK, Watched, Sure
<1> QED
  BY <1>2, <1>5, <1>6, <1>9, <1>10, <1>11, <1>12, <1>14, UpdateOK


(***************************************************************************)
(* A CAS that puts an entry of its own into the ring, with tokens that     *)
(* nobody else has and the registration there is.                          *)
(***************************************************************************)
LEMMA CASOwn ==
  ASSUME FullInv, NEW i \in Instances, NEW o, NEW e \in Entries(RingStates), CAS(o, Put(ring.ing, i, e)),
         UNCHANGED <<conf, losses>>, DiskStays(i),
         (losses = 0 /\ ~conf.tokensFile /\ ~conf.forget) =>
           \A x \in DOMAIN ring.ing \ {i} : e.tokens \cap ring.ing[x].tokens = {},
         (losses = 0 /\ i \in DOMAIN ring.ing) => GetRegisteredAt(e.reg) = GetRegisteredAt(ring.ing[i].reg)
  PROVE  /\ StoreOK(RingStates)' /\ OthersStay(i) /\ TokensFree(i) /\ RegOK(i)
         /\ \/ ring' = ring /\ ~IsStored(o)
            \/ IsStored(o) /\ i \in DOMAIN ring'.ing /\ ring'.ing[i] = e
<1>1. StoreOK(RingStates) /\ disk' = [j \in Instances |-> disk'[j]]
  BY DEF FullInv, DiskStays
<1>2. /\ StoreOK(RingStates)' /\ OthersStay(i)
      /\ \/ ring' = ring /\ ~IsStored(o)
         \/ IsStored(o) /\ i \in DOMAIN ring'.ing /\ ring'.ing[i] = e
  BY <1>1, CASPut
<1>3. TokensFree(i)
  BY <1>2 DEF TokensFree, FullInv, TokensHaveOneOwner
<1>4. RegOK(i)
  BY <1>2 DEF RegOK
<1> QED
  BY <1>2, <1>3, <1>4

\* When such a CAS has failed and its lifecycler gives up, the invariant holds.
LEMMA GivesUp ==
  ASSUME FullInv, NEW i \in Instances, UNCHANGED <<conf, losses, transfer>>,
         StoreOK(RingStates)', OthersStay(i), TokensFree(i), RegOK(i), DiskStays(i), FileOK(i)',
         lc' = [lc EXCEPT ![i] = NotRunning(lc[i].starts)],
         Watched => ~(Busy /\ i \in {transfer.to, transfer.from})
  PROVE  FullStepOK
<1>1. LcStays(i) /\ lc'[i] = NotRunning(lc[i].starts)
  BY LcSet
<1>2. Busy' = Busy /\ TransferOK' /\ \A j \in Instances : RoleKept(j)
  BY SameTransfer DEF Busy, FullInv
<1>3. FullOK(i)' /\ ReadyOK(i)
  BY <1>1, <1>2, DownOK
<1> QED
  BY <1>1, <1>2, <1>3, FullEdit

\* When it was stored and the lifecycler agrees with the entry, the invariant holds.
LEMMA Agrees ==
  ASSUME FullInv, NEW i \in Instances, UNCHANGED <<conf, losses, transfer>>,
         StoreOK(RingStates)', OthersStay(i), TokensFree(i), RegOK(i), DiskStays(i), FileOK(i)',
         NEW l \in Lcs, lc' = [lc EXCEPT ![i] = l], l.pc = "loop", l.ready = lc[i].ready,
         i \in DOMAIN ring'.ing, losses = 0 => l.reg = GetRegisteredAt(ring'.ing[i].reg),
         Watched /\ l.observe => (conf.observe /\ l.state = "JOINING"),
         Watched /\ ring'.ing[i].state \in {"ACTIVE", "LEAVING"} => l.state \in {"ACTIVE", "LEAVING"},
         Watched /\ ~l.unclaimed /\ (l.state = "ACTIVE" \/ ring'.ing[i].state = "ACTIVE") => l.tokens = ring'.ing[i].tokens,
         Watched => ~(Busy /\ i \in {transfer.to, transfer.from})
  PROVE  FullStepOK
<1>0. Watched' = Watched
  BY DEF Watched, Unobserved
<1>1. LcStays(i) /\ lc'[i] = l
  BY LcSet
<1>2. Busy' = Busy /\ TransferOK' /\ \A j \in Instances : RoleKept(j)
  BY SameTransfer DEF Busy, FullInv
<1>3. LcOK(i)'
  BY <1>0, <1>1, SameTypes DEF LcOK, Live, InLoop
<1>4. EntryOK(i)'
  BY <1>1 DEF EntryOK
<1>5. StateOK(i)' /\ TokensOK(i)'
  BY <1>0, <1>1 DEF StateOK, TokensOK, Shutting, Sure
<1>6. ReceiverOK(i)' /\ SenderOK(i)'
  BY <1>0, <1>2 DEF ReceiverOK, SenderOK
<1>7. FullOK(i)' /\ ReadyOK(i)
  BY <1>1, <1>3, <1>4, <1>5, <1>6 DEF FullOK, ReadyOK
<1> QED
  BY <1>1, <1>2, <1>7, FullEdit

\* An instance registers that the ring does not know.
LEMMA InitNewOK == ASSUME FullInv, NEW i \in Instances, NEW o, InitNew(i, o) PROVE FullStepOK
<1> DEFINE state == IF Cardinality(disk[i]) >= conf.numTokens THEN "ACTIVE" ELSE "PENDING"
           e == [state |-> state, tokens |-> disk[i], ts |-> "fresh", reg |-> lc[i].starts]
           l == [lc[i] EXCEPT !.pc = "loop", !.join = TRUE, !.state = state, !.tokens = disk[i], !.reg = lc[i].starts]
<1>1. /\ CAS(o, Put(ring.ing, i, e)) /\ UNCHANGED <<conf, losses, transfer, disk>>
      /\ lc' = [lc EXCEPT ![i] = IF o = "ok" THEN l ELSE NotRunning(lc[i].starts)]
      /\ lc[i].pc = "starting" /\ i \notin DOMAIN ring.ing
  BY DEF InitNew, AddIngester, envVars
<1>2. /\ lc[i] \in Lcs /\ disk[i] \in Toks /\ lc[i].starts \in Nat /\ lc[i].starts \in Regs
      /\ ~conf.tokensFile => disk[i] = {}
  BY <1>1, Times DEF FullInv, FullOK, LcOK, FileOK, Lcs
<1>3. state \in {"ACTIVE", "PENDING"}
  OBVIOUS
<1> HIDE DEF state
<1>4. /\ e \in Entries(RingStates) /\ e.tokens = disk[i] /\ e.state = state
      /\ GetRegisteredAt(e.reg) = lc[i].starts
  <2>1. e \in Entries(RingStates) /\ e.tokens = disk[i] /\ e.state = state /\ e.reg = lc[i].starts
    BY <1>2, <1>3 DEF Entries, RingStates
  <2> HIDE DEF e
  <2> QED
    BY <1>2, <2>1, Times
<1>5. /\ l \in Lcs /\ l.pc = "loop" /\ l.ready = lc[i].ready /\ l.reg = lc[i].starts /\ l.tokens = disk[i] /\ l.state = state
      /\ l.observe = lc[i].observe
  <2>1. lc[i].starts \in Nat /\ state \in RingStates
    BY <1>2, <1>3 DEF RingStates
  <2>2. l \in Lcs
    BY <1>2, <2>1 DEF Lcs
  <2>3. /\ l.pc = "loop" /\ l.ready = lc[i].ready /\ l.reg = lc[i].starts /\ l.tokens = disk[i] /\ l.state = state
        /\ l.observe = lc[i].observe
    BY <1>2, <2>1 DEF Lcs
  <2> QED
    BY <2>2, <2>3
<1> HIDE DEF e, l
<1>6. DiskStays(i) /\ FileOK(i)'
  BY <1>1, SameFile DEF FullInv, StoreOK, DiskStays
<1>7. /\ StoreOK(RingStates)' /\ OthersStay(i) /\ TokensFree(i) /\ RegOK(i)
      /\ \/ ring' = ring /\ ~IsStored(o)
         \/ IsStored(o) /\ i \in DOMAIN ring'.ing /\ ring'.ing[i] = e
  BY <1>1, <1>2, <1>4, <1>6, CASOwn
<1>8. Watched => ~(Busy /\ i \in {transfer.to, transfer.from})
  BY <1>1, NoRole
<1>9. Watched => ~lc[i].observe
  BY <1>1 DEF FullInv, FullOK, LcOK, InLoop
<1>10. CASE o = "ok"
  <2>1. i \in DOMAIN ring'.ing /\ ring'.ing[i] = e
    BY <1>7, <1>10 DEF IsStored
  <2> QED
    BY <1>1, <1>4, <1>5, <1>6, <1>7, <1>8, <1>9, <1>10, <2>1, Agrees
<1>11. CASE o # "ok"
  BY <1>1, <1>6, <1>7, <1>8, <1>11, GivesUp
<1> QED
  BY <1>10, <1>11


\* An entry put where it is changes nothing.
LEMMA PutSame ==
  ASSUME NEW states, NEW d, IsRing(d, states), NEW i \in DOMAIN d
  PROVE  Put(d, i, d[i]) = d /\ d[i] \in Entries(states)
BY DEF IsRing, Put

\* Found as JOINING, an instance begins again as PENDING, without tokens of its own.
LEMMA InitJoiningOK == ASSUME FullInv, NEW i \in Instances, NEW o, InitJoining(i, o) PROVE FullStepOK
<1> DEFINE e == ring.ing[i]
           l == [lc[i] EXCEPT !.pc = "loop", !.join = TRUE, !.reg = GetRegisteredAt(ring.ing[i].reg)]
<1>1. /\ CAS(o, ring.ing) /\ UNCHANGED <<conf, losses, transfer, disk>>
      /\ lc' = [lc EXCEPT ![i] = IF o = "ok" THEN l ELSE NotRunning(lc[i].starts)]
      /\ lc[i].pc = "starting" /\ i \in DOMAIN ring.ing /\ e.state = "JOINING"
  BY DEF InitJoining, RegistrationOf, envVars
<1>2. lc[i] \in Lcs /\ IsRing(ring.ing, RingStates)
  BY DEF FullInv, FullOK, LcOK, StoreOK
<1>3. CAS(o, Put(ring.ing, i, e)) /\ e \in Entries(RingStates)
  BY <1>1, <1>2, PutSame
<1>4. GetRegisteredAt(e.reg) \in Nat
  BY <1>3, Times DEF Entries
<1>5. /\ l \in Lcs /\ l.pc = "loop" /\ l.ready = lc[i].ready /\ l.reg = GetRegisteredAt(e.reg) /\ l.tokens = lc[i].tokens
      /\ l.state = lc[i].state /\ l.observe = lc[i].observe
  BY <1>2, <1>4 DEF Lcs
<1> HIDE DEF l
<1>6. DiskStays(i) /\ FileOK(i)'
  BY <1>1, SameFile DEF FullInv, StoreOK, DiskStays
<1>8. (losses = 0 /\ ~conf.tokensFile /\ ~conf.forget) =>
        \A x \in DOMAIN ring.ing \ {i} : e.tokens \cap ring.ing[x].tokens = {}
  BY <1>1 DEF FullInv, TokensHaveOneOwner
<1> HIDE DEF e
<1>9. e = ring.ing[i]
  BY DEF e
<1>10. /\ StoreOK(RingStates)' /\ OthersStay(i) /\ TokensFree(i) /\ RegOK(i)
       /\ \/ ring' = ring /\ ~IsStored(o)
          \/ IsStored(o) /\ i \in DOMAIN ring'.ing /\ ring'.ing[i] = e
  BY <1>1, <1>3, <1>6, <1>8, <1>9, CASOwn
<1>11. Watched => ~(Busy /\ i \in {transfer.to, transfer.from})
  BY <1>1, NoRole
<1>12. CASE o = "ok"
  <2>1. i \in DOMAIN ring'.ing /\ ring'.ing[i] = e
    BY <1>10, <1>12 DEF IsStored
  <2>2. Watched => ~lc[i].observe
    BY <1>1 DEF FullInv, FullOK, LcOK, InLoop
  <2>3. lc[i].state # "ACTIVE" /\ e.state = "JOINING"
    BY <1>1 DEF FullInv, FullOK, LcOK, Live
  <2> QED
    BY <1>1, <1>5, <1>6, <1>10, <1>11, <1>12, <2>1, <2>2, <2>3, Agrees
<1>13. CASE o # "ok"
  BY <1>1, <1>6, <1>10, <1>11, <1>13, GivesUp
<1> QED
  BY <1>12, <1>13

\* Found in another state, it takes over the state and the tokens of the ring.
LEMMA InitExistingOK == ASSUME FullInv, NEW i \in Instances, NEW o, InitExisting(i, o) PROVE FullStepOK
<1> DEFINE e == ring.ing[i]
           state == IF e.state = "LEAVING" /\ Cardinality(e.tokens) = conf.numTokens THEN "ACTIVE" ELSE e.state
           f == IF ~conf.heartbeat /\ state # e.state THEN [ring.ing[i] EXCEPT !.state = state, !.ts = "fresh"] ELSE e
           l == [lc[i] EXCEPT !.pc = "loop", !.join = TRUE, !.state = state, !.tokens = e.tokens,
                                 !.reg = GetRegisteredAt(e.reg)]
<1>1. /\ CAS(o, IF ~conf.heartbeat /\ state # e.state
                THEN [ring.ing EXCEPT ![i].state = state, ![i].ts = "fresh"] ELSE ring.ing)
      /\ UNCHANGED <<conf, losses, transfer>>
      /\ lc' = [lc EXCEPT ![i] = IF o = "ok" THEN l ELSE NotRunning(lc[i].starts)]
      /\ lc[i].pc = "starting" /\ i \in DOMAIN ring.ing /\ e.state # "JOINING"
      /\ StoreToFile(i, e.tokens) \/ UNCHANGED disk
  BY DEF InitExisting, TokensFound, RegistrationOf, envVars
<1>2. lc[i] \in Lcs /\ IsRing(ring.ing, RingStates) /\ FileOK(i) /\ disk = [j \in Instances |-> disk[j]]
  BY DEF FullInv, FullOK, LcOK, StoreOK
<1>3. /\ e \in Entries(RingStates) /\ Put(ring.ing, i, e) = ring.ing /\ e.tokens \in Toks
      /\ GetRegisteredAt(e.reg) \in Nat /\ ring.ing = [x \in DOMAIN ring.ing |-> ring.ing[x]]
  BY <1>1, <1>2, PutSame, Times DEF Entries, IsRing
<1>4. /\ state \in RingStates
      /\ e.state \in {"ACTIVE", "LEAVING"} => state \in {"ACTIVE", "LEAVING"}
      /\ e.state = "ACTIVE" => state = "ACTIVE"
  BY <1>3 DEF Entries, RingStates
<1> HIDE DEF state
<1>5. [ring.ing EXCEPT ![i].state = state, ![i].ts = "fresh"]
        = Put(ring.ing, i, [ring.ing[i] EXCEPT !.state = state, !.ts = "fresh"])
  <2>1. i \in DOMAIN ring.ing /\ ring.ing = [x \in DOMAIN ring.ing |-> ring.ing[x]]
    BY <1>1, <1>3
  <2> QED
    BY <2>1 DEF Put
<1>6. CAS(o, Put(ring.ing, i, f))
  BY <1>1, <1>3, <1>5
<1>7. f \in Entries(RingStates) /\ f.tokens = e.tokens /\ f.reg = e.reg /\ f.state \in {e.state, state}
  BY <1>3, <1>4 DEF Entries
<1>8. /\ l \in Lcs /\ l.pc = "loop" /\ l.ready = lc[i].ready /\ l.reg = GetRegisteredAt(e.reg) /\ l.tokens = e.tokens
      /\ l.state = state /\ l.observe = lc[i].observe
  <2>1. l \in Lcs
    BY <1>2, <1>3, <1>4 DEF Lcs
  <2>2. /\ l.pc = "loop" /\ l.ready = lc[i].ready /\ l.reg = GetRegisteredAt(e.reg) /\ l.tokens = e.tokens
        /\ l.state = state /\ l.observe = lc[i].observe
    BY <1>2 DEF Lcs
  <2> QED
    BY <2>1, <2>2
<1> HIDE DEF l, f
<1>9. /\ DiskStays(i) /\ disk'[i] \in {disk[i], e.tokens} /\ (~conf.tokensFile => disk'[i] = disk[i])
  BY <1>1, <1>2, FileStored
<1>10. FileOK(i)'
  BY <1>1, <1>2, <1>3, <1>9, SameTypes DEF FileOK
<1>12. (losses = 0 /\ ~conf.tokensFile /\ ~conf.forget) =>
         \A x \in DOMAIN ring.ing \ {i} : e.tokens \cap ring.ing[x].tokens = {}
  BY <1>1 DEF FullInv, TokensHaveOneOwner
<1>13. /\ StoreOK(RingStates)' /\ OthersStay(i) /\ TokensFree(i) /\ RegOK(i)
       /\ \/ ring' = ring /\ ~IsStored(o)
          \/ IsStored(o) /\ i \in DOMAIN ring'.ing /\ ring'.ing[i] = f
  BY <1>1, <1>6, <1>7, <1>9, <1>12, CASOwn
<1>14. Watched => ~(Busy /\ i \in {transfer.to, transfer.from})
  BY <1>1, NoRole
<1>15. CASE o = "ok"
  <2>1. i \in DOMAIN ring'.ing /\ ring'.ing[i] = f
    BY <1>13, <1>15 DEF IsStored
  <2>2. Watched => ~lc[i].observe
    BY <1>1 DEF FullInv, FullOK, LcOK, InLoop
  <2>3. ring'.ing[i].state \in {"ACTIVE", "LEAVING"} => l.state \in {"ACTIVE", "LEAVING"}
    BY <1>4, <1>7, <1>8, <2>1
  <2> QED
    BY <1>1, <1>7, <1>8, <1>9, <1>10, <1>13, <1>14, <1>15, <2>1, <2>2, <2>3, Agrees
<1>16. CASE o # "ok"
  BY <1>1, <1>9, <1>10, <1>13, <1>14, <1>16, GivesUp
<1> QED
  BY <1>15, <1>16


\* An instance's own tokens, completed, are tokens it can have and nobody else has.
LEMMA Completed ==
  ASSUME FullInv, NEW i \in Instances,
         NEW new \in GenerateTokens(MissingTokens(MyTokens(ring.ing, i)), TakenTokens(ring.ing))
  PROVE  /\ MyTokens(ring.ing, i) \cup new \in Toks
         /\ (losses = 0 /\ ~conf.tokensFile /\ ~conf.forget) =>
              \A x \in DOMAIN ring.ing \ {i} : (MyTokens(ring.ing, i) \cup new) \cap ring.ing[x].tokens = {}
<1> DEFINE mine == MyTokens(ring.ing, i)
<1>1. conf \in Confs /\ IsRing(ring.ing, RingStates)
  BY DEF FullInv, StoreOK
<1>2. mine \in Toks
  BY <1>1, SmallTokens DEF IsRing, Entries, MyTokens, EntryOf, ZeroEntry
<1>3. new \in GenerateTokens(conf.numTokens - Cardinality(mine), TakenTokens(ring.ing))
  BY DEF MissingTokens
<1> HIDE DEF mine
<1>4. mine \cup new \in Toks /\ new \cap TakenTokens(ring.ing) = {}
  BY <1>1, <1>2, <1>3, TokensGenerated
<1>5. ASSUME losses = 0, ~conf.tokensFile, ~conf.forget
      PROVE  \A x \in DOMAIN ring.ing \ {i} : (MyTokens(ring.ing, i) \cup new) \cap ring.ing[x].tokens = {}
  <2>1. OneOwner(ring.ing)
    BY <1>5 DEF FullInv, TokensHaveOneOwner, OneOwner
  <2> QED
    BY <1>4, <2>1, OwnOrNew
<1> QED
  BY <1>4, <1>5 DEF mine

\* The JoinAfter timer fires: the tokens are completed and the instance is JOINING or ACTIVE.
LEMMA AutoJoinOK == ASSUME FullInv, NEW i \in Instances, NEW o, autoJoin(i, o) PROVE FullStepOK
<1> DEFINE mine == MyTokens(ring.ing, i)
           state == IF conf.observe THEN "JOINING" ELSE "ACTIVE"
<1>1. PICK new \in GenerateTokens(MissingTokens(mine), TakenTokens(ring.ing)) :
        /\ CAS(o, AddIngester(ring.ing, i, mine \cup new, state, lc[i].reg))
        /\ lc' = [lc EXCEPT ![i] = IF o = "ok" THEN [lc[i] EXCEPT !.join = FALSE, !.state = state,
                                                          !.tokens = mine \cup new, !.observe = conf.observe,
                                                          !.unclaimed = FALSE]
                                   ELSE NotRunning(lc[i].starts)]
        /\ StoreToFile(i, mine \cup new) \/ UNCHANGED disk
  BY DEF autoJoin
<1>2. lc[i].pc = "loop" /\ lc[i].state = "PENDING" /\ UNCHANGED <<conf, losses, transfer>>
  BY DEF autoJoin, InLoop, envVars
<1> DEFINE T == mine \cup new
           e == [state |-> state, tokens |-> T, ts |-> "fresh", reg |-> lc[i].reg]
           l == [lc[i] EXCEPT !.join = FALSE, !.state = state, !.tokens = T, !.observe = conf.observe,
                            !.unclaimed = FALSE]
<1>3. /\ T \in Toks
      /\ (losses = 0 /\ ~conf.tokensFile /\ ~conf.forget) =>
           \A x \in DOMAIN ring.ing \ {i} : T \cap ring.ing[x].tokens = {}
  BY Completed
<1>4. /\ CAS(o, Put(ring.ing, i, e))
      /\ lc' = [lc EXCEPT ![i] = IF o = "ok" THEN l ELSE NotRunning(lc[i].starts)]
      /\ StoreToFile(i, T) \/ UNCHANGED disk
  BY <1>1 DEF AddIngester
<1>5. lc[i] \in Lcs /\ FileOK(i) /\ disk = [j \in Instances |-> disk[j]] /\ FullOK(i) /\ conf.observe \in BOOLEAN
  BY NumTokensAssumption DEF FullInv, FullOK, LcOK, StoreOK
<1>6. state \in RingStates /\ state \in {"JOINING", "ACTIVE"} /\ (conf.observe => state = "JOINING")
  BY DEF RingStates
<1> HIDE DEF T, state, mine
<1>7. e \in Entries(RingStates) /\ e.tokens = T /\ GetRegisteredAt(e.reg) = lc[i].reg /\ e.state = state
  <2>1. lc[i].reg \in Nat /\ lc[i].reg \in Regs
    BY <1>5, Times DEF Lcs
  <2>2. e \in Entries(RingStates) /\ e.tokens = T /\ e.reg = lc[i].reg /\ e.state = state
    BY <1>3, <1>6, <2>1 DEF Entries
  <2> HIDE DEF e
  <2> QED
    BY <2>1, <2>2, Times
<1>8. /\ l \in Lcs /\ l.pc = "loop" /\ l.ready = lc[i].ready /\ l.reg = lc[i].reg /\ l.tokens = T
      /\ l.state = state /\ l.observe = conf.observe
  <2>1. l \in Lcs
    BY <1>3, <1>5, <1>6 DEF Lcs
  <2>2. /\ l.pc = "loop" /\ l.ready = lc[i].ready /\ l.reg = lc[i].reg /\ l.tokens = T
        /\ l.state = state /\ l.observe = conf.observe
    BY <1>2, <1>5 DEF Lcs
  <2> QED
    BY <2>1, <2>2
<1> HIDE DEF e, l
<1>9. /\ DiskStays(i) /\ disk'[i] \in {disk[i], T} /\ (~conf.tokensFile => disk'[i] = disk[i])
  BY <1>4, <1>5, FileStored
<1>10. FileOK(i)'
  BY <1>2, <1>3, <1>5, <1>9, SameTypes DEF FileOK
<1>11. losses = 0 => GetRegisteredAt(e.reg) = GetRegisteredAt(ring.ing[i].reg)
  BY <1>2, <1>5, <1>7 DEF FullOK, EntryOK, Live
<1>12. /\ StoreOK(RingStates)' /\ OthersStay(i) /\ TokensFree(i) /\ RegOK(i)
       /\ \/ ring' = ring /\ ~IsStored(o)
          \/ IsStored(o) /\ i \in DOMAIN ring'.ing /\ ring'.ing[i] = e
  BY <1>2, <1>3, <1>4, <1>7, <1>9, <1>11, CASOwn
<1>13. Watched => ~(Busy /\ i \in {transfer.to, transfer.from})
  BY <1>2, <1>5 DEF FullOK, ReceiverOK, SenderOK
<1>14. CASE o = "ok"
  <2>1. i \in DOMAIN ring'.ing /\ ring'.ing[i] = e
    BY <1>12, <1>14 DEF IsStored
  <2> QED
    BY <1>2, <1>4, <1>6, <1>7, <1>8, <1>9, <1>10, <1>12, <1>13, <1>14, <2>1, Agrees
<1>15. CASE o # "ok"
  BY <1>2, <1>4, <1>9, <1>10, <1>12, <1>13, <1>15, GivesUp
<1> QED
  BY <1>14, <1>15

\* Tokens that are no longer in the ring are replaced.
LEMMA ReplacesTokensOK == ASSUME FullInv, NEW i \in Instances, NEW o, ReplacesTokens(i, o) PROVE FullStepOK
<1> DEFINE mine == MyTokens(ring.ing, i)
<1>1. PICK new \in GenerateTokens(MissingTokens(mine), TakenTokens(ring.ing)) :
        /\ CAS(o, AddIngester(ring.ing, i, mine \cup new, lc[i].state, lc[i].reg))
        /\ lc' = [lc EXCEPT ![i] = IF Ran(o) THEN [ObserveAgain(i) EXCEPT !.tokens = mine \cup new] ELSE ObserveAgain(i)]
        /\ StoreToFile(i, mine \cup new) \/ UNCHANGED disk
  BY DEF ReplacesTokens
<1>2. lc[i].pc = "loop" /\ lc[i].observe /\ UNCHANGED <<conf, losses, transfer>>
  BY DEF ReplacesTokens, InLoop, envVars
<1> DEFINE T == mine \cup new
           e == [state |-> lc[i].state, tokens |-> T, ts |-> "fresh", reg |-> lc[i].reg]
           l == IF Ran(o) THEN [lc[i] EXCEPT !.observe = TRUE, !.tokens = T] ELSE [lc[i] EXCEPT !.observe = TRUE]
<1>3. /\ T \in Toks
      /\ (losses = 0 /\ ~conf.tokensFile /\ ~conf.forget) =>
           \A x \in DOMAIN ring.ing \ {i} : T \cap ring.ing[x].tokens = {}
  BY Completed
<1>4. /\ CAS(o, Put(ring.ing, i, e)) /\ lc' = [lc EXCEPT ![i] = l]
      /\ StoreToFile(i, T) \/ UNCHANGED disk
  BY <1>1 DEF AddIngester, ObserveAgain
<1>5. lc[i] \in Lcs /\ FileOK(i) /\ disk = [j \in Instances |-> disk[j]] /\ FullOK(i)
  BY DEF FullInv, FullOK, LcOK, StoreOK
<1> HIDE DEF T, mine
<1>6. e \in Entries(RingStates) /\ e.tokens = T /\ GetRegisteredAt(e.reg) = lc[i].reg /\ e.state = lc[i].state
  <2>1. lc[i].reg \in Nat /\ lc[i].reg \in Regs /\ lc[i].state \in RingStates
    BY <1>5, Times DEF Lcs
  <2>2. e \in Entries(RingStates) /\ e.tokens = T /\ e.reg = lc[i].reg /\ e.state = lc[i].state
    BY <1>3, <2>1 DEF Entries
  <2> HIDE DEF e
  <2> QED
    BY <2>1, <2>2, Times
<1>7. /\ l \in Lcs /\ l.pc = "loop" /\ l.ready = lc[i].ready /\ l.reg = lc[i].reg /\ l.state = lc[i].state
  <2>1. l \in Lcs
    BY <1>3, <1>5 DEF Lcs
  <2>2. l.pc = "loop" /\ l.ready = lc[i].ready /\ l.reg = lc[i].reg /\ l.state = lc[i].state
    BY <1>2, <1>5 DEF Lcs
  <2> QED
    BY <2>1, <2>2
<1> HIDE DEF e, l
<1>8. /\ DiskStays(i) /\ disk'[i] \in {disk[i], T} /\ (~conf.tokensFile => disk'[i] = disk[i])
  BY <1>4, <1>5, FileStored
<1>9. FileOK(i)'
  BY <1>2, <1>3, <1>5, <1>8, SameTypes DEF FileOK
<1>10. losses = 0 => i \in DOMAIN ring.ing /\ GetRegisteredAt(ring.ing[i].reg) = lc[i].reg
  BY <1>2, <1>5, <1>6 DEF FullOK, EntryOK, Live
<1>11. /\ StoreOK(RingStates)' /\ OthersStay(i) /\ TokensFree(i) /\ RegOK(i)
       /\ \/ ring' = ring /\ ~IsStored(o)
          \/ IsStored(o) /\ i \in DOMAIN ring'.ing /\ ring'.ing[i] = e
  BY <1>2, <1>3, <1>4, <1>6, <1>8, <1>10, CASOwn
<1>12. Watched => conf.observe /\ lc[i].state = "JOINING" /\ ring.ing[i].state \notin {"ACTIVE", "LEAVING"}
  BY <1>2, <1>5 DEF FullOK, LcOK, StateOK, Live
<1>13. Watched => ~(Busy /\ i \in {transfer.to, transfer.from})
  BY <1>2, <1>5, <1>12 DEF FullOK, ReceiverOK, SenderOK, Watched, Unobserved
<1>14. Watched' = Watched /\ Busy' = Busy
  BY <1>2 DEF Watched, Unobserved, Busy
<1>15. LcStays(i) /\ lc'[i] = l
  BY <1>4, LcSet
<1>16. TransferOK' /\ \A j \in Instances : RoleKept(j)
  BY <1>2, SameTransfer DEF FullInv
<1>17. LcOK(i)'
  BY <1>2, <1>7, <1>9, <1>12, <1>14, <1>15, SameTypes DEF LcOK, Live, InLoop
<1>18. EntryOK(i)'
  BY <1>2, <1>6, <1>7, <1>10, <1>11, <1>15 DEF EntryOK
<1>19. StateOK(i)' /\ TokensOK(i)'
  BY <1>6, <1>7, <1>11, <1>12, <1>14, <1>15 DEF StateOK, TokensOK, Shutting, Sure
<1>20. ReceiverOK(i)' /\ SenderOK(i)' /\ ReadyOK(i)
  BY <1>2, <1>7, <1>13, <1>14, <1>15 DEF ReceiverOK, SenderOK, ReadyOK
<1>21. FullOK(i)'
  BY <1>17, <1>18, <1>19, <1>20 DEF FullOK
<1> QED
  BY <1>2, <1>8, <1>11, <1>15, <1>16, <1>20, <1>21, FullEdit


\* The entry is removed, or the instance is gone without that.
LEMMA UnregisterOK == ASSUME FullInv, NEW i \in Instances, NEW o, unregister(i, o) PROVE FullStepOK
<1> DEFINE d == [x \in DOMAIN ring.ing \ {i} |-> ring.ing[x]]
<1>1. /\ lc[i].pc = "unregister" /\ UNCHANGED <<conf, losses, transfer, disk>>
      /\ lc' = [lc EXCEPT ![i] = NotRunning(lc[i].starts)]
      /\ ring' = ring \/ ring' = [exists |-> TRUE, ing |-> d]
  BY DEF unregister, envVars, CAS, NewRing, RemoveIngester
<1>2. StoreOK(RingStates) /\ DOMAIN ring.ing \ {i} \in SUBSET DOMAIN ring.ing
  BY DEF FullInv
<1>3. IsRing(d, RingStates) /\ DOMAIN d = DOMAIN ring.ing \ {i} /\ \A x \in DOMAIN d : d[x] = ring.ing[x]
  BY <1>2, PartRing DEF StoreOK
<1> HIDE DEF d
<1>4. StoreOK(RingStates)'
  <2>1. CASE ring' = ring
    BY <1>1, <1>2, <2>1, SameTypes DEF StoreOK, IsRing
  <2>2. CASE ring' = [exists |-> TRUE, ing |-> d]
    <3>1. ring'.ing = d /\ ring'.exists = TRUE
      BY <2>2
    <3>2. IsRing(ring.ing, RingStates)'
      BY <1>1, <1>3, <3>1, SameTypes DEF IsRing
    <3> QED
      BY <1>1, <1>2, <2>2, <3>1, <3>2 DEF StoreOK
  <2> QED
    BY <1>1, <2>1, <2>2
<1>5. OthersStay(i) /\ DiskStays(i) /\ FileOK(i)'
  BY <1>1, <1>2, <1>3, SameFile DEF OthersStay, DiskStays, StoreOK
<1>6. (i \in DOMAIN ring'.ing) => ring' = ring
  BY <1>1, <1>3
<1>7. TokensFree(i)
  BY <1>6 DEF TokensFree, FullInv, TokensHaveOneOwner
<1>8. RegOK(i)
  BY <1>6 DEF RegOK
<1>9. Watched => ~(Busy /\ i \in {transfer.to, transfer.from})
  BY <1>1, NoRole
<1> QED
  BY <1>1, <1>4, <1>5, <1>7, <1>8, <1>9, GivesUp

-----------------------------------------------------------------------------
(***************************************************************************)
(* What happens to the ring by itself.                                     *)
(***************************************************************************)
\* A heartbeat that gets old changes an entry's time and nothing else.
LEMMA AgesRing ==
  ASSUME NEW states, StoreOK(states), NEW i, HeartbeatAges(i)
  PROVE  /\ StoreOK(states)' /\ i \in DOMAIN ring.ing /\ DOMAIN ring'.ing = DOMAIN ring.ing
         /\ \A x \in DOMAIN ring.ing \ {i} : ring'.ing[x] = ring.ing[x]
         /\ ring'.ing[i].state = ring.ing[i].state /\ ring'.ing[i].tokens = ring.ing[i].tokens
         /\ GetRegisteredAt(ring'.ing[i].reg) = GetRegisteredAt(ring.ing[i].reg)
<1> DEFINE e == [ring.ing[i] EXCEPT !.ts = "old"]
<1>1. /\ i \in DOMAIN ring.ing /\ ring.ing[i] \in Entries(states) /\ ring.exists
      /\ ring.ing = [x \in DOMAIN ring.ing |-> ring.ing[x]]
      /\ ring = [exists |-> ring.exists, ing |-> ring.ing]
  BY DEF HeartbeatAges, StoreOK, IsRing
<1>2. ring' = [exists |-> ring.exists, ing |-> [ring.ing EXCEPT ![i].ts = "old"]]
  BY <1>1 DEF HeartbeatAges
<1>3. /\ e \in Entries(states) /\ e.state = ring.ing[i].state /\ e.tokens = ring.ing[i].tokens /\ e.reg = ring.ing[i].reg
  BY <1>1 DEF Entries
<1>4. ring'.ing = [ring.ing EXCEPT ![i] = e] /\ ring'.exists = ring.exists /\ ring' = [exists |-> ring'.exists, ing |-> ring'.ing]
  BY <1>1, <1>2
<1> HIDE DEF e
<1>5. /\ DOMAIN ring'.ing = DOMAIN ring.ing /\ ring'.ing[i] = e
      /\ ring'.ing = [x \in DOMAIN ring'.ing |-> ring'.ing[x]]
      /\ \A x \in DOMAIN ring.ing \ {i} : ring'.ing[x] = ring.ing[x]
  BY <1>1, <1>4
<1>6. UNCHANGED <<conf, disk, losses>>
  BY DEF HeartbeatAges
<1>7. IsRing(ring.ing, states)'
  BY <1>3, <1>5, <1>6, SameTypes DEF IsRing, StoreOK
<1>8. StoreOK(states)'
  BY <1>1, <1>4, <1>5, <1>6, <1>7 DEF StoreOK
<1> QED
  BY <1>1, <1>3, <1>5, <1>8

\* A heartbeat gets old.
LEMMA HeartbeatAgesOK ==
  ASSUME FullInv, NEW i \in Instances, HeartbeatAges(i), UNCHANGED <<lc, transfer>> PROVE FullStepOK
<1>1. /\ StoreOK(RingStates)' /\ i \in DOMAIN ring.ing /\ DOMAIN ring'.ing = DOMAIN ring.ing
      /\ \A x \in DOMAIN ring.ing \ {i} : ring'.ing[x] = ring.ing[x]
      /\ ring'.ing[i].state = ring.ing[i].state /\ ring'.ing[i].tokens = ring.ing[i].tokens
      /\ GetRegisteredAt(ring'.ing[i].reg) = GetRegisteredAt(ring.ing[i].reg)
  BY AgesRing DEF FullInv
<1>2. UNCHANGED <<conf, disk, losses>>
  BY DEF HeartbeatAges
<1>3. OthersStay(i) /\ DiskStays(i) /\ LcStays(i)
  BY <1>1, <1>2 DEF OthersStay, DiskStays, LcStays, FullInv, StoreOK
<1>4. RegOK(i)
  BY <1>1 DEF RegOK
<1>5. TokensFree(i)
  BY <1>1 DEF TokensFree, FullInv, TokensHaveOneOwner
<1>6. TransferOK' /\ \A j \in Instances : RoleKept(j)
  BY SameTransfer DEF FullInv
<1>7. FullOK(i) /\ Watched' = Watched /\ Busy' = Busy /\ ReadyOK(i)
  BY <1>2 DEF FullInv, Watched, Unobserved, Busy, ReadyOK
<1>8. LcOK(i)' /\ EntryOK(i)'
  BY <1>1, <1>2, <1>7, SameTypes DEF FullOK, LcOK, FileOK, EntryOK, Live, InLoop
<1>9. StateOK(i)' /\ TokensOK(i)'
  BY <1>1, <1>7 DEF FullOK, StateOK, TokensOK, Live, Shutting, Sure
<1>10. ReceiverOK(i)' /\ SenderOK(i)'
  BY <1>1, <1>2, <1>7 DEF FullOK, ReceiverOK, SenderOK, InLoop, Sure
<1>11. FullOK(i)'
  BY <1>8, <1>9, <1>10 DEF FullOK
<1> QED
  BY <1>1, <1>2, <1>3, <1>4, <1>5, <1>6, <1>7, <1>11, FullEdit

\* The store without a ring.
LEMMA LosesStore ==
  ASSUME NEW states, StoreOK(states), LosesRing
  PROVE  StoreOK(states)' /\ DOMAIN ring'.ing = {} /\ TokensHaveOneOwner' /\ RegsKept /\ losses' # 0
<1>1. ring' = [exists |-> FALSE, ing |-> [i \in {} |-> {}]] /\ losses' = losses + 1 /\ UNCHANGED <<conf, disk>>
  BY DEF LosesRing, NilRing
<1>2. /\ DOMAIN ring'.ing = {} /\ ring'.exists = FALSE /\ ring' = [exists |-> ring'.exists, ing |-> ring'.ing]
      /\ ring'.ing = [i \in DOMAIN ring'.ing |-> ring'.ing[i]]
  BY <1>1
<1>3. losses' \in Nat /\ losses' # 0
  BY <1>1 DEF StoreOK
<1>4. StoreOK(states)'
  BY <1>1, <1>2, <1>3 DEF StoreOK, IsRing
<1> QED
  BY <1>2, <1>3, <1>4 DEF TokensHaveOneOwner, RegsKept

\* The store loses the ring, and the invariant promises no more about it.
LEMMA LosesRingOK == ASSUME FullInv, LosesRing, UNCHANGED <<lc, transfer>> PROVE FullStepOK
<1>1. StoreOK(RingStates)' /\ DOMAIN ring'.ing = {} /\ TokensHaveOneOwner' /\ RegsKept /\ losses' # 0
  BY LosesStore DEF FullInv
<1>2. UNCHANGED <<conf, disk>>
  BY DEF LosesRing
<1>3. ASSUME NEW i \in Instances PROVE FullOK(i)' /\ ReadyOK(i)
  <2>1. ~Watched' /\ FullOK(i)
    BY <1>1 DEF Watched, FullInv
  <2>2. LcOK(i)'
    BY <1>2, <2>1, SameTypes DEF FullOK, LcOK, FileOK, Live
  <2> QED
    BY <1>1, <2>1, <2>2 DEF FullOK, EntryOK, StateOK, TokensOK, ReceiverOK, SenderOK, ReadyOK, Sure
<1>4. TransferOK' /\ lc' = [i \in Instances |-> lc'[i]]
  BY SameTransfer DEF FullInv
<1>5. FullInv'
  BY <1>1, <1>3, <1>4 DEF FullInv
<1> QED
  BY <1>1, <1>3, <1>5 DEF FullStepOK


\* A token lost to the other instance changes hands: the rest of the ring stays as it is.
LEMMA LosesStoreToken ==
  ASSUME NEW states, "ACTIVE" \in states, StoreOK(states), NEW i \in Instances, LosesToken(i), TokensHaveOneOwner
  PROVE  /\ StoreOK(states)' /\ DOMAIN ring'.ing = DOMAIN ring.ing \cup {Other} /\ i \in DOMAIN ring.ing
         /\ \A x \in DOMAIN ring.ing \ {i} : ring'.ing[x] = ring.ing[x]
         /\ ring.ing[i].state = "JOINING" /\ ring'.ing[i].state = "JOINING"
         /\ GetRegisteredAt(ring'.ing[i].reg) = GetRegisteredAt(ring.ing[i].reg)
         /\ Other \notin DOMAIN ring.ing
         /\ TokensHaveOneOwner' /\ RegsKept
<1>1. PICK t \in ring.ing[i].tokens :
        ring' = NewRing(AddIngester([ring.ing EXCEPT ![i].tokens = @ \ {t}], Other, {t}, "ACTIVE", 1))
  BY DEF LosesToken
<1>2. /\ i \in DOMAIN ring.ing /\ Other \notin DOMAIN ring.ing /\ ring.ing[i].state = "JOINING" /\ i # Other
      /\ UNCHANGED <<conf, disk, losses>>
  BY NamesAssumption DEF LosesToken
<1>3. /\ conf \in Confs /\ IsRing(ring.ing, states) /\ ring.ing[i] \in Entries(states) /\ ring.ing[i].tokens \in Toks
      /\ ring.ing = [x \in DOMAIN ring.ing |-> ring.ing[x]]
  BY <1>2 DEF StoreOK, IsRing, Entries
<1> DEFINE f == [ring.ing[i] EXCEPT !.tokens = @ \ {t}]
           g == [state |-> "ACTIVE", tokens |-> {t}, ts |-> "fresh", reg |-> 1]
           d == [ring.ing EXCEPT ![i] = f]
           p == Put(d, Other, g)
<1>4. ring.ing[i].tokens \ {t} \in Toks /\ {t} \in Toks
  <2>1. /\ ring.ing[i].tokens \subseteq TokenSpace
        /\ \A U \in SUBSET ring.ing[i].tokens : U \in Toks
    BY <1>3, TokensFinite
  <2> QED
    BY <2>1
<1>5. /\ f \in Entries(states) /\ f.tokens = ring.ing[i].tokens \ {t}
      /\ f.state = "JOINING" /\ f.reg = ring.ing[i].reg
  BY <1>2, <1>3, <1>4 DEF Entries
<1>6. g \in Entries(states) /\ g.tokens = {t}
  BY <1>4 DEF Entries, Regs
<1>7. ring' = NewRing(p)
  BY <1>1, <1>2, <1>3 DEF AddIngester
<1> HIDE DEF f, g
<1>8. /\ DOMAIN d = DOMAIN ring.ing /\ d[i] = f /\ d = [x \in DOMAIN d |-> d[x]]
      /\ \A x \in DOMAIN ring.ing \ {i} : d[x] = ring.ing[x]
  BY <1>2, <1>3
<1> HIDE DEF d
<1>9. IsRing(d, states)
  BY <1>3, <1>5, <1>8 DEF IsRing
<1>10. IsRing(p, states)
  BY <1>6, <1>9, PutRing
<1>11. /\ DOMAIN p = DOMAIN ring.ing \cup {Other} /\ p[Other] = g /\ p[i] = f
       /\ \A x \in DOMAIN ring.ing \ {i} : p[x] = ring.ing[x]
  BY <1>2, <1>8 DEF Put
<1> HIDE DEF p
<1>12. ring'.ing = p /\ ring'.exists = TRUE /\ ring' = [exists |-> ring'.exists, ing |-> ring'.ing]
  BY <1>7 DEF NewRing
<1>13. IsRing(ring.ing, states)'
  BY <1>2, <1>10, <1>12, SameTypes DEF IsRing
<1>14. StoreOK(states)'
  BY <1>2, <1>12, <1>13 DEF StoreOK
<1>15. RegsKept
  BY <1>2, <1>5, <1>11, <1>12 DEF RegsKept
<1>16. TokensHaveOneOwner'
  <2> SUFFICES ASSUME OneOwner(ring.ing), NEW x \in DOMAIN p, NEW y \in DOMAIN p, x # y
               PROVE  p[x].tokens \cap p[y].tokens = {}
    BY <1>2, <1>12 DEF TokensHaveOneOwner, OneOwner
  <2>1. ASSUME NEW z \in DOMAIN ring.ing, z # i
        PROVE  p[z].tokens \cap ring.ing[i].tokens = {} /\ p[z] = ring.ing[z] /\ z # Other
    BY <1>2, <1>11, <2>1 DEF OneOwner
  <2>2. CASE x = Other \/ y = Other
    BY <1>2, <1>5, <1>6, <1>11, <2>1, <2>2
  <2>3. CASE x # Other /\ y # Other
    BY <1>2, <1>5, <1>11, <2>1, <2>3 DEF OneOwner
  <2> QED
    BY <2>2, <2>3
<1> QED
  BY <1>2, <1>5, <1>6, <1>11, <1>12, <1>14, <1>15, <1>16

\* An instance that observes its tokens may lose one.
LEMMA LosesTokenOK ==
  ASSUME FullInv, NEW i \in Instances, LosesToken(i), lc[i].pc # "verified", lc[i].state # "ACTIVE", UNCHANGED <<lc, transfer>>
  PROVE  FullStepOK
<1>1. "ACTIVE" \in RingStates
  BY DEF RingStates
<1>2. /\ StoreOK(RingStates)' /\ DOMAIN ring'.ing = DOMAIN ring.ing \cup {Other} /\ i \in DOMAIN ring.ing
      /\ \A x \in DOMAIN ring.ing \ {i} : ring'.ing[x] = ring.ing[x]
      /\ ring.ing[i].state = "JOINING" /\ ring'.ing[i].state = "JOINING"
      /\ GetRegisteredAt(ring'.ing[i].reg) = GetRegisteredAt(ring.ing[i].reg)
      /\ TokensHaveOneOwner' /\ RegsKept
  BY <1>1, LosesStoreToken DEF FullInv
<1>3. UNCHANGED <<conf, disk, losses>> /\ conf.observe
  BY DEF LosesToken
<1>4. TransferOK' /\ \A j \in Instances : RoleKept(j)
  BY SameTransfer DEF FullInv
<1>5. Watched' = Watched /\ Busy' = Busy /\ FullOK(i)
  BY <1>3 DEF Watched, Unobserved, Busy, FullInv
<1>6. FullOK(i)'
  <2>1. LcOK(i)' /\ EntryOK(i)'
    BY <1>2, <1>3, <1>5, SameTypes DEF FullOK, LcOK, FileOK, EntryOK, Live, InLoop
  <2>2. StateOK(i)' /\ TokensOK(i)'
    BY <1>2, <1>5 DEF FullOK, StateOK, TokensOK, Live, Shutting, Sure
  <2>3. ReceiverOK(i)' /\ SenderOK(i)'
    BY <1>2, <1>3, <1>5 DEF FullOK, ReceiverOK, SenderOK, Watched, Unobserved
  <2> QED
    BY <2>1, <2>2, <2>3 DEF FullOK
<1>7. ASSUME NEW j \in Instances, j # i PROVE FullOK(j)'
  <2>1. Untouched(j)
    BY <1>2, <1>3, <1>4, <1>7, NamesAssumption DEF Untouched
  <2> QED
    BY <1>3, <2>1, UntouchedOK DEF FullInv
<1>9. FullInv'
  BY <1>2, <1>4, <1>6, <1>7 DEF FullInv
<1> QED
  BY <1>2, <1>9 DEF FullStepOK, ReadyOK


-----------------------------------------------------------------------------
(***************************************************************************)
(* The handover.                                                           *)
(***************************************************************************)
\* The end of a handover: nobody receives or sends any more.
LEMMA Ends ==
  ASSUME TransferOK, NEW phase \in {"succeeded", "failed"}, TransferEnds(phase)
  PROVE  TransferOK' /\ ~Busy' /\ \A j \in Instances : RoleKept(j) /\ ReceiverOK(j)' /\ SenderOK(j)'
<1>1. TransferOK' /\ ~Busy'
  BY DEF TransferEnds, TransferOK, NoTransfer, Busy
<1> QED
  BY <1>1 DEF RoleKept, ReceiverOK, SenderOK

\* A record is not changed by the value it has.
LEMMA SamePlace ==
  ASSUME NEW l \in Lcs, l.pc = "loop"
  PROVE  [l EXCEPT !.pc = "loop"] = l
BY DEF Lcs

\* The handover begins: the receiver is JOINING.
LEMMA TransferStartsOK ==
  ASSUME FullInv, NEW from \in Instances, NEW to \in Instances, NEW o, TransferStarts(from, to, o) PROVE FullStepOK
<1>1. /\ conf.transfers /\ lc[from].pc = "transferring" /\ lc[to].pc = "loop" /\ from # to
      /\ from \in DOMAIN ring.ing /\ ring.ing[from].state = "LEAVING"
      /\ lc[to].state = "PENDING" /\ ~Disallowed(lc[to].state, "JOINING")
      /\ changeState(to, "JOINING", o, lc[to])
      /\ transfer' = [from |-> from, to |-> to, phase |-> "receiving"]
      /\ UNCHANGED <<disk, conf, losses>>
  BY DEF TransferStarts, InLoop, Disallowed
<1>2. FullOK(to) /\ lc[to] \in Lcs /\ [lc[to] EXCEPT !.pc = "loop"] = lc[to] /\ Live(to)
  BY <1>1, SamePlace DEF FullInv, FullOK, LcOK, Live
<1>3. "JOINING" \in RingStates
  BY DEF RingStates
<1>4. /\ Updated(to, "JOINING") /\ LcStays(to) /\ Live(to)'
      /\ lc'[to] \in Lcs /\ lc'[to].tokens = lc[to].tokens /\ lc'[to].reg = lc[to].reg
      /\ lc'[to].unclaimed = lc[to].unclaimed /\ lc'[to].ready = lc[to].ready
      /\ lc'[to].observe = lc[to].observe /\ lc'[to].pc = "loop"
      /\ lc'[to].state = "JOINING"
  BY <1>1, <1>2, <1>3, MovesState
<1>5. TransferOK' /\ Watched' = Watched
  BY <1>1 DEF TransferOK, Watched, Unobserved
<1>6. ReceiverOK(to)' /\ SenderOK(to)'
  BY <1>1, <1>4 DEF ReceiverOK, SenderOK, InLoop
<1>7. ReceiverOK(from)' /\ SenderOK(from)'
  <2>1. ring'.ing[from] = ring.ing[from] /\ lc'[from] = lc[from]
    BY <1>1, <1>4 DEF Updated, OthersStay, LcStays
  <2> QED
    BY <1>1, <2>1 DEF ReceiverOK, SenderOK
<1>8. \A j \in Instances \ {to} : RoleKept(j)
  BY <1>1, <1>7 DEF RoleKept
<1>9. losses = 0 => ring'.ing[to].state \in {ring.ing[to].state, "JOINING"}
  BY <1>4 DEF Updated
<1>10. Watched => ring.ing[to].state \notin {"ACTIVE", "LEAVING"} /\ ~lc[to].observe
  BY <1>1, <1>2 DEF FullOK, StateOK, LcOK, Watched, Unobserved
<1>11. Watched => ring'.ing[to].state \notin {"ACTIVE", "LEAVING"} /\ ~lc'[to].observe
  BY <1>4, <1>9, <1>10 DEF Watched
<1>12. ~Shutting(to)'
  BY <1>4 DEF Shutting
<1> QED
  BY <1>1, <1>2, <1>4, <1>5, <1>6, <1>8, <1>11, <1>12, UpdateOK DEF Sure

\* It is complete: the receiver is ACTIVE, with the tokens it has claimed.
LEMMA TransferSucceedsOK ==
  ASSUME FullInv, NEW o, NEW from, NEW to \in Instances, transfer.to = to, TransferSucceeds(from, to, o) PROVE FullStepOK
<1>1. /\ lc[to].pc = "loop" /\ Busy /\ transfer.phase = "claimed"
      /\ changeState(to, "ACTIVE", o, lc[to]) /\ TransferEnds("succeeded")
      /\ UNCHANGED <<disk, conf, losses>> /\ TransferOK
  BY DEF TransferSucceeds, InLoop, Busy, FullInv
<1>2. FullOK(to) /\ lc[to] \in Lcs /\ [lc[to] EXCEPT !.pc = "loop"] = lc[to] /\ Live(to) /\ "ACTIVE" \in RingStates
  BY <1>1, SamePlace DEF FullInv, FullOK, LcOK, Live, RingStates
<1>3. /\ Watched => conf.transfers /\ lc[to].state = "JOINING" /\ ~lc[to].observe
      /\ Sure(to) => lc[to].tokens = ring.ing[to].tokens
  BY <1>1, <1>2 DEF FullOK, ReceiverOK, LcOK, Watched, Unobserved, Sure
<1>4. /\ Updated(to, "ACTIVE") /\ LcStays(to) /\ Live(to)'
      /\ lc'[to] \in Lcs /\ lc'[to].tokens = lc[to].tokens /\ lc'[to].reg = lc[to].reg
      /\ lc'[to].unclaimed = lc[to].unclaimed /\ lc'[to].ready = lc[to].ready
      /\ lc'[to].observe = lc[to].observe /\ lc'[to].pc = "loop"
      /\ \/ Disallowed(lc[to].state, "ACTIVE") /\ ring' = ring /\ lc'[to].state = lc[to].state
         \/ ~Disallowed(lc[to].state, "ACTIVE") /\ lc'[to].state = "ACTIVE"
  BY <1>1, <1>2, MovesState
<1>5. TransferOK' /\ \A j \in Instances : RoleKept(j) /\ ReceiverOK(j)' /\ SenderOK(j)'
  BY <1>1, Ends
<1>6. Watched => lc'[to].state = "ACTIVE"
  BY <1>3, <1>4 DEF Disallowed
<1>7. ~Shutting(to)'
  BY <1>4 DEF Shutting
<1> QED
  BY <1>1, <1>2, <1>3, <1>4, <1>5, <1>6, <1>7, UpdateOK

\* It fails: the receiver is PENDING again.
LEMMA TransferFailsOK ==
  ASSUME FullInv, NEW o, NEW from, NEW to \in Instances, transfer.to = to, TransferFails(from, to, o) PROVE FullStepOK
<1>1. /\ lc[to].pc = "loop" /\ Busy
      /\ changeState(to, "PENDING", o, lc[to]) /\ TransferEnds("failed")
      /\ UNCHANGED <<disk, conf, losses>> /\ TransferOK
  BY DEF TransferFails, InLoop, Busy, FullInv
<1>2. FullOK(to) /\ lc[to] \in Lcs /\ [lc[to] EXCEPT !.pc = "loop"] = lc[to] /\ Live(to) /\ "PENDING" \in RingStates
  BY <1>1, SamePlace DEF FullInv, FullOK, LcOK, Live, RingStates
<1>3. Watched => /\ conf.transfers /\ lc[to].state = "JOINING" /\ ring.ing[to].state \notin {"ACTIVE", "LEAVING"}
                 /\ ~lc[to].observe
  BY <1>1, <1>2 DEF FullOK, ReceiverOK, StateOK, LcOK, Watched, Unobserved
<1>4. /\ Updated(to, "PENDING") /\ LcStays(to) /\ Live(to)'
      /\ lc'[to] \in Lcs /\ lc'[to].tokens = lc[to].tokens /\ lc'[to].reg = lc[to].reg
      /\ lc'[to].unclaimed = lc[to].unclaimed /\ lc'[to].ready = lc[to].ready
      /\ lc'[to].observe = lc[to].observe /\ lc'[to].pc = "loop"
      /\ \/ Disallowed(lc[to].state, "PENDING") /\ ring' = ring /\ lc'[to].state = lc[to].state
         \/ ~Disallowed(lc[to].state, "PENDING") /\ lc'[to].state = "PENDING"
  BY <1>1, <1>2, MovesState
<1>5. TransferOK' /\ \A j \in Instances : RoleKept(j) /\ ReceiverOK(j)' /\ SenderOK(j)'
  BY <1>1, Ends
<1>6. losses = 0 => ring'.ing[to].state \in {ring.ing[to].state, "PENDING"}
  BY <1>4 DEF Updated
<1>7. Watched => lc'[to].state # "ACTIVE" /\ ring'.ing[to].state \notin {"ACTIVE", "LEAVING"}
  BY <1>3, <1>4, <1>6 DEF Watched
<1>8. ~Shutting(to)'
  BY <1>4 DEF Shutting
<1> QED
  BY <1>1, <1>2, <1>3, <1>4, <1>5, <1>7, <1>8, UpdateOK DEF Sure


\* The ring after a claim.
Claimed(d, from, to) ==
  /\ IsRing(d, RingStates) /\ DOMAIN d = DOMAIN ring.ing \cup {to}
  /\ d[to].tokens = MyTokens(ring.ing, from) /\ MyTokens(ring.ing, from) \in Toks
  /\ to \in DOMAIN ring.ing => d[to].state = ring.ing[to].state /\ d[to].reg = ring.ing[to].reg
  /\ (from # to /\ from \in DOMAIN ring.ing) =>
       d[from].tokens = {} /\ d[from].state = ring.ing[from].state /\ d[from].reg = ring.ing[from].reg
  /\ \A x \in DOMAIN ring.ing \ {from, to} : d[x] = ring.ing[x]

\* ClaimTokens empties the sender's entry and gives all its tokens to the receiver.
LEMMA ClaimRing ==
  ASSUME StoreOK(RingStates), NEW from \in Instances, NEW to \in Instances, NEW d,
         d = [ClaimTokens(ring.ing, from, to) EXCEPT ![to].ts = "fresh"]
  PROVE  Claimed(d, from, to)
<1> DEFINE claimed == MyTokens(ring.ing, from)
           rest == IF from \in DOMAIN ring.ing THEN [ring.ing EXCEPT ![from].tokens = {}] ELSE ring.ing
           f == [EntryOf(rest, to) EXCEPT !.tokens = claimed]
           g == [f EXCEPT !.ts = "fresh"]
           p == Put(rest, to, f)
<1>1. /\ conf \in Confs /\ IsRing(ring.ing, RingStates) /\ {} \in Toks
      /\ ring.ing = [x \in DOMAIN ring.ing |-> ring.ing[x]]
      /\ \A x \in DOMAIN ring.ing : ring.ing[x] \in Entries(RingStates)
  BY SmallTokens DEF StoreOK, IsRing
<1>2. claimed \in Toks
  BY <1>1 DEF MyTokens, EntryOf, ZeroEntry, Entries
<1>3. ASSUME from \in DOMAIN ring.ing
      PROVE  /\ [ring.ing[from] EXCEPT !.tokens = {}] \in Entries(RingStates)
             /\ [ring.ing[from] EXCEPT !.tokens = {}].tokens = {}
             /\ [ring.ing[from] EXCEPT !.tokens = {}].state = ring.ing[from].state
             /\ [ring.ing[from] EXCEPT !.tokens = {}].reg = ring.ing[from].reg
  BY <1>1, <1>3 DEF Entries
<1>4. /\ DOMAIN rest = DOMAIN ring.ing /\ \A x \in DOMAIN ring.ing \ {from} : rest[x] = ring.ing[x]
      /\ from \in DOMAIN ring.ing => rest[from] = [ring.ing[from] EXCEPT !.tokens = {}]
  BY <1>1
<1>5. p = ClaimTokens(ring.ing, from, to)
  BY DEF ClaimTokens, MyTokens
<1> HIDE DEF rest, claimed
<1>6. /\ \A x \in DOMAIN rest : rest[x] \in Entries(RingStates)
      /\ \A x \in DOMAIN rest : rest[x].state = ring.ing[x].state /\ rest[x].reg = ring.ing[x].reg
      /\ from \in DOMAIN rest => rest[from].tokens = {}
  BY <1>1, <1>3, <1>4
<1>7. EntryOf(rest, to) \in Entries(RingStates)
  BY <1>1, <1>6 DEF EntryOf, ZeroEntry, Entries, RingStates, Regs
<1>8. /\ f \in Entries(RingStates) /\ f.tokens = claimed /\ f.state = EntryOf(rest, to).state /\ f.reg = EntryOf(rest, to).reg
  BY <1>2, <1>7 DEF Entries
<1> HIDE DEF f
<1>9. g \in Entries(RingStates) /\ g.tokens = claimed /\ g.state = f.state /\ g.reg = f.reg
  BY <1>8 DEF Entries
<1>10. /\ DOMAIN p = DOMAIN ring.ing \cup {to} /\ p[to] = f /\ p = [x \in DOMAIN p |-> p[x]]
       /\ \A x \in DOMAIN ring.ing \ {to} : p[x] = rest[x]
  BY <1>4 DEF Put
<1> HIDE DEF p
<1>11. d = [p EXCEPT ![to].ts = "fresh"]
  BY <1>5
<1>12. /\ DOMAIN d = DOMAIN ring.ing \cup {to} /\ d[to] = g /\ d = [x \in DOMAIN d |-> d[x]]
       /\ \A x \in DOMAIN ring.ing \ {to} : d[x] = rest[x]
  BY <1>10, <1>11
<1> HIDE DEF g
<1>13. DOMAIN d \subseteq Instances \cup {Other}
  BY <1>1, <1>12 DEF IsRing
<1>14. \A x \in DOMAIN d : d[x] \in Entries(RingStates)
  BY <1>4, <1>6, <1>9, <1>12
<1>15. IsRing(d, RingStates)
  BY <1>12, <1>13, <1>14 DEF IsRing
<1>16. to \in DOMAIN ring.ing => d[to].state = ring.ing[to].state /\ d[to].reg = ring.ing[to].reg
  BY <1>4, <1>6, <1>8, <1>9, <1>12 DEF EntryOf
<1>17. (from # to /\ from \in DOMAIN ring.ing) =>
         d[from].tokens = {} /\ d[from].state = ring.ing[from].state /\ d[from].reg = ring.ing[from].reg
  BY <1>4, <1>6, <1>12
<1>18. d[to].tokens = MyTokens(ring.ing, from) /\ MyTokens(ring.ing, from) \in Toks
  BY <1>2, <1>9, <1>12 DEF claimed
<1>19. \A x \in DOMAIN ring.ing \ {from, to} : d[x] = ring.ing[x]
  BY <1>4, <1>12
<1> QED
  BY <1>12, <1>15, <1>16, <1>17, <1>18, <1>19 DEF Claimed


\* The receiver claims the sender's tokens.
LEMMA ClaimTokensForOK ==
  ASSUME FullInv, NEW o, NEW from, NEW to \in Instances, transfer.to = to, transfer.from = from,
         ClaimTokensFor(from, to, o)
  PROVE  FullStepOK
<1> DEFINE claimed == IF ring.exists /\ Ran(o) THEN MyTokens(ring.ing, from) ELSE {}
           d == [ClaimTokens(ring.ing, from, to) EXCEPT ![to].ts = "fresh"]
<1>1. /\ transfer.phase = "receiving" /\ lc[to].pc = "loop" /\ from # Other /\ StoreToFile(to, claimed)
      /\ lc' = [lc EXCEPT ![to] = [lc[to] EXCEPT !.tokens = claimed, !.unclaimed = ~(ring.exists /\ IsStored(o))]]
      /\ transfer' = [transfer EXCEPT !.phase = "claimed"] /\ UNCHANGED <<conf, losses>>
      /\ ring' = ring \/ (ring.exists /\ ring' = [exists |-> TRUE, ing |-> d])
      /\ (ring.exists /\ IsStored(o)) => ring' = [exists |-> TRUE, ing |-> d]
  BY DEF ClaimTokensFor, InLoop, CAS, NewRing, IsStored
<1>2. from \in Instances /\ TransferOK /\ Busy
  BY <1>1 DEF FullInv, TransferOK, Busy
<1>3. StoreOK(RingStates) /\ FullOK(to) /\ FullOK(from) /\ lc[to] \in Lcs /\ {} \in Toks
  BY <1>2, SmallTokens DEF FullInv, FullOK, LcOK, StoreOK
<1>4. /\ IsRing(d, RingStates) /\ DOMAIN d = DOMAIN ring.ing \cup {to}
      /\ d[to].tokens = MyTokens(ring.ing, from) /\ MyTokens(ring.ing, from) \in Toks
      /\ to \in DOMAIN ring.ing => d[to].state = ring.ing[to].state /\ d[to].reg = ring.ing[to].reg
      /\ (from # to /\ from \in DOMAIN ring.ing) =>
           /\ d[from].tokens = {} /\ d[from].state = ring.ing[from].state /\ d[from].reg = ring.ing[from].reg
      /\ \A x \in DOMAIN ring.ing \ {from, to} : d[x] = ring.ing[x]
  <2>1. Claimed(d, from, to)
    BY <1>2, <1>3, ClaimRing
  <2> HIDE DEF d
  <2> QED
    BY <2>1 DEF Claimed
<1>5. claimed \in Toks
  BY <1>3, <1>4
<1>6. (ring.exists /\ IsStored(o)) => claimed = MyTokens(ring.ing, from)
  BY DEF Ran, IsStored
<1> HIDE DEF claimed, d
<1> DEFINE failed == ~(ring.exists /\ IsStored(o))
<1>7. /\ LcStays(to) /\ lc'[to] = [lc[to] EXCEPT !.tokens = claimed, !.unclaimed = failed]
      /\ failed \in BOOLEAN
  BY <1>1, LcSet
<1> HIDE DEF failed
<1>8. /\ lc'[to] \in Lcs /\ lc'[to].pc = "loop" /\ lc'[to].state = lc[to].state /\ lc'[to].tokens = claimed
      /\ lc'[to].reg = lc[to].reg /\ lc'[to].observe = lc[to].observe /\ lc'[to].ready = lc[to].ready
      /\ lc'[to].unclaimed = failed
  <2>1. lc'[to] \in Lcs
    BY <1>3, <1>5, <1>7 DEF Lcs
  <2>2. lc'[to].pc = "loop" /\ lc'[to].state = lc[to].state /\ lc'[to].reg = lc[to].reg
    BY <1>1, <1>3, <1>7 DEF Lcs, InLoop
  <2>3. lc'[to].observe = lc[to].observe /\ lc'[to].ready = lc[to].ready
    BY <1>3, <1>7 DEF Lcs
  <2>4. lc'[to].tokens = claimed /\ lc'[to].unclaimed = failed
    BY <1>3, <1>7 DEF Lcs
  <2> QED
    BY <2>1, <2>2, <2>3, <2>4
<1>9. DiskStays(to) /\ disk'[to] \in {disk[to], claimed} /\ (~conf.tokensFile => disk'[to] = disk[to])
  BY <1>1, <1>3, FileStored DEF StoreOK
<1>10. FileOK(to)'
  BY <1>1, <1>3, <1>5, <1>9, SameTypes DEF FileOK, FullOK, LcOK
<1>11. StoreOK(RingStates)'
  <2>1. CASE ring' = ring
    BY <1>1, <1>3, <1>9, <2>1, SameTypes DEF StoreOK, IsRing, DiskStays
  <2>2. CASE ring' = [exists |-> TRUE, ing |-> d]
    <3>1. ring'.ing = d /\ ring'.exists = TRUE
      BY <2>2
    <3>2. IsRing(ring.ing, RingStates)'
      BY <1>1, <1>4, <3>1, SameTypes DEF IsRing
    <3> QED
      BY <1>1, <1>3, <1>9, <2>2, <3>1, <3>2 DEF StoreOK, DiskStays
  <2> QED
    BY <1>1, <2>1, <2>2
<1>12. ring'.ing = ring.ing \/ ring'.ing = d
  BY <1>1
<1>13. losses = 0 => to \in DOMAIN ring.ing /\ GetRegisteredAt(ring.ing[to].reg) = lc[to].reg
  BY <1>1, <1>3 DEF FullOK, EntryOK, Live
<1>14. losses = 0 => /\ DOMAIN ring'.ing = DOMAIN ring.ing
                     /\ \A x \in DOMAIN ring.ing : ring'.ing[x].reg = ring.ing[x].reg /\ ring'.ing[x].state = ring.ing[x].state
  BY <1>4, <1>12, <1>13
<1>15. RegsKept
  BY <1>14 DEF RegsKept
<1>16. Watched' = Watched /\ TransferOK' /\ Busy' /\ transfer'.to = to /\ transfer'.from = from /\ transfer'.phase = "claimed"
  BY <1>1, <1>2 DEF Watched, Unobserved, TransferOK, Busy
<1>17. Watched => /\ conf.transfers /\ lc[to].state = "JOINING" /\ lc[from].pc = "transferring" /\ ring.ing[from].state = "LEAVING"
                  /\ from # to /\ ring.ing[to].state \notin {"ACTIVE", "LEAVING"} /\ ~lc[to].observe
                  /\ lc[from].state # "ACTIVE" /\ losses = 0
  BY <1>1, <1>2, <1>3 DEF FullOK, ReceiverOK, SenderOK, StateOK, LcOK, Live, Shutting, Watched, Unobserved
<1>18. Sure(to)' => ring'.ing = d /\ claimed = MyTokens(ring.ing, from)
  <2>1. Sure(to)' => ~failed
    BY <1>8 DEF Sure
  <2>2. ~failed => ring.exists /\ IsStored(o)
    BY DEF failed
  <2> QED
    BY <1>1, <1>6, <2>1, <2>2
<1>19. FullOK(to)' /\ ReadyOK(to)
  <2>1. LcOK(to)'
    BY <1>1, <1>8, <1>10, <1>16, <1>17, SameTypes DEF LcOK, Live
  <2>2. EntryOK(to)'
    BY <1>1, <1>8, <1>13, <1>14 DEF EntryOK
  <2>3. StateOK(to)' /\ TokensOK(to)'
    BY <1>8, <1>13, <1>14, <1>16, <1>17 DEF StateOK, TokensOK, Shutting, Sure
  <2>4. ReceiverOK(to)' /\ SenderOK(to)'
    BY <1>1, <1>4, <1>8, <1>16, <1>17, <1>18 DEF ReceiverOK, SenderOK, InLoop
  <2> QED
    BY <1>8, <2>1, <2>2, <2>3, <2>4 DEF FullOK, ReadyOK
<1>20. ASSUME from # to PROVE FullOK(from)' /\ ReadyOK(from)
  <2>1. lc'[from] = lc[from] /\ disk'[from] = disk[from]
    BY <1>2, <1>7, <1>9, <1>20 DEF LcStays, DiskStays
  <2>2. LcOK(from)'
    BY <1>1, <1>3, <1>16, <2>1, SameTypes DEF FullOK, LcOK, FileOK, Live, InLoop
  <2>3. losses = 0 /\ Live(from) => from \in DOMAIN ring.ing
    BY <1>3 DEF FullOK, EntryOK
  <2>4. EntryOK(from)'
    BY <1>1, <1>3, <1>14, <2>1 DEF FullOK, EntryOK, Live
  <2>5. StateOK(from)' /\ TokensOK(from)'
    BY <1>3, <1>14, <1>16, <1>17, <2>1, <2>3 DEF FullOK, StateOK, TokensOK, Live, Shutting, Sure
  <2>6. ReceiverOK(from)' /\ SenderOK(from)'
    BY <1>14, <1>16, <1>17, <1>20, <2>1, <2>3 DEF ReceiverOK, SenderOK, Live
  <2> QED
    BY <2>1, <2>2, <2>4, <2>5, <2>6 DEF FullOK, ReadyOK
<1>21. ASSUME NEW j \in Instances, j # to, j # from PROVE FullOK(j)' /\ ReadyOK(j)
  <2>1. lc'[j] = lc[j] /\ disk'[j] = disk[j]
    BY <1>7, <1>9, <1>21 DEF LcStays, DiskStays
  <2>2. (j \in DOMAIN ring'.ing <=> j \in DOMAIN ring.ing) /\ (j \in DOMAIN ring.ing => ring'.ing[j] = ring.ing[j])
    BY <1>4, <1>12, <1>21
  <2>3. RoleKept(j)
    BY <1>16, <1>21 DEF RoleKept
  <2>4. Untouched(j)
    BY <2>1, <2>2, <2>3 DEF Untouched
  <2> QED
    BY <1>1, <2>1, <2>4, UntouchedOK DEF FullInv, ReadyOK
<1>22. TokensHaveOneOwner'
  <2> SUFFICES ASSUME losses = 0, OneOwner(ring.ing), NEW x \in DOMAIN ring'.ing, NEW y \in DOMAIN ring'.ing, x # y
               PROVE  ring'.ing[x].tokens \cap ring'.ing[y].tokens = {}
    BY <1>1 DEF TokensHaveOneOwner, FullInv, OneOwner
  <2>1. x \in DOMAIN ring.ing /\ y \in DOMAIN ring.ing
    BY <1>14
  <2>2. CASE ring'.ing = ring.ing
    BY <2>2 DEF OneOwner
  <2>3. CASE ring'.ing = d
    <3>1. ASSUME NEW z \in DOMAIN ring.ing, z # to
          PROVE  d[z].tokens \cap MyTokens(ring.ing, from) = {} /\ (z = from \/ d[z] = ring.ing[z])
      BY <1>4, <3>1 DEF OneOwner, MyTokens, EntryOf, ZeroEntry
    <3>2. CASE x = to \/ y = to
      BY <1>4, <2>1, <2>3, <3>1, <3>2
    <3>3. CASE x # to /\ y # to
      BY <1>4, <2>1, <2>3, <3>1, <3>3 DEF OneOwner
    <3> QED
      BY <3>2, <3>3
  <2> QED
    BY <1>12, <2>2, <2>3
<1>23. \A j \in Instances : FullOK(j)' /\ ReadyOK(j)
  BY <1>2, <1>19, <1>20, <1>21
<1>24. FullInv'
  BY <1>7, <1>11, <1>15, <1>16, <1>22, <1>23 DEF FullInv, LcStays
<1> QED
  BY <1>15, <1>23, <1>24 DEF FullStepOK

\* Every step of the full lifecycler keeps the invariant.
LEMMA FullNext == ASSUME FullInv, Next PROVE FullStepOK
<1>1. ASSUME RingChanges PROVE FullStepOK
  BY <1>1, LosesRingOK, HeartbeatAgesOK, LosesTokenOK DEF RingChanges
<1>2. ASSUME NEW i \in Instances, Start(i) \/ Stop(i) \/ CheckTokens(i) \/ CheckReady(i) \/ Crash(i) PROVE FullStepOK
  BY <1>2, StartOK, StopOK, CheckTokensOK, CheckReadyOK, CrashOK
<1>3. ASSUME NEW o \in Outcomes, TransferSteps(o) PROVE FullStepOK
  BY <1>3, ClaimTokensForOK, TransferSucceedsOK, TransferFailsOK DEF TransferSteps
<1>4. ASSUME NEW i \in Instances, NEW o \in Outcomes, JoinSteps(i, o) PROVE FullStepOK
  BY <1>4, InitNewOK, InitJoiningOK, InitExistingOK, AutoJoinOK, JoinTimerIgnoredOK, VerifiedTokensOK, ReplacesTokensOK,
     BecomesActiveOK DEF JoinSteps, InitRing
<1>5. ASSUME NEW i \in Instances, NEW o \in Outcomes, LeaveSteps(i, o) PROVE FullStepOK
  BY <1>5, StopLeavesOK, TransferOutOK, FlushOK, ShutdownDoneOK, UnregisterOK DEF LeaveSteps
<1>6. ASSUME NEW i \in Instances, NEW o \in Outcomes, Heartbeat(i, o) PROVE FullStepOK
  BY <1>6, HeartbeatOK
<1>7. ASSUME NEW i \in Instances, NEW j \in Instances, NEW o \in Outcomes, TransferStarts(i, j, o) PROVE FullStepOK
  BY <1>7, TransferStartsOK
<1> QED
  BY <1>1, <1>2, <1>3, <1>4, <1>5, <1>6, <1>7 DEF Next


-----------------------------------------------------------------------------
(***************************************************************************)
(* Steps of the basic lifecycler.                                          *)
(***************************************************************************)
BlStays(i) == bl' = [j \in Instances |-> bl'[j]] /\ \A j \in Instances \ {i} : bl'[j] = bl[j]

\* Nobody is removed from the ring, unless heartbeats make others forget.
NobodyGoes(i) == ~conf.forget => \A j \in DOMAIN ring.ing \ {i} : j \in DOMAIN ring'.ing

LeavingKept(i) ==
  (bl[i].pc = "stopping" /\ i \in DOMAIN ring.ing /\ i \in DOMAIN ring'.ing /\ ring.ing[i].state = "LEAVING") =>
    ring'.ing[i].state = "LEAVING"

\* What every step of the basic lifecycler does.
BasicStepOK == BasicInv' /\ RegsKept /\ \A j \in Instances : LeavingKept(j)

\* What tokens, entries and updates are is up to the configuration.
LEMMA SameBasicTypes ==
  ASSUME conf' = conf
  PROVE  Toks' = Toks /\ Bls' = Bls
BY DEF Toks, Entries, Updates, Bls

(***************************************************************************)
(* A step of one instance that edits its own entry and may forget others   *)
(* keeps the invariant if it keeps what that says of the instance itself.  *)
(***************************************************************************)
LEMMA BasicEdit ==
  ASSUME BasicInv, NEW i \in Instances, conf' = conf, losses' = losses, StoreOK(BasicStates)',
         OthersKept(i), NobodyGoes(i), TokensFree(i), RegOK(i), DiskStays(i), BlStays(i),
         BasicOK(i)', LeavingKept(i)
  PROVE  BasicStepOK
<1>1. TokensHaveOneOwner'
  BY EditOneOwner DEF BasicInv
<1>2. RegsKept
  BY DEF RegsKept, OthersKept, RegOK
<1>3. ASSUME NEW j \in Instances, j # i PROVE BasicOK(j)' /\ LeavingKept(j)
  <2>1. bl'[j] = bl[j] /\ disk'[j] = disk[j] /\ BasicOK(j)
    BY <1>3 DEF BlStays, DiskStays, BasicInv
  <2>2. /\ j \in DOMAIN ring'.ing => j \in DOMAIN ring.ing /\ ring'.ing[j] = ring.ing[j]
        /\ (~conf.forget /\ j \in DOMAIN ring.ing) => j \in DOMAIN ring'.ing
    BY <1>3 DEF OthersKept, NobodyGoes
  <2>3. BlOK(j)'
    BY <2>1, <2>2, SameBasicTypes DEF BasicOK, BlOK, FileOK, HasEntry
  <2>4. StaysOK(j)'
    BY <2>1, <2>2 DEF BasicOK, StaysOK, HasEntry
  <2>5. CompleteOK(j)'
    BY <2>1 DEF BasicOK, CompleteOK, IsFull
  <2>6. LeavingKept(j)
    BY <2>2 DEF LeavingKept
  <2> QED
    BY <2>3, <2>4, <2>5, <2>6 DEF BasicOK
<1>4. \A j \in Instances : BasicOK(j)' /\ LeavingKept(j)
  BY <1>3
<1>5. BasicInv'
  BY <1>1, <1>4 DEF BasicInv, BlStays
<1> QED
  BY <1>2, <1>4, <1>5 DEF BasicStepOK

\* The same for a step that leaves the ring alone.
LEMMA BasicLocal ==
  ASSUME BasicInv, NEW i \in Instances, UNCHANGED <<conf, ring, losses>>, DiskStays(i), BlStays(i), BasicOK(i)'
  PROVE  BasicStepOK
<1>1. StoreOK(BasicStates)'
  BY SameTypes DEF BasicInv, StoreOK, IsRing, DiskStays
<1>2. OthersKept(i) /\ NobodyGoes(i) /\ RegOK(i) /\ LeavingKept(i)
  BY DEF OthersKept, NobodyGoes, RegOK, LeavingKept
<1>3. TokensFree(i)
  BY DEF TokensFree, BasicInv, TokensHaveOneOwner
<1> QED
  BY <1>1, <1>2, <1>3, BasicEdit

\* A step that makes b the lifecycler of instance i.
LEMMA BlSet ==
  ASSUME BasicInv, NEW i \in Instances, NEW b, bl' = [bl EXCEPT ![i] = b]
  PROVE  BlStays(i) /\ bl'[i] = b
BY DEF BasicInv, BlStays

\* No update is an update.
LEMMA NothingTyped ==
  ASSUME conf \in Confs
  PROVE  Nothing \in Updates /\ Nothing.set = FALSE
<1>1. {} \in Toks
  BY SmallTokens
<1>2. ZeroEntry \in Entries(BasicStates)
  BY <1>1 DEF ZeroEntry, Entries, BasicStates, Regs
<1> QED
  BY <1>2 DEF Nothing, Updates

\* A lifecycler that is down or starts has nothing to keep but its file.
LEMMA GoneOK ==
  ASSUME BasicInv, NEW i \in Instances, conf' = conf, losses' = losses, disk'[i] = disk[i],
         \/ bl'[i] = Gone(bl[i].starts, "down")
         \/ bl'[i] = NewBasicLifecycler(bl[i].starts + 1)
  PROVE  BasicOK(i)'
<1>1. bl[i] \in Bls /\ BasicOK(i) /\ conf \in Confs
  BY DEF BasicInv, BasicOK, BlOK, StoreOK
<1>2. bl[i].starts \in Nat
  BY <1>1 DEF Bls
<1>3. Nothing \in Updates /\ Nothing.set = FALSE
  BY <1>1, NothingTyped
<1>4. PICK p \in {"down", "starting"}, n \in {bl[i].starts, bl[i].starts + 1} :
        bl'[i] = [pc |-> p, desc |-> Nothing, main |-> Nothing, delegate |-> Nothing, leaving |-> "no", starts |-> n]
  BY DEF Gone, NewBasicLifecycler
<1>5. n \in Nat
  BY <1>2
<1>6. bl'[i] \in Bls
  BY <1>3, <1>4, <1>5 DEF Bls
<1>7. BlOK(i)'
  BY <1>1, <1>4, <1>6, SameBasicTypes DEF BasicOK, BlOK, FileOK, HasEntry
<1>8. StaysOK(i)'
  BY <1>4 DEF StaysOK, HasEntry
<1>9. CompleteOK(i)'
  BY <1>1, <1>3, <1>4 DEF BasicOK, CompleteOK, IsFull
<1> QED
  BY <1>7, <1>8, <1>9 DEF BasicOK


\* The files stay as they are.
LEMMA SameDisk ==
  ASSUME BasicInv, NEW i \in Instances, disk' = disk
  PROVE  DiskStays(i) /\ disk'[i] = disk[i]
BY DEF BasicInv, StoreOK, DiskStays

\* A lifecycler starts, or is gone: by itself, or with its process.
LEMMA StartsOrGone ==
  ASSUME BasicInv, NEW i \in Instances, UNCHANGED storeVars,
         \/ bl' = [bl EXCEPT ![i] = Gone(bl[i].starts, "down")]
         \/ bl' = [bl EXCEPT ![i] = NewBasicLifecycler(bl[i].starts + 1)]
  PROVE  BasicStepOK
<1>1. UNCHANGED <<conf, ring, losses, disk>>
  BY DEF storeVars
<1>2. /\ BlStays(i)
      /\ bl'[i] = Gone(bl[i].starts, "down") \/ bl'[i] = NewBasicLifecycler(bl[i].starts + 1)
  BY BlSet
<1>3. DiskStays(i) /\ disk'[i] = disk[i]
  BY <1>1, SameDisk
<1> QED
  BY <1>1, <1>2, <1>3, GoneOK, BasicLocal

(***************************************************************************)
(* A step that changes nothing but the place of a lifecycler after its     *)
(* registration, and of its delegate's goroutine.                          *)
(***************************************************************************)
LEMMA PlaceOK ==
  ASSUME BasicInv, NEW i \in Instances, UNCHANGED <<conf, ring, losses, disk>>, BlStays(i),
         bl'[i] \in Bls, bl'[i].desc = bl[i].desc,
         bl'[i].pc \in {"running", "stopping", "unregister"} \/ bl'[i].pc = bl[i].pc,
         bl'[i].main = bl[i].main, bl'[i].delegate = bl[i].delegate,
         bl'[i].leaving = "change" => bl'[i].pc = "stopping",
         HasEntry(i) \/ bl'[i].pc = bl[i].pc
  PROVE  BasicStepOK
<1>1. BasicOK(i)
  BY DEF BasicInv
<1>2. DiskStays(i) /\ disk'[i] = disk[i]
  BY SameDisk
<1>3. HasEntry(i)' => HasEntry(i)
  BY DEF HasEntry
<1>4. BlOK(i)'
  BY <1>1, <1>3, SameBasicTypes DEF BasicOK, BlOK, FileOK
<1>5. StaysOK(i)'
  BY <1>1, <1>3 DEF BasicOK, StaysOK
<1>6. CompleteOK(i)'
  BY <1>1 DEF BasicOK, CompleteOK, IsFull
<1> QED
  BY <1>2, <1>4, <1>5, <1>6, BasicLocal DEF BasicOK

\* The service is stopped.
LEMMA BasicStopOK == ASSUME BasicInv, NEW i \in Instances, BasicStop(i) PROVE BasicStepOK
<1>1. CASE bl' = [bl EXCEPT ![i] = Gone(bl[i].starts, "down")]
  BY <1>1, StartsOrGone DEF BasicStop
<1>2. CASE bl[i].pc = "running" /\ bl' = [bl EXCEPT ![i] = [bl[i] EXCEPT !.pc = "stopping", !.leaving = "change"]]
  <2>1. BlStays(i) /\ bl'[i] = [bl[i] EXCEPT !.pc = "stopping", !.leaving = "change"]
    BY <1>2, BlSet
  <2>2. bl[i] \in Bls
    BY DEF BasicInv, BasicOK, BlOK
  <2>3. /\ bl'[i] \in Bls /\ bl'[i].desc = bl[i].desc /\ bl'[i].pc = "stopping" /\ bl'[i].main = bl[i].main
        /\ bl'[i].delegate = bl[i].delegate
    BY <2>1, <2>2 DEF Bls
  <2>4. UNCHANGED <<conf, ring, losses, disk>> /\ HasEntry(i)
    BY <1>2 DEF BasicStop, storeVars, HasEntry
  <2> QED
    BY <2>1, <2>3, <2>4, PlaceOK
<1> QED
  BY <1>1, <1>2 DEF BasicStop

\* The delegates have returned.
LEMMA StoppingReturnsOK == ASSUME BasicInv, NEW i \in Instances, StoppingReturns(i) PROVE BasicStepOK
<1>1. BlStays(i) /\ bl'[i] = [bl[i] EXCEPT !.leaving = "done"]
  BY DEF StoppingReturns, BasicInv, BlStays
<1>2. bl[i] \in Bls
  BY DEF BasicInv, BasicOK, BlOK
<1>3. /\ bl'[i] \in Bls /\ bl'[i].desc = bl[i].desc /\ bl'[i].pc = bl[i].pc /\ bl'[i].main = bl[i].main
      /\ bl'[i].delegate = bl[i].delegate /\ bl'[i].leaving = "done"
  BY <1>1, <1>2 DEF Bls
<1>4. UNCHANGED <<conf, ring, losses, disk>>
  BY DEF StoppingReturns, storeVars
<1> QED
  BY <1>1, <1>3, <1>4, PlaceOK

\* The heartbeats end.
LEMMA HeartbeatLoopEndsOK == ASSUME BasicInv, NEW i \in Instances, HeartbeatLoopEnds(i) PROVE BasicStepOK
<1>1. CASE ~conf.unregister
  BY <1>1, StartsOrGone DEF HeartbeatLoopEnds
<1>2. CASE conf.unregister
  <2>1. BlStays(i) /\ bl'[i] = [bl[i] EXCEPT !.pc = "unregister"]
    BY <1>2, BlSet DEF HeartbeatLoopEnds
  <2>2. bl[i] \in Bls /\ bl[i].pc = "stopping" /\ bl[i].leaving = "done"
    BY DEF BasicInv, BasicOK, BlOK, HeartbeatLoopEnds, HeartbeatLoopOver
  <2>3. /\ bl'[i] \in Bls /\ bl'[i].desc = bl[i].desc /\ bl'[i].pc = "unregister" /\ bl'[i].main = bl[i].main
        /\ bl'[i].delegate = bl[i].delegate /\ bl'[i].leaving = "done"
    BY <2>1, <2>2 DEF Bls
  <2>4. UNCHANGED <<conf, ring, losses, disk>> /\ HasEntry(i)
    BY <2>2 DEF HeartbeatLoopEnds, storeVars, HasEntry
  <2> QED
    BY <2>1, <2>3, <2>4, PlaceOK
<1> QED
  BY <1>1, <1>2

\* The tokens are stored in the file.
LEMMA NotifyTokensOK == ASSUME BasicInv, NEW i \in Instances, NotifyTokens(i) PROVE BasicStepOK
<1> DEFINE T == bl[i].desc.e.tokens
<1>1. /\ bl[i].pc = "notify" /\ bl' = [bl EXCEPT ![i].pc = "running"] /\ UNCHANGED <<conf, ring, losses>>
      /\ StoreToFile(i, T) \/ UNCHANGED disk
  BY DEF NotifyTokens
<1>2. BlStays(i) /\ bl'[i] = [bl[i] EXCEPT !.pc = "running"]
  BY <1>1 DEF BasicInv, BlStays
<1>3. bl[i] \in Bls /\ BasicOK(i) /\ disk = [j \in Instances |-> disk[j]] /\ bl[i].leaving # "change"
  BY <1>1 DEF BasicInv, BasicOK, BlOK, StoreOK
<1>4. T \in Toks
  BY <1>3 DEF Bls, Updates, Entries
<1>5. /\ bl'[i] \in Bls /\ bl'[i].desc = bl[i].desc /\ bl'[i].pc = "running" /\ bl'[i].main = bl[i].main
      /\ bl'[i].delegate = bl[i].delegate /\ bl'[i].leaving = bl[i].leaving
  BY <1>2, <1>3 DEF Bls
<1>6. DiskStays(i) /\ disk'[i] \in {disk[i], T} /\ (~conf.tokensFile => disk'[i] = disk[i])
  BY <1>1, <1>3, FileStored
<1>7. BlOK(i)'
  BY <1>1, <1>3, <1>4, <1>5, <1>6, SameBasicTypes DEF BasicOK, BlOK, FileOK, HasEntry
<1>8. StaysOK(i)'
  BY <1>1, <1>3, <1>5 DEF BasicOK, StaysOK, HasEntry
<1>9. CompleteOK(i)'
  BY <1>1, <1>3, <1>5, <1>6 DEF BasicOK, CompleteOK, IsFull
<1> QED
  BY <1>1, <1>2, <1>6, <1>7, <1>8, <1>9, BasicLocal DEF BasicOK

\* A goroutine assigns the entry of its update.
LEMMA UpdateAssignsOK ==
  ASSUME BasicInv, NEW i \in Instances, UpdateAssigns(i, "main") \/ UpdateAssigns(i, "delegate") PROVE BasicStepOK
<1>1. bl[i] \in Bls /\ BasicOK(i) /\ conf \in Confs
  BY DEF BasicInv, BasicOK, BlOK, StoreOK
<1>2. Nothing \in Updates /\ Nothing.set = FALSE
  BY <1>1, NothingTyped
<1>3. UNCHANGED <<conf, ring, losses, disk>>
  BY DEF UpdateAssigns, storeVars
<1>4. DiskStays(i) /\ disk'[i] = disk[i]
  BY <1>3, SameDisk
<1>5. CASE UpdateAssigns(i, "main")
  <2>1. bl[i].main.set /\ BlStays(i) /\ bl'[i] = [bl[i] EXCEPT !.desc = bl[i].main, !.main = Nothing]
    BY <1>5, <1>1, BlSet DEF UpdateAssigns, Bls
  <2>2. /\ bl'[i] \in Bls /\ bl'[i].pc = bl[i].pc /\ bl'[i].desc = bl[i].main /\ bl'[i].main = Nothing
        /\ bl'[i].delegate = bl[i].delegate /\ bl'[i].leaving = bl[i].leaving
    BY <1>1, <1>2, <2>1 DEF Bls
  <2>3. BlOK(i)' /\ StaysOK(i)'
    BY <1>1, <1>3, <2>1, <2>2, SameBasicTypes DEF BasicOK, BlOK, StaysOK, FileOK, HasEntry
  <2>4. CompleteOK(i)'
    BY <1>1, <1>2, <1>3, <2>1, <2>2 DEF BasicOK, CompleteOK, IsFull
  <2> QED
    BY <1>3, <1>4, <2>1, <2>3, <2>4, BasicLocal DEF BasicOK
<1>6. CASE UpdateAssigns(i, "delegate")
  <2>1. bl[i].delegate.set /\ BlStays(i) /\ bl'[i] = [bl[i] EXCEPT !.desc = bl[i].delegate, !.delegate = Nothing]
    BY <1>6, <1>1, BlSet DEF UpdateAssigns, Bls
  <2>2. /\ bl'[i] \in Bls /\ bl'[i].pc = bl[i].pc /\ bl'[i].desc = bl[i].delegate /\ bl'[i].delegate = Nothing
        /\ bl'[i].main = bl[i].main /\ bl'[i].leaving = bl[i].leaving
    BY <1>1, <1>2, <2>1 DEF Bls
  <2>3. BlOK(i)' /\ StaysOK(i)'
    BY <1>1, <1>3, <2>1, <2>2, SameBasicTypes DEF BasicOK, BlOK, StaysOK, FileOK, HasEntry
  <2>4. CompleteOK(i)'
    BY <1>1, <1>2, <1>3, <2>1, <2>2 DEF BasicOK, CompleteOK, IsFull
  <2> QED
    BY <1>3, <1>4, <2>1, <2>3, <2>4, BasicLocal DEF BasicOK
<1> QED
  BY <1>5, <1>6


\* The ring in which an instance finds itself, put back if it was missing.
LEMMA InsertedRing ==
  ASSUME BasicInv, NEW i \in Instances
  PROVE  /\ IsRing(Inserted(i), BasicStates) /\ DOMAIN Inserted(i) = DOMAIN ring.ing \cup {i}
         /\ \A x \in DOMAIN ring.ing : Inserted(i)[x] = ring.ing[x]
         /\ Inserted(i)[i] \in Entries(BasicStates)
         /\ i \notin DOMAIN ring.ing => Inserted(i)[i].ts = "fresh"
<1>1. IsRing(ring.ing, BasicStates) /\ bl[i] \in Bls
  BY DEF BasicInv, StoreOK, BasicOK, BlOK
<1>2. CASE i \in DOMAIN ring.ing
  BY <1>1, <1>2 DEF Inserted, IsRing
<1>3. CASE i \notin DOMAIN ring.ing
  <2> DEFINE e == [state |-> bl[i].desc.e.state, tokens |-> bl[i].desc.e.tokens, ts |-> "fresh",
               reg |-> GetRegisteredAt(bl[i].desc.e.reg)]
  <2>1. Inserted(i) = Put(ring.ing, i, e)
    BY <1>3 DEF Inserted, AddIngester
  <2>2. bl[i].desc.e \in Entries(BasicStates)
    BY <1>1 DEF Bls, Updates
  <2>2a. GetRegisteredAt(bl[i].desc.e.reg) \in Regs
    BY <2>2, Times DEF Entries
  <2>3. e \in Entries(BasicStates) /\ e.ts = "fresh"
    BY <2>2, <2>2a DEF Entries
  <2> HIDE DEF e
  <2>4. IsRing(Put(ring.ing, i, e), BasicStates)
    BY <1>1, <2>3, PutRing
  <2>5. /\ DOMAIN Put(ring.ing, i, e) = DOMAIN ring.ing \cup {i} /\ Put(ring.ing, i, e)[i] = e
        /\ \A x \in DOMAIN ring.ing \ {i} : Put(ring.ing, i, e)[x] = ring.ing[x]
    BY DEF Put
  <2> QED
    BY <1>3, <2>1, <2>3, <2>4, <2>5
<1> QED
  BY <1>2, <1>3

(***************************************************************************)
(* The CAS of an update puts e into the ring, from which others may have   *)
(* been removed.                                                           *)
(***************************************************************************)
RingUpdated(i, o, e) ==
  /\ StoreOK(BasicStates)' /\ OthersKept(i) /\ NobodyGoes(i)
  /\ \/ ring' = ring /\ ~IsStored(o)
     \/ IsStored(o) /\ i \in DOMAIN ring'.ing /\ ring'.ing[i] = e

\* Storing a descriptor that differs from the ring in such a way.
LEMMA StoresRing ==
  ASSUME BasicInv, NEW i \in Instances, NEW o, NEW d, NEW e, CAS(o, d), UNCHANGED <<conf, losses>>,
         disk' = [j \in Instances |-> disk'[j]],
         IsRing(d, BasicStates), i \in DOMAIN d, d[i] = e,
         \A j \in DOMAIN d \ {i} : j \in DOMAIN ring.ing /\ d[j] = ring.ing[j],
         ~conf.forget => \A j \in DOMAIN ring.ing \ {i} : j \in DOMAIN d
  PROVE  RingUpdated(i, o, e)
<1>1. CASE ~IsStored(o)
  <2>1. ring' = ring
    BY <1>1 DEF CAS
  <2>2. StoreOK(BasicStates)'
    BY <2>1, SameTypes DEF StoreOK, IsRing, BasicInv
  <2> QED
    BY <1>1, <2>1, <2>2 DEF RingUpdated, OthersKept, NobodyGoes
<1>2. CASE IsStored(o)
  <2>1. ring' = [exists |-> TRUE, ing |-> d]
    BY <1>2 DEF CAS, NewRing
  <2>2. ring'.ing = d /\ ring'.exists = TRUE
    BY <2>1
  <2>3. IsRing(ring.ing, BasicStates)'
    BY <2>2, SameTypes DEF IsRing
  <2>4. StoreOK(BasicStates)'
    BY <2>1, <2>2, <2>3 DEF StoreOK, BasicInv
  <2> QED
    BY <1>2, <2>2, <2>4 DEF RingUpdated, OthersKept, NobodyGoes
<1> QED
  BY <1>1, <1>2

\* updateInstance, with or without forgetting.
LEMMA UpdatesRing ==
  ASSUME BasicInv, NEW i \in Instances, NEW o, NEW g, NEW b, NEW d, NEW e \in Entries(BasicStates),
         d = Inserted(i) \/ d = Forget(Inserted(i)), UpdateCAS(i, o, g, d, e, b)
  PROVE  RingUpdated(i, o, e)
<1> DEFINE I == Inserted(i)
           r == IF d = ring.ing /\ e = d[i] THEN d ELSE Put(d, i, e)
<1>1. /\ IsRing(I, BasicStates) /\ DOMAIN I = DOMAIN ring.ing \cup {i}
      /\ \A x \in DOMAIN ring.ing : I[x] = ring.ing[x]
      /\ i \notin DOMAIN ring.ing => I[i].ts = "fresh"
  BY InsertedRing
<1>2. CAS(o, r) /\ UNCHANGED <<conf, losses>> /\ disk' = [j \in Instances |-> disk'[j]]
  BY DEF UpdateCAS, BasicInv, StoreOK
<1>3. d = I \/ d = [x \in {y \in DOMAIN I : ~conf.forget \/ I[y].ts = "fresh"} |-> I[x]]
  BY DEF Forget
<1> HIDE DEF I, r
<1>4. /\ IsRing(d, BasicStates) /\ DOMAIN d \subseteq DOMAIN I /\ (~conf.forget => DOMAIN d = DOMAIN I)
      /\ \A x \in DOMAIN d : d[x] = I[x]
      /\ i \notin DOMAIN ring.ing => i \in DOMAIN d
  BY <1>1, <1>3 DEF IsRing
<1>4a. IsRing(Put(d, i, e), BasicStates)
  BY <1>4, PutRing
<1>5. /\ DOMAIN Put(d, i, e) = DOMAIN d \cup {i} /\ Put(d, i, e)[i] = e
      /\ \A x \in DOMAIN d \ {i} : Put(d, i, e)[x] = d[x]
  BY DEF Put
<1>6. /\ IsRing(r, BasicStates) /\ DOMAIN r = DOMAIN d \cup {i} /\ r[i] = e
      /\ \A x \in DOMAIN d \ {i} : r[x] = d[x]
  <2>1. CASE d = ring.ing /\ e = d[i]
    <3>1. i \in DOMAIN d
      BY <1>4, <2>1
    <3> QED
      BY <1>4, <2>1, <3>1 DEF r
  <2>2. CASE ~(d = ring.ing /\ e = d[i])
    BY <1>4a, <1>5, <2>2 DEF r
  <2> QED
    BY <2>1, <2>2
<1>7. \A j \in DOMAIN r \ {i} : j \in DOMAIN ring.ing /\ r[j] = ring.ing[j]
  BY <1>1, <1>4, <1>6
<1>8. ~conf.forget => \A j \in DOMAIN ring.ing \ {i} : j \in DOMAIN r
  BY <1>1, <1>4, <1>6
<1> QED
  BY <1>2, <1>6, <1>7, <1>8, StoresRing


\* While nobody forgets, an instance that is registered finds its own entry, whose tokens nobody else has.
LEMMA FindsItself ==
  ASSUME BasicInv, NEW i \in Instances, HasEntry(i), losses = 0, ~conf.forget, ~conf.tokensFile
  PROVE  /\ Inserted(i) = ring.ing /\ OneOwner(ring.ing)
         /\ \A x \in DOMAIN ring.ing \ {i} : Inserted(i)[i].tokens \cap ring.ing[x].tokens = {}
BY DEF BasicInv, BasicOK, StaysOK, Inserted, TokensHaveOneOwner, OneOwner

\* The two goroutines' updates, whatever becomes of their CAS.
LEMMA UpdateStep ==
  ASSUME BasicInv, NEW i \in Instances, NEW o, NEW g \in {"main", "delegate"}, NEW b \in Bls, NEW d,
         NEW e \in Entries(BasicStates), d = Inserted(i) \/ d = Forget(Inserted(i)), UpdateCAS(i, o, g, d, e, b),
         HasEntry(i), GetRegisteredAt(e.reg) = GetRegisteredAt(Inserted(i)[i].reg),
         (losses = 0 /\ ~conf.tokensFile /\ ~conf.forget) =>
           \A x \in DOMAIN ring.ing \ {i} : e.tokens \cap ring.ing[x].tokens = {},
         b.pc = bl[i].pc \/ (bl[i].pc = "observing" /\ b.pc = "notify"), b.desc = bl[i].desc, b.main = bl[i].main, b.delegate = bl[i].delegate,
         b.leaving \in {bl[i].leaving, "next"},
         (~conf.heartbeat /\ losses = 0 /\ bl[i].pc \in {"observing", "notify"}) =>
           g = "main" /\ bl[i].pc = "observing" /\ IsFull(e.tokens),
         (bl[i].pc = "stopping" /\ i \in DOMAIN ring.ing /\ ring.ing[i].state = "LEAVING") => e.state = "LEAVING"
  PROVE  BasicStepOK
<1>1. RingUpdated(i, o, e)
  BY UpdatesRing
<1>2. /\ UNCHANGED <<conf, losses, disk>>
      /\ bl' = [bl EXCEPT ![i] = IF o = "ok" THEN [b EXCEPT ![g] = Something(e)] ELSE b]
  BY DEF UpdateCAS
<1>3. /\ StoreOK(BasicStates)' /\ OthersKept(i) /\ NobodyGoes(i)
      /\ ring' = ring \/ (i \in DOMAIN ring'.ing /\ ring'.ing[i] = e)
  BY <1>1 DEF RingUpdated
<1>4. TokensFree(i)
  BY <1>3 DEF TokensFree, BasicInv, TokensHaveOneOwner
<1>5. i \in DOMAIN ring.ing => Inserted(i)[i] = ring.ing[i]
  BY DEF Inserted
<1>6. RegOK(i) /\ LeavingKept(i)
  BY <1>3, <1>5 DEF RegOK, LeavingKept
<1>7. DiskStays(i) /\ disk'[i] = disk[i]
  BY <1>2, SameDisk
<1>8. BasicOK(i) /\ bl[i] \in Bls
  BY DEF BasicInv, BasicOK, BlOK
<1>9. Something(e) \in Updates /\ Something(e).set = TRUE /\ Something(e).e = e
  BY DEF Something, Updates
<1>10. BlStays(i) /\ bl'[i] \in {b, [b EXCEPT ![g] = Something(e)]}
  BY <1>2, BlSet
<1>11. /\ bl'[i] \in Bls /\ bl'[i].pc = b.pc /\ bl'[i].desc = bl[i].desc /\ bl'[i].leaving = b.leaving
       /\ bl'[i].main = bl[i].main \/ (g = "main" /\ bl'[i].main = Something(e))
       /\ bl'[i].delegate = bl[i].delegate \/ (g = "delegate" /\ bl'[i].delegate = Something(e))
  <2>1. CASE bl'[i] = b
    BY <2>1
  <2>2. CASE g = "main" /\ bl'[i] = [b EXCEPT !.main = Something(e)]
    BY <1>9, <2>2 DEF Bls
  <2>3. CASE g = "delegate" /\ bl'[i] = [b EXCEPT !.delegate = Something(e)]
    BY <1>9, <2>3 DEF Bls
  <2> QED
    BY <1>10, <2>1, <2>2, <2>3
<1>12. BlOK(i)'
  BY <1>2, <1>7, <1>8, <1>11, SameBasicTypes DEF BasicOK, BlOK, FileOK, HasEntry
<1>13. StaysOK(i)'
  BY <1>2, <1>3, <1>8, <1>11 DEF BasicOK, StaysOK, HasEntry
<1>14. CompleteOK(i)'
  BY <1>2, <1>7, <1>8, <1>9, <1>11 DEF BasicOK, CompleteOK, IsFull, HasEntry
<1> QED
  BY <1>2, <1>3, <1>4, <1>6, <1>7, <1>10, <1>12, <1>13, <1>14, BasicEdit DEF BasicOK


\* A heartbeat refreshes the entry in the ring and nothing else of it.
LEMMA BasicHeartbeatOK == ASSUME BasicInv, NEW i \in Instances, NEW o, heartbeat(i, o) PROVE BasicStepOK
<1> DEFINE f == Inserted(i)[i]
           e == [f EXCEPT !.ts = "fresh"]
<1>1. /\ conf.heartbeat /\ HasEntry(i)
      /\ UpdateCAS(i, o, "main", Forget(Inserted(i)), e, bl[i])
  BY DEF heartbeat, HasEntry, Refreshed
<1>2. f \in Entries(BasicStates) /\ bl[i] \in Bls
  BY InsertedRing DEF BasicInv, BasicOK, BlOK
<1>3. i \in DOMAIN ring.ing => f = ring.ing[i]
  BY DEF Inserted
<1>4. (losses = 0 /\ ~conf.tokensFile /\ ~conf.forget) =>
        \A x \in DOMAIN ring.ing \ {i} : f.tokens \cap ring.ing[x].tokens = {}
  BY <1>1, FindsItself
<1>5. f = Inserted(i)[i]
  OBVIOUS
<1> HIDE DEF f
<1>6. e \in Entries(BasicStates) /\ e.tokens = f.tokens /\ e.reg = f.reg /\ e.state = f.state
  BY <1>2 DEF Entries
<1> HIDE DEF e
<1>7. (losses = 0 /\ ~conf.tokensFile /\ ~conf.forget) =>
        \A x \in DOMAIN ring.ing \ {i} : e.tokens \cap ring.ing[x].tokens = {}
  BY <1>4, <1>6
<1>8. (bl[i].pc = "stopping" /\ i \in DOMAIN ring.ing /\ ring.ing[i].state = "LEAVING") => e.state = "LEAVING"
  BY <1>3, <1>6
<1> QED
  BY <1>1, <1>2, <1>5, <1>6, <1>7, <1>8, UpdateStep

\* A goroutine changes the state in the ring.
LEMMA ChangesState ==
  ASSUME BasicInv, NEW i \in Instances, NEW o, NEW g \in {"main", "delegate"}, NEW state \in BasicStates, NEW b \in Bls,
         changeStateBy(i, o, g, state, b), bl[i].pc \in {"running", "stopping"},
         bl[i].pc = "stopping" => state = "LEAVING",
         b.pc = bl[i].pc, b.desc = bl[i].desc, b.main = bl[i].main, b.delegate = bl[i].delegate,
         b.leaving \in {bl[i].leaving, "next"}
  PROVE  BasicStepOK
<1> DEFINE f == Inserted(i)[i]
           e == IF f.state = state THEN f ELSE [f EXCEPT !.state = state, !.ts = "fresh"]
<1>1. HasEntry(i) /\ UpdateCAS(i, o, g, Inserted(i), e, b)
  BY DEF changeStateBy, HasEntry
<1>2. f \in Entries(BasicStates)
  BY InsertedRing
<1>3. (losses = 0 /\ ~conf.tokensFile /\ ~conf.forget) =>
        \A x \in DOMAIN ring.ing \ {i} : f.tokens \cap ring.ing[x].tokens = {}
  BY <1>1, FindsItself
<1>4. f = Inserted(i)[i]
  OBVIOUS
<1> HIDE DEF f
<1>5. e \in Entries(BasicStates) /\ e.tokens = f.tokens /\ e.reg = f.reg /\ e.state = state
  BY <1>2 DEF Entries
<1> HIDE DEF e
<1>6. (losses = 0 /\ ~conf.tokensFile /\ ~conf.forget) =>
        \A x \in DOMAIN ring.ing \ {i} : e.tokens \cap ring.ing[x].tokens = {}
  BY <1>3, <1>5
<1> QED
  BY <1>1, <1>4, <1>5, <1>6, UpdateStep

\* ChangeState(ACTIVE).
LEMMA ChangeStateOK == ASSUME BasicInv, NEW i \in Instances, NEW o, ChangeState(i, o) PROVE BasicStepOK
<1>1. bl[i].pc = "running" /\ changeStateBy(i, o, "main", "ACTIVE", bl[i]) /\ bl[i] \in Bls
  BY DEF ChangeState, BasicInv, BasicOK, BlOK
<1>2. "ACTIVE" \in BasicStates
  BY DEF BasicStates
<1> QED
  BY <1>1, <1>2, ChangesState

\* LeaveOnStopping.
LEMMA OnRingInstanceStoppingOK ==
  ASSUME BasicInv, NEW i \in Instances, NEW o, OnRingInstanceStopping(i, o) PROVE BasicStepOK
<1> DEFINE b == [bl[i] EXCEPT !.leaving = "next"]
<1>1. bl[i].pc = "stopping" /\ changeStateBy(i, o, "delegate", "LEAVING", b) /\ bl[i] \in Bls
  BY DEF OnRingInstanceStopping, BasicInv, BasicOK, BlOK
<1>2. "LEAVING" \in BasicStates
  BY DEF BasicStates
<1>3. /\ b \in Bls /\ b.pc = bl[i].pc /\ b.desc = bl[i].desc /\ b.main = bl[i].main /\ b.delegate = bl[i].delegate
      /\ b.leaving = "next"
  BY <1>1 DEF Bls
<1> HIDE DEF b
<1> QED
  BY <1>1, <1>2, <1>3, ChangesState

\* Tokens lost during the observation are replaced.
LEMMA TokensReplacedOK == ASSUME BasicInv, NEW i \in Instances, NEW o, TokensReplaced(i, o) PROVE BasicStepOK
<1> DEFINE f == Inserted(i)[i]
           mine == MyTokens(Inserted(i), i)
<1>1. PICK new \in GenerateTokens(conf.numTokens - Cardinality(mine), TakenTokens(Inserted(i))) :
        UpdateCAS(i, o, "main", Inserted(i), [f EXCEPT !.tokens = mine \cup new, !.ts = "fresh"], bl[i])
  BY DEF TokensReplaced
<1>2. HasEntry(i) /\ bl[i].pc = "observing"
  BY DEF TokensReplaced, HasEntry
<1>3. f \in Entries(BasicStates) /\ bl[i] \in Bls /\ conf \in Confs /\ i \in DOMAIN Inserted(i)
  BY InsertedRing DEF BasicInv, BasicOK, BlOK, StoreOK
<1>4. mine = f.tokens /\ mine \in Toks /\ mine \subseteq TakenTokens(Inserted(i))
  BY <1>3, MineTaken DEF MyTokens, EntryOf, Entries
<1> DEFINE T == mine \cup new
           e == [f EXCEPT !.tokens = T, !.ts = "fresh"]
<1>5. T \in Toks /\ new \cap TakenTokens(Inserted(i)) = {} /\ IsFull(T)
  BY <1>3, <1>4, TokensGenerated
<1>6. ASSUME losses = 0, ~conf.tokensFile, ~conf.forget
      PROVE  \A x \in DOMAIN ring.ing \ {i} : T \cap ring.ing[x].tokens = {}
  <2>1. Inserted(i) = ring.ing /\ OneOwner(ring.ing)
    BY <1>2, <1>6, FindsItself
  <2>2. new \cap TakenTokens(ring.ing) = {}
    BY <1>5, <2>1
  <2>3. \A x \in DOMAIN ring.ing \ {i} : (MyTokens(ring.ing, i) \cup new) \cap ring.ing[x].tokens = {}
    BY <2>1, <2>2, OwnOrNew
  <2> QED
    BY <2>1, <2>3
<1>7. UpdateCAS(i, o, "main", Inserted(i), e, bl[i]) /\ f = Inserted(i)[i]
  BY <1>1
<1> HIDE DEF f, T, mine
<1>8. e \in Entries(BasicStates) /\ e.tokens = T /\ e.reg = f.reg
  BY <1>3, <1>5 DEF Entries
<1> HIDE DEF e
<1>9. (losses = 0 /\ ~conf.tokensFile /\ ~conf.forget) =>
        \A x \in DOMAIN ring.ing \ {i} : e.tokens \cap ring.ing[x].tokens = {}
  BY <1>6, <1>8
<1> QED
  BY <1>2, <1>3, <1>5, <1>7, <1>8, <1>9, UpdateStep

\* The tokens in the ring are those of currInstanceDesc.
LEMMA TokensVerifiedOK == ASSUME BasicInv, NEW i \in Instances, NEW o, TokensVerified(i, o) PROVE BasicStepOK
<1> DEFINE I == Inserted(i)
           e == I[i]
           p == IF o = "ok" THEN "notify" ELSE "observing"
           b == [bl[i] EXCEPT !.pc = p]
<1>1. /\ bl[i].pc = "observing" /\ i \in DOMAIN I /\ MyTokens(I, i) = bl[i].desc.e.tokens
      /\ UpdateCAS(i, o, "main", I, e, b)
  BY DEF TokensVerified, SameTokens
<1>2. HasEntry(i) /\ BasicOK(i) /\ bl[i] \in Bls
  BY <1>1 DEF HasEntry, BasicInv, BasicOK, BlOK
<1>3. e \in Entries(BasicStates) /\ e.tokens = bl[i].desc.e.tokens
  BY <1>1, InsertedRing DEF MyTokens, EntryOf
<1>4. (losses = 0 /\ ~conf.tokensFile /\ ~conf.forget) =>
        \A x \in DOMAIN ring.ing \ {i} : e.tokens \cap ring.ing[x].tokens = {}
  BY <1>2, FindsItself
<1>5. p \in {"observing", "notify"}
  OBVIOUS
<1> HIDE DEF p
<1>6. /\ b \in Bls /\ b.pc = p /\ b.desc = bl[i].desc /\ b.main = bl[i].main /\ b.delegate = bl[i].delegate
      /\ b.leaving = bl[i].leaving
  BY <1>2, <1>5 DEF Bls
<1>7. (~conf.heartbeat /\ losses = 0) => IsFull(e.tokens)
  BY <1>1, <1>2, <1>3 DEF BasicOK, CompleteOK
<1>8. I = Inserted(i) /\ e = Inserted(i)[i]
  OBVIOUS
<1> HIDE DEF I, e, b
<1>9. b.pc = bl[i].pc \/ (bl[i].pc = "observing" /\ b.pc = "notify")
  BY <1>1, <1>5, <1>6
<1>10. (bl[i].pc = "stopping" /\ i \in DOMAIN ring.ing /\ ring.ing[i].state = "LEAVING") => e.state = "LEAVING"
  BY <1>1
<1> QED
  BY <1>1, <1>2, <1>3, <1>4, <1>6, <1>7, <1>8, <1>9, <1>10, UpdateStep


(***************************************************************************)
(* An instance registers with the tokens that the ring or the file has for *)
(* it and new ones.                                                        *)
(***************************************************************************)
LEMMA RegisterInstanceOK == ASSUME BasicInv, NEW i \in Instances, NEW o, registerInstance(i, o) PROVE BasicStepOK
<1> DEFINE mine == ExistingTokens(i)
<1>1. PICK new \in GenerateTokens(conf.numTokens - Cardinality(mine), TakenTokens(ring.ing)) :
        LET d == AddIngester(ring.ing, i, mine \cup new, "JOINING", RegisteredAt(i)) IN
        /\ CAS(o, d)
        /\ bl' = [bl EXCEPT ![i] = IF o = "ok" THEN [@ EXCEPT !.pc = AfterRegister(mine \cup new), !.desc = Something(d[i])]
                                   ELSE Gone(@.starts, "down")]
  BY DEF registerInstance
<1> DEFINE T == mine \cup new
           e == [state |-> "JOINING", tokens |-> T, ts |-> "fresh", reg |-> RegisteredAt(i)]
           p == Put(ring.ing, i, e)
<1>2. bl[i].pc = "starting" /\ UNCHANGED <<conf, disk, losses>>
  BY DEF registerInstance
<1>3. /\ StoreOK(BasicStates) /\ conf \in Confs /\ IsRing(ring.ing, BasicStates)
      /\ BasicOK(i) /\ bl[i] \in Bls /\ disk[i] \in Toks
  BY DEF BasicInv, StoreOK, BasicOK, BlOK, FileOK
<1>4. MyTokens(ring.ing, i) \in Toks /\ MyTokens(ring.ing, i) \subseteq TakenTokens(ring.ing)
  <2>1. {} \in Toks
    BY <1>3, SmallTokens
  <2> QED
    BY <1>3, <2>1, MineTaken DEF MyTokens, EntryOf, ZeroEntry, IsRing, Entries
<1>5. /\ mine \in Toks /\ mine \in {MyTokens(ring.ing, i), disk[i]}
      /\ ~conf.tokensFile => mine = MyTokens(ring.ing, i)
  BY <1>3, <1>4 DEF ExistingTokens
<1>6. /\ T \in Toks /\ new \cap TakenTokens(ring.ing) = {}
      /\ (mine \subseteq TakenTokens(ring.ing) \/ IsFull(mine)) => IsFull(T)
  BY <1>3, <1>5, TokensGenerated
<1>7. (~conf.heartbeat /\ losses = 0) => IsFull(T)
  <2>1. {} \subseteq TakenTokens(ring.ing)
    OBVIOUS
  <2> QED
    BY <1>3, <1>4, <1>5, <1>6, <2>1 DEF BasicOK, CompleteOK
<1>8. ASSUME losses = 0, ~conf.tokensFile, ~conf.forget
      PROVE  \A x \in DOMAIN ring.ing \ {i} : T \cap ring.ing[x].tokens = {}
  <2>1. OneOwner(ring.ing)
    BY <1>8 DEF BasicInv, TokensHaveOneOwner, OneOwner
  <2>2. \A x \in DOMAIN ring.ing \ {i} : (MyTokens(ring.ing, i) \cup new) \cap ring.ing[x].tokens = {}
    BY <1>6, <2>1, OwnOrNew
  <2> QED
    BY <1>5, <1>8, <2>2
<1>9. /\ RegisteredAt(i) \in Regs
      /\ i \in DOMAIN ring.ing => GetRegisteredAt(RegisteredAt(i)) = GetRegisteredAt(ring.ing[i].reg)
  <2>1. CASE i \in DOMAIN ring.ing
    <3>1. ring.ing[i].reg \in Regs /\ RegisteredAt(i) = GetRegisteredAt(ring.ing[i].reg)
      BY <1>3, <2>1 DEF RegisteredAt, IsRing, Entries
    <3> QED
      BY <3>1, Times
  <2>2. CASE i \notin DOMAIN ring.ing
    BY <1>3, <2>2, Times DEF RegisteredAt, Bls
  <2> QED
    BY <2>1, <2>2
<1>10. /\ CAS(o, p) /\ p[i] = e
       /\ bl' = [bl EXCEPT ![i] = IF o = "ok" THEN [bl[i] EXCEPT !.pc = AfterRegister(T), !.desc = Something(p[i])]
                                  ELSE Gone(bl[i].starts, "down")]
  BY <1>1 DEF AddIngester, Put
<1>11. AfterRegister(T) \in {"observing", "notify"}
  BY DEF AfterRegister
<1> HIDE DEF mine, T
<1>12. e \in Entries(BasicStates) /\ e.tokens = T /\ e.reg = RegisteredAt(i)
  BY <1>6, <1>9 DEF Entries, BasicStates
<1> HIDE DEF e
<1>13. /\ IsRing(p, BasicStates) /\ DOMAIN p = DOMAIN ring.ing \cup {i}
       /\ \A x \in DOMAIN ring.ing \ {i} : p[x] = ring.ing[x]
  <2>1. IsRing(Put(ring.ing, i, e), BasicStates)
    BY <1>3, <1>12, PutRing
  <2> QED
    BY <2>1 DEF Put
<1> HIDE DEF p
<1>14. DiskStays(i) /\ disk'[i] = disk[i] /\ disk' = [j \in Instances |-> disk'[j]]
  BY <1>2, SameDisk DEF DiskStays
<1>15. /\ \A j \in DOMAIN p \ {i} : j \in DOMAIN ring.ing /\ p[j] = ring.ing[j]
       /\ i \in DOMAIN p /\ \A j \in DOMAIN ring.ing \ {i} : j \in DOMAIN p
  BY <1>13
<1>16. RingUpdated(i, o, e)
  BY <1>2, <1>10, <1>13, <1>14, <1>15, StoresRing
<1>17. /\ StoreOK(BasicStates)' /\ OthersKept(i) /\ NobodyGoes(i)
       /\ ring' = ring \/ (i \in DOMAIN ring'.ing /\ ring'.ing[i] = e)
       /\ o = "ok" => (i \in DOMAIN ring'.ing /\ ring'.ing[i] = e)
  BY <1>16 DEF RingUpdated, IsStored
<1>18. TokensFree(i)
  BY <1>8, <1>12, <1>17 DEF TokensFree, BasicInv, TokensHaveOneOwner
<1>19. RegOK(i) /\ LeavingKept(i)
  BY <1>2, <1>9, <1>12, <1>17 DEF RegOK, LeavingKept
<1>20. CASE o # "ok"
  <2>1. BlStays(i) /\ bl'[i] = Gone(bl[i].starts, "down")
    BY <1>10, <1>20, BlSet
  <2>2. BasicOK(i)'
    BY <1>2, <1>14, <2>1, GoneOK
  <2> QED
    BY <1>2, <1>14, <1>17, <1>18, <1>19, <2>1, <2>2, BasicEdit
<1>21. CASE o = "ok"
  <2>1. BlStays(i) /\ bl'[i] = [bl[i] EXCEPT !.pc = AfterRegister(T), !.desc = Something(e)]
    BY <1>10, <1>21, BlSet
  <2>2. Something(e) \in Updates /\ Something(e).set = TRUE /\ Something(e).e = e
    BY <1>12 DEF Something, Updates
  <2>3. /\ bl'[i] \in Bls /\ bl'[i].pc \in {"observing", "notify"} /\ bl'[i].desc = Something(e)
        /\ bl'[i].leaving = bl[i].leaving /\ bl'[i].main = bl[i].main /\ bl'[i].delegate = bl[i].delegate
    BY <1>3, <1>11, <2>1, <2>2 DEF Bls
  <2>4. BlOK(i)'
    BY <1>2, <1>3, <1>14, <2>2, <2>3, SameBasicTypes DEF BasicOK, BlOK, FileOK, HasEntry
  <2>5. StaysOK(i)'
    BY <1>17, <1>21 DEF StaysOK
  <2>6. CompleteOK(i)'
    BY <1>2, <1>3, <1>7, <1>12, <1>14, <2>2, <2>3 DEF BasicOK, CompleteOK, IsFull
  <2> QED
    BY <1>2, <1>14, <1>17, <1>18, <1>19, <2>1, <2>4, <2>5, <2>6, BasicEdit DEF BasicOK
<1> QED
  BY <1>20, <1>21

\* The entry is removed, or the instance is gone without that.
LEMMA UnregisterInstanceOK == ASSUME BasicInv, NEW i \in Instances, NEW o, unregisterInstance(i, o) PROVE BasicStepOK
<1> DEFINE d == [x \in DOMAIN ring.ing \ {i} |-> ring.ing[x]]
           b == [bl[i] EXCEPT !.pc = "unregistered", !.desc = Nothing]
<1>1. /\ bl[i].pc = "unregister" /\ UNCHANGED <<conf, losses, disk>>
      /\ ring' = ring \/ ring' = [exists |-> TRUE, ing |-> d]
      /\ \/ bl' = [bl EXCEPT ![i] = Gone(bl[i].starts, "down")]
         \/ bl' = [bl EXCEPT ![i] = b] /\ ring' = [exists |-> TRUE, ing |-> d]
  <2>1. CASE ring.exists /\ o = "ok"
    BY <2>1 DEF unregisterInstance, CAS, NewRing, RemoveIngester, IsStored
  <2>2. CASE ~(ring.exists /\ o = "ok")
    BY <2>2 DEF unregisterInstance, CAS, NewRing, RemoveIngester
  <2> QED
    BY <2>1, <2>2
<1>2. /\ StoreOK(BasicStates) /\ DOMAIN ring.ing \ {i} \in SUBSET DOMAIN ring.ing
      /\ conf \in Confs /\ BasicOK(i) /\ bl[i] \in Bls
  BY DEF BasicInv, StoreOK, BasicOK, BlOK
<1>3. IsRing(d, BasicStates) /\ DOMAIN d = DOMAIN ring.ing \ {i} /\ \A x \in DOMAIN d : d[x] = ring.ing[x]
  BY <1>2, PartRing DEF StoreOK
<1>4. Nothing \in Updates
  BY <1>2, NothingTyped
<1>5. /\ b \in Bls /\ b.pc = "unregistered" /\ b.leaving = bl[i].leaving
  BY <1>2, <1>4 DEF Bls
<1> HIDE DEF d, b
<1>6. StoreOK(BasicStates)'
  <2>1. CASE ring' = ring
    BY <1>1, <1>2, <2>1, SameTypes DEF StoreOK, IsRing
  <2>2. CASE ring' = [exists |-> TRUE, ing |-> d]
    <3>1. ring'.ing = d /\ ring'.exists = TRUE
      BY <2>2
    <3>2. IsRing(ring.ing, BasicStates)'
      BY <1>1, <1>3, <3>1, SameTypes DEF IsRing
    <3> QED
      BY <1>1, <1>2, <2>2, <3>1, <3>2 DEF StoreOK
  <2> QED
    BY <1>1, <2>1, <2>2
<1>7. OthersKept(i) /\ NobodyGoes(i)
  BY <1>1, <1>3 DEF OthersKept, NobodyGoes
<1>8. DiskStays(i) /\ disk'[i] = disk[i]
  BY <1>1, SameDisk
<1>9. (i \in DOMAIN ring'.ing) => ring' = ring
  BY <1>1, <1>3
<1>10. TokensFree(i)
  BY <1>9 DEF TokensFree, BasicInv, TokensHaveOneOwner
<1>11. RegOK(i) /\ LeavingKept(i)
  BY <1>9 DEF RegOK, LeavingKept
<1>12. CASE bl' = [bl EXCEPT ![i] = Gone(bl[i].starts, "down")]
  <2>1. BlStays(i) /\ bl'[i] = Gone(bl[i].starts, "down")
    BY <1>12, BlSet
  <2>2. BasicOK(i)'
    BY <1>1, <1>8, <2>1, GoneOK
  <2> QED
    BY <1>1, <1>6, <1>7, <1>8, <1>10, <1>11, <2>1, <2>2, BasicEdit
<1>13. CASE bl' = [bl EXCEPT ![i] = b] /\ ring' = [exists |-> TRUE, ing |-> d]
  <2>1. BlStays(i) /\ bl'[i] = b /\ i \notin DOMAIN ring'.ing
    BY <1>3, <1>13, BlSet
  <2>2. BlOK(i)'
    BY <1>1, <1>2, <1>5, <1>8, <2>1, SameBasicTypes DEF BasicOK, BlOK, FileOK, HasEntry
  <2>3. StaysOK(i)'
    BY <1>5, <2>1 DEF StaysOK, HasEntry
  <2>4. CompleteOK(i)'
    BY <1>1, <1>2, <1>5, <1>8, <2>1 DEF BasicOK, CompleteOK, IsFull
  <2> QED
    BY <1>1, <1>6, <1>7, <1>8, <1>10, <1>11, <2>1, <2>2, <2>3, <2>4, BasicEdit DEF BasicOK
<1> QED
  BY <1>1, <1>12, <1>13


\* An instance whose lifecycler and file stay as they are, and that neither gets into the ring nor out of it.
LEMMA BasicSame ==
  ASSUME BasicInv, NEW i \in Instances, UNCHANGED <<conf, disk, bl>>, losses' = losses,
         i \in DOMAIN ring'.ing <=> i \in DOMAIN ring.ing
  PROVE  BasicOK(i)'
<1>1. BasicOK(i)
  BY DEF BasicInv
<1>2. BlOK(i)' /\ StaysOK(i)'
  BY <1>1, SameBasicTypes DEF BasicOK, BlOK, StaysOK, FileOK, HasEntry
<1>3. CompleteOK(i)'
  BY <1>1 DEF BasicOK, CompleteOK, IsFull
<1> QED
  BY <1>2, <1>3 DEF BasicOK

\* A heartbeat gets old.
LEMMA BasicAgesOK == ASSUME BasicInv, NEW i \in Instances, HeartbeatAges(i), UNCHANGED bl PROVE BasicStepOK
<1>1. /\ StoreOK(BasicStates)' /\ i \in DOMAIN ring.ing /\ DOMAIN ring'.ing = DOMAIN ring.ing
      /\ \A x \in DOMAIN ring.ing \ {i} : ring'.ing[x] = ring.ing[x]
      /\ ring'.ing[i].state = ring.ing[i].state /\ ring'.ing[i].tokens = ring.ing[i].tokens
      /\ GetRegisteredAt(ring'.ing[i].reg) = GetRegisteredAt(ring.ing[i].reg)
  BY AgesRing DEF BasicInv
<1>2. UNCHANGED <<conf, disk, losses>>
  BY DEF HeartbeatAges
<1>3. OthersKept(i) /\ NobodyGoes(i) /\ RegOK(i) /\ LeavingKept(i)
  BY <1>1 DEF OthersKept, NobodyGoes, RegOK, LeavingKept
<1>4. TokensFree(i)
  BY <1>1 DEF TokensFree, BasicInv, TokensHaveOneOwner
<1>5. DiskStays(i) /\ BlStays(i)
  BY <1>2, SameDisk DEF BasicInv, BlStays
<1>6. BasicOK(i)'
  BY <1>1, <1>2, BasicSame
<1> QED
  BY <1>1, <1>2, <1>3, <1>4, <1>5, <1>6, BasicEdit

\* The store loses the ring, and the invariant promises no more about it.
LEMMA BasicLosesRingOK == ASSUME BasicInv, LosesRing, UNCHANGED bl PROVE BasicStepOK
<1>1. StoreOK(BasicStates)' /\ DOMAIN ring'.ing = {} /\ TokensHaveOneOwner' /\ RegsKept /\ losses' # 0
  BY LosesStore DEF BasicInv
<1>2. UNCHANGED <<conf, disk>>
  BY DEF LosesRing
<1>3. ASSUME NEW i \in Instances PROVE BasicOK(i)' /\ LeavingKept(i)
  <2>1. BasicOK(i)
    BY DEF BasicInv
  <2>2. BlOK(i)'
    BY <1>1, <1>2, <2>1, SameBasicTypes DEF BasicOK, BlOK, FileOK, HasEntry
  <2>3. StaysOK(i)' /\ CompleteOK(i)' /\ LeavingKept(i)
    BY <1>1 DEF StaysOK, CompleteOK, LeavingKept
  <2> QED
    BY <2>2, <2>3 DEF BasicOK
<1>4. BasicInv'
  BY <1>1, <1>3 DEF BasicInv
<1> QED
  BY <1>1, <1>3, <1>4 DEF BasicStepOK

\* An instance that observes its tokens may lose one.
LEMMA BasicLosesTokenOK ==
  ASSUME BasicInv, NEW i \in Instances, LosesToken(i), UNCHANGED bl PROVE BasicStepOK
<1>1. "ACTIVE" \in BasicStates
  BY DEF BasicStates
<1>2. /\ StoreOK(BasicStates)' /\ DOMAIN ring'.ing = DOMAIN ring.ing \cup {Other} /\ i \in DOMAIN ring.ing
      /\ \A x \in DOMAIN ring.ing \ {i} : ring'.ing[x] = ring.ing[x]
      /\ ring.ing[i].state = "JOINING"
      /\ TokensHaveOneOwner' /\ RegsKept
  BY <1>1, LosesStoreToken DEF BasicInv
<1>3. UNCHANGED <<conf, disk, losses>>
  BY DEF LosesToken
<1>4. ASSUME NEW j \in Instances PROVE BasicOK(j)' /\ LeavingKept(j)
  <2>1. j \in DOMAIN ring'.ing <=> j \in DOMAIN ring.ing
    BY <1>2, NamesAssumption
  <2>2. BasicOK(j)'
    BY <1>3, <2>1, BasicSame
  <2>3. LeavingKept(j)
    BY <1>2 DEF LeavingKept
  <2> QED
    BY <2>2, <2>3
<1>5. BasicInv'
  BY <1>2, <1>4 DEF BasicInv
<1> QED
  BY <1>2, <1>4, <1>5 DEF BasicStepOK

\* Every step of the basic lifecycler keeps the invariant.
LEMMA BasicNextOK == ASSUME BasicInv, BasicNext PROVE BasicStepOK
<1>1. ASSUME BasicRingChanges PROVE BasicStepOK
  BY <1>1, BasicLosesRingOK, BasicAgesOK, BasicLosesTokenOK DEF BasicRingChanges
<1>2. ASSUME NEW i \in Instances, BasicStart(i) \/ BasicCrash(i) PROVE BasicStepOK
  BY <1>2, StartsOrGone DEF BasicStart, BasicCrash
<1>3. ASSUME NEW i \in Instances, BasicStop(i) \/ UpdateAssigns(i, "main") PROVE BasicStepOK
  BY <1>3, BasicStopOK, UpdateAssignsOK
<1>4. ASSUME NEW i \in Instances, NEW o \in Outcomes, MainSteps(i, o) PROVE BasicStepOK
  BY <1>4, RegisterInstanceOK, TokensVerifiedOK, TokensReplacedOK, NotifyTokensOK, ChangeStateOK, HeartbeatLoopEndsOK,
     UnregisterInstanceOK DEF MainSteps
<1>5. ASSUME NEW i \in Instances, NEW o \in Outcomes, DelegateSteps(i, o) PROVE BasicStepOK
  BY <1>5, OnRingInstanceStoppingOK, UpdateAssignsOK, StoppingReturnsOK DEF DelegateSteps
<1>6. ASSUME NEW i \in Instances, NEW o \in Outcomes, heartbeat(i, o) PROVE BasicStepOK
  BY <1>6, BasicHeartbeatOK
<1> QED
  BY <1>1, <1>2, <1>3, <1>4, <1>5, <1>6 DEF BasicNext


-----------------------------------------------------------------------------
(***************************************************************************)
(* The invariant of the whole.                                             *)
(***************************************************************************)
\* No step changes the configuration.
LEMMA ConfStays == ASSUME Next \/ BasicNext PROVE conf' = conf
<1>1. ASSUME Next PROVE conf' = conf
  <2>1. ASSUME RingChanges PROVE conf' = conf
    BY <2>1 DEF RingChanges, LosesRing, HeartbeatAges, LosesToken
  <2>2. ASSUME NEW i \in Instances, Start(i) \/ Stop(i) \/ CheckTokens(i) \/ CheckReady(i) \/ Crash(i)
        PROVE  conf' = conf
    BY <2>2 DEF Start, Stop, CheckTokens, CheckReady, Crash, envVars
  <2>3. ASSUME NEW o \in Outcomes, TransferSteps(o) PROVE conf' = conf
    BY <2>3 DEF TransferSteps, ClaimTokensFor, TransferSucceeds, TransferFails
  <2>4. ASSUME NEW i \in Instances, NEW o \in Outcomes, JoinSteps(i, o) PROVE conf' = conf
    BY <2>4 DEF JoinSteps, InitRing, InitNew, InitJoining, InitExisting, autoJoin, JoinTimerIgnored, VerifiedTokens,
                ReplacesTokens, BecomesActive, envVars
  <2>5. ASSUME NEW i \in Instances, NEW o \in Outcomes, LeaveSteps(i, o) \/ Heartbeat(i, o) PROVE conf' = conf
    BY <2>5 DEF LeaveSteps, StopLeaves, TransferOut, Flush, ShutdownDone, unregister, Heartbeat, envVars
  <2>6. ASSUME NEW i \in Instances, NEW j \in Instances, NEW o \in Outcomes, TransferStarts(i, j, o) PROVE conf' = conf
    BY <2>6 DEF TransferStarts
  <2> QED
    BY <1>1, <2>1, <2>2, <2>3, <2>4, <2>5, <2>6 DEF Next
<1>2. ASSUME BasicNext PROVE conf' = conf
  <2>1. ASSUME BasicRingChanges PROVE conf' = conf
    BY <2>1 DEF BasicRingChanges, LosesRing, HeartbeatAges, LosesToken
  <2>2. ASSUME NEW i \in Instances, BasicStart(i) \/ BasicStop(i) \/ BasicCrash(i) \/ UpdateAssigns(i, "main")
        PROVE  conf' = conf
    BY <2>2 DEF BasicStart, BasicStop, BasicCrash, UpdateAssigns, storeVars
  <2>3. ASSUME NEW i \in Instances, NEW o \in Outcomes, MainSteps(i, o) PROVE conf' = conf
    BY <2>3 DEF MainSteps, registerInstance, TokensVerified, TokensReplaced, UpdateCAS, NotifyTokens, ChangeState,
                changeStateBy, HeartbeatLoopEnds, unregisterInstance, storeVars
  <2>4. ASSUME NEW i \in Instances, NEW o \in Outcomes, DelegateSteps(i, o) \/ heartbeat(i, o) PROVE conf' = conf
    BY <2>4 DEF DelegateSteps, OnRingInstanceStopping, changeStateBy, UpdateCAS, UpdateAssigns, StoppingReturns,
                heartbeat, storeVars
  <2> QED
    BY <1>2, <2>1, <2>2, <2>3, <2>4 DEF BasicNext
<1> QED
  BY <1>1, <1>2

\* A lifecycler of the other kind, which is never started.
LEMMA Unstarted ==
  ASSUME conf \in Confs, NEW i \in Instances
  PROVE  /\ lc = [j \in Instances |-> NotRunning(0)] =>
              /\ lc[i] \in Lcs /\ lc[i].pc = "down" /\ lc[i].state = "PENDING" /\ lc[i].tokens = {}
              /\ lc[i].observe = FALSE /\ lc[i].ready = "no"
         /\ bl = [j \in Instances |-> Gone(0, "down")] =>
              /\ bl[i] \in Bls /\ bl[i].pc = "down" /\ bl[i].leaving = "no"
              /\ bl[i].main.set = FALSE /\ bl[i].delegate.set = FALSE
<1>1. {} \in Toks /\ Nothing \in Updates /\ Nothing.set = FALSE
  BY SmallTokens, NothingTyped
<1>2. ASSUME lc = [j \in Instances |-> NotRunning(0)]
      PROVE  /\ lc[i] \in Lcs /\ lc[i].pc = "down" /\ lc[i].state = "PENDING" /\ lc[i].tokens = {}
             /\ lc[i].observe = FALSE /\ lc[i].ready = "no"
  <2>1. lc[i] = [pc |-> "down", state |-> "PENDING", tokens |-> {}, reg |-> 0,
                 join |-> FALSE, observe |-> FALSE, ready |-> "no", probe |-> FALSE, unclaimed |-> FALSE,
                 starts |-> 0]
    BY <1>2 DEF NotRunning, NewLifecycler
  <2> QED
    BY <1>1, <2>1 DEF Lcs, RingStates
<1>3. ASSUME bl = [j \in Instances |-> Gone(0, "down")]
      PROVE  /\ bl[i] \in Bls /\ bl[i].pc = "down" /\ bl[i].leaving = "no"
             /\ bl[i].main.set = FALSE /\ bl[i].delegate.set = FALSE
  <2>1. bl[i] = [pc |-> "down", desc |-> Nothing, main |-> Nothing, delegate |-> Nothing, leaving |-> "no", starts |-> 0]
    BY <1>3 DEF Gone, NewBasicLifecycler
  <2> QED
    BY <1>1, <2>1 DEF Bls
<1> QED
  BY <1>2, <1>3

\* An instance that an older version has left in the ring has tokens, and no time of registration.
LEMMA OldEntry ==
  ASSUME conf \in Confs, NEW e \in OldEntries
  PROVE  e \in Entries(RingStates) /\ e \in Entries(BasicStates)
<1>1. e.tokens \subseteq TokenSpace /\ Cardinality(e.tokens) = conf.numTokens
  BY DEF OldEntries, kSubset
<1>2. conf.numTokens \in Nat
  BY NumTokensAssumption
<1>3. e.tokens \in Toks
  BY <1>1, <1>2 DEF Toks
<1> QED
  BY <1>3 DEF OldEntries, Entries, RingStates, BasicStates, Regs

\* The ring that there is at first.
LEMMA RingInit ==
  ASSUME StoreInit
  PROVE  StoreOK(RingStates) /\ StoreOK(BasicStates) /\ TokensHaveOneOwner
<1>1. conf \in Confs /\ losses = 0 /\ disk = [i \in Instances |-> disk[i]]
  BY DEF StoreInit
<1>2. CASE ring = NilRing
  <2>1. /\ ring = [exists |-> ring.exists, ing |-> ring.ing] /\ ring.exists = FALSE /\ DOMAIN ring.ing = {}
        /\ ring.ing = [x \in DOMAIN ring.ing |-> ring.ing[x]]
    BY <1>2 DEF NilRing
  <2> QED
    BY <1>1, <2>1 DEF StoreOK, IsRing, TokensHaveOneOwner
<1>3. CASE \E d \in [conf.old -> OldEntries] :
             /\ \A i, j \in conf.old : i # j => d[i].tokens \cap d[j].tokens = {}
             /\ ring = NewRing(d)
  <2>1. PICK d \in [conf.old -> OldEntries] :
          /\ \A i, j \in conf.old : i # j => d[i].tokens \cap d[j].tokens = {}
          /\ ring = NewRing(d)
    BY <1>3
  <2>2. ring.ing = d /\ ring.exists = TRUE /\ ring = [exists |-> ring.exists, ing |-> ring.ing]
    BY <2>1 DEF NewRing
  <2>3. DOMAIN d = conf.old /\ d = [x \in DOMAIN d |-> d[x]] /\ conf.old \subseteq Instances
    BY <1>1, <2>1, OldAssumption
  <2>4. \A x \in DOMAIN d : d[x] \in Entries(RingStates) /\ d[x] \in Entries(BasicStates)
    BY <1>1, <2>1, <2>3, OldEntry
  <2>5. IsRing(d, RingStates) /\ IsRing(d, BasicStates)
    BY <2>3, <2>4 DEF IsRing
  <2>6. TokensHaveOneOwner
    BY <2>1, <2>2, <2>3 DEF TokensHaveOneOwner
  <2> QED
    BY <1>1, <2>2, <2>5, <2>6 DEF StoreOK
<1> QED
  BY <1>2, <1>3 DEF StoreInit

\* The invariant holds at the start.
LEMMA InvInit == ASSUME LifecyclersInit PROVE Inv
<1>1. /\ conf \in Confs /\ losses = 0
      /\ disk = [i \in Instances |-> {}] /\ lc = [i \in Instances |-> NotRunning(0)]
      /\ bl = [i \in Instances |-> Gone(0, "down")]
      /\ transfer = [from |-> Other, to |-> Other, phase |-> "none"]
  BY DEF LifecyclersInit, Init, BasicInit, StoreInit, NoTransfer
<1>3. StoreOK(RingStates) /\ StoreOK(BasicStates) /\ TokensHaveOneOwner
  BY RingInit DEF LifecyclersInit, Init
<1>5. \A i \in Instances : FileOK(i)
  BY <1>1, SmallTokens DEF FileOK
<1>6. FullInv
  <2>1. TransferOK /\ ~Busy
    BY <1>1 DEF TransferOK, Busy
  <2>2. ASSUME NEW i \in Instances PROVE FullOK(i)
    <3>1. /\ lc[i] \in Lcs /\ lc[i].pc = "down" /\ lc[i].state = "PENDING" /\ lc[i].tokens = {}
          /\ lc[i].observe = FALSE
      BY <1>1, Unstarted
    <3>2. ~Live(i)
      BY <3>1 DEF Live
    <3>3. LcOK(i)
      BY <1>5, <3>1, <3>2 DEF LcOK
    <3> QED
      BY <2>1, <3>2, <3>3 DEF FullOK, EntryOK, StateOK, TokensOK, ReceiverOK, SenderOK
  <2> QED
    BY <1>1, <1>3, <2>1, <2>2 DEF FullInv
<1>7. BasicInv
  <2>1. ASSUME NEW i \in Instances PROVE BasicOK(i)
    <3>1. /\ bl[i] \in Bls /\ bl[i].pc = "down" /\ bl[i].leaving = "no"
      BY <1>1, Unstarted
    <3>2. ~HasEntry(i) /\ disk[i] = {}
      BY <1>1, <3>1 DEF HasEntry
    <3>3. BlOK(i) /\ StaysOK(i) /\ CompleteOK(i)
      BY <1>5, <3>1, <3>2 DEF BlOK, StaysOK, CompleteOK
    <3> QED
      BY <3>3 DEF BasicOK
  <2> QED
    BY <1>1, <1>3, <2>1 DEF BasicInv
<1> QED
  BY <1>1, <1>6, <1>7, KindAssumption DEF Inv, NoTransfer

\* A step that changes nothing keeps the invariant.
LEMMA InvStutters == ASSUME Inv, UNCHANGED allVars PROVE Inv'
<1>1. UNCHANGED <<conf, ring, disk, losses, lc, transfer, bl>>
  BY DEF allVars, storeVars
<1>2. \A states : StoreOK(states)' <=> StoreOK(states)
  BY <1>1 DEF StoreOK, IsRing, Entries, Toks
<1>3. TokensHaveOneOwner' <=> TokensHaveOneOwner
  BY <1>1 DEF TokensHaveOneOwner
<1>4. FullInv => FullInv'
  <2>1. Watched' = Watched /\ Busy' = Busy
    BY <1>1 DEF Watched, Unobserved, Busy
  <2>2. ASSUME NEW i \in Instances, FullOK(i) PROVE FullOK(i)'
    <3>1. LcOK(i)' /\ EntryOK(i)'
      BY <1>1, <2>1, <2>2, SameTypes DEF FullOK, LcOK, FileOK, EntryOK, Live, InLoop
    <3>2. StateOK(i)' /\ TokensOK(i)'
      BY <1>1, <2>1, <2>2 DEF FullOK, StateOK, TokensOK, Live, Shutting, Sure
    <3>3. ReceiverOK(i)' /\ SenderOK(i)'
      BY <1>1, <2>1, <2>2 DEF FullOK, ReceiverOK, SenderOK, InLoop, Sure
    <3> QED
      BY <3>1, <3>2, <3>3 DEF FullOK
  <2> QED
    BY <1>1, <1>2, <1>3, <2>2 DEF FullInv, TransferOK
<1>5. BasicInv => BasicInv'
  BY <1>1, <1>2, <1>3, BasicSame DEF BasicInv
<1> QED
  BY <1>1, <1>4, <1>5 DEF Inv

\* What a step never undoes.
StepKeeps == RegsKept /\ \A i \in Instances : LeavingKept(i) /\ ReadyOK(i)

\* Every step keeps the invariant and what must not be undone.
LEMMA InvSteps == ASSUME Inv, [LifecyclersNext]_allVars PROVE Inv' /\ StepKeeps
<1>1. CASE UNCHANGED allVars
  <2>1. Inv'
    BY <1>1, InvStutters
  <2>2. StepKeeps
    BY <1>1 DEF allVars, storeVars, StepKeeps, RegsKept, LeavingKept, ReadyOK
  <2> QED
    BY <2>1, <2>2
<1>2. CASE conf.kind = "full" /\ Next /\ UNCHANGED bl
  <2>1. FullInv /\ bl = [i \in Instances |-> Gone(0, "down")] /\ conf \in Confs
    BY <1>2 DEF Inv, FullInv, StoreOK
  <2>2. FullStepOK /\ conf' = conf
    BY <1>2, <2>1, FullNext, ConfStays
  <2>3. \A i \in Instances : LeavingKept(i)
    BY <2>1, Unstarted DEF LeavingKept
  <2> QED
    BY <1>2, <2>1, <2>2, <2>3 DEF Inv, FullStepOK, StepKeeps
<1>3. CASE conf.kind = "basic" /\ BasicNext /\ UNCHANGED <<lc, transfer>>
  <2>1. BasicInv /\ lc = [i \in Instances |-> NotRunning(0)] /\ transfer = NoTransfer
    BY <1>3 DEF Inv
  <2>2. BasicStepOK /\ conf' = conf
    BY <1>3, <2>1, BasicNextOK, ConfStays
  <2>3. \A i \in Instances : ReadyOK(i)
    BY <1>3 DEF ReadyOK
  <2>4. NoTransfer' = NoTransfer
    BY DEF NoTransfer
  <2> QED
    BY <1>3, <2>1, <2>2, <2>3, <2>4 DEF Inv, BasicStepOK, StepKeeps
<1> QED
  BY <1>1, <1>2, <1>3 DEF LifecyclersNext

\* Every variable of either kind has its type.
LEMMA InvTypes == ASSUME Inv PROVE LifecyclersTypeOK
<1>1. /\ conf \in Confs /\ ring.exists \in BOOLEAN /\ DOMAIN ring.ing \subseteq Instances \cup {Other}
      /\ \A i \in DOMAIN ring.ing : ring.ing[i] \in Entries(RingStates)
      /\ \A i \in Instances : disk[i] \in Toks
  BY DEF Inv, FullInv, BasicInv, StoreOK, IsRing, FullOK, LcOK, BasicOK, BlOK, FileOK, Entries, RingStates, BasicStates
<1>2. \A i \in Instances : lc[i] \in Lcs
  BY <1>1, Unstarted DEF Inv, FullInv, FullOK, LcOK
<1>3. \A i \in Instances : bl[i] \in Bls /\ (HasEntry(i) => bl[i].desc.set)
  <2>1. CASE BasicInv
    BY <2>1 DEF BasicInv, BasicOK, BlOK
  <2>2. CASE bl = [i \in Instances |-> Gone(0, "down")]
    BY <1>1, <2>2, Unstarted DEF HasEntry
  <2> QED
    BY <2>1, <2>2 DEF Inv
<1>4. transfer.phase \in {"none", "receiving", "claimed", "succeeded", "failed"}
  BY DEF Inv, FullInv, TransferOK, NoTransfer
<1>5. TypeOK
  BY <1>1, <1>2, <1>4 DEF TypeOK, Entries, Lcs, Toks, RingStates
<1>6. BasicTypeOK
  <2> SUFFICES ASSUME NEW i \in Instances, NEW x \in {"desc", "main", "delegate"}
               PROVE  /\ bl[i].pc \in {"down", "starting", "observing", "notify", "running", "stopping", "unregister", "unregistered"}
                      /\ bl[i].leaving \in {"no", "change", "next", "done"}
                      /\ bl[i][x].e.state \in {"JOINING", "ACTIVE", "LEAVING"} /\ bl[i][x].e.tokens \subseteq TokenSpace
                      /\ bl[i][x].set \in BOOLEAN
                      /\ bl[i].pc \in {"observing", "notify", "running", "stopping", "unregister"} => bl[i].desc.set
    BY DEF BasicTypeOK
  <2>1. bl[i] \in Bls
    BY <1>3
  <2>2. bl[i][x] \in Updates
    BY <2>1 DEF Bls
  <2>3. bl[i][x].set \in BOOLEAN /\ bl[i][x].e \in Entries(BasicStates)
    BY <2>2 DEF Updates
  <2>4. bl[i][x].e.state \in {"JOINING", "ACTIVE", "LEAVING"} /\ bl[i][x].e.tokens \subseteq TokenSpace
    BY <2>3 DEF Entries, Toks, BasicStates
  <2> QED
    BY <1>3, <2>1, <2>3, <2>4 DEF Bls, HasEntry
<1> QED
  BY <1>5, <1>6 DEF LifecyclersTypeOK


(***************************************************************************)
(* What the invariant says of tokens.                                      *)
(***************************************************************************)
LEMMA InvTokens == ASSUME Inv PROVE TokensAreKept
<1>1. LifecyclersTypeOK /\ conf \in Confs
  BY InvTypes DEF Inv, FullInv, BasicInv, StoreOK
<1>2. TokensHaveOneOwner
  BY DEF Inv, FullInv, BasicInv
<1>3. ActiveKnowsTokens
  <2>1. CASE FullInv
    <3> SUFFICES ASSUME NEW i \in DOMAIN ring.ing \cap Instances, losses = 0, ~Unobserved, ~lc[i].unclaimed,
                        InLoop(i), lc[i].state = "ACTIVE"
                 PROVE  lc[i].tokens = ring.ing[i].tokens
      BY DEF ActiveKnowsTokens
    <3>1. Sure(i) /\ Live(i) /\ TokensOK(i)
      BY <2>1 DEF Watched, Sure, Live, InLoop, FullInv, FullOK
    <3> QED
      BY <3>1 DEF TokensOK
  <2>2. CASE lc = [i \in Instances |-> NotRunning(0)]
    BY <1>1, <2>2, Unstarted DEF ActiveKnowsTokens, InLoop
  <2> QED
    BY <2>1, <2>2 DEF Inv
<1>4. LostTokensAreReplaced
  <2>1. CASE BasicInv
    BY <2>1 DEF BasicInv, BasicOK, CompleteOK, IsFull, LostTokensAreReplaced
  <2>2. CASE bl = [i \in Instances |-> Gone(0, "down")]
    BY <1>1, <2>2, Unstarted DEF LostTokensAreReplaced
  <2> QED
    BY <2>1, <2>2 DEF Inv
<1> QED
  BY <1>1, <1>2, <1>3, <1>4 DEF TokensAreKept

\* An instance that was removed is not in the ring.
LEMMA InvAway == ASSUME Inv PROVE UnregisteredStaysAway
<1>1. CASE BasicInv
  BY <1>1 DEF BasicInv, BasicOK, BlOK, UnregisteredStaysAway
<1>2. CASE FullInv /\ bl = [i \in Instances |-> Gone(0, "down")]
  <2>1. conf \in Confs
    BY <1>2 DEF FullInv, StoreOK
  <2> QED
    BY <1>2, <2>1, Unstarted DEF UnregisteredStaysAway
<1> QED
  BY <1>1, <1>2 DEF Inv

(***************************************************************************)
(* Both kinds of lifecycler, with any number of instances and tokens,      *)
(* through any crashes, restarts, failing updates, lost rings and lost     *)
(* tokens, keep the invariant.                                             *)
(***************************************************************************)
THEOREM InvariantHolds == LifecyclersSpec => []Inv
<1>1. LifecyclersInit => Inv
  BY InvInit
<1>2. Inv /\ [LifecyclersNext]_allVars => Inv'
  BY InvSteps
<1> QED
  BY <1>1, <1>2, PTL DEF LifecyclersSpec

(***************************************************************************)
(* TokensAreKept: no token has two owners, an ACTIVE instance knows its    *)
(* tokens, unless the CAS of its ClaimTokensFor has failed, and one that   *)
(* lost some during the observe period has replaced them.                  *)
(***************************************************************************)
THEOREM TokensAreKeptHolds == LifecyclersSpec => []TokensAreKept
<1>1. Inv => TokensAreKept
  BY InvTokens
<1> QED
  BY <1>1, InvariantHolds, PTL

(***************************************************************************)
(* UnregisteredStaysAway: nothing of a basic lifecycler that has           *)
(* unregistered its instance writes the entry again.                       *)
(***************************************************************************)
THEOREM UnregisteredStaysAwayHolds == LifecyclersSpec => []UnregisteredStaysAway
<1>1. Inv => UnregisteredStaysAway
  BY InvAway
<1> QED
  BY <1>1, InvariantHolds, PTL

(***************************************************************************)
(* EntriesAreKept: no update undoes a registration time, which may be      *)
(* unknown, or LEAVING, and an instance that reports itself ready has      *)
(* tokens in the ring, unless the CAS of its ClaimTokensFor has failed.    *)
(***************************************************************************)
THEOREM EntriesAreKeptHolds == LifecyclersSpec => EntriesAreKept
<1> DEFINE Reg == losses = 0 => \A i \in DOMAIN ring.ing \cap DOMAIN ring'.ing :
                                  GetRegisteredAt(ring'.ing[i].reg) = GetRegisteredAt(ring.ing[i].reg)
           Leaving == \A i \in Instances \cap DOMAIN ring.ing \cap DOMAIN ring'.ing :
                        (bl[i].pc = "stopping" /\ ring.ing[i].state = "LEAVING") => ring'.ing[i].state = "LEAVING"
           Ready == \A i \in Instances :
                      (losses = 0 /\ ~Unobserved /\ ~lc[i].unclaimed /\ lc'[i].ready = "ready" /\ lc[i].ready # "ready") =>
                        lc[i].tokens = {} \/ MyTokens(ring.ing, i) # {}
<1>1. Inv /\ [LifecyclersNext]_allVars => [Reg]_ring
  BY InvSteps DEF StepKeeps, RegsKept
<1>2. Inv /\ [LifecyclersNext]_allVars => [Leaving]_basicVars
  BY InvSteps DEF StepKeeps, LeavingKept
<1>3. Inv /\ [LifecyclersNext]_allVars => [Ready]_vars
  BY InvSteps DEF StepKeeps, ReadyOK, Watched, Sure
<1>4. LifecyclersSpec => [][Reg]_ring
  BY <1>1, InvariantHolds, PTL DEF LifecyclersSpec
<1>5. LifecyclersSpec => [][Leaving]_basicVars
  BY <1>2, InvariantHolds, PTL DEF LifecyclersSpec
<1>6. LifecyclersSpec => [][Ready]_vars
  BY <1>3, InvariantHolds, PTL DEF LifecyclersSpec
<1> QED
  BY <1>4, <1>5, <1>6 DEF EntriesAreKept, RegistrationIsKept, LeavingStays, ReadyHasTokens
=============================================================================
