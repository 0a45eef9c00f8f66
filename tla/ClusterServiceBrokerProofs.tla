--------------------- MODULE ClusterServiceBrokerProofs ---------------------
(***************************************************************************)
(* For every value of the constants: a reconciled generation is one that a *)
(* catalog was fetched for (or given up on), and a broker's object never   *)
(* goes back.                                                              *)
(*                                                                         *)
(* The argument.  A worker whose copy is fresh has the stored object       *)
(* (WorkerInv), so a write that is accepted replaces the very version it   *)
(* was made from, and DraftInv says what it changes.  Once the worker has  *)
(* a copy that is marked for deletion, every version from the cached one   *)
(* to the stored one is marked or gone (Twilight), because the informer    *)
(* sees the versions in their order (VersionsInv): from then on the broker *)
(* is not reconciled as a living one again (Sunset).                       *)
(*                                                                         *)
(* The lemmas about the steps also say what a step does to the catalog and *)
(* to the loops of the worker (Moves, Effect), for ServiceCatalogProofs.   *)
(***************************************************************************)
EXTENDS ClusterServiceBroker, TLAPS

\* More time than by default, for a slow machine.
USE SMTT(30), ZenonT(30)

\* What holds of every version of a broker, and of a worker's copy, by itself.
Sound(o) ==
    /\ o.recGen <= o.gen /\ (~o.del => o.gen <= MaxGen)
    /\ o.conds # <<>> => "Ready" \in DOMAIN o.conds

\* An empty status is a function of conditions.
LEMMA EmptyConds == <<>> \in [{} -> Condition]
  OBVIOUS

\* The bounds are numbers.
LEMMA BoundsTyped ==
    /\ MaxFaults \in Nat /\ MaxCrashes \in Nat /\ MaxClock \in Nat /\ MaxCatalogLag \in Nat
    /\ MaxGen \in Nat \ {0} /\ MaxLag \in Nat \ {0}
  BY BrokerAssumption

\* The generations of a broker are numbers within the bound.
LEMMA ObjectNumbers ==
    ASSUME NEW o \in Object
    PROVE  o.gen \in Nat /\ o.recGen \in Nat /\ o.gen \in 1..(MaxGen + 1) /\ o.gen \in 0..(MaxGen + 1)
  BY BoundsTyped DEF Object

\* A broker as PrepareForCreate leaves it is sound.
LEMMA NewBrokerTyped == NewBroker \in Object /\ Sound(NewBroker)
<1>1. <<>> \in UNION {[D -> Condition] : D \in SUBSET Conditions}
  BY EmptyConds
<1>2. MaxGen \in Nat \ {0}  BY BoundsTyped
<1> QED  BY <1>1, <1>2 DEF NewBroker, Object, Sound

\* No object is mistaken for the absence of one.
LEMMA NoneApart ==
    ASSUME NEW o PROVE /\ o \in Object => o # None
                       /\ o \in Class => o # None
                       /\ o \in Plan => o # None
                       /\ o \in Classes => o # None
                       /\ o \in Listing => o # None
  BY BrokerAssumption

\* A worker without a key is a worker state.
LEMMA IdleTyped == Idle \in WorkerState
  BY DEF Idle, WorkerState

\* What a broker answers with names plans and classes.
LEMMA CatalogTyped ==
    ASSUME NEW b \in Brokers, NEW cat \in Catalogs[b]
    PROVE  cat \in AllCatalogs /\ cat.n \in Nat /\ DOMAIN cat.offers \subseteq Plans
           /\ Services(cat) \subseteq Classes /\ DOMAIN cat.offers # {}
  BY BrokerAssumption DEF AllCatalogs

\* What updateClusterServiceBrokerCondition makes of an object.
LEMMA CondTyped ==
    ASSUME NEW o \in Object, NEW type \in Conditions,
           NEW status \in {"True", "False", "Unknown"}, NEW text \in Texts, clock \in 0..MaxClock,
           NEW u, u = UpdateCondition(o, type, status, text)
    PROVE  /\ u \in Object /\ u.del = o.del /\ u.gen = o.gen /\ u.started = o.started
           /\ u.recGen = IF type = "Ready" /\ status = "True" THEN o.gen ELSE o.recGen
           /\ u.conds # <<>>
           /\ o.conds = <<>> => DOMAIN u.conds = {type} /\ u.conds[type].status = status
           /\ o.conds # <<>> => DOMAIN u.conds = DOMAIN o.conds
           /\ \A t \in DOMAIN o.conds : u.conds[t].status = IF t = type THEN status ELSE o.conds[t].status
<1> DEFINE old == o.conds
           new == [status |-> status, text |-> text,
                since  |-> IF type \in DOMAIN old /\ old[type].status = status
                           THEN old[type].since ELSE clock]
           c == IF old = <<>> THEN [t \in {type} |-> new]
                ELSE IF type \in DOMAIN old THEN [old EXCEPT ![type] = new]
                ELSE old
           g == IF type = "Ready" /\ status = "True" THEN o.gen ELSE o.recGen
<1>1. PICK D \in SUBSET Conditions : old \in [D -> Condition]
  BY DEF Object
<1>2. new \in Condition
  BY <1>1 DEF Condition
<1>3. new.status = status
  OBVIOUS
<1> HIDE DEF new
<1>4. c \in UNION {[E -> Condition] : E \in SUBSET Conditions}
  <2>1. CASE old = <<>>
    <3>1. c \in [{type} -> Condition]  BY <1>2, <2>1
    <3> QED  BY Zenon, <3>1
  <2>2. CASE old # <<>>
    <3>1. c \in [D -> Condition]  BY <1>1, <1>2, <2>2
    <3> QED  BY Zenon, <3>1
  <2> QED  BY Zenon, <2>1, <2>2
<1>5. c # <<>> /\ (old = <<>> => DOMAIN c = {type} /\ c[type] = new)
      /\ (old # <<>> => DOMAIN c = DOMAIN old)
      /\ \A t \in DOMAIN old : c[t] = IF t = type THEN new ELSE old[t]
  <2>1. CASE old = <<>>
    <3>1. DOMAIN c = {type} /\ c[type] = new BY <2>1
    <3>2. DOMAIN <<>> = {}  OBVIOUS
    <3> QED  BY <3>1, <3>2, <2>1
  <2>2. CASE old # <<>>  BY <1>1, <2>2
  <2> QED  BY <2>1, <2>2
<1> HIDE DEF c
<1>6. g \in 0..(MaxGen + 1)
  BY BoundsTyped DEF Object
<1> HIDE DEF g
<1>7. u = [o EXCEPT !.conds = c, !.recGen = g]
  BY DEF UpdateCondition, c, new, g
<1>8. u \in Object /\ u.del = o.del /\ u.gen = o.gen /\ u.started = o.started /\ u.recGen = g /\ u.conds = c
  BY Zenon, <1>4, <1>6, <1>7 DEF Object
<1> QED  BY <1>8, <1>5, <1>3 DEF g

\* The same for the Ready condition: only the status True records the generation.
LEMMA ReadyTyped ==
    ASSUME clock \in 0..MaxClock, NEW o \in Object, Sound(o),
           NEW status \in {"True", "False", "Unknown"}, NEW text \in Texts,
           NEW u, u = UpdateCondition(o, "Ready", status, text)
    PROVE  /\ u \in Object /\ u # None /\ Sound(u) /\ u.del = o.del /\ u.gen = o.gen
           /\ u.recGen = IF status = "True" THEN o.gen ELSE o.recGen
           /\ u.conds # <<>> /\ (ReadyIs(u, "True") <=> status = "True")
<1>1. "Ready" \in Conditions  BY DEF Conditions
<1>2. u \in Object /\ u.del = o.del /\ u.gen = o.gen /\ u.conds # <<>>  BY <1>1, CondTyped
<1>3. u.recGen = IF status = "True" THEN o.gen ELSE o.recGen  BY <1>1, CondTyped
<1>4. "Ready" \in DOMAIN u.conds /\ u.conds["Ready"].status = status
  <2>1. CASE o.conds = <<>>
    <3>1. DOMAIN u.conds = {"Ready"} /\ u.conds["Ready"].status = status  BY <1>1, <2>1, CondTyped
    <3> QED  BY <3>1
  <2>2. CASE o.conds # <<>>
    <3>1. "Ready" \in DOMAIN o.conds  BY <2>2 DEF Sound
    <3>2. DOMAIN u.conds = DOMAIN o.conds  BY <1>1, <2>2, CondTyped
    <3>3. u.conds["Ready"].status = status BY <1>1, <3>1, CondTyped
    <3> QED  BY <3>1, <3>2, <3>3
  <2> QED  BY <2>1, <2>2
<1>5. Sound(u)
  <2>1. o.gen \in Nat /\ o.recGen \in Nat  BY ObjectNumbers
  <2> QED  BY <1>2, <1>3, <1>4, <2>1 DEF Sound
<1> QED  BY <1>2, <1>3, <1>4, <1>5, NoneApart DEF ReadyIs

-----------------------------------------------------------------------------
(* What the steps make of a worker.                                        *)

\* What may follow a write of the status.
Results == {"ok", "err", "stop", "record start", "stop retries", "sync", "finalize"}

\* The part of the type invariant about the workers.
WorkersTyped == w \in [Brokers -> WorkerState]

\* The workers of the other brokers do not move.
OthersIdle(b) == \A x \in Brokers : x # b => w'[x] = w[x]

\* The worker keeps its copy and the catalog it fetched.
RestKept(b) ==
    w'[b].local = w[b].local /\ w'[b].fresh = w[b].fresh /\ w'[b].got = w[b].got

\* Assigning the state of one worker.
LEMMA SetWorker ==
    ASSUME WorkersTyped, NEW b \in Brokers, NEW v \in WorkerState, w' = [w EXCEPT ![b] = v]
    PROVE  WorkersTyped' /\ w'[b] = v /\ OthersIdle(b)
  BY DEF WorkersTyped, OthersIdle

\* A worker that returns has no key.
LEMMA ReturnShape ==
    ASSUME WorkersTyped, NEW b \in Brokers, NEW r, Return(b, r), queued \in [Brokers -> BOOLEAN]
    PROVE  /\ WorkersTyped' /\ w'[b] = Idle /\ w'[b].pc = "idle" /\ OthersIdle(b)
           /\ queued' \in [Brokers -> BOOLEAN]
<1>1. w' = [w EXCEPT ![b] = Idle] /\ queued' \in [Brokers -> BOOLEAN]
  BY Zenon DEF Return
<1>2. Idle.pc = "idle"  BY DEF Idle
<1> QED  BY Zenon, <1>1, <1>2, IdleTyped, SetWorker

\* A worker that is about to write has only its program counter and draft changed.
LEMMA WriteShape ==
    ASSUME WorkersTyped, NEW b \in Brokers, NEW o \in Object, NEW nx \in Results, Write(b, o, nx)
    PROVE  /\ WorkersTyped' /\ OthersIdle(b)
           /\ w'[b].pc = "write" /\ w'[b].draft = o /\ w'[b].next = nx /\ RestKept(b)
           /\ w'[b].plans = w[b].plans /\ w'[b].classes = w[b].classes /\ w'[b].current = w[b].current
<1> DEFINE v == [w[b] EXCEPT !.pc = "write", !.draft = o, !.next = nx]
<1>1. w[b] \in WorkerState  BY DEF WorkersTyped
<1>2. v \in WorkerState  BY Zenon, <1>1 DEF WorkerState, Results
<1>3. w' = [w EXCEPT ![b] = v]  BY Zenon DEF Write, WorkersTyped
<1>4. /\ v.pc = "write" /\ v.draft = o /\ v.next = nx /\ v.local = w[b].local /\ v.fresh = w[b].fresh /\ v.got = w[b].got
      /\ v.plans = w[b].plans /\ v.classes = w[b].classes /\ v.current = w[b].current
  BY Zenon, <1>1 DEF WorkerState
<1> HIDE DEF v
<1> QED  BY Zenon, <1>2, <1>3, <1>4, SetWorker DEF RestKept

\* A step of the loop over plans.
LEMMA PlansShape ==
    ASSUME WorkersTyped, NEW b \in Brokers, NEW ps \in SUBSET Plans, w' = [w EXCEPT ![b].plans = ps]
    PROVE  /\ WorkersTyped' /\ OthersIdle(b) /\ RestKept(b)
           /\ w'[b].pc = w[b].pc /\ w'[b].draft = w[b].draft /\ w'[b].next = w[b].next
           /\ w'[b].plans = ps /\ w'[b].classes = w[b].classes /\ w'[b].current = w[b].current
<1> DEFINE v == [w[b] EXCEPT !.plans = ps]
<1>1. w[b] \in WorkerState  BY DEF WorkersTyped
<1>2. v \in WorkerState  BY Zenon, <1>1 DEF WorkerState
<1>3. w' = [w EXCEPT ![b] = v]  BY DEF WorkersTyped
<1>4. /\ v.pc = w[b].pc /\ v.draft = w[b].draft /\ v.next = w[b].next
      /\ v.local = w[b].local /\ v.fresh = w[b].fresh /\ v.got = w[b].got
      /\ v.plans = ps /\ v.classes = w[b].classes /\ v.current = w[b].current
  BY Zenon, <1>1 DEF WorkerState
<1> HIDE DEF v
<1> QED  BY Zenon, <1>2, <1>3, <1>4, SetWorker DEF RestKept

\* Setting or clearing the start time.
LEMMA StartedTyped ==
    ASSUME NEW o \in Object, NEW f \in BOOLEAN, NEW u, u = [o EXCEPT !.started = f]
    PROVE  /\ u \in Object /\ u.del = o.del /\ u.gen = o.gen /\ u.recGen = o.recGen
           /\ u.conds = o.conds
  BY DEF Object

\* The copy with its retries stopped, as the "stop retries" write takes it.
Stopped(o) == UpdateCondition([o EXCEPT !.started = FALSE, !.recGen = o.gen], "Failed", "True", "timeout")

\* Stopping the retries records the generation and keeps the Ready condition.
LEMMA StoppedTyped ==
    ASSUME NEW o \in Object, clock \in 0..MaxClock, NEW u, u = Stopped(o)
    PROVE  /\ u \in Object /\ u.del = o.del /\ u.gen = o.gen /\ u.recGen = o.gen
           /\ o.conds # <<>> => DOMAIN u.conds = DOMAIN o.conds
           /\ \A t \in DOMAIN o.conds : t # "Failed" => u.conds[t].status = o.conds[t].status
           /\ o.conds = <<>> => DOMAIN u.conds = {"Failed"}
<1> DEFINE m == [o EXCEPT !.started = FALSE, !.recGen = o.gen]
<1>a. o.gen \in 0..(MaxGen + 1)  BY ObjectNumbers
<1>1. m \in Object /\ m.del = o.del /\ m.gen = o.gen /\ m.recGen = o.gen /\ m.conds = o.conds
  BY Zenon, <1>a DEF Object
<1>2. u = UpdateCondition(m, "Failed", "True", "timeout")  BY DEF Stopped
<1>3. "Failed" \in Conditions /\ "True" \in {"True", "False", "Unknown"} /\ "timeout" \in Texts
  BY DEF Conditions, Texts
<1> HIDE DEF m
<1> QED  BY <1>1, <1>2, <1>3, CondTyped

-----------------------------------------------------------------------------
(* The invariant.                                                          *)

\* The broker is removed, or marked for deletion.
Dead(o) == o = None \/ o.del

\* The stored version is the last the informer will see, and no version on
\* the way is of a living broker after one of a deleted one.
VersionsInv(b) ==
    /\ api[b] # None => Sound(api[b])
    /\ cached[b] # None => Sound(cached[b])
    /\ \A i \in 1..Len(watch[b]) : watch[b][i] # None => Sound(watch[b][i])
    /\ watch[b] = <<>> => cached[b] = api[b]
    /\ watch[b] # <<>> => watch[b][Len(watch[b])] = api[b]
    /\ \A i, j \in 1..Len(watch[b]) : i <= j /\ Dead(watch[b][i]) => Dead(watch[b][j])
    /\ cached[b] # None /\ cached[b].del => \A i \in 1..Len(watch[b]) : Dead(watch[b][i])

\* No version the informer has, or will see, is of a living broker.
Twilight(b) ==
    Dead(api[b]) /\ Dead(cached[b]) /\ \A i \in 1..Len(watch[b]) : Dead(watch[b][i])

\* What the draft of a write may say, by what follows the write.
DraftInv(b) ==
    LET r == w[b] IN
    /\ r.draft # None /\ r.draft.gen = r.local.gen /\ r.draft.del = r.local.del
    /\ r.draft.recGen = IF r.next \in {"ok", "stop"} THEN r.local.gen ELSE r.local.recGen
    /\ r.fresh => Sound(r.draft)
    /\ r.next = "finalize" => r.local.del
    /\ r.next \in {"ok", "stop", "sync", "record start", "stop retries"} => ~r.local.del
    /\ r.next = "ok" => ReadyIs(r.draft, "True") /\ r.got # None
    /\ r.next # "ok" /\ ReadyIs(r.draft, "True") => ReadyIs(r.local, "True")
    /\ r.next = "stop retries" => r.draft.conds # <<>>

\* What the worker's copy says of the stored object.
WorkerInv(b) ==
    LET r == w[b] IN
    /\ r.got # None => r.got \in Catalogs[b]
    /\ r.pc # "idle" => r.local # None /\ Sound(r.local)
    /\ r.pc # "idle" /\ r.local.del => Twilight(b)
    /\ r.pc # "idle" /\ r.fresh => api[b] = r.local
    /\ r.pc \in {"fetch", "sync"} => ~r.local.del
    /\ r.pc \in {"delete", "finalize"} => r.local.del
    /\ r.pc = "write" => DraftInv(b)

\* No version that its worker has or may still take is one of a living broker.
Sunset(b) == Twilight(b) /\ (w[b].pc # "idle" => w[b].local.del)

\* A broker that is removed is not reconciled as a living one again.
Gone(b) == api[b] = None => Sunset(b)

\* The clause of ReconciledMeansFetched about b.
RecOK(b) ==
    api[b] # None /\ api[b].recGen > 0 =>
        api[b].recGen \in {gaveUp[b]} \cup (IF listed[b] = None THEN {} ELSE {listed[b].gen})

\* The inductive invariant of one broker.
PerBroker(b) == VersionsInv(b) /\ WorkerInv(b) /\ Gone(b) /\ RecOK(b)

\* The type invariant without the classes and plans.
ObjTyped ==
    /\ api \in [Brokers -> Object \cup {None}] /\ cached \in [Brokers -> Object \cup {None}]
    /\ watch \in [Brokers -> Seq(Object \cup {None})] /\ queued \in [Brokers -> BOOLEAN]
    /\ \A b \in Brokers : Len(watch[b]) <= MaxLag
    /\ WorkersTyped
    /\ clock \in 0..MaxClock /\ faults \in 0..MaxFaults /\ crashes \in 0..MaxCrashes
    /\ listed \in [Brokers -> Listing \cup {None}] /\ fetched \in [Brokers -> 0..MaxClock]
    /\ made \in [Brokers -> SUBSET Classes] /\ gaveUp \in [Brokers -> 0..(MaxGen + 1)]

\* A step of b leaves the other brokers' objects alone.
OthersKept(b) ==
    \A x \in Brokers : x # b =>
        /\ w'[x] = w[x] /\ api'[x] = api[x] /\ watch'[x] = watch[x] /\ cached'[x] = cached[x]
        /\ listed'[x] = listed[x] /\ gaveUp'[x] = gaveUp[x]

\* The stored object does not go back.
Forward(b) ==
    /\ api[b] = None => api'[b] = None
    /\ api[b] # None /\ api'[b] # None =>
          /\ api[b].del => api'[b].del
          /\ api'[b].gen >= api[b].gen /\ api'[b].recGen >= api[b].recGen

\* The invariant of b is kept, and a sunset is for good.
Advances(b) == PerBroker(b)' /\ (Sunset(b) => Sunset(b)')

\* A step that leaves a broker alone keeps its invariant.
LEMMA KeptInv ==
    ASSUME NEW x \in Brokers, PerBroker(x),
        w'[x] = w[x], api'[x] = api[x], watch'[x] = watch[x], cached'[x] = cached[x],
        listed'[x] = listed[x], gaveUp'[x] = gaveUp[x]
    PROVE  Advances(x)
<1>1. VersionsInv(x)'  BY DEF PerBroker, VersionsInv
<1>2. Twilight(x)' = Twilight(x)  BY DEF Twilight
<1>3. WorkerInv(x)'  BY Zenon, <1>2 DEF PerBroker, WorkerInv, DraftInv
<1>4. Sunset(x)' = Sunset(x)  BY <1>2 DEF Sunset
<1>5. Gone(x)'  BY <1>4 DEF PerBroker, Gone
<1>6. RecOK(x)'  BY DEF PerBroker, RecOK
<1> QED  BY <1>1, <1>3, <1>4, <1>5, <1>6 DEF PerBroker, Advances

\* So does a step of its worker that stores nothing.
LEMMA QuietInv ==
    ASSUME NEW b \in Brokers, PerBroker(b), UNCHANGED <<objectVars, cached, listed, gaveUp>>,
           w[b].pc # "idle", w'[b].pc # "idle",
           w'[b].local = w[b].local, w'[b].fresh = w[b].fresh,
           w'[b].got # None => w'[b].got \in Catalogs[b],
           w'[b].pc \in {"fetch", "sync"} => ~w[b].local.del,
           w'[b].pc \in {"delete", "finalize"} => w[b].local.del,
           w'[b].pc = "write" => DraftInv(b)'
    PROVE  Advances(b)
<1>0. api' = api /\ watch' = watch  BY DEF objectVars
<1>1. VersionsInv(b)'  BY <1>0 DEF PerBroker, VersionsInv
<1>2. Twilight(b)' = Twilight(b)  BY <1>0 DEF Twilight
<1>3. WorkerInv(b)'  BY <1>0, <1>2 DEF PerBroker, WorkerInv
<1>4. Sunset(b) => Sunset(b)'  BY <1>2 DEF Sunset
<1>5. Gone(b)'  BY <1>0, <1>4 DEF PerBroker, Gone
<1>6. RecOK(b)'  BY <1>0 DEF PerBroker, RecOK
<1> QED  BY <1>1, <1>3, <1>4, <1>5, <1>6 DEF PerBroker, Advances

\* So does a step that ends with the worker idle.
LEMMA IdleInv ==
    ASSUME NEW b \in Brokers, VersionsInv(b)', RecOK(b)', api'[b] = None => Twilight(b)',
           Twilight(b) => Twilight(b)', w'[b] = Idle
    PROVE  Advances(b)
<1>1. w'[b].pc = "idle" /\ w'[b].got = None  BY DEF Idle
<1>2. WorkerInv(b)'  BY <1>1 DEF WorkerInv
<1>3. Gone(b)' /\ (Sunset(b) => Sunset(b)')  BY <1>1 DEF Gone, Sunset
<1> QED  BY <1>2, <1>3 DEF PerBroker, Advances

\* A worker with a key has a sound copy.
LEMMA LocalTyped ==
    ASSUME WorkersTyped, NEW b \in Brokers, PerBroker(b), w[b].pc # "idle"
    PROVE  w[b].local \in Object /\ Sound(w[b].local)
  BY Zenon DEF PerBroker, WorkerInv, WorkersTyped, WorkerState

\* A Ready condition that is not True leaves the recorded generation.
LEMMA ComplaintTyped ==
    ASSUME clock \in 0..MaxClock, NEW o \in Object, Sound(o),
           NEW status \in {"False", "Unknown"}, NEW text \in Texts,
           NEW u, u = UpdateCondition(o, "Ready", status, text)
    PROVE  /\ u \in Object /\ u # None /\ Sound(u) /\ u.del = o.del /\ u.gen = o.gen
           /\ u.recGen = o.recGen /\ u.conds # <<>> /\ ~ReadyIs(u, "True")
  BY ReadyTyped

-----------------------------------------------------------------------------
(* What a step of a broker does to the catalog.                            *)

\* Nothing of the catalog is written or seen.
Quiet == UNCHANGED <<classVars, planVars, made>>

\* The worker is in no loop and will not get into one by its next write.
Inactive(b) ==
    \/ w[b].pc \in {"idle", "fetch"}
    \/ w[b].pc = "write" /\ w[b].next \notin {"sync", "ok", "finalize"}

\* The loops are where they were.
SameLoop(b) ==
    /\ w'[b].got = w[b].got /\ w'[b].plans = w[b].plans
    /\ w'[b].classes = w[b].classes /\ w'[b].current = w[b].current

\* The worker leaves its loops.
Rests(b) == Quiet /\ Inactive(b)'

\* The worker does not move.
Stays(b) == Quiet /\ SameLoop(b) /\ w'[b].pc = w[b].pc /\ w'[b].next = w[b].next

\* The write before the loop, or before the finalizer, is stored.
Resumes(b) ==
    /\ Quiet /\ SameLoop(b)
    /\ w[b].pc = "write" /\ w[b].next \in {"sync", "finalize"} /\ w'[b].pc = w[b].next

\* A catalog is fetched: all of it is left to do.
Fetches(b) ==
    /\ Quiet /\ w[b].pc = "fetch"
    /\ w'[b].pc = "sync" \/ (w'[b].pc = "write" /\ w'[b].next = "sync")
    /\ \E cat \in Catalogs[b] \cup {None} :
          /\ w'[b].got = cat
          /\ w'[b].plans = IF cat = None THEN {} ELSE DOMAIN cat.offers
          /\ w'[b].classes = IF cat = None THEN {} ELSE Services(cat)

\* A plan is written, and is done with unless the answer is lost.
PutsPlan(b) ==
    /\ UNCHANGED <<classVars, made>> /\ w[b].pc = "sync"
    /\ \E p \in w[b].plans :
          /\ StorePlan(p, PlanSent(b, p))
          /\ \/ Inactive(b)'
             \/ /\ w'[b].pc = "sync" /\ w'[b].got = w[b].got
                /\ w'[b].plans = w[b].plans \ {p} /\ w'[b].classes = w[b].classes

\* A class is written, after all plans.
PutsClass(b) ==
    /\ UNCHANGED planVars /\ ClassesNext(b)
    /\ \E c \in w[b].classes :
          /\ ClassAccepted(b, c) /\ StoreClass(c, ClassSent(b, c))
          /\ made' = [made EXCEPT ![b] = @ \cup {c}]
          /\ \/ Inactive(b)'
             \/ /\ w'[b].pc = "sync" /\ w'[b].got = w[b].got
                /\ w'[b].plans = w[b].plans /\ w'[b].classes = w[b].classes \ {c}

\* Nothing is left to do, and Ready is drafted.
Finishes(b) ==
    /\ Quiet /\ SameLoop(b) /\ ClassesNext(b) /\ w[b].classes = {}
    /\ w'[b].pc = "write" /\ w'[b].next = "ok"

\* The classes to delete are listed.
Starts(b) ==
    /\ Quiet /\ w'[b].pc = "delete" /\ w'[b].current = None /\ w'[b].plans = {}
    /\ w'[b].classes = {c \in Classes : seenClasses[c] # None /\ seenClasses[c].owner = b}

\* The plans of one of them are listed.
Lists(b) ==
    /\ Quiet /\ w[b].pc = "delete" /\ w'[b].pc = "delete" /\ w'[b].classes = w[b].classes
    /\ \E c \in w[b].classes :
          /\ w'[b].current = c
          /\ w'[b].plans = {p \in Plans : seenPlans[p] # None /\ seenPlans[p].class = c}

\* One of these plans is deleted.
DropsPlan(b) ==
    /\ UNCHANGED <<classVars, made>> /\ w[b].pc = "delete" /\ w'[b].pc = "delete"
    /\ w'[b].classes = w[b].classes /\ w'[b].current = w[b].current
    /\ \E p \in w[b].plans : StorePlan(p, None) /\ w'[b].plans = w[b].plans \ {p}

\* The class is deleted, after its plans.
DropsClass(b) ==
    /\ UNCHANGED <<planVars, made>> /\ w[b].pc = "delete" /\ w'[b].pc = "delete"
    /\ w[b].current # None /\ w[b].plans = {} /\ StoreClass(w[b].current, None)
    /\ w'[b].current = None /\ w'[b].plans = {} /\ w'[b].classes = w[b].classes \ {w[b].current}

\* No class is left to delete.
Clears(b) ==
    /\ Quiet /\ w[b].pc = "delete" /\ w[b].classes = {}
    /\ w'[b].pc = "write" /\ w'[b].next = "finalize"

\* All that a step of b does to the catalog and to the loops of its worker.
Moves(b) ==
    /\ OthersIdle(b)
    /\ \/ Rests(b) \/ Stays(b) \/ Resumes(b) \/ Fetches(b) \/ PutsPlan(b) \/ PutsClass(b) \/ Finishes(b)
       \/ Starts(b) \/ Lists(b) \/ DropsPlan(b) \/ DropsClass(b) \/ Clears(b)

\* What is proved of a step of b.
StepOK(b) == ObjTyped' /\ OthersKept(b) /\ Advances(b) /\ Forward(b) /\ Moves(b)

\* Where nothing is stored nothing goes back.
LEMMA StillObjects ==
    ASSUME ObjTyped, NEW b \in Brokers, UNCHANGED <<objectVars, cached, listed, gaveUp>>, OthersIdle(b)
    PROVE  OthersKept(b) /\ Forward(b)
<1>1. api' = api /\ watch' = watch  BY DEF objectVars
<1>2. api[b] # None => api[b].gen \in Nat /\ api[b].recGen \in Nat
  BY ObjectNumbers DEF ObjTyped
<1> QED  BY <1>1, <1>2 DEF OthersKept, OthersIdle, Forward

\* Faults are counted up to their bound.
LEMMA FaultTyped ==
    ASSUME faults \in 0..MaxFaults, NEW kind, Fault(kind)
    PROVE  faults' \in 0..MaxFaults
  BY BoundsTyped DEF Fault

-----------------------------------------------------------------------------
(* The steps that store no broker.                                         *)

\* Taking a key there is nothing to do for.
LEMMA StepReconcileNothing ==
    ASSUME ObjTyped, NEW b \in Brokers, PerBroker(b), ReconcileNothing(b)
    PROVE  StepOK(b)
<1>1. /\ UNCHANGED <<objectVars, cached, listed, gaveUp, fetched, made, bounds, w>>
      /\ queued' = [queued EXCEPT ![b] = FALSE]
  BY DEF ReconcileNothing, Take, historyVars
<1>2. OthersKept(b) /\ Forward(b)  BY <1>1, StillObjects DEF OthersIdle
<1>3. Advances(b)  BY <1>1, KeptInv DEF objectVars
<1>4. ObjTyped'  BY <1>1 DEF ObjTyped, objectVars, bounds, WorkersTyped
<1>5. Quiet /\ w[b].pc = "idle"  BY DEF ReconcileNothing, Take, Quiet, historyVars
<1>6. Moves(b)  BY <1>1, <1>5 DEF Moves, Rests, Inactive, OthersIdle
<1> QED  BY <1>2, <1>3, <1>4, <1>6 DEF StepOK

\* Beginning a relist or a deletion.
LEMMA StepBegin ==
    ASSUME ObjTyped, NEW b \in Brokers, PerBroker(b), Begin(b)
    PROVE  StepOK(b)
<1>1. /\ UNCHANGED <<objectVars, cached, listed, gaveUp, fetched, made, bounds>>
      /\ queued' = [queued EXCEPT ![b] = FALSE] /\ cached[b] # None
  BY DEF Begin, Take, historyVars
<1>2. cached[b] \in Object /\ WorkersTyped  BY <1>1 DEF ObjTyped
<1>3. /\ WorkersTyped' /\ OthersIdle(b)
      /\ w'[b].pc = (IF cached[b].del THEN "delete" ELSE "fetch")
      /\ w'[b].local = cached[b] /\ w'[b].fresh = (watch[b] = <<>>)
      /\ w'[b].got = None /\ w'[b].plans = {} /\ w'[b].current = None
      /\ w'[b].classes = IF cached[b].del
                         THEN {c \in Classes : seenClasses[c] # None /\ seenClasses[c].owner = b}
                         ELSE {}
  <2> DEFINE f == watch[b] = <<>>
             cs == IF cached[b].del
                   THEN {c \in Classes : seenClasses[c] # None /\ seenClasses[c].owner = b}
                   ELSE {}
             p == IF cached[b].del THEN "delete" ELSE "fetch"
  <2>1. f \in BOOLEAN  OBVIOUS
  <2>2. cs \in SUBSET Classes  OBVIOUS
  <2>3. p \in {"delete", "fetch"}  OBVIOUS
  <2> HIDE DEF f, cs, p
  <2> DEFINE v == [Idle EXCEPT !.local = cached[b], !.fresh = f, !.pc = p, !.classes = cs]
  <2>4. w' = [w EXCEPT ![b] = v]  BY DEF Begin, f, cs, p
  <2>5. v \in WorkerState  BY Zenon, <1>2, <2>1, <2>2, <2>3, IdleTyped DEF WorkerState
  <2>6. /\ v.local = cached[b] /\ v.fresh = f /\ v.pc = p /\ v.classes = cs
        /\ v.got = None /\ v.plans = {} /\ v.current = None
    BY DEF Idle
  <2> HIDE DEF v
  <2> QED  BY Zenon, <1>2, <2>4, <2>5, <2>6, SetWorker DEF f, cs, p
<1>4. OthersKept(b) /\ Forward(b)  BY <1>1, <1>3, StillObjects
<1>5. ObjTyped'  BY <1>1, <1>3 DEF ObjTyped, objectVars, bounds
<1>6. api' = api /\ watch' = watch /\ cached' = cached  BY <1>1 DEF objectVars
<1>7. VersionsInv(b)'  BY <1>6 DEF PerBroker, VersionsInv
<1>8. Twilight(b)' = Twilight(b)  BY <1>6 DEF Twilight
<1>9. cached[b].del => Twilight(b)
  <2>1. SUFFICES ASSUME cached[b].del PROVE Twilight(b)  OBVIOUS
  <2>2. \A i \in 1..Len(watch[b]) : Dead(watch[b][i])  BY <1>1, <2>1 DEF PerBroker, VersionsInv
  <2>3. CASE watch[b] = <<>>  BY <2>1, <2>2, <2>3 DEF PerBroker, VersionsInv, Twilight, Dead
  <2>4. CASE watch[b] # <<>>
    <3>1. watch[b] \in Seq(Object \cup {None})  BY DEF ObjTyped
    <3>2. Len(watch[b]) \in 1..Len(watch[b])  BY <2>4, <3>1
    <3>3. watch[b][Len(watch[b])] = api[b]  BY <2>4 DEF PerBroker, VersionsInv
    <3> QED  BY <2>1, <2>2, <3>2, <3>3 DEF Twilight, Dead
  <2> QED  BY <2>3, <2>4
<1>10. watch[b] = <<>> => cached[b] = api[b]  BY DEF PerBroker, VersionsInv
<1>11. Sound(cached[b])  BY <1>1 DEF PerBroker, VersionsInv
<1>12. WorkerInv(b)'
  BY Zenon, <1>1, <1>3, <1>6, <1>8, <1>9, <1>10, <1>11 DEF WorkerInv
<1>13. Sunset(b) => Sunset(b)'  BY <1>1, <1>3, <1>8 DEF Sunset, Twilight, Dead
<1>14. Gone(b)'  BY <1>6, <1>13 DEF PerBroker, Gone
<1>15. RecOK(b)'  BY <1>1, <1>6 DEF PerBroker, RecOK
<1>16. Moves(b)
  <2>1. Quiet  BY DEF Begin, Take, Quiet, historyVars
  <2>2. CASE cached[b].del
    <3>1. w'[b].pc = "delete" /\ w'[b].classes = {c \in Classes : seenClasses[c] # None /\ seenClasses[c].owner = b}
      BY <1>3, <2>2
    <3> QED  BY <1>3, <2>1, <3>1 DEF Moves, Starts
  <2>3. CASE ~cached[b].del
    <3>1. w'[b].pc = "fetch"  BY <1>3, <2>3
    <3> QED  BY <1>3, <2>1, <3>1 DEF Moves, Rests, Inactive
  <2> QED  BY <2>2, <2>3
<1> QED  BY <1>4, <1>5, <1>7, <1>12, <1>13, <1>14, <1>15, <1>16 DEF StepOK, PerBroker, Advances

\* A step that complains and stores nothing.
LEMMA ComplainStep ==
    ASSUME ObjTyped, NEW b \in Brokers, PerBroker(b), w[b].pc # "idle",
           NEW status \in {"False", "Unknown"}, NEW text \in Texts,
           NEW nx \in {"err", "record start", "stop retries", "finalize"},
           nx \in {"record start", "stop retries"} => ~w[b].local.del,
           nx = "finalize" => w[b].local.del,
           Write(b, UpdateCondition(w[b].local, "Ready", status, text), nx),
           UNCHANGED <<objectVars, cached, queued, clock, crashes, listed, fetched, gaveUp>>,
           faults' \in 0..MaxFaults, made' \in [Brokers -> SUBSET Classes],
           OthersIdle(b) /\ w'[b].pc = "write" /\ w'[b].next = nx => Moves(b)
    PROVE  StepOK(b)
<1>1. WorkersTyped /\ clock \in 0..MaxClock  BY Zenon DEF ObjTyped
<1>2. /\ WorkersTyped' /\ OthersIdle(b)
      /\ w'[b].pc = "write" /\ w'[b].next = nx /\ RestKept(b) /\ DraftInv(b)'
  <2> DEFINE u == UpdateCondition(w[b].local, "Ready", status, text)
  <2>3. /\ u \in Object /\ u # None /\ Sound(u) /\ u.del = w[b].local.del /\ u.gen = w[b].local.gen
        /\ u.recGen = w[b].local.recGen /\ u.conds # <<>> /\ ~ReadyIs(u, "True")
    BY Zenon, <1>1, LocalTyped, ComplaintTyped
  <2>4. nx \in Results  BY Zenon DEF Results
  <2> HIDE DEF u
  <2>5. Write(b, u, nx)  BY Zenon DEF u
  <2>6. /\ WorkersTyped' /\ OthersIdle(b)
        /\ w'[b].pc = "write" /\ w'[b].draft = u /\ w'[b].next = nx /\ RestKept(b)
        /\ w'[b].plans = w[b].plans /\ w'[b].classes = w[b].classes /\ w'[b].current = w[b].current
    BY Zenon, <1>1, <2>3, <2>4, <2>5, WriteShape
  <2>7. DraftInv(b)'
    BY Zenon, <2>3, <2>6 DEF DraftInv, RestKept
  <2> QED  BY Zenon, <2>6, <2>7
<1>3. OthersKept(b) /\ Forward(b)  BY Zenon, <1>2, StillObjects
<1>4. ObjTyped'  BY Zenon, <1>2 DEF ObjTyped, objectVars
<1>5. Advances(b)
  BY Zenon, <1>2, QuietInv DEF RestKept, PerBroker, WorkerInv
<1> QED  BY Zenon, <1>2, <1>3, <1>4, <1>5 DEF StepOK

\* A step of one of the worker's loops.
LEMMA LoopStep ==
    ASSUME ObjTyped, NEW b \in Brokers, PerBroker(b), w[b].pc \in {"sync", "delete"},
           WorkersTyped', OthersIdle(b), RestKept(b), w'[b].pc = w[b].pc, Moves(b),
           UNCHANGED <<objectVars, cached, queued, clock, crashes, listed, fetched, gaveUp>>,
           faults' \in 0..MaxFaults, made' \in [Brokers -> SUBSET Classes]
    PROVE  StepOK(b)
<1>3. OthersKept(b) /\ Forward(b)  BY StillObjects
<1>4. ObjTyped'  BY DEF ObjTyped, objectVars
<1>5. Advances(b)
  BY QuietInv DEF RestKept, PerBroker, WorkerInv
<1> QED  BY <1>3, <1>4, <1>5 DEF StepOK

\* A complaint that nothing else goes with leaves the loops.
LEMMA RestMoves ==
    ASSUME NEW b \in Brokers, Quiet, OthersIdle(b), w'[b].pc = "write",
           w'[b].next \in {"err", "record start", "stop retries"}
    PROVE  Moves(b)
  BY Zenon DEF Moves, Rests, Inactive

\* The broker's secret can not be read.
LEMMA StepAuthFails ==
    ASSUME ObjTyped, NEW b \in Brokers, PerBroker(b), AuthFails(b)
    PROVE  StepOK(b)
<1>1. faults' \in 0..MaxFaults  BY FaultTyped DEF AuthFails, ObjTyped
<1>2. Quiet  BY DEF AuthFails, Quiet, historyVars
<1> QED  BY Zenon, <1>1, <1>2, RestMoves, ComplainStep DEF AuthFails, Complain, Texts, historyVars, ObjTyped

\* GetCatalog fails.
LEMMA StepFetchFails ==
    ASSUME ObjTyped, NEW b \in Brokers, PerBroker(b), FetchFails(b)
    PROVE  StepOK(b)
<1>1. w[b].pc = "fetch" /\ ~w[b].local.del  BY Zenon DEF FetchFails, PerBroker, WorkerInv
<1>2. PICK text \in {"fetch a", "fetch b"}, nx \in {"err", "stop retries", "record start"} :
          /\ faults' = faults \/ Fault("expire") \/ Fault("catalog")
          /\ Write(b, UpdateCondition(w[b].local, "Ready", "False", text), nx)
  BY Zenon DEF FetchFails
<1>3. faults' \in 0..MaxFaults  BY Zenon, <1>2, FaultTyped DEF ObjTyped
<1>4. text \in Texts  BY Zenon DEF Texts
<1>5. Quiet  BY Zenon DEF FetchFails, Quiet, historyVars
<1> QED  BY Zenon, <1>1, <1>2, <1>3, <1>4, <1>5, RestMoves, ComplainStep DEF FetchFails, historyVars, ObjTyped

\* GetCatalog answers.
LEMMA StepFetchOK ==
    ASSUME ObjTyped, NEW b \in Brokers, PerBroker(b), FetchOK(b)
    PROVE  StepOK(b)
<1>1. /\ w[b].pc = "fetch" /\ ~w[b].local.del
      /\ UNCHANGED <<objectVars, cached, queued, clock, crashes, listed, made, gaveUp>>
      /\ fetched' = [fetched EXCEPT ![b] = clock]
  BY DEF FetchOK, PerBroker, WorkerInv
<1>2. PICK cat \in Catalogs[b] \cup {None} :
          /\ IF cat = None THEN Fault("catalog") ELSE UNCHANGED faults
          /\ w' = [w EXCEPT ![b] =
                LET got == [w[b] EXCEPT !.got = cat, !.pc = "sync",
                              !.plans = IF cat = None THEN {} ELSE DOMAIN cat.offers,
                              !.classes = IF cat = None THEN {} ELSE Services(cat)]
                IN  IF w[b].local.started
                    THEN [got EXCEPT !.pc = "write", !.next = "sync",
                                     !.draft = [w[b].local EXCEPT !.started = FALSE]]
                    ELSE got]
  BY Zenon DEF FetchOK
<1>3. faults' \in 0..MaxFaults  BY <1>2, FaultTyped DEF ObjTyped
<1>4. WorkersTyped  BY DEF ObjTyped
<1>5. w[b].local \in Object /\ Sound(w[b].local)  BY <1>1, <1>4, LocalTyped
<1>6. /\ WorkersTyped' /\ OthersIdle(b)
      /\ w'[b].local = w[b].local /\ w'[b].fresh = w[b].fresh /\ w'[b].got = cat
      /\ w'[b].plans = IF cat = None THEN {} ELSE DOMAIN cat.offers
      /\ w'[b].classes = IF cat = None THEN {} ELSE Services(cat)
      /\ \/ w'[b].pc = "sync"
         \/ /\ w'[b].pc = "write" /\ w'[b].next = "sync"
            /\ w'[b].draft = [w[b].local EXCEPT !.started = FALSE]
  <2> DEFINE ps == IF cat = None THEN {} ELSE DOMAIN cat.offers
             cs == IF cat = None THEN {} ELSE Services(cat)
             d == [w[b].local EXCEPT !.started = FALSE]
  <2>1. ps \in SUBSET Plans /\ cs \in SUBSET Classes  BY CatalogTyped
  <2>2. cat \in AllCatalogs \cup {None}  BY CatalogTyped
  <2>3. d \in Object  BY Zenon, <1>5, StartedTyped
  <2> HIDE DEF ps, cs, d
  <2> DEFINE got == [w[b] EXCEPT !.got = cat, !.pc = "sync", !.plans = ps, !.classes = cs]
             wr == [got EXCEPT !.pc = "write", !.next = "sync", !.draft = d]
             v == IF w[b].local.started THEN wr ELSE got
  <2>4. w' = [w EXCEPT ![b] = v]  BY <1>2 DEF ps, cs, d
  <2>5. w[b] \in WorkerState  BY <1>4 DEF WorkersTyped
  <2>6. got \in WorkerState /\ got.local = w[b].local /\ got.fresh = w[b].fresh /\ got.got = cat
        /\ got.plans = ps /\ got.classes = cs /\ got.current = w[b].current /\ got.pc = "sync"
    BY Zenon, <2>1, <2>2, <2>5 DEF WorkerState
  <2> HIDE DEF got
  <2>7. wr \in WorkerState /\ wr.local = got.local /\ wr.fresh = got.fresh /\ wr.got = got.got
        /\ wr.plans = got.plans /\ wr.classes = got.classes /\ wr.current = got.current
        /\ wr.pc = "write" /\ wr.next = "sync" /\ wr.draft = d
    BY Zenon, <2>3, <2>6 DEF WorkerState
  <2> HIDE DEF wr
  <2>8. v \in WorkerState  BY <2>6, <2>7
  <2>9. w'[b] = v /\ WorkersTyped' /\ OthersIdle(b)
    <3> HIDE DEF v
    <3> QED  BY Zenon, <1>4, <2>4, <2>8, SetWorker
  <2>10. CASE w[b].local.started
    <3>1. w'[b] = wr  BY <2>9, <2>10
    <3>2. w'[b].draft = [w[b].local EXCEPT !.started = FALSE]  BY Zenon, <2>7, <3>1 DEF d
    <3> QED  BY <2>6, <2>7, <2>9, <3>1, <3>2 DEF ps, cs
  <2>11. CASE ~w[b].local.started  BY <2>6, <2>9, <2>11 DEF ps, cs
  <2> QED  BY <2>10, <2>11
<1>7. w'[b].pc = "write" => DraftInv(b)'
  <2>1. SUFFICES ASSUME w'[b].pc = "write" PROVE DraftInv(b)'  OBVIOUS
  <2> DEFINE u == [w[b].local EXCEPT !.started = FALSE]
  <2>2. /\ u \in Object /\ u.del = w[b].local.del /\ u.gen = w[b].local.gen
        /\ u.recGen = w[b].local.recGen /\ u.conds = w[b].local.conds
    BY Zenon, <1>5, StartedTyped
  <2>3. w'[b].next = "sync" /\ w'[b].draft = u  BY <1>6, <2>1
  <2> HIDE DEF u
  <2>4. Sound(u) /\ u # None /\ (ReadyIs(u, "True") => ReadyIs(w[b].local, "True"))
    BY <1>5, <2>2, NoneApart DEF Sound, ReadyIs
  <2> QED  BY <1>1, <1>6, <2>2, <2>3, <2>4 DEF DraftInv
<1>8. OthersKept(b) /\ Forward(b)  BY <1>1, <1>6, StillObjects
<1>9. ObjTyped'
  <2>1. fetched' \in [Brokers -> 0..MaxClock]  BY <1>1 DEF ObjTyped
  <2> QED  BY <1>1, <1>3, <1>6, <2>1 DEF ObjTyped, objectVars
<1>10. Advances(b)
  <2>1. w'[b].got # None => w'[b].got \in Catalogs[b]  BY <1>6
  <2>2. w'[b].pc \in {"sync", "write"}  BY <1>6
  <2> QED  BY <1>1, <1>6, <1>7, <2>1, <2>2, QuietInv
<1>11. Moves(b)
  <2>1. Quiet  BY DEF FetchOK, Quiet, historyVars
  <2>2. Fetches(b)  BY <1>1, <1>6, <2>1 DEF Fetches
  <2> QED  BY <1>6, <2>2 DEF Moves
<1> QED  BY <1>8, <1>9, <1>10, <1>11 DEF StepOK

\* The catalog can not be used.
LEMMA StepCatalogUseless ==
    ASSUME ObjTyped, NEW b \in Brokers, PerBroker(b), CatalogUseless(b)
    PROVE  StepOK(b)
<1>1. faults' \in 0..MaxFaults  BY DEF CatalogUseless, bounds, ObjTyped
<1>2. Quiet  BY DEF CatalogUseless, Quiet, historyVars
<1> QED  BY Zenon, <1>1, <1>2, RestMoves, ComplainStep DEF CatalogUseless, Complain, Texts, historyVars, ObjTyped, bounds

\* A plan is written; the broker's object is left alone.
LEMMA StepReconcileServicePlan ==
    ASSUME ObjTyped, NEW b \in Brokers, PerBroker(b), ReconcileServicePlan(b)
    PROVE  StepOK(b)
<1>1. PICK p \in w[b].plans :
             /\ StorePlan(p, PlanSent(b, p))
             /\ \/ w' = [w EXCEPT ![b].plans = @ \ {p}] /\ UNCHANGED faults
                \/ Fault("api") /\ Complain(b, "False", "sync")
  BY Zenon DEF ReconcileServicePlan
<1>2. faults' \in 0..MaxFaults  BY <1>1, FaultTyped DEF ObjTyped
<1>5. UNCHANGED <<classVars, made>> /\ w[b].pc = "sync"  BY DEF ReconcileServicePlan, historyVars
<1>3. CASE w' = [w EXCEPT ![b].plans = @ \ {p}]
  <2>1. WorkersTyped  BY DEF ObjTyped
  <2>2. w[b].plans \ {p} \in SUBSET Plans  BY Zenon, <2>1 DEF WorkersTyped, WorkerState
  <2>3. w' = [w EXCEPT ![b].plans = w[b].plans \ {p}]  BY <1>3
  <2>4. /\ WorkersTyped' /\ OthersIdle(b) /\ RestKept(b) /\ w'[b].pc = w[b].pc
        /\ w'[b].plans = w[b].plans \ {p} /\ w'[b].classes = w[b].classes
    BY Zenon, <2>1, <2>2, <2>3, PlansShape
  <2>5. Moves(b)  BY <1>1, <1>5, <2>4 DEF RestKept, Moves, PutsPlan
  <2> QED  BY Zenon, <1>2, <2>4, <2>5, LoopStep DEF ReconcileServicePlan, historyVars, ObjTyped
<1>4. CASE Complain(b, "False", "sync")
  <2>1. OthersIdle(b) /\ w'[b].pc = "write" /\ w'[b].next = "err" => Moves(b)
    BY <1>1, <1>5 DEF Moves, PutsPlan, Inactive
  <2> QED
    BY Zenon, <1>2, <1>4, <2>1, ComplainStep DEF ReconcileServicePlan, Complain, Texts, historyVars, ObjTyped
<1> QED  BY <1>1, <1>3, <1>4

\* A class is written; the broker's object is left alone.
LEMMA StepReconcileServiceClass ==
    ASSUME ObjTyped, NEW b \in Brokers, PerBroker(b), ReconcileServiceClass(b)
    PROVE  StepOK(b)
<1>1. PICK c \in w[b].classes :
             /\ ClassAccepted(b, c) /\ StoreClass(c, ClassSent(b, c))
             /\ made' = [made EXCEPT ![b] = @ \cup {c}]
             /\ \/ w' = [w EXCEPT ![b].classes = @ \ {c}] /\ UNCHANGED faults
                \/ Fault("api") /\ Complain(b, "False", "sync")
  BY Zenon DEF ReconcileServiceClass
<1>2. faults' \in 0..MaxFaults  BY <1>1, FaultTyped DEF ObjTyped
<1>3. WorkersTyped  BY DEF ObjTyped
<1>4. w[b].classes \in SUBSET Classes  BY Zenon, <1>3 DEF WorkersTyped, WorkerState
<1>5. made' \in [Brokers -> SUBSET Classes]  BY <1>1, <1>4 DEF ObjTyped
<1>6. UNCHANGED planVars /\ ClassesNext(b) /\ w[b].pc = "sync"  BY Zenon DEF ReconcileServiceClass, ClassesNext
<1>7. CASE w' = [w EXCEPT ![b].classes = @ \ {c}]
  <2>1. w' = [w EXCEPT ![b].classes = w[b].classes \ {c}]  BY <1>7
  <2>2. w[b].classes \ {c} \in SUBSET Classes  BY <1>4
  <2>3. /\ WorkersTyped' /\ OthersIdle(b) /\ RestKept(b) /\ w'[b].pc = w[b].pc
        /\ w'[b].plans = w[b].plans /\ w'[b].classes = w[b].classes \ {c}
    <3> DEFINE v == [w[b] EXCEPT !.classes = w[b].classes \ {c}]
    <3>1. w[b] \in WorkerState  BY <1>3 DEF WorkersTyped
    <3>2. v \in WorkerState  BY Zenon, <2>2, <3>1 DEF WorkerState
    <3>3. w' = [w EXCEPT ![b] = v]  BY <1>3, <2>1 DEF WorkersTyped
    <3>4. /\ v.pc = w[b].pc /\ v.draft = w[b].draft /\ v.next = w[b].next
          /\ v.local = w[b].local /\ v.fresh = w[b].fresh /\ v.got = w[b].got
          /\ v.plans = w[b].plans /\ v.classes = w[b].classes \ {c} /\ v.current = w[b].current
      BY Zenon, <3>1 DEF WorkerState
    <3> HIDE DEF v
    <3> QED  BY Zenon, <1>3, <3>2, <3>3, <3>4, SetWorker DEF RestKept
  <2>4. Moves(b)  BY Zenon, <1>1, <1>6, <2>3 DEF RestKept, Moves, PutsClass
  <2> QED  BY Zenon, <1>2, <1>5, <1>6, <2>3, <2>4, LoopStep DEF ReconcileServiceClass, ObjTyped
<1>8. CASE Complain(b, "False", "sync")
  <2>1. OthersIdle(b) /\ w'[b].pc = "write" /\ w'[b].next = "err" => Moves(b)
    BY Zenon, <1>1, <1>6 DEF Moves, PutsClass, Inactive
  <2> QED
    BY Zenon, <1>2, <1>5, <1>6, <1>8, <2>1, ComplainStep DEF ReconcileServiceClass, Complain, Texts, ObjTyped
<1> QED  BY <1>1, <1>7, <1>8

\* A plan or a class is refused.
LEMMA StepSyncFails ==
    ASSUME ObjTyped, NEW b \in Brokers, PerBroker(b), SyncFails(b)
    PROVE  StepOK(b)
<1>1. faults' \in 0..MaxFaults  BY FaultTyped DEF SyncFails, ObjTyped
<1>2. Quiet  BY DEF SyncFails, Quiet, historyVars
<1> QED  BY Zenon, <1>1, <1>2, RestMoves, ComplainStep DEF SyncFails, Complain, Texts, historyVars, ObjTyped

\* The whole catalog is written and Ready is drafted.
LEMMA StepSyncDone ==
    ASSUME ObjTyped, NEW b \in Brokers, PerBroker(b), SyncDone(b)
    PROVE  StepOK(b)
<1>1. /\ UNCHANGED <<objectVars, cached, queued, bounds, listed, fetched, made, gaveUp>>
      /\ w[b].pc = "sync" /\ w[b].got # None /\ ~w[b].local.del
      /\ Write(b, UpdateCondition(w[b].local, "Ready", "True", "ok"), "ok")
  BY DEF SyncDone, ClassesNext, historyVars, PerBroker, WorkerInv
<1>2. WorkersTyped /\ clock \in 0..MaxClock  BY DEF ObjTyped
<1>3. w[b].local \in Object /\ Sound(w[b].local)  BY <1>1, <1>2, LocalTyped
<1> DEFINE u == UpdateCondition(w[b].local, "Ready", "True", "ok")
<1>4. /\ u \in Object /\ u # None /\ Sound(u) /\ u.del = w[b].local.del /\ u.gen = w[b].local.gen
      /\ u.recGen = w[b].local.gen /\ ReadyIs(u, "True")
  <2>1. "True" \in {"True", "False", "Unknown"} /\ "ok" \in Texts  BY DEF Texts
  <2> QED  BY <1>2, <1>3, <2>1, ReadyTyped
<1> HIDE DEF u
<1>5. Write(b, u, "ok") /\ "ok" \in Results  BY <1>1 DEF u, Results
<1>6. WorkersTyped' /\ OthersIdle(b)
           /\ w'[b].pc = "write" /\ w'[b].draft = u /\ w'[b].next = "ok" /\ RestKept(b)
           /\ w'[b].plans = w[b].plans /\ w'[b].classes = w[b].classes /\ w'[b].current = w[b].current
  BY <1>2, <1>4, <1>5, WriteShape
<1>7. DraftInv(b)'  BY <1>1, <1>4, <1>6 DEF DraftInv, RestKept
<1>8. OthersKept(b) /\ Forward(b)  BY <1>1, <1>6, StillObjects
<1>9. ObjTyped'  BY <1>1, <1>6 DEF ObjTyped, objectVars, bounds
<1>10. Advances(b)
  BY Zenon, <1>1, <1>6, <1>7, QuietInv DEF RestKept, PerBroker, WorkerInv
<1>11. Moves(b)
  <2>1. Quiet /\ ClassesNext(b) /\ w[b].classes = {}  BY DEF SyncDone, Quiet, historyVars
  <2> QED  BY <1>6, <2>1 DEF Moves, Finishes, SameLoop, RestKept
<1> QED  BY <1>8, <1>9, <1>10, <1>11 DEF StepOK

\* The plans to delete are listed.
LEMMA StepListPlans ==
    ASSUME ObjTyped, NEW b \in Brokers, PerBroker(b), ListPlans(b)
    PROVE  StepOK(b)
<1>1. PICK c \in w[b].classes :
          w' = [w EXCEPT ![b].current = c,
                   ![b].plans = {p \in Plans : seenPlans[p] # None /\ seenPlans[p].class = c}]
  BY DEF ListPlans
<1>2. WorkersTyped  BY DEF ObjTyped
<1>3. c \in Classes  BY Zenon, <1>2 DEF WorkersTyped, WorkerState
<1> DEFINE ps == {p \in Plans : seenPlans[p] # None /\ seenPlans[p].class = c}
<1>4. ps \in SUBSET Plans  OBVIOUS
<1> HIDE DEF ps
<1>5. w' = [w EXCEPT ![b].current = c, ![b].plans = ps]  BY <1>1 DEF ps
<1>6. /\ WorkersTyped' /\ OthersIdle(b) /\ RestKept(b) /\ w'[b].pc = w[b].pc
      /\ w'[b].plans = ps /\ w'[b].classes = w[b].classes /\ w'[b].current = c
  <2> DEFINE v == [w[b] EXCEPT !.current = c, !.plans = ps]
  <2>1. w[b] \in WorkerState  BY <1>2 DEF WorkersTyped
  <2>2. v \in WorkerState  BY Zenon, <1>3, <1>4, <2>1 DEF WorkerState
  <2>3. w' = [w EXCEPT ![b] = v]  BY Zenon, <1>2, <1>5 DEF WorkersTyped
  <2>4. /\ v.pc = w[b].pc /\ v.draft = w[b].draft /\ v.next = w[b].next
        /\ v.local = w[b].local /\ v.fresh = w[b].fresh /\ v.got = w[b].got
        /\ v.plans = ps /\ v.classes = w[b].classes /\ v.current = c
    BY Zenon, <2>1 DEF WorkerState
  <2> HIDE DEF v
  <2> QED  BY Zenon, <1>2, <2>2, <2>3, <2>4, SetWorker DEF RestKept
<1>7. Moves(b)
  <2>1. Quiet /\ w[b].pc = "delete"  BY DEF ListPlans, Quiet, historyVars
  <2> QED  BY <1>6, <2>1 DEF Moves, Lists, ps
<1> QED  BY Zenon, <1>6, <1>7, LoopStep DEF ListPlans, historyVars, bounds, ObjTyped

\* A plan is deleted.
LEMMA StepDeletePlan ==
    ASSUME ObjTyped, NEW b \in Brokers, PerBroker(b), DeletePlan(b)
    PROVE  StepOK(b)
<1>1. PICK p \in w[b].plans : StorePlan(p, None) /\ w' = [w EXCEPT ![b].plans = @ \ {p}]
  BY Zenon DEF DeletePlan
<1>2. WorkersTyped  BY DEF ObjTyped
<1>3. w[b].plans \ {p} \in SUBSET Plans  BY Zenon, <1>2 DEF WorkersTyped, WorkerState
<1>4. w' = [w EXCEPT ![b].plans = w[b].plans \ {p}]  BY <1>1
<1>5. /\ WorkersTyped' /\ OthersIdle(b) /\ RestKept(b) /\ w'[b].pc = w[b].pc
      /\ w'[b].plans = w[b].plans \ {p} /\ w'[b].classes = w[b].classes /\ w'[b].current = w[b].current
  BY Zenon, <1>2, <1>3, <1>4, PlansShape
<1>6. Moves(b)
  <2>1. UNCHANGED <<classVars, made>> /\ w[b].pc = "delete"  BY DEF DeletePlan, historyVars
  <2> QED  BY <1>1, <1>5, <2>1 DEF Moves, DropsPlan
<1> QED  BY Zenon, <1>5, <1>6, LoopStep DEF DeletePlan, historyVars, bounds, ObjTyped

\* A class is deleted.
LEMMA StepDeleteClass ==
    ASSUME ObjTyped, NEW b \in Brokers, PerBroker(b), DeleteClass(b)
    PROVE  StepOK(b)
<1>1. w' = [w EXCEPT ![b].current = None, ![b].classes = w[b].classes \ {w[b].current}]
  BY DEF DeleteClass
<1>2. WorkersTyped  BY DEF ObjTyped
<1>3. w[b].classes \ {w[b].current} \in SUBSET Classes  BY Zenon, <1>2 DEF WorkersTyped, WorkerState
<1>4. /\ WorkersTyped' /\ OthersIdle(b) /\ RestKept(b) /\ w'[b].pc = w[b].pc
      /\ w'[b].plans = w[b].plans /\ w'[b].current = None
      /\ w'[b].classes = w[b].classes \ {w[b].current}
  <2> DEFINE v == [w[b] EXCEPT !.current = None, !.classes = w[b].classes \ {w[b].current}]
  <2>1. w[b] \in WorkerState  BY <1>2 DEF WorkersTyped
  <2>2. v \in WorkerState  BY Zenon, <1>3, <2>1 DEF WorkerState
  <2>3. w' = [w EXCEPT ![b] = v]  BY Zenon, <1>2, <1>1 DEF WorkersTyped
  <2>4. /\ v.pc = w[b].pc /\ v.draft = w[b].draft /\ v.next = w[b].next
        /\ v.local = w[b].local /\ v.fresh = w[b].fresh /\ v.got = w[b].got
        /\ v.plans = w[b].plans /\ v.classes = w[b].classes \ {w[b].current} /\ v.current = None
    BY Zenon, <2>1 DEF WorkerState
  <2> HIDE DEF v
  <2> QED  BY Zenon, <1>2, <2>2, <2>3, <2>4, SetWorker DEF RestKept
<1>5. Moves(b)
  <2>1. /\ UNCHANGED <<planVars, made>> /\ w[b].pc = "delete"
        /\ w[b].current # None /\ w[b].plans = {} /\ StoreClass(w[b].current, None)
    BY DEF DeleteClass, historyVars
  <2> QED  BY Zenon, <1>4, <2>1 DEF Moves, DropsClass
<1> QED  BY Zenon, <1>4, <1>5, LoopStep DEF DeleteClass, historyVars, bounds, ObjTyped

\* A deletion fails.
LEMMA StepDeleteFails ==
    ASSUME ObjTyped, NEW b \in Brokers, PerBroker(b), DeleteFails(b)
    PROVE  StepOK(b)
<1>1. faults' \in 0..MaxFaults  BY FaultTyped DEF DeleteFails, ObjTyped
<1>2. Quiet  BY DEF DeleteFails, Quiet, historyVars
<1> QED  BY Zenon, <1>1, <1>2, RestMoves, ComplainStep DEF DeleteFails, Complain, Texts, historyVars, ObjTyped

\* All listed classes are deleted.
LEMMA StepDeleteDone ==
    ASSUME ObjTyped, NEW b \in Brokers, PerBroker(b), DeleteDone(b)
    PROVE  StepOK(b)
<1>1. w[b].local.del  BY Zenon DEF DeleteDone, PerBroker, WorkerInv
<1>2. Quiet /\ w[b].pc = "delete" /\ w[b].classes = {}  BY DEF DeleteDone, Quiet, historyVars
<1>3. OthersIdle(b) /\ w'[b].pc = "write" /\ w'[b].next = "finalize" => Moves(b)
  BY <1>2 DEF Moves, Clears
<1> QED  BY Zenon, <1>1, <1>3, ComplainStep DEF DeleteDone, Texts, historyVars, bounds, ObjTyped

-----------------------------------------------------------------------------
(* The steps that store a broker.                                          *)

\* What the API server does with a write it accepts.
LEMMA StoreShape ==
    ASSUME ObjTyped, NEW b \in Brokers, NEW o \in Object \cup {None}, Store(b, o)
    PROVE  /\ api' \in [Brokers -> Object \cup {None}] /\ watch' \in [Brokers -> Seq(Object \cup {None})]
           /\ \A x \in Brokers : Len(watch'[x]) <= MaxLag
           /\ api'[b] = o
           /\ \A x \in Brokers : x # b => api'[x] = api[x] /\ watch'[x] = watch[x]
           /\ IF o = api[b] THEN watch'[b] = watch[b] ELSE watch'[b] = Append(watch[b], o)
<1>1. api' = [api EXCEPT ![b] = o]  BY DEF Store
<1>2. CASE o = api[b]  BY <1>1, <1>2 DEF Store, ObjTyped
<1>3. CASE o # api[b]
  <2>1. Len(watch[b]) < MaxLag /\ watch' = [watch EXCEPT ![b] = Append(watch[b], o)]
    BY <1>3 DEF Store
  <2>2. watch[b] \in Seq(Object \cup {None})  BY DEF ObjTyped
  <2>3. Append(watch[b], o) \in Seq(Object \cup {None}) /\ Len(Append(watch[b], o)) = Len(watch[b]) + 1
    BY <2>2
  <2>4. MaxLag \in Nat /\ Len(watch[b]) \in Nat  BY <2>2, BoundsTyped
  <2>5. watch' \in [Brokers -> Seq(Object \cup {None})]  BY <2>1, <2>3 DEF ObjTyped
  <2>6. watch'[b] = Append(watch[b], o) /\ \A x \in Brokers : x # b => watch'[x] = watch[x]
    BY <2>1 DEF ObjTyped
  <2>7. Len(watch'[b]) <= MaxLag  BY <2>1, <2>3, <2>4, <2>6
  <2>8. \A x \in Brokers : Len(watch'[x]) <= MaxLag  BY Zenon, <2>6, <2>7 DEF ObjTyped
  <2> QED  BY Zenon, <1>1, <1>3, <2>5, <2>6, <2>8 DEF ObjTyped
<1> QED  BY <1>2, <1>3

\* The last event on the way is the stored version.
LEMMA LastIsApi ==
    ASSUME ObjTyped, NEW b \in Brokers, VersionsInv(b), watch[b] # <<>>
    PROVE  Len(watch[b]) \in 1..Len(watch[b]) /\ watch[b][Len(watch[b])] = api[b]
<1>1. watch[b] \in Seq(Object \cup {None})  BY DEF ObjTyped
<1> QED  BY <1>1 DEF VersionsInv

\* A write that does not bring a deleted broker back keeps the order of versions.
LEMMA StoreVersions ==
    ASSUME ObjTyped, NEW b \in Brokers, VersionsInv(b), NEW o \in Object \cup {None}, Store(b, o),
           cached' = cached, o # None => Sound(o), Dead(api[b]) => Dead(o)
    PROVE  VersionsInv(b)' /\ (Twilight(b) => Twilight(b)')
<1>1. /\ api'[b] = o
      /\ IF o = api[b] THEN watch'[b] = watch[b] ELSE watch'[b] = Append(watch[b], o)
  BY StoreShape
<1>2. CASE o = api[b]  BY <1>1, <1>2 DEF VersionsInv, Twilight
<1>3. CASE o # api[b]
  <2> DEFINE s == watch[b]
             t == watch'[b]
             n == Len(s)
  <2>1. s \in Seq(Object \cup {None}) /\ n \in Nat  BY DEF ObjTyped
  <2>2. Len(t) = n + 1 /\ t[n + 1] = o /\ \A i \in 1..n : t[i] = s[i]  BY <1>1, <1>3, <2>1
  <2>3. t # <<>>  BY <2>1, <2>2
  <2>4. \A i \in 1..n : Dead(s[i]) => Dead(o)
    <3>1. SUFFICES ASSUME NEW i \in 1..n, Dead(s[i]) PROVE Dead(o)  OBVIOUS
    <3>2. s # <<>>  BY <2>1
    <3>3. n \in 1..n /\ s[n] = api[b]  BY <3>2, LastIsApi
    <3>4. i <= n  BY <2>1
    <3>5. Dead(s[n])  BY <3>1, <3>3, <3>4 DEF VersionsInv
    <3> QED  BY <3>3, <3>5
  <2>5. cached[b] # None /\ cached[b].del => Dead(o)
    <3>1. SUFFICES ASSUME cached[b] # None, cached[b].del PROVE Dead(o)  OBVIOUS
    <3>2. CASE s = <<>>  BY <3>1, <3>2 DEF VersionsInv, Dead
    <3>3. CASE s # <<>>  BY <2>4, <3>1, <3>3, LastIsApi DEF VersionsInv
    <3> QED  BY <3>2, <3>3
  <2> HIDE DEF s, t, n
  <2>6. \A i \in 1..(n + 1) : i = n + 1 \/ i \in 1..n  BY <2>1
  <2>7. \A i \in 1..(n + 1) : t[i] # None => Sound(t[i])  BY <2>2, <2>6 DEF VersionsInv, s, n
  <2>8. ASSUME NEW i \in 1..(n + 1), NEW j \in 1..(n + 1), i <= j, Dead(t[i])
        PROVE  Dead(t[j])
    <3>1. CASE j = n + 1
      <4>1. CASE i = n + 1  BY <2>8, <3>1, <4>1
      <4>2. CASE i \in 1..n  BY <2>2, <2>4, <2>8, <3>1, <4>2
      <4> QED  BY <2>6, <4>1, <4>2
    <3>2. CASE j \in 1..n
      <4>1. i \in 1..n  BY <2>1, <2>8, <3>2
      <4> QED  BY <2>2, <2>8, <3>2, <4>1 DEF VersionsInv, s, n
    <3> QED  BY <2>6, <3>1, <3>2
  <2>9. cached[b] # None /\ cached[b].del => \A i \in 1..(n + 1) : Dead(t[i])
    BY <2>2, <2>5, <2>6 DEF VersionsInv, s, n
  <2>10. VersionsInv(b)'
    BY Zenon, <1>1, <2>2, <2>3, <2>7, <2>8, <2>9 DEF VersionsInv, t
  <2>11. Twilight(b) => Twilight(b)'
    BY Zenon, <1>1, <2>2, <2>6 DEF Twilight, s, t, n
  <2> QED  BY <2>10, <2>11
<1> QED  BY <1>2, <1>3

\* A draft that is accepted replaces the very version the worker has a copy of.
LEMMA CommitShape ==
    ASSUME ObjTyped, NEW b \in Brokers, PerBroker(b), Accepted(b), CommitDraft(b)
    PROVE  /\ api' \in [Brokers -> Object \cup {None}] /\ watch' \in [Brokers -> Seq(Object \cup {None})]
           /\ \A x \in Brokers : Len(watch'[x]) <= MaxLag
           /\ \A x \in Brokers : x # b => api'[x] = api[x] /\ watch'[x] = watch[x]
           /\ listed' \in [Brokers -> Listing \cup {None}] /\ gaveUp' \in [Brokers -> 0..(MaxGen + 1)]
           /\ \A x \in Brokers : x # b => listed'[x] = listed[x] /\ gaveUp'[x] = gaveUp[x]
           /\ api[b] = w[b].local /\ api'[b] = w[b].draft /\ api'[b] # None
           /\ VersionsInv(b)' /\ (Twilight(b) => Twilight(b)') /\ RecOK(b)' /\ Forward(b)
<1> DEFINE d == w[b].draft
           o == w[b].local
<1>1. /\ w[b].pc = "write" /\ w[b].fresh /\ DraftInv(b) /\ api[b] = o /\ o # None /\ Sound(o)
      /\ VersionsInv(b) /\ (w[b].got # None => w[b].got \in Catalogs[b]) /\ RecOK(b)
  BY Zenon DEF Accepted, PerBroker, WorkerInv
<1>2. w[b] \in WorkerState  BY DEF ObjTyped, WorkersTyped
<1>3. d \in Object /\ o \in Object /\ d # None  BY Zenon, <1>1, <1>2 DEF WorkerState, DraftInv
<1>4. Sound(d) /\ (Dead(api[b]) => Dead(d))  BY Zenon, <1>1 DEF DraftInv, Dead
<1>5. Store(b, d) /\ cached' = cached  BY DEF CommitDraft
<1>6. VersionsInv(b)' /\ (Twilight(b) => Twilight(b)')  BY Zenon, <1>1, <1>3, <1>4, <1>5, StoreVersions
<1>7. /\ api' \in [Brokers -> Object \cup {None}] /\ watch' \in [Brokers -> Seq(Object \cup {None})]
      /\ \A x \in Brokers : Len(watch'[x]) <= MaxLag
      /\ \A x \in Brokers : x # b => api'[x] = api[x] /\ watch'[x] = watch[x]
      /\ api'[b] = d
  BY <1>3, <1>5, StoreShape
<1>8. o.gen \in 1..(MaxGen + 1) /\ o.gen \in 0..(MaxGen + 1) /\ o.gen \in Nat /\ o.recGen \in Nat
  BY <1>3, ObjectNumbers
<1>9. /\ listed' \in [Brokers -> Listing \cup {None}]
      /\ \A x \in Brokers : x # b => listed'[x] = listed[x]
      /\ w[b].next = "ok" => listed'[b] # None /\ listed'[b].gen = o.gen
      /\ w[b].next # "ok" => listed' = listed
  <2>1. CASE w[b].next = "ok"
    <3> DEFINE l == [cat |-> w[b].got, gen |-> o.gen]
    <3>1. ReadyIs(d, "True") /\ w[b].got \in Catalogs[b]  BY Zenon, <1>1, <2>1 DEF DraftInv
    <3>2. listed' = [listed EXCEPT ![b] = l]  BY Zenon, <2>1, <3>1 DEF CommitDraft
    <3>3. w[b].got \in AllCatalogs  BY <3>1, CatalogTyped
    <3>4. l \in Listing /\ l.gen = o.gen  BY <1>8, <3>3 DEF Listing
    <3>5. l # None  BY <3>4, NoneApart
    <3> HIDE DEF l
    <3> QED  BY <2>1, <3>2, <3>4, <3>5 DEF ObjTyped
  <2>2. CASE w[b].next # "ok"
    <3>1. listed' = listed  BY Zenon, <2>2 DEF CommitDraft
    <3> QED  BY <2>2, <3>1 DEF ObjTyped
  <2> QED  BY <2>1, <2>2
<1>10. /\ gaveUp' \in [Brokers -> 0..(MaxGen + 1)]
       /\ \A x \in Brokers : x # b => gaveUp'[x] = gaveUp[x]
       /\ w[b].next = "stop" => gaveUp'[b] = o.gen
       /\ w[b].next # "stop" => gaveUp' = gaveUp
  BY Zenon, <1>8 DEF CommitDraft, ObjTyped
<1>11. d.gen = o.gen /\ d.del = o.del
       /\ d.recGen = IF w[b].next \in {"ok", "stop"} THEN o.gen ELSE o.recGen
  BY Zenon, <1>1 DEF DraftInv
<1>12. RecOK(b)'
  <2>1. CASE w[b].next = "ok"  BY <1>7, <1>9, <1>11, <2>1 DEF RecOK
  <2>2. CASE w[b].next = "stop"  BY <1>7, <1>10, <1>11, <2>2 DEF RecOK
  <2>3. CASE w[b].next \notin {"ok", "stop"}
    <3>1. listed' = listed /\ gaveUp' = gaveUp /\ d.recGen = o.recGen  BY <1>9, <1>10, <1>11, <2>3
    <3> QED  BY Zenon, <1>1, <1>3, <1>7, <3>1 DEF RecOK
  <2> QED  BY <2>1, <2>2, <2>3
<1>13. Forward(b)
  <2>0. o.recGen <= o.gen  BY Zenon, <1>1 DEF Sound
  <2>1. d.recGen >= o.recGen /\ d.gen >= o.gen  BY <1>8, <1>11, <2>0
  <2> QED  BY Zenon, <1>1, <1>7, <1>11, <2>1 DEF Forward
<1> QED  BY Zenon, <1>1, <1>3, <1>6, <1>7, <1>9, <1>10, <1>12, <1>13

\* A write of the status fails, stored or not.
LEMMA StepWriteFails ==
    ASSUME ObjTyped, NEW b \in Brokers, PerBroker(b), WriteFails(b)
    PROVE  StepOK(b)
<1>1. w[b].pc = "write" /\ Return(b, "err")  BY Zenon DEF WriteFails
<1>2. /\ WorkersTyped' /\ w'[b] = Idle /\ OthersIdle(b) /\ queued' \in [Brokers -> BOOLEAN]
  BY <1>1, ReturnShape DEF ObjTyped
<1>5. Moves(b)
  <2>1. Quiet  BY Zenon DEF WriteFails, CommitDraft, Quiet, historyVars
  <2>2. w'[b].pc = "idle"  BY <1>2 DEF Idle
  <2> QED  BY Zenon, <1>2, <2>1, <2>2 DEF Moves, Rests, Inactive
<1>3. CASE /\ IF Accepted(b) THEN Fault("api") ELSE UNCHANGED faults
           /\ UNCHANGED <<objectVars, cached, classVars, planVars, clock, crashes, historyVars>>
  <2>1. api' = api /\ watch' = watch /\ cached' = cached /\ listed' = listed /\ gaveUp' = gaveUp
        /\ clock' = clock /\ crashes' = crashes /\ fetched' = fetched /\ made' = made
    BY <1>3 DEF objectVars, historyVars
  <2>2. OthersKept(b) /\ Forward(b)  BY <1>2, <2>1, StillObjects DEF objectVars
  <2>3. faults' \in 0..MaxFaults  BY <1>3, FaultTyped DEF ObjTyped
  <2>4. ObjTyped'  BY <1>2, <2>1, <2>3 DEF ObjTyped
  <2>5. VersionsInv(b)' /\ RecOK(b)' /\ (api'[b] = None => Twilight(b)')
    BY Zenon, <2>1 DEF PerBroker, VersionsInv, RecOK, Gone, Sunset, Twilight
  <2>6. Twilight(b) => Twilight(b)'  BY <2>1 DEF Twilight
  <2>7. Advances(b)  BY Zenon, <1>2, <2>5, <2>6, IdleInv
  <2> QED  BY <1>5, <2>2, <2>4, <2>7 DEF StepOK
<1>4. CASE Accepted(b) /\ Fault("api") /\ CommitDraft(b)
  <2>1. cached' = cached /\ clock' = clock /\ crashes' = crashes /\ fetched' = fetched /\ made' = made
    BY Zenon, <1>4 DEF CommitDraft
  <2>2. faults' \in 0..MaxFaults  BY <1>4, FaultTyped DEF ObjTyped
  <2>3. /\ api' \in [Brokers -> Object \cup {None}] /\ watch' \in [Brokers -> Seq(Object \cup {None})]
        /\ \A x \in Brokers : Len(watch'[x]) <= MaxLag
        /\ \A x \in Brokers : x # b => api'[x] = api[x] /\ watch'[x] = watch[x]
        /\ listed' \in [Brokers -> Listing \cup {None}] /\ gaveUp' \in [Brokers -> 0..(MaxGen + 1)]
        /\ \A x \in Brokers : x # b => listed'[x] = listed[x] /\ gaveUp'[x] = gaveUp[x]
        /\ api'[b] # None /\ VersionsInv(b)' /\ (Twilight(b) => Twilight(b)') /\ RecOK(b)' /\ Forward(b)
    BY Zenon, <1>4, CommitShape
  <2>4. ObjTyped'  BY <1>2, <2>1, <2>2, <2>3 DEF ObjTyped
  <2>5. OthersKept(b)  BY <1>2, <2>1, <2>3 DEF OthersKept, OthersIdle
  <2>6. Advances(b)  BY Zenon, <1>2, <2>3, IdleInv
  <2> QED  BY <1>5, <2>3, <2>4, <2>5, <2>6 DEF StepOK
<1> QED  BY Zenon, <1>3, <1>4 DEF WriteFails

\* The last write of a reconciliation.
LEMMA StepWriteReturns ==
    ASSUME ObjTyped, NEW b \in Brokers, PerBroker(b), WriteReturns(b)
    PROVE  StepOK(b)
<1>1. Accepted(b) /\ CommitDraft(b) /\ faults' = faults
      /\ Return(b, IF w[b].next = "err" THEN "err" ELSE "ok")
  BY DEF WriteReturns
<1>2. /\ WorkersTyped' /\ w'[b] = Idle /\ OthersIdle(b) /\ queued' \in [Brokers -> BOOLEAN]
  BY <1>1, ReturnShape DEF ObjTyped
<1>3. cached' = cached /\ clock' = clock /\ crashes' = crashes /\ fetched' = fetched /\ made' = made
  BY <1>1 DEF CommitDraft
<1>4. /\ api' \in [Brokers -> Object \cup {None}] /\ watch' \in [Brokers -> Seq(Object \cup {None})]
      /\ \A x \in Brokers : Len(watch'[x]) <= MaxLag
      /\ \A x \in Brokers : x # b => api'[x] = api[x] /\ watch'[x] = watch[x]
      /\ listed' \in [Brokers -> Listing \cup {None}] /\ gaveUp' \in [Brokers -> 0..(MaxGen + 1)]
      /\ \A x \in Brokers : x # b => listed'[x] = listed[x] /\ gaveUp'[x] = gaveUp[x]
      /\ api'[b] # None /\ VersionsInv(b)' /\ (Twilight(b) => Twilight(b)') /\ RecOK(b)' /\ Forward(b)
  BY Zenon, <1>1, CommitShape
<1>5. ObjTyped'  BY Zenon, <1>1, <1>2, <1>3, <1>4 DEF ObjTyped
<1>6. OthersKept(b)  BY <1>2, <1>3, <1>4 DEF OthersKept, OthersIdle
<1>7. Advances(b)  BY Zenon, <1>2, <1>4, IdleInv
<1>8. Moves(b)
  <2>1. Quiet  BY Zenon DEF WriteReturns, CommitDraft, Quiet, historyVars
  <2>2. w'[b].pc = "idle"  BY <1>2 DEF Idle
  <2> QED  BY <1>2, <2>1, <2>2 DEF Moves, Rests, Inactive
<1> QED  BY <1>4, <1>5, <1>6, <1>7, <1>8 DEF StepOK

\* A write that another step follows.
LEMMA StepWriteContinues ==
    ASSUME ObjTyped, NEW b \in Brokers, PerBroker(b), WriteContinues(b)
    PROVE  StepOK(b)
<1>1. Accepted(b) /\ CommitDraft(b) /\ faults' = faults /\ queued' = queued
      /\ w[b].next \notin {"ok", "err", "stop"}
  BY Zenon DEF WriteContinues
<1>2. cached' = cached /\ clock' = clock /\ crashes' = crashes /\ fetched' = fetched /\ made' = made
  BY Zenon, <1>1 DEF CommitDraft
<1>3. /\ api' \in [Brokers -> Object \cup {None}] /\ watch' \in [Brokers -> Seq(Object \cup {None})]
      /\ \A x \in Brokers : Len(watch'[x]) <= MaxLag
      /\ \A x \in Brokers : x # b => api'[x] = api[x] /\ watch'[x] = watch[x]
      /\ listed' \in [Brokers -> Listing \cup {None}] /\ gaveUp' \in [Brokers -> 0..(MaxGen + 1)]
      /\ \A x \in Brokers : x # b => listed'[x] = listed[x] /\ gaveUp'[x] = gaveUp[x]
      /\ api[b] = w[b].local /\ api'[b] = w[b].draft /\ api'[b] # None
      /\ VersionsInv(b)' /\ (Twilight(b) => Twilight(b)') /\ RecOK(b)' /\ Forward(b)
  BY Zenon, <1>1, CommitShape
<1>4. WorkersTyped /\ clock \in 0..MaxClock  BY DEF ObjTyped
<1>5. w[b].pc = "write" /\ w[b].fresh /\ DraftInv(b) /\ WorkerInv(b)  BY Zenon, <1>1 DEF Accepted, PerBroker, WorkerInv
<1>6. w[b].local \in Object /\ Sound(w[b].local)  BY <1>4, <1>5, LocalTyped
<1>7. w[b].next \in {"record start", "stop retries", "sync", "finalize"}
  BY Zenon, <1>1, <1>4 DEF WorkersTyped, WorkerState
<1>8. /\ WorkersTyped' /\ OthersIdle(b)
      /\ w'[b].local = w[b].local /\ w'[b].fresh = (w[b].draft = api[b]) /\ w'[b].got = w[b].got
      /\ w'[b].plans = w[b].plans /\ w'[b].classes = w[b].classes /\ w'[b].current = w[b].current
      /\ w[b].next = "record start" =>
           w'[b].pc = "write" /\ w'[b].next = "err" /\ w'[b].draft = [w[b].local EXCEPT !.started = TRUE]
      /\ w[b].next = "stop retries" =>
           w'[b].pc = "write" /\ w'[b].next = "stop" /\ w'[b].draft = Stopped(w[b].local)
      /\ w[b].next \in {"sync", "finalize"} => w'[b].pc = w[b].next
  <2> DEFINE o == w[b].local
             same == w[b].draft = api[b]
             step == [w[b] EXCEPT !.fresh = same, !.draft = None, !.next = "ok"]
             d1 == [o EXCEPT !.started = TRUE]
             d2 == Stopped(o)
             v1 == [step EXCEPT !.pc = "write", !.draft = d1, !.next = "err"]
             v2 == [step EXCEPT !.pc = "write", !.next = "stop", !.draft = d2]
             v3 == [step EXCEPT !.pc = w[b].next]
  <2>1. w[b] \in WorkerState  BY Zenon, <1>4 DEF WorkersTyped
  <2>2. same \in BOOLEAN  BY Zenon
  <2>3. d1 \in Object /\ d2 \in Object  BY Zenon, <1>4, <1>6, StartedTyped, StoppedTyped
  <2>4. w' = [w EXCEPT ![b] = CASE w[b].next = "record start" -> v1
                                [] w[b].next = "stop retries" -> v2 [] OTHER -> v3]
    BY Zenon DEF WriteContinues, Stopped
  <2> HIDE DEF same, d1, d2
  <2>5. step \in WorkerState /\ step.local = w[b].local /\ step.fresh = same /\ step.got = w[b].got
        /\ step.plans = w[b].plans /\ step.classes = w[b].classes /\ step.current = w[b].current
    BY Zenon, <2>1, <2>2 DEF WorkerState
  <2> HIDE DEF step
  <2> DEFINE Kept(v) == v \in WorkerState /\ v.local = w[b].local /\ v.fresh = same /\ v.got = w[b].got
        /\ v.plans = w[b].plans /\ v.classes = w[b].classes /\ v.current = w[b].current
  <2>6. CASE w[b].next = "record start"
    <3>1. w' = [w EXCEPT ![b] = v1]  BY Zenon, <2>4, <2>6
    <3>2. Kept(v1) /\ v1.pc = "write" /\ v1.draft = d1 /\ v1.next = "err"
      BY Zenon, <2>3, <2>5 DEF WorkerState
    <3> HIDE DEF v1
    <3> QED  BY Zenon, <2>6, <3>1, <3>2, <1>4, SetWorker DEF same, d1
  <2>7. CASE w[b].next = "stop retries"
    <3>1. w' = [w EXCEPT ![b] = v2]  BY Zenon, <2>4, <2>7
    <3>2. Kept(v2) /\ v2.pc = "write" /\ v2.draft = d2 /\ v2.next = "stop"
      BY Zenon, <2>3, <2>5 DEF WorkerState
    <3> HIDE DEF v2
    <3> QED  BY Zenon, <2>7, <3>1, <3>2, <1>4, SetWorker DEF same, d2
  <2>8. CASE w[b].next \in {"sync", "finalize"}
    <3>1. w' = [w EXCEPT ![b] = v3]  BY Zenon, <2>4, <2>8
    <3>2. Kept(v3) /\ v3.pc = w[b].next
      BY Zenon, <2>5, <2>8 DEF WorkerState
    <3> HIDE DEF v3
    <3> QED  BY Zenon, <2>8, <3>1, <3>2, <1>4, SetWorker DEF same
  <2> QED  BY Zenon, <1>7, <2>6, <2>7, <2>8
<1>9. ObjTyped'  BY Zenon, <1>1, <1>2, <1>3, <1>8 DEF ObjTyped
<1>10. OthersKept(b)  BY Zenon, <1>2, <1>3, <1>8 DEF OthersKept, OthersIdle
<1>11. w'[b].pc = "write" => DraftInv(b)'
  <2>1. CASE w[b].next = "record start"
    <3> DEFINE u == [w[b].local EXCEPT !.started = TRUE]
    <3>1. /\ u \in Object /\ u.del = w[b].local.del /\ u.gen = w[b].local.gen
          /\ u.recGen = w[b].local.recGen /\ u.conds = w[b].local.conds
      BY Zenon, <1>6, StartedTyped
    <3>2. w'[b].next = "err" /\ w'[b].draft = u  BY Zenon, <1>8, <2>1
    <3> HIDE DEF u
    <3>3. Sound(u) /\ u # None /\ (ReadyIs(u, "True") => ReadyIs(w[b].local, "True"))
      BY <1>6, <3>1, NoneApart DEF Sound, ReadyIs
    <3> QED  BY Zenon, <1>8, <3>1, <3>2, <3>3 DEF DraftInv
  <2>2. CASE w[b].next = "stop retries"
    <3> DEFINE u == Stopped(w[b].local)
               o == w[b].local
    <3>1. /\ u \in Object /\ u.del = o.del /\ u.gen = o.gen /\ u.recGen = o.gen
          /\ o.conds # <<>> => DOMAIN u.conds = DOMAIN o.conds
          /\ \A t \in DOMAIN o.conds : t # "Failed" => u.conds[t].status = o.conds[t].status
          /\ o.conds = <<>> => DOMAIN u.conds = {"Failed"}
      BY <1>4, <1>6, StoppedTyped
    <3>2. w'[b].next = "stop" /\ w'[b].draft = u  BY Zenon, <1>8, <2>2
    <3>3. w'[b].fresh => o.conds # <<>>
      <4>1. w[b].draft.conds # <<>>  BY Zenon, <1>5, <2>2 DEF DraftInv
      <4>2. w'[b].fresh => w[b].draft = o  BY Zenon, <1>3, <1>8
      <4> QED  BY <4>1, <4>2
    <3> HIDE DEF u
    <3>4. u # None /\ (ReadyIs(u, "True") => ReadyIs(o, "True"))
      <4>1. u # None  BY <3>1, NoneApart
      <4>2. ASSUME ReadyIs(u, "True") PROVE ReadyIs(o, "True")
        <5>1. "Ready" \in DOMAIN u.conds /\ u.conds["Ready"].status = "True"  BY <4>2 DEF ReadyIs
        <5>2. o.conds # <<>>  BY <3>1, <5>1
        <5>3. "Ready" \in DOMAIN o.conds  BY <3>1, <5>1, <5>2
        <5>4. o.conds["Ready"].status = "True"  BY <3>1, <5>1, <5>3
        <5> QED  BY <5>3, <5>4 DEF ReadyIs
      <4> QED  BY <4>1, <4>2
    <3>5. o.conds # <<>> => Sound(u)
      <4>1. o.gen \in Nat  BY <1>6, ObjectNumbers
      <4> QED  BY <1>6, <3>1, <4>1 DEF Sound
    <3>6. ~o.del  BY Zenon, <1>5, <2>2 DEF DraftInv
    <3> QED  BY Zenon, <1>8, <3>1, <3>2, <3>3, <3>4, <3>5, <3>6 DEF DraftInv
  <2>3. CASE w[b].next \in {"sync", "finalize"}  BY Zenon, <1>8, <2>3
  <2> QED  BY Zenon, <1>7, <2>1, <2>2, <2>3
<1>12. WorkerInv(b)'
  <2>1. w'[b].pc \in {"fetch", "sync"} => ~w[b].local.del  BY Zenon, <1>5, <1>7, <1>8 DEF DraftInv
  <2>2. w'[b].pc \in {"delete", "finalize"} => w[b].local.del  BY Zenon, <1>5, <1>7, <1>8 DEF DraftInv
  <2>3. w[b].local.del => Twilight(b)'  BY Zenon, <1>3, <1>5 DEF WorkerInv
  <2>4. w'[b].fresh => api'[b] = w[b].local  BY Zenon, <1>3, <1>8
  <2> QED  BY Zenon, <1>5, <1>8, <1>11, <2>1, <2>2, <2>3, <2>4 DEF WorkerInv
<1>13. Gone(b)'  BY <1>3 DEF Gone
<1>14. Sunset(b) => Sunset(b)'  BY Zenon, <1>3, <1>5, <1>8 DEF Sunset
<1>15. Moves(b)
  <2>1. Quiet  BY Zenon, <1>1 DEF CommitDraft, WriteContinues, Quiet
  <2>2. CASE w[b].next \in {"record start", "stop retries"}
    BY Zenon, <1>8, <2>1, <2>2 DEF Moves, Rests, Inactive
  <2>3. CASE w[b].next \in {"sync", "finalize"}
    BY Zenon, <1>5, <1>8, <2>1, <2>3 DEF Moves, Resumes, SameLoop
  <2> QED  BY Zenon, <1>7, <2>2, <2>3
<1> QED  BY Zenon, <1>3, <1>9, <1>10, <1>12, <1>13, <1>14, <1>15 DEF StepOK, PerBroker, Advances

\* The finalizer is removed, and the object with it.
LEMMA StepFinalize ==
    ASSUME ObjTyped, NEW b \in Brokers, PerBroker(b), Finalize(b)
    PROVE  StepOK(b)
<1>1. /\ w[b].pc = "finalize" /\ Return(b, "ok") /\ w[b].local.del /\ Twilight(b)
      /\ cached' = cached /\ clock' = clock /\ crashes' = crashes /\ listed' = listed
      /\ fetched' = fetched /\ made' = made /\ gaveUp' = gaveUp
  BY Zenon DEF Finalize, PerBroker, WorkerInv, historyVars
<1>2. /\ WorkersTyped' /\ w'[b] = Idle /\ OthersIdle(b) /\ queued' \in [Brokers -> BOOLEAN]
  BY Zenon, <1>1, ReturnShape DEF ObjTyped
<1>5. Moves(b)
  <2>1. Quiet  BY Zenon DEF Finalize, Quiet, historyVars
  <2>2. w'[b].pc = "idle"  BY <1>2 DEF Idle
  <2> QED  BY <1>2, <2>1, <2>2 DEF Moves, Rests, Inactive
<1>3. CASE Store(b, None) /\ UNCHANGED faults
  <2>1. VersionsInv(b)' /\ Twilight(b)'  BY <1>1, <1>3, StoreVersions DEF Dead, PerBroker
  <2>2. /\ api' \in [Brokers -> Object \cup {None}] /\ watch' \in [Brokers -> Seq(Object \cup {None})]
        /\ \A x \in Brokers : Len(watch'[x]) <= MaxLag
        /\ \A x \in Brokers : x # b => api'[x] = api[x] /\ watch'[x] = watch[x]
        /\ api'[b] = None
    BY <1>3, StoreShape
  <2>3. RecOK(b)' /\ Forward(b)  BY <2>2 DEF RecOK, Forward
  <2>4. ObjTyped'  BY Zenon, <1>1, <1>2, <1>3, <2>2 DEF ObjTyped
  <2>5. OthersKept(b)  BY Zenon, <1>1, <1>2, <2>2 DEF OthersKept, OthersIdle
  <2>6. Advances(b)  BY Zenon, <1>1, <1>2, <2>1, <2>3, IdleInv
  <2> QED  BY <1>5, <2>3, <2>4, <2>5, <2>6 DEF StepOK
<1>4. CASE Fault("api") /\ UNCHANGED objectVars
  <2>1. api' = api /\ watch' = watch  BY <1>4 DEF objectVars
  <2>2. OthersKept(b) /\ Forward(b)  BY Zenon, <1>1, <1>2, <1>4, StillObjects
  <2>3. faults' \in 0..MaxFaults  BY <1>4, FaultTyped DEF ObjTyped
  <2>4. ObjTyped'  BY Zenon, <1>1, <1>2, <2>1, <2>3 DEF ObjTyped
  <2>5. VersionsInv(b)' /\ RecOK(b)' /\ (api'[b] = None => Twilight(b)')
    BY Zenon, <1>1, <2>1 DEF PerBroker, VersionsInv, RecOK, Gone, Twilight
  <2>6. Twilight(b)'  BY <1>1, <2>1 DEF Twilight
  <2>7. Advances(b)  BY <1>2, <2>5, <2>6, IdleInv
  <2> QED  BY <1>5, <2>2, <2>4, <2>7 DEF StepOK
<1> QED  BY <1>3, <1>4 DEF Finalize

\* A user's write: a new generation, the status kept.
LEMMA UserStep ==
    ASSUME ObjTyped, NEW b \in Brokers, PerBroker(b), api[b] # None, ~api[b].del,
           NEW o \in Object, Sound(o), o.gen = api[b].gen + 1, o.recGen = api[b].recGen,
           Store(b, o), w' = [w EXCEPT ![b].fresh = FALSE],
           UNCHANGED <<cached, queued, bounds, historyVars>>, Quiet
    PROVE  StepOK(b)
<1>1. /\ cached' = cached /\ queued' = queued /\ clock' = clock /\ faults' = faults /\ crashes' = crashes
      /\ listed' = listed /\ fetched' = fetched /\ made' = made /\ gaveUp' = gaveUp
  BY DEF bounds, historyVars
<1>2. WorkersTyped  BY DEF ObjTyped
<1>3. /\ WorkersTyped' /\ OthersIdle(b) /\ ~w'[b].fresh
      /\ w'[b].local = w[b].local /\ w'[b].got = w[b].got
      /\ w'[b].pc = w[b].pc /\ w'[b].draft = w[b].draft /\ w'[b].next = w[b].next
      /\ w'[b].plans = w[b].plans /\ w'[b].classes = w[b].classes /\ w'[b].current = w[b].current
  <2> DEFINE v == [w[b] EXCEPT !.fresh = FALSE]
  <2>1. w[b] \in WorkerState  BY <1>2 DEF WorkersTyped
  <2>2. v \in WorkerState  BY Zenon, <2>1 DEF WorkerState
  <2>3. w' = [w EXCEPT ![b] = v]  BY <1>2 DEF WorkersTyped
  <2>4. /\ v.pc = w[b].pc /\ v.draft = w[b].draft /\ v.next = w[b].next
        /\ v.local = w[b].local /\ ~v.fresh /\ v.got = w[b].got
        /\ v.plans = w[b].plans /\ v.classes = w[b].classes /\ v.current = w[b].current
    BY Zenon, <2>1 DEF WorkerState
  <2> HIDE DEF v
  <2> QED  BY Zenon, <1>2, <2>2, <2>3, <2>4, SetWorker
<1>4. ~Dead(api[b])  BY DEF Dead
<1>5. VersionsInv(b)'  BY <1>1, <1>4, StoreVersions DEF PerBroker
<1>6. /\ api' \in [Brokers -> Object \cup {None}] /\ watch' \in [Brokers -> Seq(Object \cup {None})]
      /\ \A x \in Brokers : Len(watch'[x]) <= MaxLag
      /\ \A x \in Brokers : x # b => api'[x] = api[x] /\ watch'[x] = watch[x]
      /\ api'[b] = o
  BY StoreShape
<1>7. ~Twilight(b)  BY <1>4 DEF Twilight
<1>8. WorkerInv(b)'
  <2>1. w[b].pc # "idle" => ~w[b].local.del  BY <1>7 DEF PerBroker, WorkerInv
  <2>2. w[b].pc = "write" => DraftInv(b)'  BY Zenon, <1>3 DEF DraftInv, PerBroker, WorkerInv
  <2> QED  BY <1>3, <2>1, <2>2 DEF PerBroker, WorkerInv
<1>9. o # None  BY NoneApart
<1>10. Gone(b)'  BY <1>6, <1>9 DEF Gone
<1>11. RecOK(b)'  BY <1>1, <1>6 DEF PerBroker, RecOK
<1>12. Forward(b)
  <2>1. api[b] \in Object  BY DEF ObjTyped
  <2>2. api[b].gen \in Nat /\ api[b].recGen \in Nat  BY <2>1, ObjectNumbers
  <2>3. o.gen >= api[b].gen /\ o.recGen >= api[b].recGen  BY <2>2
  <2> QED  BY <1>6, <2>3 DEF Forward
<1>13. ObjTyped'  BY <1>1, <1>3, <1>6 DEF ObjTyped
<1>14. OthersKept(b)  BY <1>1, <1>3, <1>6 DEF OthersKept, OthersIdle
<1>15. ~Sunset(b)  BY <1>7 DEF Sunset
<1>16. Moves(b)  BY <1>3 DEF Moves, Stays, SameLoop
<1> QED  BY <1>5, <1>8, <1>10, <1>11, <1>12, <1>13, <1>14, <1>15, <1>16 DEF StepOK, PerBroker, Advances

\* The user deletes the broker.
LEMMA StepUserDelete ==
    ASSUME ObjTyped, NEW b \in Brokers, PerBroker(b), UserDelete(b)
    PROVE  StepOK(b)
<1>1. api[b] # None /\ ~api[b].del  BY DEF UserDelete
<1>2. api[b] \in Object /\ Sound(api[b])  BY <1>1 DEF ObjTyped, PerBroker, VersionsInv
<1> DEFINE g == api[b].gen + 1
           o == [api[b] EXCEPT !.del = TRUE, !.gen = g]
<1>3. g \in 1..(MaxGen + 1) /\ api[b].recGen <= g
  BY <1>1, <1>2, BoundsTyped, ObjectNumbers DEF Sound
<1>4. Store(b, o)  BY DEF UserDelete
<1>5. g = api[b].gen + 1  OBVIOUS
<1> HIDE DEF g
<1>6. o \in Object /\ o.del /\ o.gen = g /\ o.recGen = api[b].recGen /\ o.conds = api[b].conds
  BY Zenon, <1>2, <1>3 DEF Object
<1> HIDE DEF o
<1>7. Sound(o)  BY <1>2, <1>3, <1>6 DEF Sound
<1>8. Quiet  BY DEF UserDelete, Quiet, historyVars
<1> QED  BY Zenon, <1>1, <1>4, <1>5, <1>6, <1>7, <1>8, UserStep DEF UserDelete

\* The user edits the broker.
LEMMA StepUserEdit ==
    ASSUME ObjTyped, NEW b \in Brokers, PerBroker(b), UserEdit(b)
    PROVE  StepOK(b)
<1>1. api[b] # None /\ ~api[b].del /\ api[b].gen < MaxGen  BY DEF UserEdit
<1>2. api[b] \in Object /\ Sound(api[b])  BY Zenon, <1>1 DEF ObjTyped, PerBroker, VersionsInv
<1> DEFINE g == api[b].gen + 1
           o == [api[b] EXCEPT !.gen = g]
<1>3. g \in 1..(MaxGen + 1) /\ api[b].recGen <= g /\ g <= MaxGen
  BY <1>1, <1>2, BoundsTyped, ObjectNumbers DEF Sound
<1>4. Store(b, o)  BY DEF UserEdit
<1>5. g = api[b].gen + 1  OBVIOUS
<1> HIDE DEF g
<1>6. o \in Object /\ o.gen = g /\ o.recGen = api[b].recGen /\ o.conds = api[b].conds
  BY <1>2, <1>3 DEF Object
<1> HIDE DEF o
<1>7. Sound(o)  BY <1>2, <1>3, <1>6 DEF Sound
<1>8. Quiet  BY DEF UserEdit, Quiet, historyVars
<1> QED  BY Zenon, <1>1, <1>4, <1>5, <1>6, <1>7, <1>8, UserStep DEF UserEdit

-----------------------------------------------------------------------------
(* The other steps, and all of them.                                       *)

\* The informer sees a version.
LEMMA StepInformerEvent ==
    ASSUME ObjTyped, NEW b \in Brokers, PerBroker(b), InformerEvent(b)
    PROVE  StepOK(b)
<1> DEFINE s == watch[b]
           n == Len(s)
<1>1. /\ s # <<>> /\ api' = api /\ w' = w /\ cached' = [cached EXCEPT ![b] = Head(s)]
      /\ watch' = [watch EXCEPT ![b] = Tail(s)]
      /\ clock' = clock /\ faults' = faults /\ crashes' = crashes
      /\ listed' = listed /\ fetched' = fetched /\ made' = made /\ gaveUp' = gaveUp
      /\ queued' \in [Brokers -> BOOLEAN]
  <2>1. queued' = [queued EXCEPT ![b] = queued[b] \/ cached'[b] # None]  BY DEF InformerEvent
  <2> DEFINE q == queued[b] \/ cached'[b] # None
  <2>2. q \in BOOLEAN /\ queued' = [queued EXCEPT ![b] = q]  BY <2>1
  <2> HIDE DEF q
  <2>3. queued' \in [Brokers -> BOOLEAN]  BY <2>2 DEF ObjTyped
  <2> QED  BY <2>3 DEF InformerEvent, bounds, historyVars
<1>2. s \in Seq(Object \cup {None}) /\ n \in Nat  BY DEF ObjTyped
<1>3. /\ n # 0 /\ Head(s) = s[1] /\ s[1] \in Object \cup {None} /\ 1 \in 1..n
      /\ Tail(s) \in Seq(Object \cup {None}) /\ Len(Tail(s)) = n - 1
      /\ \A i \in 1..(n - 1) : Tail(s)[i] = s[i + 1]
  BY <1>1, <1>2
<1>4. cached'[b] = s[1] /\ watch'[b] = Tail(s)
      /\ \A x \in Brokers : x # b => watch'[x] = watch[x] /\ cached'[x] = cached[x]
  BY <1>1, <1>3 DEF ObjTyped
<1>5. \A i \in 1..(n - 1) : i \in 1..n /\ i + 1 \in 1..n /\ 1 <= i + 1  BY <1>2
<1>6. \A i, j \in 1..(n - 1) : i <= j => i + 1 <= j + 1  BY <1>2
<1>7. VersionsInv(b)
  BY DEF PerBroker
<1>8. VersionsInv(b)'
  <2>1. cached'[b] # None => Sound(cached'[b])  BY <1>3, <1>4, <1>7 DEF VersionsInv
  <2>2. \A i \in 1..(n - 1) : Tail(s)[i] # None => Sound(Tail(s)[i])
    BY Zenon, <1>3, <1>5, <1>7 DEF VersionsInv
  <2>3. s[n] = api[b]  BY <1>1, <1>7 DEF VersionsInv
  <2>4. Tail(s) = <<>> => n = 1
    <3>1. Tail(s) = <<>> => n - 1 = 0  BY Zenon, <1>3
    <3> QED  BY <1>2, <3>1
  <2>5. Tail(s) # <<>> => n - 1 \in 1..(n - 1) /\ (n - 1) + 1 = n  BY <1>2, <1>3
  <2>6. \A i, j \in 1..(n - 1) : i <= j /\ Dead(Tail(s)[i]) => Dead(Tail(s)[j])
    BY <1>3, <1>5, <1>6, <1>7 DEF VersionsInv
  <2>7. s[1] # None /\ s[1].del => \A i \in 1..(n - 1) : Dead(Tail(s)[i])
    <3>1. SUFFICES ASSUME s[1].del, NEW i \in 1..(n - 1) PROVE Dead(Tail(s)[i])  OBVIOUS
    <3>2. Dead(s[1])  BY <3>1 DEF Dead
    <3>3. Dead(s[i + 1])  BY <1>3, <1>5, <1>7, <3>2 DEF VersionsInv
    <3> QED  BY <1>3, <3>3
  <2>8. Len(watch'[b]) = n - 1  BY <1>3, <1>4
  <2>9. watch'[b] = <<>> => cached'[b] = api[b]  BY Zenon, <1>4, <2>3, <2>4
  <2>10. watch'[b] # <<>> => watch'[b][n - 1] = api[b]  BY <1>3, <1>4, <2>3, <2>5
  <2> HIDE DEF s, n
  <2> QED
    BY Zenon, <1>1, <1>4, <1>7, <2>1, <2>2, <2>6, <2>7, <2>8, <2>9, <2>10 DEF VersionsInv
<1>9. Twilight(b) => Twilight(b)'
  BY <1>1, <1>3, <1>4, <1>5 DEF Twilight
<1>10. WorkerInv(b)'  BY Zenon, <1>1, <1>9 DEF PerBroker, WorkerInv, DraftInv
<1>11. Gone(b)' /\ (Sunset(b) => Sunset(b)')  BY Zenon, <1>1, <1>9 DEF PerBroker, Gone, Sunset
<1>12. RecOK(b)'  BY <1>1 DEF PerBroker, RecOK
<1>13. OthersKept(b)  BY <1>1, <1>4 DEF OthersKept
<1>14. Forward(b)
  <2>1. api[b] # None => api[b].gen \in Nat /\ api[b].recGen \in Nat
    BY ObjectNumbers DEF ObjTyped
  <2> QED  BY <1>1, <2>1 DEF Forward
<1>15. ObjTyped'
  <2>1. Len(Tail(s)) <= MaxLag
    <3>1. n <= MaxLag /\ MaxLag \in Nat  BY BoundsTyped DEF ObjTyped
    <3> QED  BY <1>2, <1>3, <3>1
  <2>2. \A x \in Brokers : Len(watch'[x]) <= MaxLag  BY Zenon, <1>4, <2>1 DEF ObjTyped
  <2>3. watch' \in [Brokers -> Seq(Object \cup {None})]  BY <1>1, <1>3 DEF ObjTyped
  <2>4. cached' \in [Brokers -> Object \cup {None}]  BY <1>1, <1>3 DEF ObjTyped
  <2> HIDE DEF s, n
  <2> QED  BY <1>1, <2>2, <2>3, <2>4 DEF ObjTyped, WorkersTyped
<1>16. Moves(b)
  <2>1. Quiet  BY DEF InformerEvent, Quiet, historyVars
  <2> QED  BY <1>1, <2>1 DEF Moves, Stays, SameLoop, OthersIdle
<1> QED  BY <1>8, <1>10, <1>11, <1>12, <1>13, <1>14, <1>15, <1>16 DEF StepOK, PerBroker, Advances

\* The informer's resync.
LEMMA StepResync ==
    ASSUME ObjTyped, NEW b \in Brokers, PerBroker(b), Resync(b)
    PROVE  StepOK(b)
<1>1. /\ UNCHANGED <<objectVars, cached, listed, gaveUp, fetched, made, bounds, w>>
      /\ queued' = [queued EXCEPT ![b] = TRUE]
  BY DEF Resync, historyVars
<1>2. OthersKept(b) /\ Forward(b)  BY <1>1, StillObjects DEF OthersIdle
<1>3. Advances(b)  BY <1>1, KeptInv DEF objectVars
<1>4. ObjTyped'  BY <1>1 DEF ObjTyped, objectVars, bounds, WorkersTyped
<1>5. Quiet  BY DEF Resync, Quiet, historyVars
<1>6. Moves(b)  BY <1>1, <1>5 DEF Moves, Stays, SameLoop, OthersIdle
<1> QED  BY <1>2, <1>3, <1>4, <1>6 DEF StepOK

\* A restart: the first list has the stored versions only.
LEMMA StepCrash ==
    ASSUME ObjTyped, Crash
    PROVE  ObjTyped' /\ (\A b \in Brokers : PerBroker(b) => Advances(b)) /\ api' = api
<1>1. /\ crashes' \in 0..MaxCrashes
      /\ w' = [b \in Brokers |-> Idle]
      /\ queued' = [b \in Brokers |-> FALSE] /\ cached' = [b \in Brokers |-> None]
      /\ watch' = [b \in Brokers |-> IF api[b] = None THEN <<>> ELSE <<api[b]>>]
      /\ api' = api /\ clock' = clock /\ faults' = faults
      /\ listed' = listed /\ fetched' = fetched /\ made' = made /\ gaveUp' = gaveUp
  BY BoundsTyped DEF Crash, historyVars, ObjTyped
<1>2. \A b \in Brokers : /\ watch'[b] \in Seq(Object \cup {None}) /\ Len(watch'[b]) <= MaxLag
  <2>1. SUFFICES ASSUME NEW b \in Brokers
                 PROVE  watch'[b] \in Seq(Object \cup {None}) /\ Len(watch'[b]) <= MaxLag
    OBVIOUS
  <2>2. api[b] \in Object \cup {None} /\ MaxLag \in Nat \ {0}  BY BoundsTyped DEF ObjTyped
  <2>3. CASE api[b] = None
    <3>1. watch'[b] = <<>>  BY <1>1, <2>3
    <3> QED  BY <2>2, <3>1
  <2>4. CASE api[b] # None
    <3>1. watch'[b] = <<api[b]>>  BY <1>1, <2>4
    <3> QED  BY <2>2, <3>1
  <2> QED  BY <2>3, <2>4
<1>3. watch' \in [Brokers -> Seq(Object \cup {None})]
  <2>1. watch' = [b \in Brokers |-> watch'[b]]  BY <1>1
  <2> QED  BY <1>2, <2>1
<1>4. WorkersTyped'  BY <1>1, IdleTyped DEF WorkersTyped
<1>5. ObjTyped'  BY Zenon, <1>1, <1>2, <1>3, <1>4 DEF ObjTyped
<1>6. ASSUME NEW b \in Brokers, PerBroker(b) PROVE Advances(b)
  <2>1. w'[b] = Idle /\ cached'[b] = None  BY <1>1
  <2>2. RecOK(b)'  BY <1>1, <1>6 DEF PerBroker, RecOK
  <2>3. CASE api[b] = None
    <3>1. watch'[b] = <<>> /\ Len(watch'[b]) = 0  BY <1>1, <2>3
    <3>2. VersionsInv(b)' /\ Twilight(b)'  BY <1>1, <2>1, <2>3, <3>1 DEF VersionsInv, Twilight, Dead
    <3> QED  BY Zenon, <2>1, <2>2, <3>2, IdleInv
  <2>4. CASE api[b] # None
    <3>1. watch'[b] = <<api[b]>> /\ Len(watch'[b]) = 1 /\ watch'[b][1] = api[b] /\ watch'[b] # <<>>
      BY <1>1, <2>4
    <3>2. \A i \in 1..Len(watch'[b]) : watch'[b][i] = api[b]
      <4>1. \A i \in 1..1 : i = 1  OBVIOUS
      <4> QED  BY <3>1, <4>1
    <3>3. VersionsInv(b)'
      <4>1. Sound(api[b])  BY Zenon, <1>6, <2>4 DEF PerBroker, VersionsInv
      <4>2. watch'[b][Len(watch'[b])] = api[b]  BY <3>1
      <4> QED  BY <1>1, <2>1, <3>1, <3>2, <4>1, <4>2 DEF VersionsInv
    <3>4. Twilight(b) => Twilight(b)'  BY Zenon, <1>1, <2>1, <3>2 DEF Twilight, Dead
    <3> QED  BY <1>1, <2>1, <2>2, <2>4, <3>3, <3>4, IdleInv
  <2> QED  BY <2>3, <2>4
<1> QED  BY <1>1, <1>5, <1>6

\* The steps that leave every broker alone.
LEMMA StepOther ==
    ASSUME ObjTyped, ClassEvent \/ PlanEvent \/ Tick \/ UNCHANGED vars
    PROVE  ObjTyped' /\ (\A b \in Brokers : PerBroker(b) => Advances(b)) /\ api' = api
<1>1. /\ api' = api /\ watch' = watch /\ cached' = cached /\ queued' = queued /\ w' = w
      /\ clock' \in 0..MaxClock /\ faults' = faults /\ crashes' = crashes
      /\ listed' = listed /\ fetched' = fetched /\ made' = made /\ gaveUp' = gaveUp
  BY BoundsTyped DEF ClassEvent, PlanEvent, Tick, vars, objectVars, bounds, historyVars, ObjTyped
<1>2. ObjTyped'  BY <1>1 DEF ObjTyped, WorkersTyped
<1> QED  BY <1>1, <1>2, KeptInv

\* Every step of a worker.
LEMMA StepWorker ==
    ASSUME ObjTyped, NEW b \in Brokers, PerBroker(b), Worker(b)
    PROVE  StepOK(b)
<1>1. CASE ReconcileNothing(b) \/ Begin(b)  BY <1>1, StepReconcileNothing, StepBegin
<1>2. CASE Status(b)
  BY <1>2, StepWriteFails, StepWriteReturns, StepWriteContinues DEF Status
<1>3. CASE Relist(b)
  BY <1>3, StepAuthFails, StepFetchFails, StepFetchOK, StepCatalogUseless, StepReconcileServicePlan,
     StepReconcileServiceClass, StepSyncFails, StepSyncDone DEF Relist
<1>4. CASE Deletion(b)
  BY <1>4, StepListPlans, StepDeletePlan, StepDeleteClass, StepDeleteFails, StepDeleteDone, StepFinalize
     DEF Deletion
<1> QED  BY <1>1, <1>2, <1>3, <1>4 DEF Worker

\* The steps of one broker.
BrokerStep(b) == Worker(b) \/ InformerEvent(b) \/ Resync(b) \/ UserDelete(b) \/ UserEdit(b)

\* Every step of a broker is one of its moves.
LEMMA BrokerMoves ==
    ASSUME ObjTyped, NEW b \in Brokers, PerBroker(b), BrokerStep(b)
    PROVE  StepOK(b) /\ Moves(b)
<1>1. StepOK(b)
  BY StepWorker, StepInformerEvent, StepResync, StepUserDelete, StepUserEdit DEF BrokerStep
<1> QED  BY <1>1 DEF StepOK

\* The inductive invariant of the objects.
ObjInv == ObjTyped /\ \A b \in Brokers : PerBroker(b)

\* Every step keeps it, no stored object goes back, and a sunset is for good.
LEMMA StepObjects ==
    ASSUME ObjInv, [Next]_vars
    PROVE  ObjInv' /\ \A b \in Brokers : Forward(b) /\ (Sunset(b) => Sunset(b)')
<1>0. \A x \in Brokers : api[x] # None => api[x].gen \in Nat /\ api[x].recGen \in Nat
  BY ObjectNumbers DEF ObjInv, ObjTyped
<1>1. ASSUME NEW b \in Brokers, StepOK(b)
      PROVE  ObjInv' /\ \A x \in Brokers : Forward(x) /\ (Sunset(x) => Sunset(x)')
  <2>1. \A x \in Brokers : x # b => Advances(x)  BY <1>1, KeptInv DEF StepOK, OthersKept, ObjInv
  <2>2. ASSUME NEW x \in Brokers, x # b PROVE Forward(x)
    <3>1. api'[x] = api[x]  BY Zenon, <1>1, <2>2 DEF StepOK, OthersKept
    <3> QED  BY <1>0, <3>1 DEF Forward
  <2> QED  BY <1>1, <2>1, <2>2 DEF StepOK, ObjInv, Advances
<1>2. ASSUME NEW b \in Brokers, BrokerStep(b) PROVE StepOK(b)  BY <1>2, BrokerMoves DEF ObjInv
<1>3. CASE ClassEvent \/ PlanEvent \/ Tick \/ Crash \/ UNCHANGED vars
  <2>1. ObjTyped' /\ api' = api /\ \A b \in Brokers : Advances(b)
    BY <1>3, StepCrash, StepOther DEF ObjInv
  <2>2. \A b \in Brokers : Forward(b)  BY <1>0, <2>1 DEF Forward
  <2> QED  BY Zenon, <2>1, <2>2 DEF Advances, ObjInv
<1> QED  BY <1>1, <1>2, <1>3 DEF Next, BrokerStep

\* It holds at the start.
LEMMA InitObjects == Init => ObjInv
<1> SUFFICES ASSUME Init PROVE ObjInv  OBVIOUS
<1>1. NewBroker \in Object /\ Sound(NewBroker) /\ NewBroker # None
  BY NewBrokerTyped, NoneApart
<1>2. MaxLag \in Nat \ {0} /\ MaxClock \in Nat /\ MaxFaults \in Nat /\ MaxCrashes \in Nat /\ MaxGen \in Nat
  BY BoundsTyped
<1>3. <<NewBroker>> \in Seq(Object \cup {None}) /\ Len(<<NewBroker>>) = 1 /\ <<NewBroker>>[1] = NewBroker
      /\ <<NewBroker>> # <<>>
  BY <1>1
<1>4. WorkersTyped  BY IdleTyped DEF Init, WorkersTyped
<1>5. ObjTyped
  <2>1. \A b \in Brokers : Len(watch[b]) <= MaxLag  BY <1>2, <1>3 DEF Init
  <2>2. watch \in [Brokers -> Seq(Object \cup {None})]  BY <1>3 DEF Init
  <2>3. api \in [Brokers -> Object \cup {None}] /\ cached \in [Brokers -> Object \cup {None}]
        /\ queued \in [Brokers -> BOOLEAN]
    BY <1>1 DEF Init
  <2>4. listed \in [Brokers -> Listing \cup {None}] /\ fetched \in [Brokers -> 0..MaxClock]
        /\ made \in [Brokers -> SUBSET Classes] /\ gaveUp \in [Brokers -> 0..(MaxGen + 1)]
    BY <1>2 DEF Init
  <2>5. clock \in 0..MaxClock /\ faults \in 0..MaxFaults /\ crashes \in 0..MaxCrashes  BY <1>2 DEF Init
  <2> QED  BY <1>4, <2>1, <2>2, <2>3, <2>4, <2>5 DEF ObjTyped
<1>6. ASSUME NEW b \in Brokers PROVE PerBroker(b)
  <2>1. api[b] = NewBroker /\ watch[b] = <<NewBroker>> /\ cached[b] = None /\ w[b] = Idle  BY DEF Init
  <2>2. ~NewBroker.del /\ NewBroker.recGen = 0  BY DEF NewBroker
  <2>3. \A i \in 1..Len(watch[b]) : watch[b][i] = NewBroker
    <3>1. \A i \in 1..1 : i = 1  OBVIOUS
    <3> QED  BY <1>3, <2>1, <3>1
  <2>4. VersionsInv(b)
    <3>1. watch[b][Len(watch[b])] = api[b] /\ watch[b] # <<>>  BY <1>3, <2>1
    <3> QED  BY <1>1, <2>1, <2>2, <2>3, <3>1 DEF VersionsInv, Dead
  <2>5. RecOK(b)  BY <2>1, <2>2 DEF RecOK
  <2>6. Idle.pc = "idle" /\ Idle.got = None  BY DEF Idle
  <2>7. WorkerInv(b) /\ Gone(b)  BY <1>1, <2>1, <2>6 DEF WorkerInv, Gone
  <2> QED  BY <2>4, <2>5, <2>7 DEF PerBroker
<1> QED  BY <1>5, <1>6 DEF ObjInv

-----------------------------------------------------------------------------
(* What is proved of the objects.                                          *)

\* The invariant of the objects holds in every reachable state.
THEOREM ObjectsHold == Spec => []ObjInv
<1>1. ObjInv /\ [Next]_vars => ObjInv'  BY StepObjects
<1> QED  BY <1>1, InitObjects, PTL DEF Spec

\* ReconciledGeneration is always one that a catalog was fetched for, or given
\* up on: updateClusterServiceBrokerCondition copies the generation of the
\* worker's copy, and the API server refuses a stale one.
THEOREM ReconciledAreFetched == Spec => []ReconciledMeansFetched
<1>1. ObjInv => ReconciledMeansFetched  BY DEF ObjInv, PerBroker, RecOK, ReconciledMeansFetched
<1> QED  BY <1>1, ObjectsHold, PTL

\* No write of the controller undoes a deletion mark or takes back a generation
\* or a reconciled generation, however its writes and a user's interleave.
THEOREM ObjectsGoForward == Spec => ObjectNeverRegresses
<1>1. ObjInv /\ [Next]_vars =>
        [\A b \in Brokers : api[b] # None /\ api'[b] # None =>
          /\ api[b].del => api'[b].del
          /\ api'[b].gen >= api[b].gen /\ api'[b].recGen >= api[b].recGen]_vars
  BY StepObjects DEF Forward
<1> QED  BY <1>1, ObjectsHold, PTL DEF Spec, ObjectNeverRegresses

-----------------------------------------------------------------------------
(* What is written of the catalog, and what the listers make of it.        *)

\* The type invariant of the classes and plans.
CatTyped ==
    /\ classes \in [Classes -> Class \cup {None}] /\ seenClasses \in [Classes -> Class \cup {None}]
    /\ plans \in [Plans -> Plan \cup {None}] /\ seenPlans \in [Plans -> Plan \cup {None}]
    /\ classWatch \in Seq([name : Classes, object : Class \cup {None}])
    /\ planWatch \in Seq([name : Plans, object : Plan \cup {None}])

\* What is left to do is of the catalog that was fetched.
LoopInv(b) ==
    w[b].pc = "sync" \/ (w[b].pc = "write" /\ w[b].next \in {"sync", "ok"}) =>
        /\ w[b].got = None => w[b].plans = {}
        /\ w[b].got # None => w[b].plans \subseteq DOMAIN w[b].got.offers
                              /\ w[b].classes \subseteq Services(w[b].got)

\* The inductive invariant behind TypeOK and ClassesKeepToTheirBroker.
CatInv == CatTyped /\ ClassesKeepToTheirBroker /\ \A b \in Brokers : LoopInv(b)

\* A function on 1..n is a sequence.
LEMMA FunctionIsSeq == ASSUME NEW n \in Nat, NEW X, NEW f \in [1..n -> X] PROVE f \in Seq(X)
  OBVIOUS

\* What is appended to a sequence is its last element.
LEMMA Appended ==
    ASSUME NEW E, NEW s \in Seq(E), NEW v \in E
    PROVE  /\ Append(s, v) \in Seq(E)
           /\ \A i \in 1..Len(Append(s, v)) :
                 Append(s, v)[i] = v \/ (i \in 1..Len(s) /\ Append(s, v)[i] = s[i])
  OBVIOUS

\* A write of a class changes that class only; the lister and the events have
\* nothing that was not stored.
LEMMA ClassStored ==
    ASSUME CatTyped, NEW c \in Classes, NEW e \in Class \cup {None}, StoreClass(c, e)
    PROVE  /\ classes' \in [Classes -> Class \cup {None}] /\ seenClasses' \in [Classes -> Class \cup {None}]
           /\ classWatch' \in Seq([name : Classes, object : Class \cup {None}])
           /\ classes'[c] = e /\ \A d \in Classes : d # c => classes'[d] = classes[d]
           /\ \A d \in Classes : seenClasses'[d] \in {seenClasses[d], classes'[d]}
           /\ \A i \in 1..Len(classWatch') :
                 \/ classWatch'[i] = [name |-> c, object |-> e]
                 \/ i \in 1..Len(classWatch) /\ classWatch'[i] = classWatch[i]
<1> DEFINE E == [name : Classes, object : Class \cup {None}]
           v == [name |-> c, object |-> e]
<1>1. classWatch \in Seq(E) /\ v \in E  BY DEF CatTyped
<1>2. classes' = [classes EXCEPT ![c] = e]  BY DEF StoreClass
<1>3. classes' \in [Classes -> Class \cup {None}] /\ classes'[c] = e
      /\ \A d \in Classes : d # c => classes'[d] = classes[d]
  BY <1>2 DEF CatTyped
<1>4. seenClasses \in [Classes -> Class \cup {None}]  BY DEF CatTyped
<1>5. CASE classWatch' = classWatch /\ seenClasses' \in {seenClasses, classes'}
  BY <1>1, <1>3, <1>4, <1>5
<1>6. CASE classWatch' = Append(classWatch, v) /\ seenClasses' = seenClasses
  <2>1. /\ classWatch' \in Seq(E)
        /\ \A i \in 1..Len(classWatch') :
              classWatch'[i] = v \/ (i \in 1..Len(classWatch) /\ classWatch'[i] = classWatch[i])
    BY <1>1, <1>6, Appended
  <2> QED  BY <1>3, <1>4, <1>6, <2>1
<1>7. \/ classWatch' = classWatch /\ seenClasses' \in {seenClasses, classes'}
      \/ classWatch' = Append(classWatch, v) /\ seenClasses' = seenClasses
  BY DEF StoreClass
<1> QED  BY <1>5, <1>6, <1>7

\* The same for a plan.
LEMMA PlanStored ==
    ASSUME CatTyped, NEW p \in Plans, NEW e \in Plan \cup {None}, StorePlan(p, e)
    PROVE  /\ plans' \in [Plans -> Plan \cup {None}] /\ seenPlans' \in [Plans -> Plan \cup {None}]
           /\ planWatch' \in Seq([name : Plans, object : Plan \cup {None}])
           /\ plans'[p] = e /\ \A q \in Plans : q # p => plans'[q] = plans[q]
           /\ \A q \in Plans : seenPlans'[q] \in {seenPlans[q], plans'[q]}
           /\ \A i \in 1..Len(planWatch') :
                 \/ planWatch'[i] = [name |-> p, object |-> e]
                 \/ i \in 1..Len(planWatch) /\ planWatch'[i] = planWatch[i]
<1> DEFINE E == [name : Plans, object : Plan \cup {None}]
           v == [name |-> p, object |-> e]
<1>1. planWatch \in Seq(E) /\ v \in E  BY DEF CatTyped
<1>2. plans' = [plans EXCEPT ![p] = e]  BY DEF StorePlan
<1>3. plans' \in [Plans -> Plan \cup {None}] /\ plans'[p] = e
      /\ \A q \in Plans : q # p => plans'[q] = plans[q]
  BY <1>2 DEF CatTyped
<1>4. seenPlans \in [Plans -> Plan \cup {None}]  BY DEF CatTyped
<1>5. CASE planWatch' = planWatch /\ seenPlans' \in {seenPlans, plans'}
  BY <1>1, <1>3, <1>4, <1>5
<1>6. CASE planWatch' = Append(planWatch, v) /\ seenPlans' = seenPlans
  <2>1. /\ planWatch' \in Seq(E)
        /\ \A i \in 1..Len(planWatch') :
              planWatch'[i] = v \/ (i \in 1..Len(planWatch) /\ planWatch'[i] = planWatch[i])
    BY <1>1, <1>6, Appended
  <2> QED  BY <1>3, <1>4, <1>6, <2>1
<1>7. \/ planWatch' = planWatch /\ seenPlans' \in {seenPlans, plans'}
      \/ planWatch' = Append(planWatch, v) /\ seenPlans' = seenPlans
  BY DEF StorePlan
<1> QED  BY <1>5, <1>6, <1>7

\* The events tell what is stored.
Reports(s, X, objects) == \A i \in 1..Len(s) : s[i].name \in X /\ s[i].object = objects[s[i].name]

\* The first list of an informer, in any order, tells what is stored.
LEMMA FirstListShape ==
    ASSUME NEW X, NEW O, NEW objects \in [X -> O \cup {None}],
           NEW s, s \in FirstLists(objects)
    PROVE  /\ s \in Seq([name : X, object : O \cup {None}])
           /\ Reports(s, X, objects)
<1> DEFINE there == {x \in X : objects[x] # None}
           events == {[name |-> x, object |-> objects[x]] : x \in there}
<1>1. PICK n \in 0..Cardinality(there) : s \in [1..n -> events]
  BY Zenon DEF FirstLists
<1>2. n \in Nat  OBVIOUS
<1>3. \A v \in events : v \in [name : X, object : O \cup {None}] /\ v.name \in X /\ v.object = objects[v.name]
  OBVIOUS
<1>4. s \in [1..n -> [name : X, object : O \cup {None}]]  BY <1>1, <1>3
<1>5. Len(s) = n  BY <1>1, <1>2
<1> HIDE DEF events, there
<1>6. Reports(s, X, objects)  BY <1>1, <1>2, <1>3, <1>5 DEF Reports
<1> QED  BY Zenon, <1>2, <1>4, <1>6, FunctionIsSeq

\* The lister of classes takes the oldest event.
LEMMA ClassEventShape ==
    ASSUME CatTyped, ClassEvent
    PROVE  /\ seenClasses' \in [Classes -> Class \cup {None}]
           /\ classWatch' \in Seq([name : Classes, object : Class \cup {None}])
           /\ 1 \in 1..Len(classWatch) /\ classWatch[1].name \in Classes
           /\ \A d \in Classes : seenClasses'[d] =
                 IF d = classWatch[1].name THEN classWatch[1].object ELSE seenClasses[d]
           /\ \A i \in 1..Len(classWatch') : i + 1 \in 1..Len(classWatch) /\ classWatch'[i] = classWatch[i + 1]
<1> DEFINE E == [name : Classes, object : Class \cup {None}]
<1>1. classWatch \in Seq(E) /\ classWatch # <<>> /\ classWatch' = Tail(classWatch)
  BY DEF CatTyped, ClassEvent
<1>2. Head(classWatch) = classWatch[1] /\ classWatch[1] \in E /\ 1 \in 1..Len(classWatch)
  <2>1. Len(classWatch) \in Nat /\ Len(classWatch) # 0  BY <1>1
  <2>2. 1 \in 1..Len(classWatch)  BY <2>1
  <2>3. classWatch[1] \in E
    <3> HIDE DEF E
    <3> QED  BY <1>1, <2>2
  <2> QED  BY <1>1, <2>2, <2>3
<1>3. classWatch' \in Seq(E)
      /\ \A i \in 1..Len(classWatch') : i + 1 \in 1..Len(classWatch) /\ classWatch'[i] = classWatch[i + 1]
  BY <1>1
<1>4. seenClasses' = [seenClasses EXCEPT ![classWatch[1].name] = classWatch[1].object]
  BY Zenon, <1>2 DEF ClassEvent
<1> QED  BY <1>2, <1>3, <1>4 DEF CatTyped

\* The lister of plans takes the oldest event.
LEMMA PlanEventShape ==
    ASSUME CatTyped, PlanEvent
    PROVE  /\ seenPlans' \in [Plans -> Plan \cup {None}]
           /\ planWatch' \in Seq([name : Plans, object : Plan \cup {None}])
           /\ 1 \in 1..Len(planWatch) /\ planWatch[1].name \in Plans
           /\ \A q \in Plans : seenPlans'[q] =
                 IF q = planWatch[1].name THEN planWatch[1].object ELSE seenPlans[q]
           /\ \A i \in 1..Len(planWatch') : i + 1 \in 1..Len(planWatch) /\ planWatch'[i] = planWatch[i + 1]
<1> DEFINE E == [name : Plans, object : Plan \cup {None}]
<1>1. planWatch \in Seq(E) /\ planWatch # <<>> /\ planWatch' = Tail(planWatch)
  BY DEF CatTyped, PlanEvent
<1>2. Head(planWatch) = planWatch[1] /\ planWatch[1] \in E /\ 1 \in 1..Len(planWatch)
  <2>1. Len(planWatch) \in Nat /\ Len(planWatch) # 0  BY <1>1
  <2>2. 1 \in 1..Len(planWatch)  BY <2>1
  <2>3. planWatch[1] \in E
    <3> HIDE DEF E
    <3> QED  BY <1>1, <2>2
  <2> QED  BY <1>1, <2>2, <2>3
<1>3. planWatch' \in Seq(E)
      /\ \A i \in 1..Len(planWatch') : i + 1 \in 1..Len(planWatch) /\ planWatch'[i] = planWatch[i + 1]
  BY <1>1
<1>4. seenPlans' = [seenPlans EXCEPT ![planWatch[1].name] = planWatch[1].object]
  BY Zenon, <1>2 DEF PlanEvent
<1> QED  BY <1>2, <1>3, <1>4 DEF CatTyped

\* A class that is sent and accepted names the sender, with its catalog.
LEMMA ClassSentShape ==
    ASSUME ObjInv, CatInv, NEW b \in Brokers, ClassesNext(b), NEW c \in w[b].classes, ClassAccepted(b, c)
    PROVE  /\ c \in Classes /\ ClassSent(b, c) \in Class
           /\ ClassSent(b, c).owner = b /\ ClassSent(b, c).n = w[b].got.n /\ w[b].got \in Catalogs[b]
           /\ c \in Services(w[b].got)
<1>1. w[b].pc = "sync" /\ w[b].got # None  BY DEF ClassesNext
<1>2. w[b] \in WorkerState /\ w[b].got \in Catalogs[b]
  BY Zenon, <1>1 DEF ObjInv, ObjTyped, WorkersTyped, PerBroker, WorkerInv
<1>3. c \in Classes /\ c \in Services(w[b].got)  BY Zenon, <1>1, <1>2 DEF WorkerState, CatInv, LoopInv
<1>4. w[b].got.n \in Nat  BY Zenon, <1>2, CatalogTyped
<1>5. CASE seenClasses[c] = None  BY <1>2, <1>3, <1>4, <1>5 DEF ClassSent, Class
<1>6. CASE seenClasses[c] # None
  <2>1. seenClasses[c] \in Class /\ seenClasses[c].owner = b
    BY <1>3, <1>6 DEF CatInv, CatTyped, ClassAccepted
  <2>2. ClassSent(b, c) = [seenClasses[c] EXCEPT !.n = w[b].got.n]  BY <1>6 DEF ClassSent
  <2> QED  BY <1>2, <1>3, <1>4, <2>1, <2>2 DEF Class
<1> QED  BY <1>5, <1>6

\* A plan that is sent keeps its owner and class if the lister has it.
LEMMA PlanSentShape ==
    ASSUME ObjInv, CatInv, NEW b \in Brokers, w[b].pc = "sync", NEW p \in w[b].plans
    PROVE  /\ p \in Plans /\ PlanSent(b, p) \in Plan
           /\ w[b].got # None /\ w[b].got \in Catalogs[b] /\ p \in DOMAIN w[b].got.offers
           /\ w[b].got.offers[p] \in Classes
           /\ seenPlans[p] = None => PlanSent(b, p).class = w[b].got.offers[p] /\ PlanSent(b, p).owner = b
           /\ seenPlans[p] # None => PlanSent(b, p).class = seenPlans[p].class
                                     /\ PlanSent(b, p).owner = seenPlans[p].owner
<1>1. w[b].got # None /\ p \in DOMAIN w[b].got.offers  BY Zenon DEF CatInv, LoopInv
<1>2. w[b] \in WorkerState /\ w[b].got \in Catalogs[b]
  BY Zenon, <1>1 DEF ObjInv, ObjTyped, WorkersTyped, PerBroker, WorkerInv
<1>3. p \in Plans  BY Zenon, <1>2 DEF WorkerState
<1>4. w[b].got.n \in Nat /\ Services(w[b].got) \subseteq Classes  BY Zenon, <1>2, CatalogTyped
<1>5. w[b].got.offers[p] \in Classes  BY <1>1, <1>4 DEF Services
<1>6. CASE seenPlans[p] = None  BY <1>1, <1>2, <1>3, <1>4, <1>5, <1>6 DEF PlanSent, Plan
<1>7. CASE seenPlans[p] # None
  <2>1. seenPlans[p] \in Plan  BY <1>3, <1>7 DEF CatInv, CatTyped
  <2>2. PlanSent(b, p) = [seenPlans[p] EXCEPT !.by = b, !.n = w[b].got.n]  BY <1>7 DEF PlanSent
  <2> QED  BY Zenon, <1>1, <1>2, <1>3, <1>4, <1>5, <1>7, <2>1, <2>2 DEF Plan
<1> QED  BY <1>6, <1>7

\* A worker that does not move keeps its loops.
LEMMA LoopKept ==
    ASSUME NEW x \in Brokers, LoopInv(x), w'[x] = w[x] PROVE LoopInv(x)'
  BY DEF LoopInv

\* Every move keeps what is left to do within the catalog.
LEMMA LoopMoves ==
    ASSUME ObjInv, CatInv, NEW b \in Brokers, Moves(b)
    PROVE  \A x \in Brokers : LoopInv(x)'
<1>1. \A x \in Brokers : x # b => LoopInv(x)'  BY LoopKept DEF Moves, OthersIdle, CatInv
<1>2. LoopInv(b)  BY DEF CatInv
<1>3. LoopInv(b)'
  <2>1. CASE Rests(b)  BY <2>1 DEF Rests, Inactive, LoopInv
  <2>2. CASE Stays(b)  BY <1>2, <2>2 DEF Stays, SameLoop, LoopInv
  <2>3. CASE Resumes(b)  BY <1>2, <2>3 DEF Resumes, SameLoop, LoopInv
  <2>4. CASE Fetches(b)  BY <2>4 DEF Fetches, LoopInv
  <2>5. CASE PutsPlan(b)
    <3>1. w[b].pc = "sync"  BY <2>5 DEF PutsPlan
    <3>2. CASE Inactive(b)'  BY <3>2 DEF Inactive, LoopInv
    <3>3. CASE /\ w'[b].pc = "sync" /\ w'[b].got = w[b].got
               /\ w'[b].plans \subseteq w[b].plans /\ w'[b].classes = w[b].classes
      BY <1>2, <3>1, <3>3 DEF LoopInv
    <3> QED  BY <2>5, <3>2, <3>3 DEF PutsPlan
  <2>6. CASE PutsClass(b)
    <3>1. w[b].pc = "sync"  BY <2>6 DEF PutsClass, ClassesNext
    <3>2. CASE Inactive(b)'  BY <3>2 DEF Inactive, LoopInv
    <3>3. CASE /\ w'[b].pc = "sync" /\ w'[b].got = w[b].got
               /\ w'[b].plans = w[b].plans /\ w'[b].classes \subseteq w[b].classes
      BY <1>2, <3>1, <3>3 DEF LoopInv
    <3> QED  BY Zenon, <2>6, <3>2, <3>3 DEF PutsClass
  <2>7. CASE Finishes(b)  BY <1>2, <2>7 DEF Finishes, ClassesNext, SameLoop, LoopInv
  <2>8. CASE Starts(b) \/ Lists(b) \/ DropsPlan(b) \/ DropsClass(b) \/ Clears(b)
    BY Zenon, <2>8 DEF Starts, Lists, DropsPlan, DropsClass, Clears, LoopInv
  <2> QED  BY <2>1, <2>2, <2>3, <2>4, <2>5, <2>6, <2>7, <2>8 DEF Moves
<1> QED  BY <1>1, <1>3

\* What a step of b writes to the catalog, and when.
Effect(b) ==
    \/ Quiet
    \/ \E p \in Plans : /\ UNCHANGED <<classVars, made>> /\ p \in w[b].plans /\ w[b].pc = "sync"
                        /\ StorePlan(p, PlanSent(b, p))
    \/ \E p \in Plans : /\ UNCHANGED <<classVars, made>> /\ p \in w[b].plans /\ w[b].pc = "delete"
                        /\ StorePlan(p, None)
    \/ \E c \in Classes : /\ UNCHANGED planVars /\ c \in w[b].classes /\ ClassesNext(b) /\ ClassAccepted(b, c)
                          /\ StoreClass(c, ClassSent(b, c)) /\ made' = [made EXCEPT ![b] = @ \cup {c}]
    \/ \E c \in Classes : /\ UNCHANGED <<planVars, made>> /\ c = w[b].current /\ w[b].pc = "delete"
                          /\ w[b].plans = {} /\ StoreClass(c, None)

\* Every move has one of these effects.
LEMMA EffectOfMoves ==
    ASSUME ObjInv, NEW b \in Brokers, Moves(b) PROVE Effect(b)
<1>1. w[b] \in WorkerState  BY DEF ObjInv, ObjTyped, WorkersTyped
<1>2. w[b].plans \subseteq Plans /\ w[b].classes \subseteq Classes /\ (w[b].current # None => w[b].current \in Classes)
  BY Zenon, <1>1 DEF WorkerState
<1>3. CASE PutsPlan(b)  BY Zenon, <1>2, <1>3 DEF PutsPlan, Effect
<1>4. CASE PutsClass(b)  BY Zenon, <1>2, <1>4 DEF PutsClass, Effect
<1>5. CASE DropsPlan(b)  BY <1>2, <1>5 DEF DropsPlan, Effect
<1>6. CASE DropsClass(b)  BY <1>2, <1>6 DEF DropsClass, Effect
<1>7. CASE Quiet  BY Zenon, <1>7 DEF Effect
<1> QED
  BY Zenon, <1>3, <1>4, <1>5, <1>6, <1>7
  DEF Moves, Rests, Stays, Resumes, Fetches, Finishes, Starts, Lists, Clears
=============================================================================
