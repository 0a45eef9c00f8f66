------------------------ MODULE ClusterServiceBroker ------------------------
(***************************************************************************)
(* Brokers registered with the catalog, and the service classes and plans  *)
(* the controller keeps for them: pkg/controller/controller_broker.go.     *)
(*                                                                         *)
(* Each broker has its own worker (the queue never gives one key to two    *)
(* workers), split at each call of the API server and of the broker.       *)
(* Classes and plans are shared: they are named by the IDs the brokers     *)
(* give them, and read from two listers that may be behind the store.      *)
(***************************************************************************)
EXTENDS Naturals, Sequences, FiniteSets

CONSTANTS Brokers, Classes, Plans, \* names
          None,           \* no object
          Catalogs,       \* Catalogs[b]: the catalogs b may answer with, each
                          \* [n |-> its number, offers |-> [plan -> its class]]
          RelistBehavior, \* "Manual" or "Duration"
          Prompt,         \* caches have caught up whenever a key is taken
          FaultKinds,     \* what may go wrong: see Fault and Down
          MaxFaults,      \* how often, in one behaviour
          MaxCrashes,     \* restarts of the controller in one behaviour
          MaxGen,         \* the generation up to which users edit a broker
          MaxClock,       \* relist durations that pass in one behaviour
          MaxLag,         \* watch events of a broker its informer may be behind by
          MaxCatalogLag   \* the same for the informers of classes and plans

Conditions == {"Ready", "Failed"}
Texts == {"fetch a", "fetch b", "auth", "sync", "timeout", "deleting", "deleted", "ok"}
Condition == [status : {"True", "False", "Unknown"}, text : Texts, since : 0..MaxClock]

\* The fields of a broker that its life cycle depends on.  The finalizer is
\* left out: the object has it until it is removed.
Object == [
    del     : BOOLEAN,         \* DeletionTimestamp is set
    gen     : 1..(MaxGen + 1), \* Generation
    recGen  : 0..(MaxGen + 1), \* ReconciledGeneration
    started : BOOLEAN,         \* OperationStartTime is set
    conds   : UNION {[D -> Condition] : D \in SUBSET Conditions}]

\* Classes: the owner is ClusterServiceBrokerName, n the catalog that the
\* rest is from.  Plans also: their class, and whose catalog the rest is from.
Class == [owner : Brokers, n : Nat]
Plan == [owner : Brokers, class : Classes, by : Brokers, n : Nat]

\* A catalog a broker was listed with, and the generation it was listed for.
AllCatalogs == UNION {Catalogs[b] : b \in Brokers}
Listing == [cat : AllCatalogs, gen : 1..(MaxGen + 1)]

\* The services of a catalog, those that its plans belong to.
Services(cat) == {cat.offers[p] : p \in DOMAIN cat.offers}

ASSUME BrokerAssumption ==
    /\ None \notin Object \cup Class \cup Plan \cup Classes \cup Listing
    /\ \A b \in Brokers : \A cat \in Catalogs[b] :
          /\ cat.n \in Nat /\ DOMAIN cat.offers \subseteq Plans
          /\ Services(cat) \subseteq Classes /\ DOMAIN cat.offers # {}
          /\ \A other \in Catalogs[b] : other.n = cat.n => other = cat
    /\ RelistBehavior \in {"Manual", "Duration"} /\ Prompt \in BOOLEAN
    /\ FaultKinds \subseteq {"catalog", "down", "auth", "api", "expire"}
    /\ {MaxFaults, MaxCrashes, MaxGen, MaxClock, MaxCatalogLag} \subseteq Nat
    /\ {MaxGen, MaxLag} \subseteq Nat \ {0}

VARIABLES api,       \* [Brokers -> stored object or None]
          watch,     \* versions the informer has not seen yet, oldest first
          cached,    \* the informer's object
          queued,    \* the key is in brokerQueue, or will be after a back-off
          w,         \* the worker of each broker, see Idle
          classes, plans,         \* the stored classes and plans, or None
          classWatch, planWatch,  \* their events on the way, [name, object]
          seenClasses, seenPlans, \* what serviceClassLister, servicePlanLister show
          clock,     \* relist durations passed
          faults, crashes, \* so far
          listed,    \* history: the catalog and generation of the last Ready
          fetched,   \* history: the clock at the last successful GetCatalog
          made,      \* history: classes each broker has created
          gaveUp     \* history: the generation whose retries were stopped

objectVars == <<api, watch>>
classVars == <<classes, classWatch, seenClasses>>
planVars == <<plans, planWatch, seenPlans>>
bounds == <<clock, faults, crashes>>
historyVars == <<listed, fetched, made, gaveUp>>
vars == <<objectVars, cached, queued, w, classVars, planVars, bounds, historyVars>>

\* A worker without a key.  local is its copy of the broker, fresh whether
\* the copy has the stored resource version, draft the object it is about to
\* write and next what follows that write; got is the fetched catalog, and
\* plans, classes and current are where its loops are.
Idle == [pc |-> "idle", local |-> None, fresh |-> FALSE, draft |-> None,
         next |-> "ok", got |-> None, plans |-> {}, classes |-> {}, current |-> None]

\* PrepareForCreate: an empty status and generation 1.
NewBroker == [del |-> FALSE, gen |-> 1, recGen |-> 0, started |-> FALSE, conds |-> <<>>]

\* Every broker has just been created; the catalog is empty.
Init ==
    /\ api = [b \in Brokers |-> NewBroker]
    /\ watch = [b \in Brokers |-> <<NewBroker>>]
    /\ cached = [b \in Brokers |-> None]
    /\ queued = [b \in Brokers |-> FALSE]
    /\ w = [b \in Brokers |-> Idle]
    /\ classes = [c \in Classes |-> None] /\ seenClasses = classes /\ classWatch = <<>>
    /\ plans = [p \in Plans |-> None] /\ seenPlans = plans /\ planWatch = <<>>
    /\ clock = 0 /\ faults = 0 /\ crashes = 0
    /\ listed = [b \in Brokers |-> None] /\ fetched = [b \in Brokers |-> 0]
    /\ made = [b \in Brokers |-> {}] /\ gaveUp = [b \in Brokers |-> 0]

\* One of the bounded number of things that go wrong.
Fault(kind) ==
    kind \in FaultKinds /\ faults < MaxFaults /\ faults' = faults + 1

\* The broker's server never answers.
Down == "down" \in FaultKinds

-----------------------------------------------------------------------------
(* The status helpers.                                                     *)

ReadyIs(o, status) == "Ready" \in DOMAIN o.conds /\ o.conds["Ready"].status = status

\* Variant of ShouldReconcile that does not compare the generations.
ShouldReconcile_NoGeneration(o) ==
    \/ o.del
    \/ ReadyIs(o, "True") => RelistBehavior = "Duration" /\ clock > o.conds["Ready"].since

\* shouldReconcileClusterServiceBroker.
ShouldReconcile(o) ==
    \/ o.recGen # o.gen \/ o.del
    \/ ReadyIs(o, "True") => RelistBehavior = "Duration" /\ clock > o.conds["Ready"].since

\* Variant of UpdateCondition that records the generation for any status.
UpdateCondition_AnyStatus(o, type, status, text) ==
    [o EXCEPT !.conds = [t \in {type} |-> [status |-> status, text |-> text, since |-> clock]],
              !.recGen = IF type = "Ready" THEN o.gen ELSE @]

\* updateClusterServiceBrokerCondition, up to its write.  A condition is
\* added only to an empty list, and changed only if it is there.
UpdateCondition(o, type, status, text) ==
    LET old == o.conds
        new == [status |-> status, text |-> text,
                since  |-> IF type \in DOMAIN old /\ old[type].status = status
                           THEN old[type].since ELSE clock]
    IN  [o EXCEPT !.conds = IF old = <<>> THEN [t \in {type} |-> new]
                            ELSE IF type \in DOMAIN old THEN [old EXCEPT ![type] = new]
                            ELSE old,
                  !.recGen = IF type = "Ready" /\ status = "True" THEN o.gen ELSE @]

-----------------------------------------------------------------------------
(* The API server and the informers.                                       *)

\* The object of b becomes o.  A write that changes nothing is not stored:
\* the resource version stays and there is no event.
Store(b, o) ==
    /\ api' = [api EXCEPT ![b] = o]
    /\ IF o = api[b] THEN UNCHANGED watch
       ELSE Len(watch[b]) < MaxLag /\ watch' = [watch EXCEPT ![b] = Append(@, o)]

\* The class c, or the plan p, becomes e; None removes it.
StoreClass(c, e) ==
    /\ classes' = [classes EXCEPT ![c] = e]
    /\ IF e = classes[c] THEN UNCHANGED <<classWatch, seenClasses>>
       ELSE IF MaxCatalogLag = 0 THEN seenClasses' = classes' /\ UNCHANGED classWatch
       ELSE /\ Len(classWatch) < MaxCatalogLag
            /\ classWatch' = Append(classWatch, [name |-> c, object |-> e])
            /\ UNCHANGED seenClasses

StorePlan(p, e) ==
    /\ plans' = [plans EXCEPT ![p] = e]
    /\ IF e = plans[p] THEN UNCHANGED <<planWatch, seenPlans>>
       ELSE IF MaxCatalogLag = 0 THEN seenPlans' = plans' /\ UNCHANGED planWatch
       ELSE /\ Len(planWatch) < MaxCatalogLag
            /\ planWatch' = Append(planWatch, [name |-> p, object |-> e])
            /\ UNCHANGED seenPlans

\* The lister's copy of x has the stored resource version.
Current(x, events) == \A i \in DOMAIN events : events[i].name # x

\* Variant of UserDelete that marks a marked object again.
UserDelete_Again(b) ==
    /\ api[b] # None
    /\ Store(b, [api[b] EXCEPT !.del = TRUE, !.gen = @ + 1])
    /\ w' = [w EXCEPT ![b].fresh = FALSE]
    /\ UNCHANGED <<cached, queued, classVars, planVars, bounds, historyVars>>

\* The user deletes the broker: marked, since it has a finalizer.
UserDelete(b) ==
    /\ api[b] # None /\ ~api[b].del
    /\ Store(b, [api[b] EXCEPT !.del = TRUE, !.gen = @ + 1])
    /\ w' = [w EXCEPT ![b].fresh = FALSE]
    /\ UNCHANGED <<cached, queued, classVars, planVars, bounds, historyVars>>

\* The user changes the spec, RelistRequests for one: a new generation.
UserEdit(b) ==
    /\ api[b] # None /\ ~api[b].del /\ api[b].gen < MaxGen
    /\ Store(b, [api[b] EXCEPT !.gen = @ + 1])
    /\ w' = [w EXCEPT ![b].fresh = FALSE]
    /\ UNCHANGED <<cached, queued, classVars, planVars, bounds, historyVars>>

\* brokerAdd and brokerUpdate; brokerDelete does nothing.
InformerEvent(b) ==
    /\ watch[b] # <<>>
    /\ cached' = [cached EXCEPT ![b] = Head(watch[b])]
    /\ watch' = [watch EXCEPT ![b] = Tail(@)]
    /\ queued' = [queued EXCEPT ![b] = @ \/ cached'[b] # None]
    /\ UNCHANGED <<api, w, classVars, planVars, bounds, historyVars>>

ClassEvent ==
    /\ classWatch # <<>> /\ classWatch' = Tail(classWatch)
    /\ seenClasses' = [seenClasses EXCEPT ![Head(classWatch).name] = Head(classWatch).object]
    /\ UNCHANGED <<objectVars, cached, queued, w, classes, planVars, bounds, historyVars>>

PlanEvent ==
    /\ planWatch # <<>> /\ planWatch' = Tail(planWatch)
    /\ seenPlans' = [seenPlans EXCEPT ![Head(planWatch).name] = Head(planWatch).object]
    /\ UNCHANGED <<objectVars, cached, queued, w, plans, classVars, bounds, historyVars>>

\* The informer's periodic resync calls brokerUpdate with what it has.
Resync(b) ==
    /\ cached[b] # None /\ ~queued[b] /\ queued' = [queued EXCEPT ![b] = TRUE]
    /\ UNCHANGED <<objectVars, cached, w, classVars, planVars, bounds, historyVars>>

\* A relist duration passes.
Tick ==
    /\ clock < MaxClock /\ clock' = clock + 1
    /\ UNCHANGED <<objectVars, cached, queued, w, classVars, planVars, faults, crashes, historyVars>>

\* The events of an informer's first list of the objects, each once, in any
\* order.
FirstLists(objects) ==
    LET there  == {x \in DOMAIN objects : objects[x] # None}
        events == {[name |-> x, object |-> objects[x]] : x \in there}
    IN  UNION {{s \in [1..n -> events] : {s[i] : i \in 1..n} = events} : n \in 0..Cardinality(there)}

\* The process dies and a new one lists the objects.  Its workers do not wait
\* for the listers to be filled.
Crash ==
    /\ crashes < MaxCrashes /\ crashes' = crashes + 1
    /\ w' = [b \in Brokers |-> Idle]
    /\ queued' = [b \in Brokers |-> FALSE] /\ cached' = [b \in Brokers |-> None]
    /\ watch' = [b \in Brokers |-> IF api[b] = None THEN <<>> ELSE <<api[b]>>]
    /\ IF MaxCatalogLag = 0 THEN UNCHANGED <<classWatch, seenClasses, planWatch, seenPlans>>
       ELSE /\ classWatch' \in FirstLists(classes) /\ seenClasses' = [c \in Classes |-> None]
            /\ planWatch' \in FirstLists(plans) /\ seenPlans' = [p \in Plans |-> None]
    /\ UNCHANGED <<api, classes, plans, clock, faults, historyVars>>

-----------------------------------------------------------------------------
(* The worker: returning, taking the key, writing the status.              *)

\* The worker ends with nil, or with an error: then worker() retries the key
\* later or, after maxRetries, drops it (WorkQueue has the counts).
Return(b, result) ==
    /\ w' = [w EXCEPT ![b] = Idle]
    /\ \/ UNCHANGED queued
       \/ result = "err" /\ queued' = [queued EXCEPT ![b] = TRUE]

\* Write o next, and then go on with what `next' says.
Write(b, o, next) ==
    w' = [w EXCEPT ![b].pc = "write", ![b].draft = o, ![b].next = next]

\* Write the Ready condition and return an error.
Complain(b, status, text) ==
    Write(b, UpdateCondition(w[b].local, "Ready", status, text), "err")

Take(b) ==
    /\ w[b].pc = "idle" /\ queued[b] /\ queued' = [queued EXCEPT ![b] = FALSE]
    /\ Prompt => watch[b] = <<>> /\ classWatch = <<>> /\ planWatch = <<>>
    /\ UNCHANGED <<objectVars, cached, classVars, planVars, bounds, historyVars>>

ReconcileNothing(b) ==
    /\ Take(b) /\ (cached[b] # None => ~ShouldReconcile(cached[b]))
    /\ UNCHANGED w

\* The relist, up to GetCatalog; or the classes to delete are listed.
Begin(b) ==
    /\ Take(b) /\ cached[b] # None /\ ShouldReconcile(cached[b])
    /\ w' = [w EXCEPT ![b] =
          [Idle EXCEPT !.local = cached[b], !.fresh = watch[b] = <<>>,
             !.pc = IF cached[b].del THEN "delete" ELSE "fetch",
             !.classes = IF cached[b].del
                         THEN {c \in Classes : seenClasses[c] # None /\ seenClasses[c].owner = b}
                         ELSE {}]]

\* Variant of Accepted without the resource version.
Accepted_NoVersion(b) == w[b].pc = "write" /\ api[b] # None

\* A write with an old resource version, or of an object that is gone, is
\* refused.
Accepted(b) == w[b].pc = "write" /\ w[b].fresh /\ api[b] # None

\* The draft is stored, with what the history says of it.
CommitDraft(b) ==
    /\ Store(b, w[b].draft)
    /\ listed' = IF ReadyIs(w[b].draft, "True") /\ w[b].next = "ok"
                 THEN [listed EXCEPT ![b] = [cat |-> w[b].got, gen |-> w[b].local.gen]]
                 ELSE listed
    /\ gaveUp' = IF w[b].next = "stop" THEN [gaveUp EXCEPT ![b] = w[b].local.gen] ELSE gaveUp
    /\ UNCHANGED <<cached, classVars, planVars, clock, crashes, fetched, made>>

\* The write fails: refused, lost, or stored with its answer lost.
WriteFails(b) ==
    /\ w[b].pc = "write" /\ Return(b, "err")
    /\ \/ /\ IF Accepted(b) THEN Fault("api") ELSE UNCHANGED faults
          /\ UNCHANGED <<objectVars, cached, classVars, planVars, clock, crashes, historyVars>>
       \/ Accepted(b) /\ Fault("api") /\ CommitDraft(b)

\* The write is stored and is the last one.
WriteReturns(b) ==
    /\ Accepted(b) /\ w[b].next \in {"ok", "err", "stop"} /\ UNCHANGED faults
    /\ CommitDraft(b)
    /\ Return(b, IF w[b].next = "err" THEN "err" ELSE "ok")

\* The write is stored and another one, from the same copy, or the next call
\* follows.
WriteContinues(b) ==
    /\ Accepted(b) /\ w[b].next \notin {"ok", "err", "stop"} /\ UNCHANGED <<queued, faults>>
    /\ CommitDraft(b)
    /\ LET o    == w[b].local
           same == w[b].draft = api[b]
           step == [w[b] EXCEPT !.fresh = same, !.draft = None, !.next = "ok"]
       IN  w' = [w EXCEPT ![b] =
             CASE w[b].next = "record start" ->
                    [step EXCEPT !.pc = "write", !.draft = [o EXCEPT !.started = TRUE],
                                 !.next = "err"]
               [] w[b].next = "stop retries" ->
                    [step EXCEPT !.pc = "write", !.next = "stop",
                                 !.draft = UpdateCondition([o EXCEPT !.started = FALSE, !.recGen = o.gen],
                                                           "Failed", "True", "timeout")]
               [] OTHER -> [step EXCEPT !.pc = w[b].next]]

-----------------------------------------------------------------------------
(* The relist.                                                             *)

\* The broker's secret cannot be read, or no client can be made.
AuthFails(b) ==
    /\ w[b].pc = "fetch" /\ Fault("auth")
    /\ Complain(b, "False", "auth")
    /\ UNCHANGED <<objectVars, cached, queued, classVars, planVars, clock, crashes, historyVars>>

\* GetCatalog fails, with one error text or another.  After the condition,
\* the start time is recorded or, when the retry duration is over, the
\* retries are stopped.
FetchFails(b) ==
    /\ w[b].pc = "fetch"
    /\ \E text \in {"fetch a", "fetch b"},
          next \in IF w[b].local.started THEN {"err", "stop retries"} ELSE {"record start"} :
          /\ CASE next = "stop retries" -> Fault("expire")
               [] Down                  -> UNCHANGED faults
               [] OTHER                 -> Fault("catalog")
          /\ Write(b, UpdateCondition(w[b].local, "Ready", "False", text), next)
    /\ UNCHANGED <<objectVars, cached, queued, classVars, planVars, clock, crashes, historyVars>>

\* GetCatalog answers.  A start time is cleared first, by a write of its own.
\* A catalog without services, or a service without plans, is useless: None.
FetchOK(b) ==
    /\ w[b].pc = "fetch" /\ ~Down
    /\ \E cat \in Catalogs[b] \cup {None} :
          /\ IF cat = None THEN Fault("catalog") ELSE UNCHANGED faults
          /\ LET got == [w[b] EXCEPT !.got = cat, !.pc = "sync",
                            !.plans = IF cat = None THEN {} ELSE DOMAIN cat.offers,
                            !.classes = IF cat = None THEN {} ELSE Services(cat)]
             IN  w' = [w EXCEPT ![b] = IF w[b].local.started
                       THEN [got EXCEPT !.pc = "write", !.next = "sync",
                                        !.draft = [w[b].local EXCEPT !.started = FALSE]]
                       ELSE got]
    /\ fetched' = [fetched EXCEPT ![b] = clock]
    /\ UNCHANGED <<objectVars, cached, queued, classVars, planVars, clock, crashes, listed, made, gaveUp>>

CatalogUseless(b) ==
    /\ w[b].pc = "sync" /\ w[b].got = None
    /\ Complain(b, "False", "sync")
    /\ UNCHANGED <<objectVars, cached, queued, classVars, planVars, bounds, historyVars>>

\* What reconcileServicePlan sends for p: a new plan, or the existing one
\* with the fields of the catalog, and whether the API server accepts it.
\* The lister is read just before: a change in between is a lister behind.
PlanSent(b, p) ==
    IF seenPlans[p] = None
    THEN [owner |-> b, class |-> w[b].got.offers[p], by |-> b, n |-> w[b].got.n]
    ELSE [seenPlans[p] EXCEPT !.by = b, !.n = w[b].got.n]

PlanAccepted(p) ==
    IF seenPlans[p] = None THEN plans[p] = None ELSE Current(p, planWatch)

ReconcileServicePlan(b) ==
    /\ w[b].pc = "sync" /\ \E p \in w[b].plans :
          /\ PlanAccepted(p) /\ StorePlan(p, PlanSent(b, p))
          /\ \/ w' = [w EXCEPT ![b].plans = @ \ {p}] /\ UNCHANGED faults
             \/ Fault("api") /\ Complain(b, "False", "sync")
    /\ UNCHANGED <<objectVars, cached, queued, classVars, clock, crashes, historyVars>>

\* The same for reconcileServiceClassFromClusterServiceBrokerCatalog.
ClassSent(b, c) ==
    IF seenClasses[c] = None THEN [owner |-> b, n |-> w[b].got.n]
                             ELSE [seenClasses[c] EXCEPT !.n = w[b].got.n]

\* Variant of ClassAccepted that takes over the classes of other brokers.
ClassAccepted_AnyOwner(b, c) ==
    IF seenClasses[c] = None THEN classes[c] = None ELSE Current(c, classWatch)

ClassAccepted(b, c) ==
    IF seenClasses[c] = None THEN classes[c] = None
                             ELSE seenClasses[c].owner = b /\ Current(c, classWatch)

\* Variant of ClassesNext that does not wait for the plans.
ClassesNext_Early(b) == w[b].pc = "sync" /\ w[b].got # None

\* All plans come before the first class.
ClassesNext(b) == w[b].pc = "sync" /\ w[b].got # None /\ w[b].plans = {}

ReconcileServiceClass(b) ==
    /\ ClassesNext(b) /\ \E c \in w[b].classes :
          /\ ClassAccepted(b, c) /\ StoreClass(c, ClassSent(b, c))
          /\ made' = [made EXCEPT ![b] = @ \cup {c}]
          /\ \/ w' = [w EXCEPT ![b].classes = @ \ {c}] /\ UNCHANGED faults
             \/ Fault("api") /\ Complain(b, "False", "sync")
    /\ UNCHANGED <<objectVars, cached, queued, planVars, clock, crashes, listed, fetched, gaveUp>>

\* Variant of SyncFails that goes on with the rest of the catalog.
SyncFails_Ignored(b) ==
    /\ w[b].pc = "sync" /\ w[b].got # None /\ Fault("api")
    /\ IF w[b].plans # {}
       THEN \E p \in w[b].plans : w' = [w EXCEPT ![b].plans = @ \ {p}]
       ELSE \E c \in w[b].classes : w' = [w EXCEPT ![b].classes = @ \ {c}]
    /\ UNCHANGED <<objectVars, cached, queued, classVars, planVars, clock, crashes, historyVars>>

\* A plan or a class is refused, or the request is lost.
SyncFails(b) ==
    /\ w[b].pc = "sync" /\ w[b].got # None
    /\ IF w[b].plans # {}
       THEN \E p \in w[b].plans : IF PlanAccepted(p) THEN Fault("api") ELSE UNCHANGED faults
       ELSE \E c \in w[b].classes : IF ClassAccepted(b, c) THEN Fault("api") ELSE UNCHANGED faults
    /\ Complain(b, "False", "sync")
    /\ UNCHANGED <<objectVars, cached, queued, classVars, planVars, clock, crashes, historyVars>>

SyncDone(b) ==
    /\ ClassesNext(b) /\ w[b].classes = {}
    /\ Write(b, UpdateCondition(w[b].local, "Ready", "True", "ok"), "ok")
    /\ UNCHANGED <<objectVars, cached, queued, classVars, planVars, bounds, historyVars>>

-----------------------------------------------------------------------------
(* The deletion: for each class listed at the start its plans, listed then, *)
(* and the class itself; then the condition, and then the finalizer.       *)

ListPlans(b) ==
    /\ w[b].pc = "delete" /\ w[b].current = None
    /\ \E c \in w[b].classes :
          w' = [w EXCEPT ![b].current = c,
                   ![b].plans = {p \in Plans : seenPlans[p] # None /\ seenPlans[p].class = c}]
    /\ UNCHANGED <<objectVars, cached, queued, classVars, planVars, bounds, historyVars>>

\* Deletes are by name; an object that is not there any more is fine.
DeletePlan(b) ==
    /\ w[b].pc = "delete" /\ \E p \in w[b].plans :
          StorePlan(p, None) /\ w' = [w EXCEPT ![b].plans = @ \ {p}]
    /\ UNCHANGED <<objectVars, cached, queued, classVars, bounds, historyVars>>

DeleteClass(b) ==
    /\ w[b].pc = "delete" /\ w[b].current # None /\ w[b].plans = {}
    /\ StoreClass(w[b].current, None)
    /\ w' = [w EXCEPT ![b].current = None, ![b].classes = @ \ {w[b].current}]
    /\ UNCHANGED <<objectVars, cached, queued, planVars, bounds, historyVars>>

\* Variant of DeleteFails that goes on to the finalizer.
DeleteFails_Ignored(b) ==
    /\ w[b].pc = "delete" /\ w[b].current # None /\ Fault("api")
    /\ Write(b, UpdateCondition(w[b].local, "Ready", "False", "deleted"), "finalize")
    /\ UNCHANGED <<objectVars, cached, queued, classVars, planVars, clock, crashes, historyVars>>

DeleteFails(b) ==
    /\ w[b].pc = "delete" /\ w[b].current # None /\ Fault("api")
    /\ Complain(b, "Unknown", "deleting")
    /\ UNCHANGED <<objectVars, cached, queued, classVars, planVars, clock, crashes, historyVars>>

\* Variant of DeleteDone that does not clear the finalizer.
DeleteDone_KeepsFinalizer(b) ==
    /\ w[b].pc = "delete" /\ w[b].current = None /\ w[b].classes = {}
    /\ Write(b, UpdateCondition(w[b].local, "Ready", "False", "deleted"), "ok")
    /\ UNCHANGED <<objectVars, cached, queued, classVars, planVars, bounds, historyVars>>

DeleteDone(b) ==
    /\ w[b].pc = "delete" /\ w[b].current = None /\ w[b].classes = {}
    /\ Write(b, UpdateCondition(w[b].local, "Ready", "False", "deleted"), "finalize")
    /\ UNCHANGED <<objectVars, cached, queued, classVars, planVars, bounds, historyVars>>

\* updateClusterServiceBrokerFinalizers works on the latest version; without
\* its finalizer the object is removed.  An error is ignored.
Finalize(b) ==
    /\ w[b].pc = "finalize" /\ Return(b, "ok")
    /\ \/ Store(b, None) /\ UNCHANGED faults
       \/ Fault("api") /\ UNCHANGED objectVars
    /\ UNCHANGED <<cached, classVars, planVars, clock, crashes, historyVars>>

-----------------------------------------------------------------------------

Status(b) == WriteFails(b) \/ WriteReturns(b) \/ WriteContinues(b)

Relist(b) ==
    \/ AuthFails(b) \/ FetchFails(b) \/ FetchOK(b) \/ CatalogUseless(b)
    \/ ReconcileServicePlan(b) \/ ReconcileServiceClass(b) \/ SyncFails(b) \/ SyncDone(b)

Deletion(b) ==
    \/ ListPlans(b) \/ DeletePlan(b) \/ DeleteClass(b)
    \/ DeleteFails(b) \/ DeleteDone(b) \/ Finalize(b)

Worker(b) == ReconcileNothing(b) \/ Begin(b) \/ Status(b) \/ Relist(b) \/ Deletion(b)

Next ==
    \/ \E b \in Brokers : Worker(b) \/ InformerEvent(b) \/ Resync(b) \/ UserDelete(b) \/ UserEdit(b)
    \/ ClassEvent \/ PlanEvent \/ Tick \/ Crash

Spec == Init /\ [][Next]_vars

\* Workers, informers and resyncs keep going; nothing is assumed of users.
Fairness ==
    /\ \A b \in Brokers : WF_vars(Worker(b)) /\ WF_vars(InformerEvent(b)) /\ WF_vars(Resync(b))
    /\ WF_vars(ClassEvent) /\ WF_vars(PlanEvent)

FairSpec == Spec /\ Fairness

-----------------------------------------------------------------------------
(* Properties.                                                             *)

\* What the fields of a worker range over.
WorkerState == [
    pc : {"idle", "fetch", "sync", "delete", "finalize", "write"},
    local : Object \cup {None}, fresh : BOOLEAN, draft : Object \cup {None},
    next : {"ok", "err", "stop", "record start", "stop retries", "sync", "finalize"},
    got : AllCatalogs \cup {None},
    plans : SUBSET Plans, classes : SUBSET Classes, current : Classes \cup {None}]

\* The variables have the types given where they are declared.
TypeOK ==
    /\ api \in [Brokers -> Object \cup {None}] /\ cached \in [Brokers -> Object \cup {None}]
    /\ watch \in [Brokers -> Seq(Object \cup {None})] /\ queued \in [Brokers -> BOOLEAN]
    /\ \A b \in Brokers : Len(watch[b]) <= MaxLag
    /\ w \in [Brokers -> WorkerState]
    /\ classes \in [Classes -> Class \cup {None}] /\ seenClasses \in [Classes -> Class \cup {None}]
    /\ plans \in [Plans -> Plan \cup {None}] /\ seenPlans \in [Plans -> Plan \cup {None}]
    /\ classWatch \in Seq([name : Classes, object : Class \cup {None}])
    /\ planWatch \in Seq([name : Plans, object : Plan \cup {None}])
    /\ clock \in 0..MaxClock /\ faults \in 0..MaxFaults /\ crashes \in 0..MaxCrashes
    /\ listed \in [Brokers -> Listing \cup {None}] /\ fetched \in [Brokers -> 0..MaxClock]
    /\ made \in [Brokers -> SUBSET Classes] /\ gaveUp \in [Brokers -> 0..(MaxGen + 1)]

Registered(b) == api[b] # None /\ ~api[b].del

\* A broker that says Ready has the services of the catalog it was listed
\* with: each class is there and is its own, each plan is there for its class,
\* through faults, crashes and later relists.  (Not so when another broker
\* offers the same services and is deleted meanwhile.)
ReadyMeansListed ==
    \A b \in Brokers : Registered(b) /\ ReadyIs(api[b], "True") =>
        LET offers == listed[b].cat.offers IN
        \A p \in DOMAIN offers :
            /\ classes[offers[p]] # None /\ classes[offers[p]].owner = b
            /\ plans[p] # None /\ plans[p].class = offers[p]

\* ReconciledGeneration is the generation of a spec that a catalog was really
\* fetched with (or, by the retry duration, given up on): an edit of the spec
\* during a relist is not taken for listed.
ReconciledMeansFetched ==
    \A b \in Brokers : api[b] # None /\ api[b].recGen > 0 =>
        api[b].recGen \in {gaveUp[b]} \cup (IF listed[b] = None THEN {} ELSE {listed[b].gen})

\* No class is without its plans: what a class was last listed with is there
\* as long as the class is and its owner is not being deleted.  This is what
\* reconciling the plans before the classes is for.
NoClassWithoutPlans ==
    \A c \in Classes : classes[c] # None /\ Registered(classes[c].owner) =>
        \A cat \in Catalogs[classes[c].owner] : cat.n = classes[c].n =>
            \A p \in DOMAIN cat.offers : cat.offers[p] = c =>
                plans[p] # None /\ plans[p].class = c

\* A class is never changed by a broker other than the one it names, also when
\* several offer it and it is deleted and created again.
ClassesKeepToTheirBroker ==
    \A c \in Classes : classes[c] # None =>
        \E cat \in Catalogs[classes[c].owner] : cat.n = classes[c].n

\* A broker that is gone has left no class behind, and no plan of a class
\* that it ever created; nothing is created for it afterwards.
RemovedMeansCleared ==
    \A b \in Brokers : api[b] = None =>
        /\ \A c \in Classes : classes[c] # None => classes[c].owner # b
        /\ \A p \in Plans : plans[p] # None /\ plans[p].owner = b => plans[p].class \notin made[b]

\* A write never undoes a deletion mark or a later generation.
ObjectNeverRegresses ==
    [][\A b \in Brokers : api[b] # None /\ api'[b] # None =>
          /\ api[b].del => api'[b].del
          /\ api'[b].gen >= api[b].gen /\ api'[b].recGen >= api[b].recGen]_vars

\* Whatever fails, and however often its spec is edited, a broker that is not
\* deleted is Ready with its latest spec again and again.
Listed ==
    \A b \in Brokers : []<>(~Registered(b) \/ (ReadyIs(api[b], "True") /\ api[b].recGen = api[b].gen))

\* A deleted broker goes away, also when its finalizer's update fails.
DeletionCompletes == \A b \in Brokers : []<>(api[b] = None \/ ~api[b].del)

-----------------------------------------------------------------------------
(* What documents, comments and tests say and the code does not do.        *)

\* docs/walkthrough-1.7.md: all the classes that came from the broker are
\* deleted with it.
ClassesGoWithBroker ==
    \A b \in Brokers : api[b] = None =>
        \A c \in Classes : classes[c] # None => classes[c].owner # b

\* docs/walkthrough-1.7.md: deleting the broker removes its services, plans
\* included, from the catalog.
PlansGoWithBroker ==
    \A b \in Brokers : api[b] = None =>
        \A p \in Plans : plans[p] # None => plans[p].owner # b

\* types.go: ClusterServiceBrokerName is the broker that offers the plan.
PlanNamesItsBroker == \A p \in Plans : plans[p] # None => plans[p].by = plans[p].owner

\* TestReconcileClusterServiceBrokerFailureOnFinalRetry: the last retry leaves
\* the Failed condition.
GivingUpIsRecorded ==
    \A b \in Brokers : api[b] # None /\ gaveUp[b] = api[b].gen => "Failed" \in DOMAIN api[b].conds

\* "Stopping reconciliation retries": the catalog is not asked for again
\* until the spec changes.
StoppedIsNotRetried ==
    \A b \in Brokers : w[b].pc = "fetch" => w[b].local.gen # gaveUp[b]

\* types.go: RelistDuration is the frequency of relists.
RelistsAtTheirFrequency ==
    [][\A b \in Brokers :
          w[b].pc = "idle" /\ w'[b].pc = "fetch"
          /\ ReadyIs(cached[b], "True") /\ cached[b].recGen = cached[b].gen => clock > fetched[b]]_vars

\* The retry duration bounds the retries: when every fetch fails, its clock
\* is started.
RetryClockStarts ==
    \A b \in Brokers : [](w[b].pc = "fetch" => <>(~Registered(b) \/ api[b].started \/ gaveUp[b] > 0))
=============================================================================
