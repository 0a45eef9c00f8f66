------------------------ MODULE ServiceCatalogProofs ------------------------
(***************************************************************************)
(* The classes and plans that the brokers share, for every value of the    *)
(* constants.                                                              *)
(*                                                                         *)
(* Three results, each with an invariant of its own, on top of what        *)
(* ClusterServiceBrokerProofs says of the steps of a broker (Moves,        *)
(* Effect):                                                                *)
(*   - CatInv, without hypotheses: types, and that a class is only changed *)
(*     by the broker it names;                                             *)
(*   - SepInv, when no two brokers offer the same service or plan: what a  *)
(*     registered broker offers is taken away by no step (Keeps), so what  *)
(*     a relist has written is there when it says Ready, and stays;        *)
(*   - ClearInv, when the listers are current: a deletion has to do just   *)
(*     what is there, and after it nothing is created for the broker.      *)
(* Without these hypotheses the code does not have the properties: the     *)
(* runs about shared services and about stale listers show it.             *)
(***************************************************************************)
EXTENDS ClusterServiceBrokerProofs

\* More time than by default, for a slow machine.
USE SMTT(30), ZenonT(30)

-----------------------------------------------------------------------------
(* Types, and the owners of classes.                                       *)

\* Every step keeps the invariant of the catalog.
LEMMA StepCatalog ==
    ASSUME ObjInv, CatInv, [Next]_vars
    PROVE  CatInv'
<1>0. CatTyped /\ ClassesKeepToTheirBroker /\ \A x \in Brokers : LoopInv(x)  BY DEF CatInv
<1>1. ASSUME NEW b \in Brokers, BrokerStep(b) PROVE CatInv'
  <2>1. Moves(b)  BY <1>1, BrokerMoves DEF ObjInv
  <2>2. \A x \in Brokers : LoopInv(x)'  BY <2>1, LoopMoves
  <2>3. Effect(b)  BY <2>1, EffectOfMoves
  <2>4. CASE Quiet
    BY <1>0, <2>2, <2>4 DEF Quiet, classVars, planVars, CatInv, CatTyped, ClassesKeepToTheirBroker
  <2>5. ASSUME NEW p \in Plans, NEW e \in Plan \cup {None}, StorePlan(p, e), UNCHANGED <<classVars, made>>
        PROVE  CatInv'
    <3>1. CatTyped'  BY Zenon, <1>0, <2>5, PlanStored DEF CatTyped, classVars
    <3> QED  BY Zenon, <1>0, <2>2, <2>5, <3>1 DEF CatInv, ClassesKeepToTheirBroker, classVars
  <2>6. ASSUME NEW c \in Classes, NEW e \in Class \cup {None}, StoreClass(c, e), UNCHANGED planVars,
               e # None => \E cat \in Catalogs[e.owner] : cat.n = e.n
        PROVE  CatInv'
    <3>1. CatTyped'  BY Zenon, <1>0, <2>6, ClassStored DEF CatTyped, planVars
    <3>2. classes'[c] = e /\ \A d \in Classes : d # c => classes'[d] = classes[d]  BY Zenon, <1>0, <2>6, ClassStored
    <3>3. ClassesKeepToTheirBroker'  BY Zenon, <1>0, <2>6, <3>2 DEF ClassesKeepToTheirBroker
    <3> QED  BY <2>2, <3>1, <3>3 DEF CatInv
  <2>7. ASSUME NEW p \in Plans, p \in w[b].plans, w[b].pc = "sync" PROVE PlanSent(b, p) \in Plan
    BY <2>7, PlanSentShape
  <2>8. ASSUME NEW c \in w[b].classes, ClassesNext(b), ClassAccepted(b, c)
        PROVE  ClassSent(b, c) \in Class /\ \E cat \in Catalogs[ClassSent(b, c).owner] : cat.n = ClassSent(b, c).n
    BY Zenon, <2>8, ClassSentShape
  <2> QED  BY Zenon, <2>3, <2>4, <2>5, <2>6, <2>7, <2>8 DEF Effect
<1>2. CASE Tick \/ UNCHANGED vars
  <2>1. UNCHANGED <<classVars, planVars, w>>  BY <1>2 DEF Tick, vars
  <2>2. CatTyped' /\ ClassesKeepToTheirBroker'
    BY <1>0, <2>1 DEF classVars, planVars, CatTyped, ClassesKeepToTheirBroker
  <2> QED  BY <1>0, <2>1, <2>2, LoopKept DEF CatInv
<1>3. CASE ClassEvent
  <2>1. UNCHANGED <<classes, planVars, w>>  BY <1>3 DEF ClassEvent
  <2>2. CatTyped'  BY <1>0, <1>3, <2>1, ClassEventShape DEF planVars, CatTyped
  <2>3. ClassesKeepToTheirBroker'  BY <1>0, <2>1 DEF ClassesKeepToTheirBroker
  <2> QED  BY <1>0, <2>1, <2>2, <2>3, LoopKept DEF CatInv
<1>4. CASE PlanEvent
  <2>1. UNCHANGED <<plans, classVars, w>>  BY <1>4 DEF PlanEvent
  <2>2. CatTyped'  BY <1>0, <1>4, <2>1, PlanEventShape DEF classVars, CatTyped
  <2>3. ClassesKeepToTheirBroker'  BY <1>0, <2>1 DEF ClassesKeepToTheirBroker, classVars
  <2> QED  BY <1>0, <2>1, <2>2, <2>3, LoopKept DEF CatInv
<1>5. CASE Crash
  <2>1. classes' = classes /\ plans' = plans /\ w' = [b \in Brokers |-> Idle]  BY <1>5 DEF Crash
  <2>2. CatTyped'
    <3>1. CASE MaxCatalogLag = 0  BY <1>0, <1>5, <2>1, <3>1 DEF Crash, CatTyped
    <3>2. CASE MaxCatalogLag # 0
      <4>1. /\ classWatch' \in FirstLists(classes) /\ seenClasses' = [c \in Classes |-> None]
            /\ planWatch' \in FirstLists(plans) /\ seenPlans' = [p \in Plans |-> None]
        BY <1>5, <3>2 DEF Crash
      <4>3. classWatch' \in Seq([name : Classes, object : Class \cup {None}])
        BY Zenon, <1>0, <4>1, FirstListShape DEF CatTyped
      <4>4. planWatch' \in Seq([name : Plans, object : Plan \cup {None}])
        BY Zenon, <1>0, <4>1, FirstListShape DEF CatTyped
      <4> QED  BY <1>0, <2>1, <4>1, <4>3, <4>4 DEF CatTyped
    <3> QED  BY <3>1, <3>2
  <2>3. ClassesKeepToTheirBroker'  BY <1>0, <2>1 DEF ClassesKeepToTheirBroker
  <2>4. \A b \in Brokers : LoopInv(b)'
    <3>1. Idle.pc = "idle"  BY DEF Idle
    <3> QED  BY <2>1, <3>1 DEF LoopInv
  <2> QED  BY <2>2, <2>3, <2>4 DEF CatInv
<1> QED  BY <1>1, <1>2, <1>3, <1>4, <1>5 DEF Next, BrokerStep

\* It holds at the start.
LEMMA InitCatalog == Init => CatInv
<1> SUFFICES ASSUME Init PROVE CatInv  OBVIOUS
<1>1. CatTyped  BY DEF Init, CatTyped
<1>2. ClassesKeepToTheirBroker  BY DEF Init, ClassesKeepToTheirBroker
<1>3. \A b \in Brokers : LoopInv(b)
  <2>1. Idle.pc = "idle"  BY DEF Idle
  <2> QED  BY Zenon, <2>1 DEF Init, LoopInv
<1> QED  BY <1>1, <1>2, <1>3 DEF CatInv

\* The invariants of the objects and of the catalog hold in every reachable state.
THEOREM ObjectsAndCatalog == Spec => [](ObjInv /\ CatInv)
<1>1. ObjInv /\ CatInv /\ [Next]_vars => CatInv'  BY StepCatalog
<1> QED  BY <1>1, InitCatalog, ObjectsHold, PTL DEF Spec

\* All variables keep their types.
THEOREM BrokerTypeCorrect == Spec => []TypeOK
<1>1. ObjInv /\ CatInv => TypeOK  BY DEF ObjInv, ObjTyped, WorkersTyped, CatInv, CatTyped, TypeOK
<1> QED  BY <1>1, ObjectsAndCatalog, PTL

\* No broker changes a class of another one, also when several offer it, it is
\* deleted and created again, and the listers are behind.
THEOREM ClassesStay == Spec => []ClassesKeepToTheirBroker
<1>1. CatInv => ClassesKeepToTheirBroker  BY DEF CatInv
<1> QED  BY <1>1, ObjectsAndCatalog, PTL

-----------------------------------------------------------------------------
(* Separate catalogs.                                                      *)

\* Broker b offers p as a plan of c.
Offers(b, p, c) == \E cat \in Catalogs[b] : p \in DOMAIN cat.offers /\ cat.offers[p] = c

\* A plan is of one class of one broker, and a class is of one broker.
Separate ==
    \A b, x \in Brokers, p, q \in Plans, c, d \in Classes :
        Offers(b, p, c) /\ Offers(x, q, d) => (p = q => b = x /\ c = d) /\ (c = d => b = x)

\* The plan is there for the class.
PlanThere(p, c) == plans[p] # None /\ plans[p].class = c

\* The class is there and is b's.
ClassThere(b, c) == classes[c] # None /\ classes[c].owner = b

\* A version of a class is one its owner offers.
ClassOK(c, o) == o # None => \E p \in Plans : Offers(o.owner, p, c)

\* A version of a plan is for a class it is offered for.
PlanOK(p, o) == o # None => \E b \in Brokers : Offers(b, p, o.class)

\* So are all classes that are stored, listed, or on the way to a lister.
ClassCopies ==
    /\ \A c \in Classes : ClassOK(c, classes[c]) /\ ClassOK(c, seenClasses[c])
    /\ \A i \in 1..Len(classWatch) : ClassOK(classWatch[i].name, classWatch[i].object)

\* And all plans.
PlanCopies ==
    /\ \A p \in Plans : PlanOK(p, plans[p]) /\ PlanOK(p, seenPlans[p])
    /\ \A i \in 1..Len(planWatch) : PlanOK(planWatch[i].name, planWatch[i].object)

\* All of them.
CopiesOK == ClassCopies /\ PlanCopies

\* A broker that is deleted deletes only what it offered.
OwnDeletes(b) ==
    w[b].pc = "delete" =>
        /\ \A c \in w[b].classes : \E p \in Plans : Offers(b, p, c)
        /\ w[b].current # None => \E p \in Plans : Offers(b, p, w[b].current)
        /\ \A p \in w[b].plans : \E c \in Classes : Offers(b, p, c)

\* The worker writes a catalog, or has just written it.
Syncing(b) == w[b].got # None /\ (w[b].pc = "sync" \/ (w[b].pc = "write" /\ w[b].next \in {"sync", "ok"}))

\* What is not left to do of the catalog is there.
SyncInv(b) ==
    Syncing(b) =>
        /\ Registered(b) => \A p \in DOMAIN w[b].got.offers :
              p \notin w[b].plans => PlanThere(p, w[b].got.offers[p])
        /\ Registered(b) => \A c \in Services(w[b].got) :
              c \notin w[b].classes => ClassThere(b, c)
        /\ w[b].pc = "write" /\ w[b].next = "ok" => w[b].plans = {} /\ w[b].classes = {}

\* What a Ready broker was listed with is there.
ListedInv(b) ==
    Registered(b) /\ ReadyIs(api[b], "True") =>
        /\ listed[b] # None /\ listed[b].cat \in Catalogs[b]
        /\ \A p \in DOMAIN listed[b].cat.offers :
              PlanThere(p, listed[b].cat.offers[p]) /\ ClassThere(b, listed[b].cat.offers[p])

\* The inductive invariant behind ReadyMeansListed and NoClassWithoutPlans.
SepInv == /\ Separate /\ CopiesOK /\ NoClassWithoutPlans
          /\ \A b \in Brokers : OwnDeletes(b) /\ SyncInv(b) /\ ListedInv(b)

\* The entries of a catalog are offers.
LEMMA OffersAre ==
    ASSUME NEW b \in Brokers, NEW cat \in Catalogs[b], NEW p \in DOMAIN cat.offers
    PROVE  p \in Plans /\ cat.offers[p] \in Classes /\ cat.offers[p] \in Services(cat)
           /\ Offers(b, p, cat.offers[p])
<1>1. cat.offers[p] \in Services(cat)  BY DEF Services
<1> QED  BY <1>1, CatalogTyped DEF Offers

\* A class of a catalog is offered with a plan.
LEMMA OfferedClass ==
    ASSUME NEW b \in Brokers, NEW cat \in Catalogs[b], NEW c \in Services(cat)
    PROVE  c \in Classes /\ \E p \in Plans : Offers(b, p, c)
<1>1. PICK p \in DOMAIN cat.offers : c = cat.offers[p]  BY DEF Services
<1> QED  BY <1>1, OffersAre

\* Two offers of one plan, or of one class, are of one broker.
LEMMA SeparateUse ==
    ASSUME Separate, NEW b \in Brokers, NEW x \in Brokers, NEW p \in Plans, NEW q \in Plans,
           NEW c \in Classes, NEW d \in Classes, Offers(b, p, c), Offers(x, q, d)
    PROVE  (p = q => b = x /\ c = d) /\ (c = d => b = x)
  BY DEF Separate

\* With separate catalogs a plan is sent for the class it is offered for, also
\* when the class is the lister's.
LEMMA SentPlanClass ==
    ASSUME ObjInv, CatInv, SepInv, NEW x \in Brokers, w[x].pc = "sync", NEW p \in w[x].plans
    PROVE  /\ PlanSent(x, p).class = w[x].got.offers[p] /\ Offers(x, p, w[x].got.offers[p])
           /\ PlanSent(x, p) # None /\ p \in Plans /\ w[x].got.offers[p] \in Classes
<1>1. /\ p \in Plans /\ PlanSent(x, p) \in Plan /\ w[x].got \in Catalogs[x] /\ p \in DOMAIN w[x].got.offers
      /\ seenPlans[p] = None => PlanSent(x, p).class = w[x].got.offers[p]
      /\ seenPlans[p] # None => PlanSent(x, p).class = seenPlans[p].class
  BY PlanSentShape
<1>2. Offers(x, p, w[x].got.offers[p]) /\ w[x].got.offers[p] \in Classes  BY <1>1, OffersAre
<1>3. PlanSent(x, p) # None  BY <1>1, NoneApart
<1>4. ASSUME seenPlans[p] # None PROVE seenPlans[p].class = w[x].got.offers[p]
  <2>1. seenPlans[p] \in Plan  BY <1>1, <1>4 DEF CatInv, CatTyped
  <2>2. seenPlans[p].class \in Classes  BY <2>1 DEF Plan
  <2>3. PICK y \in Brokers : Offers(y, p, seenPlans[p].class)  BY <1>1, <1>4 DEF SepInv, CopiesOK, PlanCopies, PlanOK
  <2>4. Separate  BY DEF SepInv
  <2> QED  BY <1>1, <1>2, <2>2, <2>3, <2>4 DEF Separate
<1> QED  BY <1>1, <1>2, <1>3, <1>4

\* A worker deletes only when the stored broker is marked or gone.
LEMMA NoDeleteWhileRegistered ==
    ASSUME ObjInv, NEW b \in Brokers, w[b].pc = "delete" PROVE ~Registered(b)
<1>1. w[b].local.del /\ Twilight(b)  BY Zenon DEF ObjInv, PerBroker, WorkerInv
<1>2. Dead(api[b])  BY <1>1 DEF Twilight
<1> QED  BY <1>2 DEF Dead, Registered

\* A broker that is registered was so before.
LEMMA StaysRegistered ==
    ASSUME ObjInv, [Next]_vars, NEW b \in Brokers, Registered(b)' PROVE Registered(b)
<1>1. Forward(b)  BY StepObjects
<1>2. api'[b] # None /\ ~api'[b].del  BY DEF Registered
<1> QED  BY <1>1, <1>2 DEF Forward, Registered

\* The steps of no broker store nothing.
LEMMA OtherSteps ==
    ASSUME ClassEvent \/ PlanEvent \/ Tick \/ Crash \/ UNCHANGED vars
    PROVE  classes' = classes /\ plans' = plans /\ api' = api /\ listed' = listed /\ made' = made
  BY Zenon DEF ClassEvent, PlanEvent, Tick, Crash, vars, objectVars, classVars, planVars, historyVars

\* A step is of a broker or of none.
LEMMA NextCases ==
    ASSUME [Next]_vars
    PROVE  (\E b \in Brokers : BrokerStep(b)) \/ ClassEvent \/ PlanEvent \/ Tick \/ Crash \/ UNCHANGED vars
  BY DEF Next, BrokerStep

\* As long as b is registered what it offers is not taken away, by whatever
\* step of whatever broker.
LEMMA Keeps ==
    ASSUME ObjInv, CatInv, SepInv, [Next]_vars, NEW b \in Brokers, Registered(b),
           NEW p \in Plans, NEW c \in Classes, Offers(b, p, c)
    PROVE  (PlanThere(p, c) => PlanThere(p, c)') /\ (ClassThere(b, c) => ClassThere(b, c)')
<1>0. Separate /\ CatTyped  BY DEF SepInv, CatInv
<1>1. CASE classes' = classes /\ plans' = plans  BY <1>1 DEF PlanThere, ClassThere
<1>2. ASSUME NEW x \in Brokers, BrokerStep(x)
      PROVE  (PlanThere(p, c) => PlanThere(p, c)') /\ (ClassThere(b, c) => ClassThere(b, c)')
  <2>1. Effect(x)  BY <1>2, BrokerMoves, EffectOfMoves DEF ObjInv
  <2>2. CASE Quiet  BY <1>1, <2>2 DEF Quiet, classVars, planVars
  <2>3. ASSUME NEW q \in Plans, UNCHANGED <<classVars, made>>, q \in w[x].plans, w[x].pc = "sync",
               StorePlan(q, PlanSent(x, q))
        PROVE  (PlanThere(p, c) => PlanThere(p, c)') /\ (ClassThere(b, c) => ClassThere(b, c)')
    <3>1. ClassThere(b, c) => ClassThere(b, c)'  BY <2>3 DEF classVars, ClassThere
    <3>2. PlanSent(x, q) \in Plan  BY <2>3, PlanSentShape
    <3>3. plans'[q] = PlanSent(x, q) /\ (p # q => plans'[p] = plans[p])  BY Zenon, <1>0, <2>3, <3>2, PlanStored
    <3>4. CASE p # q  BY Zenon, <3>1, <3>3, <3>4 DEF PlanThere
    <3>5. CASE p = q
      <4>1. /\ PlanSent(x, p).class = w[x].got.offers[p] /\ Offers(x, p, w[x].got.offers[p])
            /\ PlanSent(x, p) # None /\ w[x].got.offers[p] \in Classes
        BY Zenon, <2>3, <3>5, SentPlanClass
      <4>2. w[x].got.offers[p] = c  BY <1>0, <4>1, SeparateUse
      <4> QED  BY <3>1, <3>3, <3>5, <4>1, <4>2 DEF PlanThere
    <3> QED  BY <3>4, <3>5
  <2>4. ASSUME NEW q \in Plans, UNCHANGED <<classVars, made>>, q \in w[x].plans, w[x].pc = "delete",
               StorePlan(q, None)
        PROVE  (PlanThere(p, c) => PlanThere(p, c)') /\ (ClassThere(b, c) => ClassThere(b, c)')
    <3>1. ClassThere(b, c) => ClassThere(b, c)'  BY <2>4 DEF classVars, ClassThere
    <3>2. p # q => plans'[p] = plans[p]  BY Zenon, <1>0, <2>4, PlanStored
    <3>3. PICK d \in Classes : Offers(x, q, d)  BY <2>4 DEF SepInv, OwnDeletes
    <3>4. p = q => x = b  BY <1>0, <3>3, SeparateUse
    <3>5. x # b  BY <2>4, NoDeleteWhileRegistered
    <3> QED  BY Zenon, <3>1, <3>2, <3>4, <3>5 DEF PlanThere
  <2>5. ASSUME NEW d \in Classes, UNCHANGED planVars, d \in w[x].classes, ClassesNext(x), ClassAccepted(x, d),
               StoreClass(d, ClassSent(x, d))
        PROVE  (PlanThere(p, c) => PlanThere(p, c)') /\ (ClassThere(b, c) => ClassThere(b, c)')
    <3>1. PlanThere(p, c) => PlanThere(p, c)'  BY <2>5 DEF planVars, PlanThere
    <3>2. /\ ClassSent(x, d) \in Class /\ ClassSent(x, d).owner = x
          /\ w[x].got \in Catalogs[x] /\ d \in Services(w[x].got)
      BY Zenon, <2>5, ClassSentShape
    <3>3. classes'[d] = ClassSent(x, d) /\ (c # d => classes'[c] = classes[c])  BY Zenon, <1>0, <2>5, <3>2, ClassStored
    <3>4. PICK q \in Plans : Offers(x, q, d)  BY Zenon, <3>2, OfferedClass
    <3>5. c = d => x = b  BY <1>0, <3>4, SeparateUse
    <3>6. ClassSent(x, d) # None  BY <3>2, NoneApart
    <3> QED  BY <3>1, <3>2, <3>3, <3>5, <3>6 DEF ClassThere
  <2>6. ASSUME NEW d \in Classes, UNCHANGED <<planVars, made>>, d = w[x].current, w[x].pc = "delete",
               StoreClass(d, None)
        PROVE  (PlanThere(p, c) => PlanThere(p, c)') /\ (ClassThere(b, c) => ClassThere(b, c)')
    <3>1. PlanThere(p, c) => PlanThere(p, c)'  BY <2>6 DEF planVars, PlanThere
    <3>2. c # d => classes'[c] = classes[c]  BY Zenon, <1>0, <2>6, ClassStored
    <3>3. d # None  BY NoneApart
    <3>4. PICK q \in Plans : Offers(x, q, d)  BY <2>6, <3>3 DEF SepInv, OwnDeletes
    <3>5. c = d => x = b  BY <1>0, <3>4, SeparateUse
    <3>6. x # b  BY <2>6, NoDeleteWhileRegistered
    <3> QED  BY <3>1, <3>2, <3>5, <3>6 DEF ClassThere
  <2> QED  BY Zenon, <2>1, <2>2, <2>3, <2>4, <2>5, <2>6 DEF Effect
<1> QED  BY <1>1, <1>2, NextCases, OtherSteps

\* Writing a plan that is offered.
LEMMA CopiesPlan ==
    ASSUME CatTyped, CopiesOK, NEW p \in Plans, NEW e \in Plan \cup {None}, StorePlan(p, e), PlanOK(p, e),
           UNCHANGED classVars
    PROVE  CopiesOK'
<1>1. /\ plans'[p] = e /\ \A q \in Plans : q # p => plans'[q] = plans[q]
      /\ \A q \in Plans : seenPlans'[q] \in {seenPlans[q], plans'[q]}
      /\ \A i \in 1..Len(planWatch') :
            \/ planWatch'[i] = [name |-> p, object |-> e]
            \/ i \in 1..Len(planWatch) /\ planWatch'[i] = planWatch[i]
  BY PlanStored
<1>2. \A q \in Plans : PlanOK(q, plans'[q])  BY <1>1 DEF CopiesOK, PlanCopies
<1>3. \A q \in Plans : PlanOK(q, seenPlans'[q])  BY <1>1, <1>2 DEF CopiesOK, PlanCopies
<1>4. \A i \in 1..Len(planWatch') : PlanOK(planWatch'[i].name, planWatch'[i].object)  BY <1>1 DEF CopiesOK, PlanCopies
<1>5. classes' = classes /\ classWatch' = classWatch /\ seenClasses' = seenClasses  BY DEF classVars
<1>6. PlanCopies'  BY <1>2, <1>3, <1>4 DEF PlanCopies, PlanOK, Offers
<1>7. ClassCopies'  BY <1>5 DEF CopiesOK, ClassCopies, ClassOK, Offers
<1> QED  BY <1>6, <1>7 DEF CopiesOK

\* Writing a class that is offered.
LEMMA CopiesClass ==
    ASSUME CatTyped, CopiesOK, NEW c \in Classes, NEW e \in Class \cup {None}, StoreClass(c, e), ClassOK(c, e),
           UNCHANGED planVars
    PROVE  CopiesOK'
<1>1. /\ classes'[c] = e /\ \A d \in Classes : d # c => classes'[d] = classes[d]
      /\ \A d \in Classes : seenClasses'[d] \in {seenClasses[d], classes'[d]}
      /\ \A i \in 1..Len(classWatch') :
            \/ classWatch'[i] = [name |-> c, object |-> e]
            \/ i \in 1..Len(classWatch) /\ classWatch'[i] = classWatch[i]
  BY ClassStored
<1>2. \A d \in Classes : ClassOK(d, classes'[d])  BY Zenon, <1>1 DEF CopiesOK, ClassCopies
<1>3. \A d \in Classes : ClassOK(d, seenClasses'[d])  BY <1>1, <1>2 DEF CopiesOK, ClassCopies
<1>4. \A i \in 1..Len(classWatch') : ClassOK(classWatch'[i].name, classWatch'[i].object)  BY <1>1 DEF CopiesOK, ClassCopies
<1>5. plans' = plans /\ planWatch' = planWatch /\ seenPlans' = seenPlans  BY DEF planVars
<1>6. ClassCopies'  BY Zenon, <1>2, <1>3, <1>4 DEF ClassCopies, ClassOK, Offers
<1>7. PlanCopies'  BY <1>5 DEF CopiesOK, PlanCopies, PlanOK, Offers
<1> QED  BY <1>6, <1>7 DEF CopiesOK

\* Every step keeps CopiesOK; a restart, because the first list is of what is stored.
LEMMA CopiesStep ==
    ASSUME ObjInv, CatInv, SepInv, [Next]_vars PROVE CopiesOK'
<1>0. CatTyped /\ CopiesOK  BY DEF SepInv, CatInv
<1>1. CASE UNCHANGED <<classVars, planVars>>
  <2>0. classes' = classes /\ classWatch' = classWatch /\ seenClasses' = seenClasses  BY <1>1 DEF classVars
  <2>1. ClassCopies'  BY <1>0, <2>0 DEF CopiesOK, ClassCopies, ClassOK, Offers
  <2>2. PlanCopies'  BY <1>0, <1>1 DEF planVars, CopiesOK, PlanCopies, PlanOK, Offers
  <2> QED  BY <2>1, <2>2 DEF CopiesOK
<1>2. ASSUME NEW x \in Brokers, BrokerStep(x) PROVE CopiesOK'
  <2>1. Effect(x)  BY <1>2, BrokerMoves, EffectOfMoves DEF ObjInv
  <2>2. CASE Quiet  BY <1>1, <2>2 DEF Quiet
  <2>3. ASSUME NEW q \in Plans, UNCHANGED <<classVars, made>>, q \in w[x].plans, w[x].pc = "sync",
               StorePlan(q, PlanSent(x, q))
        PROVE  CopiesOK'
    <3>1. PlanSent(x, q) \in Plan  BY Zenon, <2>3, PlanSentShape
    <3>2. PlanSent(x, q).class = w[x].got.offers[q] /\ Offers(x, q, w[x].got.offers[q])
      BY <2>3, SentPlanClass
    <3>3. PlanOK(q, PlanSent(x, q))  BY <3>2 DEF PlanOK
    <3> QED  BY <1>0, <2>3, <3>1, <3>3, CopiesPlan
  <2>4. ASSUME NEW q \in Plans, UNCHANGED <<classVars, made>>, StorePlan(q, None) PROVE CopiesOK'
    <3>1. PlanOK(q, None)  BY DEF PlanOK
    <3> QED  BY <1>0, <2>4, <3>1, CopiesPlan
  <2>5. ASSUME NEW d \in Classes, UNCHANGED planVars, d \in w[x].classes, ClassesNext(x), ClassAccepted(x, d),
               StoreClass(d, ClassSent(x, d))
        PROVE  CopiesOK'
    <3>1. /\ ClassSent(x, d) \in Class /\ ClassSent(x, d).owner = x
          /\ w[x].got \in Catalogs[x] /\ d \in Services(w[x].got)
      BY <2>5, ClassSentShape
    <3>2. ClassOK(d, ClassSent(x, d))  BY <3>1, OfferedClass DEF ClassOK
    <3> QED  BY <1>0, <2>5, <3>1, <3>2, CopiesClass
  <2>6. ASSUME NEW d \in Classes, UNCHANGED <<planVars, made>>, StoreClass(d, None) PROVE CopiesOK'
    <3>1. ClassOK(d, None)  BY DEF ClassOK
    <3> QED  BY <1>0, <2>6, <3>1, CopiesClass
  <2> QED  BY Zenon, <2>1, <2>2, <2>3, <2>4, <2>5, <2>6 DEF Effect
<1>3. CASE Tick \/ UNCHANGED vars  BY <1>1, <1>3 DEF Tick, vars
<1>4. CASE ClassEvent
  <2>1. classes' = classes /\ UNCHANGED planVars  BY <1>4 DEF ClassEvent
  <2>2. \A d \in Classes : ClassOK(d, seenClasses'[d])  BY <1>0, <1>4, ClassEventShape DEF CopiesOK, ClassCopies
  <2>3. \A i \in 1..Len(classWatch') : ClassOK(classWatch'[i].name, classWatch'[i].object)
    BY <1>0, <1>4, ClassEventShape DEF CopiesOK, ClassCopies
  <2>4. ClassCopies'  BY <1>0, <2>1, <2>2, <2>3 DEF CopiesOK, ClassCopies, ClassOK, Offers
  <2>5. PlanCopies'  BY <1>0, <2>1 DEF planVars, CopiesOK, PlanCopies, PlanOK, Offers
  <2> QED  BY <2>4, <2>5 DEF CopiesOK
<1>5. CASE PlanEvent
  <2>1. plans' = plans /\ UNCHANGED classVars  BY <1>5 DEF PlanEvent
  <2>2. \A q \in Plans : PlanOK(q, seenPlans'[q])  BY Zenon, <1>0, <1>5, PlanEventShape DEF CopiesOK, PlanCopies
  <2>3. \A i \in 1..Len(planWatch') : PlanOK(planWatch'[i].name, planWatch'[i].object)
    BY <1>0, <1>5, PlanEventShape DEF CopiesOK, PlanCopies
  <2>4. PlanCopies'  BY <1>0, <2>1, <2>2, <2>3 DEF CopiesOK, PlanCopies, PlanOK, Offers
  <2>5. ClassCopies'  BY <1>0, <2>1 DEF classVars, CopiesOK, ClassCopies, ClassOK, Offers
  <2> QED  BY <2>4, <2>5 DEF CopiesOK
<1>6. CASE Crash
  <2>1. classes' = classes /\ plans' = plans  BY <1>6 DEF Crash
  <2>2. CASE MaxCatalogLag = 0  BY <1>1, <1>6, <2>1, <2>2 DEF Crash, classVars, planVars
  <2>3. CASE MaxCatalogLag # 0
    <3>1. /\ classWatch' \in FirstLists(classes) /\ seenClasses' = [c \in Classes |-> None]
          /\ planWatch' \in FirstLists(plans) /\ seenPlans' = [p \in Plans |-> None]
      BY <1>6, <2>3 DEF Crash
    <3>3. \A i \in 1..Len(classWatch') :
            classWatch'[i].name \in Classes /\ classWatch'[i].object = classes[classWatch'[i].name]
      <4>1. classes \in [Classes -> Class \cup {None}]  BY <1>0 DEF CatTyped
      <4>2. ASSUME NEW s, s \in FirstLists(classes)
            PROVE  Reports(s, Classes, classes)
        BY Zenon, <4>1, <4>2, FirstListShape
      <4> QED  BY <3>1, <4>2 DEF Reports
    <3>4. \A i \in 1..Len(planWatch') :
            planWatch'[i].name \in Plans /\ planWatch'[i].object = plans[planWatch'[i].name]
      <4>1. plans \in [Plans -> Plan \cup {None}]  BY <1>0 DEF CatTyped
      <4>2. ASSUME NEW s, s \in FirstLists(plans)
            PROVE  Reports(s, Plans, plans)
        BY Zenon, <4>1, <4>2, FirstListShape
      <4> QED  BY <3>1, <4>2 DEF Reports
    <3>5. \A i \in 1..Len(classWatch') : ClassOK(classWatch'[i].name, classWatch'[i].object)
      BY <1>0, <3>3 DEF CopiesOK, ClassCopies
    <3>6. \A i \in 1..Len(planWatch') : PlanOK(planWatch'[i].name, planWatch'[i].object)
      BY <1>0, <3>4 DEF CopiesOK, PlanCopies
    <3>7. \A c \in Classes : ClassOK(c, seenClasses'[c])  BY <3>1 DEF ClassOK
    <3>8. \A p \in Plans : PlanOK(p, seenPlans'[p])  BY <3>1 DEF PlanOK
    <3>9. ClassCopies'  BY <1>0, <2>1, <3>5, <3>7 DEF CopiesOK, ClassCopies, ClassOK, Offers
    <3>10. PlanCopies'  BY <1>0, <2>1, <3>6, <3>8 DEF CopiesOK, PlanCopies, PlanOK, Offers
    <3> QED  BY <3>9, <3>10 DEF CopiesOK
  <2> QED  BY <2>2, <2>3
<1> QED  BY <1>2, <1>3, <1>4, <1>5, <1>6, NextCases

\* The steps of no broker move no worker, except that a restart stops all.
LEMMA WorkersLeft ==
    ASSUME ClassEvent \/ PlanEvent \/ Tick \/ Crash \/ UNCHANGED vars, NEW b \in Brokers
    PROVE  w'[b] = w[b] \/ w'[b].pc = "idle"
<1>1. CASE Crash
  <2>1. Idle.pc = "idle"  BY DEF Idle
  <2> QED  BY <1>1, <2>1 DEF Crash
<1> QED  BY <1>1 DEF ClassEvent, PlanEvent, Tick, vars

\* Every step keeps OwnDeletes.
LEMMA OwnDeletesStep ==
    ASSUME ObjInv, CatInv, SepInv, [Next]_vars, NEW b \in Brokers PROVE OwnDeletes(b)'
<1>0. OwnDeletes(b) /\ Separate /\ CopiesOK /\ CatTyped  BY DEF SepInv, CatInv
<1>1. CASE w'[b] = w[b]  BY <1>0, <1>1 DEF OwnDeletes, Offers
<1>2. CASE w'[b].pc # "delete"  BY <1>2 DEF OwnDeletes
<1>3. ASSUME NEW x \in Brokers, BrokerStep(x), x # b PROVE OwnDeletes(b)'
  BY Zenon, <1>1, <1>3, BrokerMoves DEF Moves, OthersIdle, ObjInv
<1>4. ASSUME BrokerStep(b), w'[b].pc = "delete" PROVE OwnDeletes(b)'
  <2>1. Moves(b)  BY <1>4, BrokerMoves DEF ObjInv
  <2>2. w[b] \in WorkerState  BY DEF ObjInv, ObjTyped, WorkersTyped
  <2>3. CASE Stays(b)
    BY <1>0, <1>4, <2>3 DEF Stays, SameLoop, OwnDeletes, Offers
  <2>4. CASE Starts(b)
    <3>1. ASSUME NEW c \in Classes, seenClasses[c] # None, seenClasses[c].owner = b
          PROVE  \E p \in Plans : Offers(b, p, c)
      BY Zenon, <1>0, <3>1 DEF CopiesOK, ClassCopies, ClassOK
    <3>2. /\ w'[b].current = None /\ w'[b].plans = {}
          /\ w'[b].classes = {c \in Classes : seenClasses[c] # None /\ seenClasses[c].owner = b}
      BY <2>4 DEF Starts
    <3>3. \A c \in w'[b].classes : \E p \in Plans : Offers(b, p, c)  BY <3>1, <3>2
    <3> QED  BY <3>2, <3>3 DEF OwnDeletes, Offers
  <2>5. CASE Lists(b)
    <3>1. PICK c \in w[b].classes :
            /\ w'[b].current = c /\ w'[b].classes = w[b].classes /\ w[b].pc = "delete"
            /\ w'[b].plans = {p \in Plans : seenPlans[p] # None /\ seenPlans[p].class = c}
      BY <2>5 DEF Lists
    <3>2. c \in Classes  BY Zenon, <2>2 DEF WorkerState
    <3>3. PICK q \in Plans : Offers(b, q, c)  BY <1>0, <3>1 DEF OwnDeletes
    <3>4. ASSUME NEW p \in Plans, seenPlans[p] # None, seenPlans[p].class = c PROVE Offers(b, p, c)
      <4>1. PICK y \in Brokers : Offers(y, p, c)  BY <1>0, <3>4 DEF CopiesOK, PlanCopies, PlanOK
      <4>2. c \in Classes /\ y \in Brokers /\ Offers(y, p, c) /\ Offers(b, q, c)  BY <3>2, <3>3, <4>1
      <4>3. y = b  BY <1>0, <4>2 DEF Separate
      <4> QED  BY <4>1, <4>3
    <3>5. \A p \in w'[b].plans : \E d \in Classes : Offers(b, p, d)  BY <3>1, <3>2, <3>4
    <3>6. \A d \in w'[b].classes : \E p \in Plans : Offers(b, p, d)  BY <1>0, <3>1 DEF OwnDeletes
    <3> QED  BY <3>1, <3>3, <3>5, <3>6 DEF OwnDeletes, Offers
  <2>6. CASE DropsPlan(b)
    <3>1. /\ w[b].pc = "delete" /\ w'[b].classes = w[b].classes /\ w'[b].current = w[b].current
          /\ w'[b].plans \subseteq w[b].plans
      BY <2>6 DEF DropsPlan
    <3> QED  BY <1>0, <3>1 DEF OwnDeletes, Offers
  <2>7. CASE DropsClass(b)
    <3>1. w[b].pc = "delete" /\ w'[b].classes \subseteq w[b].classes /\ w'[b].current = None /\ w'[b].plans = {}
      BY <2>7 DEF DropsClass
    <3> QED  BY <1>0, <3>1 DEF OwnDeletes, Offers
  <2>8. ~Rests(b) /\ ~Resumes(b) /\ ~Fetches(b) /\ ~PutsPlan(b) /\ ~PutsClass(b) /\ ~Finishes(b) /\ ~Clears(b)
    BY Zenon, <1>4 DEF Rests, Inactive, Resumes, Fetches, PutsPlan, PutsClass, Finishes, Clears
  <2> QED  BY <2>1, <2>3, <2>4, <2>5, <2>6, <2>7, <2>8 DEF Moves
<1> QED  BY <1>1, <1>2, <1>3, <1>4, NextCases, WorkersLeft

\* A broker becomes Ready only by the write that ends a relist.
LEMMA ReadyComes ==
    ASSUME ObjInv, [Next]_vars, NEW b \in Brokers, Registered(b)', ReadyIs(api[b], "True")'
    PROVE  \/ ReadyIs(api[b], "True") /\ listed'[b] = listed[b]
           \/ /\ w[b].pc = "write" /\ w[b].next = "ok" /\ w[b].got # None
              /\ listed'[b] # None /\ listed'[b].cat = w[b].got
<1>0. ObjTyped /\ PerBroker(b) /\ ObjInv'  BY StepObjects DEF ObjInv
<1>1. CASE api'[b] = api[b] /\ listed'[b] = listed[b]  BY <1>1 DEF ReadyIs
<1>2. CASE ClassEvent \/ PlanEvent \/ Tick \/ Crash \/ UNCHANGED vars  BY <1>1, <1>2, OtherSteps
<1>3. ASSUME NEW x \in Brokers, BrokerStep(x), x # b PROVE api'[b] = api[b] /\ listed'[b] = listed[b]
  <2>1. StepOK(x)
    BY <1>3, BrokerMoves DEF ObjInv
  <2> QED  BY Zenon, <1>3, <2>1 DEF StepOK, OthersKept
<1>4. CASE Accepted(b) /\ CommitDraft(b)
  <2>1. w[b].pc = "write" /\ api[b] = w[b].local /\ api'[b] = w[b].draft  BY Zenon, <1>0, <1>4, CommitShape DEF Accepted
  <2>2. DraftInv(b)  BY <1>0, <2>1 DEF PerBroker, WorkerInv
  <2>3. ReadyIs(w[b].draft, "True")  BY <2>1 DEF ReadyIs
  <2>4. CASE w[b].next = "ok"
    <3>1. w[b].got # None  BY <2>2, <2>4 DEF DraftInv
    <3>2. listed' = [listed EXCEPT ![b] = [cat |-> w[b].got, gen |-> w[b].local.gen]]
      BY Zenon, <1>4, <2>3, <2>4 DEF CommitDraft
    <3>3. listed \in [Brokers -> Listing \cup {None}]  BY <1>0 DEF ObjTyped
    <3>4. listed'[b] = [cat |-> w[b].got, gen |-> w[b].local.gen]  BY Zenon, <3>2, <3>3
    <3>5. listed'[b] # None
      <4>1. /\ w[b].got \in Catalogs[b] /\ w[b].local # None  BY <1>0, <2>1, <3>1 DEF PerBroker, WorkerInv
      <4>2. w[b] \in WorkerState  BY <1>0 DEF ObjTyped, WorkersTyped
      <4>3. w[b].local \in Object  BY Zenon, <4>1, <4>2 DEF WorkerState
      <4>4. w[b].local.gen \in 1..(MaxGen + 1)  BY <4>3, ObjectNumbers
      <4>5. w[b].got \in AllCatalogs  BY <4>1, CatalogTyped
      <4>6. listed'[b] \in Listing  BY <3>4, <4>4, <4>5 DEF Listing
      <4> QED  BY Zenon, <4>6, NoneApart
    <3>6. listed'[b].cat = w[b].got  BY <3>4
    <3> QED  BY Zenon, <2>1, <2>4, <3>1, <3>5, <3>6
  <2>5. CASE w[b].next # "ok"
    <3>1. ReadyIs(w[b].local, "True")  BY Zenon, <2>2, <2>3, <2>5 DEF DraftInv
    <3>2. listed' = listed  BY <1>4, <2>5 DEF CommitDraft
    <3> QED  BY <2>1, <3>1, <3>2
  <2> QED  BY <2>4, <2>5
<1>5. CASE UserEdit(b)
  <2>1. api[b] # None /\ api' = [api EXCEPT ![b] = [api[b] EXCEPT !.gen = @ + 1]] /\ listed' = listed
    BY <1>5 DEF UserEdit, Store, historyVars
  <2>2. api[b] \in Object /\ api \in [Brokers -> Object \cup {None}]  BY <1>0, <2>1 DEF ObjTyped
  <2>3. api'[b].conds = api[b].conds  BY <2>1, <2>2 DEF Object
  <2> QED  BY <2>1, <2>3 DEF ReadyIs
<1>6. CASE UserDelete(b)
  <2>1. api[b] # None /\ api' = [api EXCEPT ![b] = [api[b] EXCEPT !.del = TRUE, !.gen = @ + 1]]
    BY <1>6 DEF UserDelete, Store
  <2>2. api[b] \in Object /\ api \in [Brokers -> Object \cup {None}]  BY <1>0, <2>1 DEF ObjTyped
  <2>3. api'[b].del  BY <2>1, <2>2 DEF Object
  <2> QED  BY <2>3 DEF Registered
<1>7. CASE Finalize(b)
  <2>1. listed' = listed /\ (api' = [api EXCEPT ![b] = None] \/ api' = api)
    BY <1>7 DEF Finalize, Store, objectVars, historyVars
  <2>2. api \in [Brokers -> Object \cup {None}] /\ api'[b] # None  BY <1>0 DEF ObjTyped, Registered
  <2> QED  BY <1>1, <2>1, <2>2
<1>8. CASE Status(b)
  <2>1. CASE api' = api /\ listed' = listed  BY Zenon, <1>1, <2>1
  <2>2. (api' = api /\ listed' = listed) \/ (Accepted(b) /\ CommitDraft(b))
    BY Zenon, <1>8 DEF Status, WriteFails, WriteReturns, WriteContinues, objectVars, historyVars
  <2> QED  BY Zenon, <1>4, <2>1, <2>2
<1>9. CASE InformerEvent(b) \/ Resync(b) \/ ReconcileNothing(b) \/ Begin(b)
  BY <1>1, <1>9 DEF InformerEvent, Resync, ReconcileNothing, Begin, Take, objectVars, historyVars
<1>10. CASE Relist(b)
  <2>1. api' = api /\ listed' = listed
    BY Zenon, <1>10 DEF Relist, AuthFails, FetchFails, FetchOK, CatalogUseless, ReconcileServicePlan,
       ReconcileServiceClass, SyncFails, SyncDone, objectVars, historyVars
  <2> QED  BY <1>1, <2>1
<1>11. CASE Deletion(b)
  <2>1. Finalize(b) \/ (api' = api /\ listed' = listed)
    BY <1>11 DEF Deletion, ListPlans, DeletePlan, DeleteClass, DeleteFails, DeleteDone, objectVars, historyVars
  <2> QED  BY <1>1, <1>7, <2>1
<1>12. BrokerStep(b) =>
         \/ UserEdit(b) \/ UserDelete(b) \/ Status(b) \/ Relist(b) \/ Deletion(b)
         \/ InformerEvent(b) \/ Resync(b) \/ ReconcileNothing(b) \/ Begin(b)
  BY DEF BrokerStep, Worker
<1> QED  BY Zenon, <1>1, <1>2, <1>3, <1>5, <1>6, <1>8, <1>9, <1>10, <1>11, <1>12, NextCases

\* Keeps, for a whole catalog.
LEMMA KeepsOffers ==
    ASSUME ObjInv, CatInv, SepInv, [Next]_vars, NEW b \in Brokers, Registered(b), NEW cat \in Catalogs[b]
    PROVE  /\ \A p \in DOMAIN cat.offers : PlanThere(p, cat.offers[p]) => PlanThere(p, cat.offers[p])'
           /\ \A c \in Services(cat) : ClassThere(b, c) => ClassThere(b, c)'
<1>1. ASSUME NEW p \in DOMAIN cat.offers, PlanThere(p, cat.offers[p]) PROVE PlanThere(p, cat.offers[p])'
  <2>1. p \in Plans /\ cat.offers[p] \in Classes /\ Offers(b, p, cat.offers[p])  BY OffersAre
  <2> QED  BY Zenon, <1>1, <2>1, Keeps
<1>2. ASSUME NEW c \in Services(cat), ClassThere(b, c) PROVE ClassThere(b, c)'
  <2>1. PICK p \in Plans : Offers(b, p, c)  BY OfferedClass
  <2>2. c \in Classes  BY OfferedClass
  <2> QED  BY <1>2, <2>1, <2>2, Keeps
<1> QED  BY <1>1, <1>2

\* What is left to do of the catalog of b has not grown.
LEMMA SyncGoesOn ==
    ASSUME ObjInv, CatInv, SepInv, [Next]_vars, NEW b \in Brokers, Syncing(b),
           w'[b].got = w[b].got,
           \A p \in w[b].plans : p \in w'[b].plans \/ PlanThere(p, w[b].got.offers[p])',
           \A c \in w[b].classes : c \in w'[b].classes \/ ClassThere(b, c)',
           w'[b].pc = "write" /\ w'[b].next = "ok" => w'[b].plans = {} /\ w'[b].classes = {}
    PROVE  SyncInv(b)'
<1>0. SyncInv(b) /\ w[b].got \in Catalogs[b]
  BY Zenon DEF SepInv, Syncing, ObjInv, PerBroker, WorkerInv
<1>1. CASE ~Registered(b)'  BY Zenon, <1>1 DEF SyncInv
<1>2. CASE Registered(b)'
  <2>1. Registered(b)  BY Zenon, <1>2, StaysRegistered
  <2>2. ASSUME NEW p \in DOMAIN w[b].got.offers, p \notin w'[b].plans PROVE PlanThere(p, w[b].got.offers[p])'
    BY Zenon, <1>0, <2>1, <2>2, KeepsOffers DEF SyncInv
  <2>3. ASSUME NEW c \in Services(w[b].got), c \notin w'[b].classes PROVE ClassThere(b, c)'
    BY Zenon, <1>0, <2>1, <2>3, KeepsOffers DEF SyncInv
  <2> QED  BY Zenon, <2>2, <2>3 DEF SyncInv
<1> QED  BY <1>1, <1>2

\* Every step keeps SyncInv.
LEMMA SyncStep ==
    ASSUME ObjInv, CatInv, SepInv, [Next]_vars, NEW b \in Brokers PROVE SyncInv(b)'
<1>0. SyncInv(b) /\ CatTyped  BY DEF SepInv, CatInv
<1>1. CASE ~Syncing(b)'  BY <1>1 DEF SyncInv
<1>2. ASSUME w'[b] = w[b], Syncing(b)' PROVE SyncInv(b)'
  <2>1. Syncing(b)  BY <1>2 DEF Syncing
  <2>2. w[b].pc = "write" /\ w[b].next = "ok" => w[b].plans = {} /\ w[b].classes = {}  BY <1>0, <2>1 DEF SyncInv
  <2> QED  BY Zenon, <1>2, <2>1, <2>2, SyncGoesOn
<1>3. ASSUME NEW x \in Brokers, BrokerStep(x), x # b PROVE w'[b] = w[b]
  BY Zenon, <1>3, BrokerMoves DEF Moves, OthersIdle, ObjInv
<1>4. ASSUME BrokerStep(b), Syncing(b)' PROVE SyncInv(b)'
  <2>1. Moves(b)  BY <1>4, BrokerMoves DEF ObjInv
  <2>2. CASE Stays(b)
    <3>1. Syncing(b) /\ SameLoop(b)  BY <1>4, <2>2 DEF Stays, SameLoop, Syncing
    <3>2. w'[b].pc = "write" /\ w'[b].next = "ok" => w'[b].plans = {} /\ w'[b].classes = {}
      BY Zenon, <1>0, <2>2, <3>1 DEF SyncInv, Stays, SameLoop
    <3> QED  BY Zenon, <3>1, <3>2, SyncGoesOn DEF SameLoop
  <2>3. CASE Resumes(b)
    <3>1. Syncing(b) /\ SameLoop(b) /\ w'[b].pc # "write"  BY <1>4, <2>3 DEF Resumes, SameLoop, Syncing
    <3> QED  BY Zenon, <3>1, SyncGoesOn DEF SameLoop
  <2>4. CASE Fetches(b)
    <3>1. /\ w'[b].got # None /\ ~(w'[b].pc = "write" /\ w'[b].next = "ok")
          /\ w'[b].plans = DOMAIN w'[b].got.offers /\ w'[b].classes = Services(w'[b].got)
      BY <1>4, <2>4 DEF Fetches, Syncing
    <3> QED  BY Zenon, <3>1 DEF SyncInv
  <2>5. CASE PutsPlan(b)
    <3>1. w[b].pc = "sync"  BY <2>5 DEF PutsPlan
    <3>2. PICK p \in w[b].plans :
            /\ StorePlan(p, PlanSent(b, p))
            /\ \/ Inactive(b)'
               \/ /\ w'[b].pc = "sync" /\ w'[b].got = w[b].got
                  /\ w'[b].plans = w[b].plans \ {p} /\ w'[b].classes = w[b].classes
      BY <2>5 DEF PutsPlan
    <3>3. ~Inactive(b)'  BY <1>4 DEF Syncing, Inactive
    <3>4. /\ PlanSent(b, p) \in Plan /\ p \in Plans  BY Zenon, <3>1, PlanSentShape
    <3>5. /\ PlanSent(b, p).class = w[b].got.offers[p] /\ PlanSent(b, p) # None  BY Zenon, <3>1, SentPlanClass
    <3>6. plans'[p] = PlanSent(b, p)  BY Zenon, <1>0, <3>2, <3>4, PlanStored
    <3>7. PlanThere(p, w[b].got.offers[p])'
      <4>1. w'[b].got = w[b].got  BY <3>2, <3>3
      <4> QED  BY <3>5, <3>6, <4>1 DEF PlanThere
    <3>8. \A q \in w[b].plans : q \in w'[b].plans \/ PlanThere(q, w[b].got.offers[q])'  BY <3>2, <3>3, <3>7
    <3>9. Syncing(b)  BY <3>1, PlanSentShape DEF Syncing
    <3> QED  BY Zenon, <3>2, <3>3, <3>8, <3>9, SyncGoesOn
  <2>6. CASE PutsClass(b)
    <3>1. ClassesNext(b)  BY <2>6 DEF PutsClass
    <3>2. PICK c \in w[b].classes :
            /\ ClassAccepted(b, c) /\ StoreClass(c, ClassSent(b, c))
            /\ \/ Inactive(b)'
               \/ /\ w'[b].pc = "sync" /\ w'[b].got = w[b].got
                  /\ w'[b].plans = w[b].plans /\ w'[b].classes = w[b].classes \ {c}
      BY Zenon, <2>6 DEF PutsClass
    <3>3. ~Inactive(b)'  BY <1>4 DEF Syncing, Inactive
    <3>4. c \in Classes /\ ClassSent(b, c) \in Class /\ ClassSent(b, c).owner = b  BY Zenon, <3>1, <3>2, ClassSentShape
    <3>5. ClassSent(b, c) # None  BY <3>4, NoneApart
    <3>6. classes'[c] = ClassSent(b, c)  BY Zenon, <1>0, <3>2, <3>4, ClassStored
    <3>7. ClassThere(b, c)'  BY <3>4, <3>5, <3>6 DEF ClassThere
    <3>8. \A d \in w[b].classes : d \in w'[b].classes \/ ClassThere(b, d)'  BY Zenon, <3>2, <3>3, <3>7
    <3>9. Syncing(b)  BY <3>1 DEF ClassesNext, Syncing
    <3> QED  BY Zenon, <3>2, <3>3, <3>8, <3>9, SyncGoesOn
  <2>7. CASE Finishes(b)
    <3>1. Syncing(b) /\ SameLoop(b) /\ w[b].plans = {} /\ w[b].classes = {}
      BY <2>7 DEF Finishes, ClassesNext, Syncing
    <3> QED  BY <3>1, SyncGoesOn DEF SameLoop
  <2>8. ~Rests(b) /\ ~Starts(b) /\ ~Lists(b) /\ ~DropsPlan(b) /\ ~DropsClass(b) /\ ~Clears(b)
    BY Zenon, <1>4 DEF Syncing, Rests, Inactive, Starts, Lists, DropsPlan, DropsClass, Clears
  <2> QED  BY <2>1, <2>2, <2>3, <2>4, <2>5, <2>6, <2>7, <2>8 DEF Moves
<1>5. CASE w'[b].pc = "idle"  BY <1>1, <1>5 DEF Syncing
<1> QED  BY <1>1, <1>2, <1>3, <1>4, <1>5, NextCases, WorkersLeft

\* Every step keeps ListedInv.
LEMMA ListedStep ==
    ASSUME ObjInv, CatInv, SepInv, [Next]_vars, NEW b \in Brokers PROVE ListedInv(b)'
<1> SUFFICES ASSUME Registered(b)', ReadyIs(api[b], "True")'
             PROVE  /\ listed'[b] # None /\ listed'[b].cat \in Catalogs[b]
                    /\ \A p \in DOMAIN listed'[b].cat.offers :
                          PlanThere(p, listed[b].cat.offers[p])' /\ ClassThere(b, listed[b].cat.offers[p])'
  BY DEF ListedInv
<1>0. Registered(b) /\ ListedInv(b) /\ SyncInv(b)  BY StaysRegistered DEF SepInv
<1>1. ASSUME NEW cat \in Catalogs[b], listed'[b] # None, listed'[b].cat = cat,
             \A p \in DOMAIN cat.offers : PlanThere(p, cat.offers[p]) /\ ClassThere(b, cat.offers[p])
      PROVE  /\ listed'[b] # None /\ listed'[b].cat \in Catalogs[b]
             /\ \A p \in DOMAIN listed'[b].cat.offers :
                   PlanThere(p, listed[b].cat.offers[p])' /\ ClassThere(b, listed[b].cat.offers[p])'
  <2>1. ASSUME NEW p \in DOMAIN cat.offers PROVE PlanThere(p, cat.offers[p])' /\ ClassThere(b, cat.offers[p])'
    <3>1. p \in Plans /\ cat.offers[p] \in Classes /\ Offers(b, p, cat.offers[p])  BY OffersAre
    <3> QED  BY Zenon, <1>0, <1>1, <3>1, Keeps
  <2> QED  BY <1>1, <2>1 DEF PlanThere, ClassThere
<1>2. CASE ReadyIs(api[b], "True") /\ listed'[b] = listed[b]
  BY Zenon, <1>0, <1>1, <1>2 DEF ListedInv
<1>3. CASE /\ w[b].pc = "write" /\ w[b].next = "ok" /\ w[b].got # None
           /\ listed'[b] # None /\ listed'[b].cat = w[b].got
  <2>1. w[b].got \in Catalogs[b] /\ Syncing(b)  BY Zenon, <1>3 DEF ObjInv, PerBroker, WorkerInv, Syncing
  <2>2. w[b].plans = {} /\ w[b].classes = {}  BY Zenon, <1>0, <1>3, <2>1 DEF SyncInv
  <2>3. ASSUME NEW p \in DOMAIN w[b].got.offers
        PROVE  PlanThere(p, w[b].got.offers[p]) /\ ClassThere(b, w[b].got.offers[p])
    <3>1. w[b].got.offers[p] \in Services(w[b].got)  BY <2>1, OffersAre
    <3> QED  BY Zenon, <1>0, <2>1, <2>2, <3>1 DEF SyncInv
  <2> QED  BY Zenon, <1>1, <1>3, <2>1, <2>3
<1> QED  BY Zenon, <1>2, <1>3, ReadyComes

\* A broker's catalogs have different numbers.
LEMMA SameNumber ==
    ASSUME NEW b \in Brokers, NEW cat \in Catalogs[b], NEW other \in Catalogs[b], cat.n = other.n
    PROVE  cat = other
  BY BrokerAssumption

\* Every step keeps NoClassWithoutPlans: a class is written with the number of a
\* catalog all of whose plans are there.
LEMMA PlansStep ==
    ASSUME ObjInv, CatInv, SepInv, [Next]_vars PROVE NoClassWithoutPlans'
<1> SUFFICES ASSUME NEW c \in Classes, classes'[c] # None, Registered(classes[c].owner)',
                    NEW cat \in Catalogs[classes'[c].owner], cat.n = classes'[c].n,
                    NEW p \in DOMAIN cat.offers, cat.offers[p] = c
             PROVE  PlanThere(p, c)'
  BY DEF NoClassWithoutPlans, PlanThere
<1>0. CatInv'  BY StepCatalog
<1>1. PICK b \in Brokers : b = classes'[c].owner  BY Zenon, <1>0 DEF CatInv, CatTyped, Class
<1>2. Registered(b)'  BY <1>1 DEF Registered
<1>3. Registered(b)  BY <1>1, <1>2, StaysRegistered
<1>4. p \in Plans /\ Offers(b, p, c)  BY <1>1, OffersAre
<1>5. CASE classes'[c] = classes[c]
  <2>1. PlanThere(p, c)  BY <1>1, <1>3, <1>5 DEF SepInv, NoClassWithoutPlans, PlanThere
  <2> QED  BY Zenon, <1>1, <1>3, <1>4, <2>1, Keeps
<1>6. ASSUME NEW x \in Brokers, BrokerStep(x), classes'[c] # classes[c] PROVE PlanThere(p, c)'
  <2>1. Effect(x)  BY Zenon, <1>6, BrokerMoves, EffectOfMoves DEF ObjInv
  <2>2. PICK d \in Classes :
          \/ /\ UNCHANGED planVars /\ d \in w[x].classes /\ ClassesNext(x) /\ ClassAccepted(x, d)
             /\ StoreClass(d, ClassSent(x, d))
          \/ StoreClass(d, None)
    BY Zenon, <1>6, <2>1 DEF Effect, Quiet, classVars
  <2>3. StoreClass(d, None) => c # d /\ classes'[c] = classes[c]
    BY Zenon, ClassStored DEF CatInv
  <2>4. /\ UNCHANGED planVars /\ d \in w[x].classes /\ ClassesNext(x) /\ ClassAccepted(x, d)
        /\ StoreClass(d, ClassSent(x, d))
    BY Zenon, <1>6, <2>2, <2>3
  <2>5. /\ ClassSent(x, d) \in Class /\ ClassSent(x, d).owner = x
        /\ ClassSent(x, d).n = w[x].got.n /\ w[x].got \in Catalogs[x]
    BY Zenon, <2>4, ClassSentShape
  <2>6. c = d /\ classes'[c] = ClassSent(x, d)  BY Zenon, <1>6, <2>4, <2>5, ClassStored DEF CatInv
  <2>7. b = x /\ cat = w[x].got  BY Zenon, <1>1, <2>5, <2>6, SameNumber
  <2>8. Syncing(x) /\ w[x].plans = {}  BY <2>4 DEF ClassesNext, Syncing
  <2>9. PlanThere(p, c)  BY Zenon, <1>3, <2>7, <2>8 DEF SepInv, SyncInv
  <2> QED  BY <2>4, <2>9 DEF PlanThere, planVars
<1> QED  BY <1>5, <1>6, NextCases, OtherSteps

\* Every step keeps the invariant of separate catalogs.
LEMMA StepSeparate ==
    ASSUME ObjInv, CatInv, SepInv, [Next]_vars PROVE SepInv'
<1>1. Separate'  BY DEF SepInv, Separate, Offers
<1> QED  BY <1>1, CopiesStep, OwnDeletesStep, SyncStep, ListedStep, PlansStep DEF SepInv

\* It holds at the start.
LEMMA InitSeparate == Separate /\ Init => SepInv
<1> SUFFICES ASSUME Separate, Init PROVE SepInv  OBVIOUS
<1>1. CopiesOK
  <2>1. \A c \in Classes : classes[c] = None /\ seenClasses[c] = None  BY DEF Init
  <2>2. \A p \in Plans : plans[p] = None /\ seenPlans[p] = None  BY DEF Init
  <2>3. classWatch = <<>> /\ planWatch = <<>> /\ 1..Len(<<>>) = {}  BY DEF Init
  <2>4. ClassCopies  BY <2>1, <2>3 DEF ClassCopies, ClassOK
  <2>5. PlanCopies  BY <2>2, <2>3 DEF PlanCopies, PlanOK
  <2> QED  BY Zenon, <2>4, <2>5 DEF CopiesOK
<1>2. NoClassWithoutPlans  BY Zenon DEF Init, NoClassWithoutPlans
<1>3. ASSUME NEW b \in Brokers PROVE OwnDeletes(b) /\ SyncInv(b) /\ ListedInv(b)
  <2>1. w[b] = Idle /\ api[b] = NewBroker  BY DEF Init
  <2>2. Idle.pc = "idle" /\ NewBroker.conds = <<>> /\ DOMAIN <<>> = {}  BY DEF Idle, NewBroker
  <2> QED  BY Zenon, <2>1, <2>2 DEF OwnDeletes, SyncInv, Syncing, ListedInv, ReadyIs
<1> QED  BY <1>1, <1>2, <1>3 DEF SepInv

\* With separate catalogs SepInv holds in every reachable state.
THEOREM SeparateCatalogs == Separate /\ Spec => []SepInv
<1>1. Separate /\ Init => SepInv  BY InitSeparate
<1>2. (ObjInv /\ CatInv) /\ SepInv /\ [Next]_vars => SepInv'  BY StepSeparate
<1> QED  BY <1>1, <1>2, ObjectsAndCatalog, PTL DEF Spec

\* If no two brokers offer the same service or plan, a broker that says Ready
\* has every class and plan of the catalog it was listed with, through faults,
\* restarts, stale listers and deletions of other brokers.
THEOREM ReadyBrokersAreListed == Separate /\ Spec => []ReadyMeansListed
<1>1. SepInv => ReadyMeansListed
  <2> SUFFICES ASSUME SepInv, NEW b \in Brokers, Registered(b), ReadyIs(api[b], "True"),
                      NEW p \in DOMAIN listed[b].cat.offers
               PROVE  PlanThere(p, listed[b].cat.offers[p]) /\ ClassThere(b, listed[b].cat.offers[p])
    BY DEF ReadyMeansListed, PlanThere, ClassThere
  <2> QED  BY Zenon DEF SepInv, ListedInv
<1> QED  BY <1>1, SeparateCatalogs, PTL

\* If no two brokers offer the same service or plan, no class of a registered
\* broker is without the plans it was listed with: reconciling the plans first
\* is enough.
THEOREM ClassesHavePlans == Separate /\ Spec => []NoClassWithoutPlans
<1>1. SepInv => NoClassWithoutPlans  BY DEF SepInv
<1> QED  BY <1>1, SeparateCatalogs, PTL

-----------------------------------------------------------------------------
(* Current listers.                                                        *)

\* The listers show what is stored.
NoLag == MaxCatalogLag = 0 /\ seenClasses = classes /\ seenPlans = plans /\ classWatch = <<>> /\ planWatch = <<>>

\* A plan of c that b created.
PlanOf(b, p, c) == plans[p] # None /\ plans[p].owner = b /\ plans[p].class = c

\* A deletion has still to do exactly the classes that are there, and all the
\* plans of the class it is at.
DeleteInv(b) ==
    w[b].pc = "delete" =>
        /\ \A c \in Classes : c \in w[b].classes <=> ClassThere(b, c)
        /\ w[b].current # None => w[b].current \in w[b].classes
        /\ w[b].current # None => \A p \in Plans : PlanOf(b, p, w[b].current) => p \in w[b].plans

\* The deletion of b has come to the finalizer, or is over.
Done(b) == api[b] = None \/ w[b].pc = "finalize" \/ (w[b].pc = "write" /\ w[b].next = "finalize")

\* Then no class is b's.
DoneInv(b) == Done(b) => \A c \in Classes : ~ClassThere(b, c)

\* A class that b created is there, or b is going away and has no plan of it.
MadeInv(b) ==
    \A c \in made[b] : ClassThere(b, c) \/ (Sunset(b) /\ \A p \in Plans : ~PlanOf(b, p, c))

\* The inductive invariant behind RemovedMeansCleared.
ClearInv == NoLag /\ \A b \in Brokers : DeleteInv(b) /\ DoneInv(b) /\ MadeInv(b)

\* Every step keeps the listers current.
LEMMA NoLagStep ==
    ASSUME ObjInv, CatInv, NoLag, [Next]_vars PROVE NoLag'
<1>0. CatTyped /\ MaxCatalogLag = 0  BY DEF CatInv, NoLag
<1>1. CASE UNCHANGED <<classVars, planVars>>  BY <1>1 DEF NoLag, classVars, planVars
<1>2. ASSUME NEW x \in Brokers, BrokerStep(x) PROVE NoLag'
  <2>1. Effect(x)  BY <1>2, BrokerMoves, EffectOfMoves DEF ObjInv
  <2>2. CASE Quiet  BY <1>1, <2>2 DEF Quiet
  <2>3. ASSUME NEW p \in Plans, NEW e, UNCHANGED classVars, StorePlan(p, e) PROVE NoLag'
    <3>1. CASE e = plans[p]
      <4>1. plans' = plans /\ UNCHANGED <<planWatch, seenPlans>>  BY <1>0, <2>3, <3>1 DEF StorePlan, CatTyped
      <4> QED  BY <2>3, <4>1 DEF NoLag, classVars
    <3>2. CASE e # plans[p]
      <4>1. seenPlans' = plans' /\ planWatch' = planWatch  BY <1>0, <2>3, <3>2 DEF StorePlan
      <4> QED  BY <2>3, <4>1 DEF NoLag, classVars
    <3> QED  BY <3>1, <3>2
  <2>4. ASSUME NEW c \in Classes, NEW e, UNCHANGED planVars, StoreClass(c, e) PROVE NoLag'
    <3>1. CASE e = classes[c]
      <4>1. classes' = classes /\ UNCHANGED <<classWatch, seenClasses>>  BY <1>0, <2>4, <3>1 DEF StoreClass, CatTyped
      <4> QED  BY <2>4, <4>1 DEF NoLag, planVars
    <3>2. CASE e # classes[c]
      <4>1. seenClasses' = classes' /\ classWatch' = classWatch  BY <1>0, <2>4, <3>2 DEF StoreClass
      <4> QED  BY <2>4, <4>1 DEF NoLag, planVars
    <3> QED  BY <3>1, <3>2
  <2> QED  BY Zenon, <2>1, <2>2, <2>3, <2>4 DEF Effect
<1>3. CASE Tick \/ UNCHANGED vars  BY <1>1, <1>3 DEF Tick, vars
<1>4. ~ClassEvent /\ ~PlanEvent  BY DEF NoLag, ClassEvent, PlanEvent
<1>5. CASE Crash  BY <1>0, <1>1, <1>5 DEF Crash, classVars, planVars
<1> QED  BY <1>2, <1>3, <1>4, <1>5, NextCases

\* Only b makes a class b's, while it relists; only b takes it away, when it deletes it.
LEMMA ClassChanges ==
    ASSUME ObjInv, CatInv, ClearInv, NEW x \in Brokers, BrokerStep(x), NEW b \in Brokers, NEW c \in Classes
    PROVE  /\ ClassThere(b, c)' => ClassThere(b, c) \/ (b = x /\ w[b].pc = "sync")
           /\ ClassThere(b, c) => \/ ClassThere(b, c)'
                                  \/ /\ b = x /\ w[b].pc = "delete" /\ c = w[b].current /\ w[b].plans = {}
                                     /\ plans' = plans /\ made' = made
<1> DEFINE Goal == /\ ClassThere(b, c)' => ClassThere(b, c) \/ (b = x /\ w[b].pc = "sync")
                   /\ ClassThere(b, c) => \/ ClassThere(b, c)'
                                          \/ /\ b = x /\ w[b].pc = "delete" /\ c = w[b].current /\ w[b].plans = {}
                                             /\ plans' = plans /\ made' = made
<1>0. CatTyped /\ seenClasses = classes /\ DeleteInv(x)  BY DEF CatInv, ClearInv, NoLag
<1>1. Effect(x)  BY BrokerMoves, EffectOfMoves DEF ObjInv
<1>2. CASE classes' = classes  BY <1>2 DEF ClassThere
<1>3. ASSUME NEW d \in Classes, d \in w[x].classes, ClassesNext(x), ClassAccepted(x, d), StoreClass(d, ClassSent(x, d))
      PROVE  Goal
  <2>1. ClassSent(x, d) \in Class /\ ClassSent(x, d).owner = x  BY Zenon, <1>3, ClassSentShape
  <2>2. classes'[d] = ClassSent(x, d) /\ (c # d => classes'[c] = classes[c])  BY Zenon, <1>0, <1>3, <2>1, ClassStored
  <2>3. classes[d] = None \/ classes[d].owner = x  BY Zenon, <1>0, <1>3 DEF ClassAccepted
  <2>4. w[x].pc = "sync" /\ ClassSent(x, d) # None  BY <1>3, <2>1, NoneApart DEF ClassesNext
  <2> QED  BY <2>1, <2>2, <2>3, <2>4 DEF ClassThere
<1>4. ASSUME NEW d \in Classes, UNCHANGED <<planVars, made>>, d = w[x].current, w[x].pc = "delete",
             w[x].plans = {}, StoreClass(d, None)
      PROVE  Goal
  <2>1. classes'[d] = None /\ (c # d => classes'[c] = classes[c])  BY Zenon, <1>0, <1>4, ClassStored
  <2>2. d # None  BY NoneApart
  <2>3. ClassThere(x, d)  BY <1>0, <1>4, <2>2 DEF DeleteInv
  <2>4. plans' = plans /\ made' = made  BY <1>4 DEF planVars
  <2> QED  BY <1>4, <2>1, <2>3, <2>4 DEF ClassThere
<1> HIDE DEF Goal
<1>5. classes' = classes => Goal  BY <1>2 DEF Goal
<1>6. Goal  BY Zenon, <1>1, <1>3, <1>4, <1>5 DEF Effect, Quiet, classVars
<1> QED  BY <1>6 DEF Goal

\* A plan of b's is new only when b relists; otherwise it was there, for the same class.
LEMMA PlanChanges ==
    ASSUME ObjInv, CatInv, ClearInv, NEW x \in Brokers, BrokerStep(x), NEW b \in Brokers,
           NEW p \in Plans, NEW c \in Classes, PlanOf(b, p, c)'
    PROVE  PlanOf(b, p, c) \/ (b = x /\ w[b].pc = "sync")
<1>0. CatTyped /\ seenPlans = plans  BY DEF CatInv, ClearInv, NoLag
<1>1. Effect(x)  BY BrokerMoves, EffectOfMoves DEF ObjInv
<1>2. CASE plans' = plans  BY <1>2 DEF PlanOf
<1>3. ASSUME NEW q \in Plans, q \in w[x].plans, w[x].pc = "sync", StorePlan(q, PlanSent(x, q))
      PROVE  PlanOf(b, p, c) \/ (b = x /\ w[b].pc = "sync")
  <2>1. /\ PlanSent(x, q) \in Plan
        /\ seenPlans[q] = None => PlanSent(x, q).owner = x
        /\ seenPlans[q] # None => PlanSent(x, q).class = seenPlans[q].class
                                  /\ PlanSent(x, q).owner = seenPlans[q].owner
    BY Zenon, <1>3, PlanSentShape
  <2>2. plans'[q] = PlanSent(x, q) /\ (p # q => plans'[p] = plans[p])  BY Zenon, <1>0, <1>3, <2>1, PlanStored
  <2> QED  BY <1>0, <1>3, <2>1, <2>2 DEF PlanOf
<1>4. ASSUME NEW q \in Plans, StorePlan(q, None) PROVE PlanOf(b, p, c)
  <2>0. None \in Plan \cup {None}  OBVIOUS
  <2>1. plans'[q] = None /\ (p # q => plans'[p] = plans[p])  BY Zenon, <1>0, <1>4, <2>0, PlanStored
  <2> QED  BY <2>1 DEF PlanOf
<1> QED  BY Zenon, <1>1, <1>2, <1>3, <1>4 DEF Effect, Quiet, planVars

\* An object is removed only by the finalizer's update.
LEMMA GoneComes ==
    ASSUME ObjInv, NEW b \in Brokers, BrokerStep(b), api'[b] = None
    PROVE  api[b] = None \/ w[b].pc = "finalize"
<1>0. ObjTyped /\ PerBroker(b) /\ api \in [Brokers -> Object \cup {None}]  BY DEF ObjInv, ObjTyped
<1>1. CASE api' = api  BY <1>1
<1>2. CASE Accepted(b) /\ CommitDraft(b)  BY Zenon, <1>0, <1>2, CommitShape
<1>3. CASE Status(b)
  <2>1. api' = api \/ (Accepted(b) /\ CommitDraft(b))
    BY Zenon, <1>3 DEF Status, WriteFails, WriteReturns, WriteContinues, objectVars
  <2> QED  BY <1>1, <1>2, <2>1
<1>4. CASE UserEdit(b) \/ UserDelete(b)
  <2>3. CASE UserEdit(b)
    <3>1. api[b] # None /\ api' = [api EXCEPT ![b] = [api[b] EXCEPT !.gen = @ + 1]]  BY <2>3 DEF UserEdit, Store
    <3>2. api[b] \in Object  BY <1>0, <3>1
    <3>3. api'[b] = [api[b] EXCEPT !.gen = @ + 1]  BY <1>0, <3>1
    <3>5. [api[b] EXCEPT !.gen = @ + 1] \in Object
      <4>1. api[b].gen < MaxGen /\ api[b].gen \in 1..(MaxGen + 1) /\ MaxGen \in Nat
        BY <2>3, <3>2, ObjectNumbers, BoundsTyped DEF UserEdit
      <4>2. api[b].gen + 1 \in 1..(MaxGen + 1)  BY <4>1
      <4> QED  BY <3>2, <4>2 DEF Object
    <3> QED  BY <3>3, <3>5, NoneApart
  <2>4. CASE UserDelete(b)
    <3>1. api[b] # None /\ ~api[b].del
          /\ api' = [api EXCEPT ![b] = [api[b] EXCEPT !.del = TRUE, !.gen = @ + 1]]
      BY <2>4 DEF UserDelete, Store
    <3>2. api[b] \in Object  BY <1>0, <3>1
    <3>3. api'[b] = [api[b] EXCEPT !.del = TRUE, !.gen = @ + 1]  BY <1>0, <3>1
    <3>4. Sound(api[b])  BY <1>0, <3>1 DEF PerBroker, VersionsInv
    <3>5. [api[b] EXCEPT !.del = TRUE, !.gen = @ + 1] \in Object
      <4>1. api[b].gen <= MaxGen  BY <3>1, <3>4 DEF Sound
      <4>2. api[b].gen \in 1..(MaxGen + 1) /\ MaxGen \in Nat  BY <3>2, ObjectNumbers, BoundsTyped
      <4>3. api[b].gen + 1 \in 1..(MaxGen + 1)  BY <4>1, <4>2
      <4> QED  BY Zenon, <3>2, <4>3 DEF Object
    <3> QED  BY <3>3, <3>5, NoneApart
  <2> QED  BY <1>4, <2>3, <2>4
<1>5. CASE InformerEvent(b) \/ Resync(b) \/ ReconcileNothing(b) \/ Begin(b)
  BY <1>1, <1>5 DEF InformerEvent, Resync, ReconcileNothing, Begin, Take, objectVars
<1>6. CASE Relist(b)
  BY Zenon, <1>1, <1>6 DEF Relist, AuthFails, FetchFails, FetchOK, CatalogUseless, ReconcileServicePlan,
     ReconcileServiceClass, SyncFails, SyncDone, objectVars
<1>7. CASE Deletion(b)
  <2>1. w[b].pc = "finalize" \/ api' = api
    BY <1>7 DEF Deletion, ListPlans, DeletePlan, DeleteClass, DeleteFails, DeleteDone, Finalize, objectVars
  <2> QED  BY <1>1, <2>1
<1> QED  BY Zenon, <1>3, <1>4, <1>5, <1>6, <1>7 DEF BrokerStep, Worker

\* A broker that is going away is not relisted.
LEMMA NotSyncing ==
    ASSUME ObjInv, NEW b \in Brokers, Sunset(b) \/ Done(b) PROVE w[b].pc # "sync"
<1>1. WorkerInv(b) /\ Gone(b)  BY DEF ObjInv, PerBroker
<1>2. Sunset(b) => w[b].pc # "sync"  BY Zenon, <1>1 DEF Sunset, WorkerInv
<1> QED  BY <1>1, <1>2 DEF Done, Gone

\* Every step keeps DeleteInv.
LEMMA DeleteStep ==
    ASSUME ObjInv, CatInv, ClearInv, [Next]_vars, NEW b \in Brokers PROVE DeleteInv(b)'
<1>0. DeleteInv(b) /\ CatTyped /\ NoLag  BY DEF ClearInv, CatInv
<1>1. CASE w'[b].pc # "delete"  BY Zenon, <1>1 DEF DeleteInv
<1>2. CASE w'[b] = w[b] /\ classes' = classes /\ plans' = plans
  BY <1>0, <1>2 DEF DeleteInv, ClassThere, PlanOf
<1>3. ASSUME NEW x \in Brokers, BrokerStep(x), x # b PROVE DeleteInv(b)'
  <2>1. w'[b] = w[b]  BY Zenon, <1>3, BrokerMoves DEF Moves, OthersIdle, ObjInv
  <2>2. \A c \in Classes : ClassThere(b, c)' <=> ClassThere(b, c)  BY Zenon, <1>3, ClassChanges
  <2>3. \A p \in Plans, c \in Classes : PlanOf(b, p, c)' => PlanOf(b, p, c)  BY <1>3, PlanChanges
  <2>4. w[b].current # None => w[b].current \in Classes
    BY Zenon DEF ObjInv, ObjTyped, WorkersTyped, WorkerState
  <2>5. \A p \in Plans : w[b].current # None /\ PlanOf(b, p, w[b].current)' => PlanOf(b, p, w[b].current)
    BY Zenon, <2>1, <2>3, <2>4 DEF PlanOf
  <2> QED  BY Zenon, <1>0, <2>1, <2>2, <2>5 DEF DeleteInv
<1>4. ASSUME BrokerStep(b), w'[b].pc = "delete" PROVE DeleteInv(b)'
  <2>1. Moves(b)  BY <1>4, BrokerMoves DEF ObjInv
  <2>2. w[b] \in WorkerState  BY DEF ObjInv, ObjTyped, WorkersTyped
  <2>3. CASE Stays(b)
    <3>1. classes' = classes /\ plans' = plans  BY <2>3 DEF Stays, Quiet, classVars, planVars
    <3> QED  BY <1>0, <2>3, <3>1 DEF Stays, SameLoop, DeleteInv, ClassThere, PlanOf
  <2>4. CASE Starts(b)
    <3>1. /\ classes' = classes /\ w'[b].current = None
          /\ w'[b].classes = {c \in Classes : seenClasses[c] # None /\ seenClasses[c].owner = b}
      BY <2>4 DEF Starts, Quiet, classVars
    <3> QED  BY Zenon, <1>0, <3>1 DEF NoLag, DeleteInv, ClassThere
  <2>5. CASE Lists(b)
    <3>1. classes' = classes /\ plans' = plans /\ w[b].pc = "delete" /\ w'[b].classes = w[b].classes
      BY <2>5 DEF Lists, Quiet, classVars, planVars
    <3>2. PICK c \in w[b].classes :
            /\ w'[b].current = c
            /\ w'[b].plans = {p \in Plans : seenPlans[p] # None /\ seenPlans[p].class = c}
      BY <2>5 DEF Lists
    <3> QED  BY <1>0, <3>1, <3>2 DEF NoLag, DeleteInv, ClassThere, PlanOf
  <2>6. CASE DropsPlan(b)
    <3>1. /\ classes' = classes /\ w[b].pc = "delete" /\ w'[b].classes = w[b].classes
          /\ w'[b].current = w[b].current
      BY Zenon, <2>6 DEF DropsPlan, classVars
    <3>2. PICK p \in w[b].plans : StorePlan(p, None) /\ w'[b].plans = w[b].plans \ {p}  BY Zenon, <2>6 DEF DropsPlan
    <3>3. p \in Plans  BY Zenon, <2>2 DEF WorkerState
    <3>4. plans'[p] = None /\ \A q \in Plans : q # p => plans'[q] = plans[q]  BY Zenon, <1>0, <3>2, <3>3, PlanStored
    <3> QED  BY <1>0, <3>1, <3>2, <3>4 DEF DeleteInv, ClassThere, PlanOf
  <2>7. CASE DropsClass(b)
    <3>1. /\ w[b].pc = "delete" /\ w[b].current # None /\ StoreClass(w[b].current, None)
          /\ w'[b].current = None /\ w'[b].classes = w[b].classes \ {w[b].current}
      BY Zenon, <2>7 DEF DropsClass
    <3>2. w[b].current \in Classes
      <4>1. w[b].current \in Classes \cup {None}  BY Zenon, <2>2 DEF WorkerState
      <4> QED  BY Zenon, <3>1, <4>1
    <3>0. None \in Class \cup {None}  OBVIOUS
    <3>3. classes'[w[b].current] = None /\ \A d \in Classes : d # w[b].current => classes'[d] = classes[d]
      BY Zenon, <1>0, <3>1, <3>2, <3>0, ClassStored
    <3> QED  BY Zenon, <1>0, <3>1, <3>3 DEF DeleteInv, ClassThere
  <2>8. ~Rests(b) /\ ~Resumes(b) /\ ~Fetches(b) /\ ~PutsPlan(b) /\ ~PutsClass(b) /\ ~Finishes(b) /\ ~Clears(b)
    BY Zenon, <1>4 DEF Rests, Inactive, Resumes, Fetches, PutsPlan, PutsClass, Finishes, Clears
  <2> QED  BY <2>1, <2>3, <2>4, <2>5, <2>6, <2>7, <2>8 DEF Moves
<1>5. CASE ClassEvent \/ PlanEvent \/ Tick \/ Crash \/ UNCHANGED vars
  BY Zenon, <1>1, <1>2, <1>5, OtherSteps, WorkersLeft
<1> QED  BY <1>1, <1>3, <1>4, <1>5, NextCases

\* Every step keeps DoneInv.
LEMMA DoneStep ==
    ASSUME ObjInv, CatInv, ClearInv, [Next]_vars, NEW b \in Brokers PROVE DoneInv(b)'
<1>0. DoneInv(b) /\ DeleteInv(b)  BY DEF ClearInv
<1>1. ASSUME Done(b)', classes' = classes, Done(b) PROVE DoneInv(b)'
  BY <1>0, <1>1 DEF DoneInv, ClassThere
<1>2. CASE ~Done(b)'  BY <1>2 DEF DoneInv
<1>3. CASE ClassEvent \/ PlanEvent \/ Tick \/ Crash \/ UNCHANGED vars
  <2>1. Done(b)' => Done(b)  BY Zenon, <1>3, OtherSteps, WorkersLeft DEF Done
  <2> QED  BY <1>1, <1>2, <1>3, <2>1, OtherSteps
<1>4. ASSUME NEW x \in Brokers, BrokerStep(x), Done(b) PROVE DoneInv(b)'
  <2>1. w[b].pc # "sync"  BY <1>4, NotSyncing
  <2>2. \A c \in Classes : ClassThere(b, c)' => ClassThere(b, c)  BY Zenon, <1>4, <2>1, ClassChanges
  <2> QED  BY <1>0, <1>4, <2>2 DEF DoneInv
<1>5. ASSUME NEW x \in Brokers, BrokerStep(x), x # b, Done(b)' PROVE Done(b)
  <2>1. StepOK(x)
    BY <1>5, BrokerMoves DEF ObjInv
  <2>2. w'[b] = w[b] /\ api'[b] = api[b]  BY <1>5, <2>1 DEF StepOK, OthersKept
  <2> QED  BY <1>5, <2>2 DEF Done
<1>6. ASSUME BrokerStep(b), Done(b)', ~Done(b) PROVE DoneInv(b)'
  <2>1. Moves(b)  BY <1>6, BrokerMoves DEF ObjInv
  <2>2. api'[b] # None  BY <1>6, GoneComes DEF Done
  <2>3. w'[b].pc = "finalize" \/ (w'[b].pc = "write" /\ w'[b].next = "finalize")  BY <1>6, <2>2 DEF Done
  <2>4. ~(w[b].pc = "finalize" \/ (w[b].pc = "write" /\ w[b].next = "finalize"))  BY <1>6 DEF Done
  <2>5. Clears(b)
    BY Zenon, <2>1, <2>3, <2>4 DEF Moves, Rests, Inactive, Stays, Resumes, Fetches, PutsPlan, PutsClass, Finishes,
       Starts, Lists, DropsPlan, DropsClass
  <2>6. classes' = classes /\ w[b].pc = "delete" /\ w[b].classes = {}  BY Zenon, <2>5 DEF Clears, Quiet, classVars
  <2>7. \A c \in Classes : ~ClassThere(b, c)  BY Zenon, <1>0, <2>6 DEF DeleteInv
  <2> QED  BY <2>6, <2>7 DEF DoneInv, ClassThere
<1> QED  BY <1>2, <1>3, <1>4, <1>5, <1>6, NextCases

\* Every step keeps MadeInv.
LEMMA MadeStep ==
    ASSUME ObjInv, CatInv, ClearInv, [Next]_vars, NEW b \in Brokers PROVE MadeInv(b)'
<1>0. MadeInv(b) /\ DeleteInv(b) /\ made \in [Brokers -> SUBSET Classes] /\ (Sunset(b) => Sunset(b)')
  BY Zenon, StepObjects DEF ClearInv, ObjInv, ObjTyped
<1>1. CASE ClassEvent \/ PlanEvent \/ Tick \/ Crash \/ UNCHANGED vars
  <2>1. classes' = classes /\ plans' = plans /\ made' = made  BY <1>1, OtherSteps
  <2> QED  BY Zenon, <1>0, <2>1 DEF MadeInv, ClassThere, PlanOf
<1>2. ASSUME NEW x \in Brokers, BrokerStep(x) PROVE MadeInv(b)'
  <2>1. ASSUME NEW c \in made[b]
        PROVE  ClassThere(b, c)' \/ (Sunset(b)' /\ \A p \in Plans : ~PlanOf(b, p, c)')
    <3>0. c \in Classes  BY <1>0
    <3>1. CASE ClassThere(b, c) /\ ~ClassThere(b, c)'
      <4>1. b = x /\ w[b].pc = "delete" /\ c = w[b].current /\ w[b].plans = {} /\ plans' = plans
        BY Zenon, <1>2, <3>0, <3>1, ClassChanges
      <4>2. Sunset(b)
        <5>1. w[b].local.del /\ Twilight(b)  BY Zenon, <4>1 DEF ObjInv, PerBroker, WorkerInv
        <5> QED  BY <5>1 DEF Sunset
      <4>3. c # None  BY <3>0, NoneApart
      <4>4. \A p \in Plans : ~PlanOf(b, p, c)  BY Zenon, <1>0, <4>1, <4>3 DEF DeleteInv
      <4> QED  BY Zenon, <1>0, <4>1, <4>2, <4>4 DEF PlanOf
    <3>2. CASE Sunset(b) /\ \A p \in Plans : ~PlanOf(b, p, c)
      <4>1. w[b].pc # "sync"  BY Zenon, <3>2, NotSyncing
      <4>2. \A p \in Plans : ~PlanOf(b, p, c)'  BY <1>2, <3>0, <3>2, <4>1, PlanChanges
      <4> QED  BY <1>0, <3>2, <4>2
    <3> QED  BY <1>0, <3>1, <3>2 DEF MadeInv
  <2>2. CASE made'[b] = made[b]  BY <2>1, <2>2 DEF MadeInv
  <2>3. ASSUME NEW c \in Classes, c \in w[x].classes, ClassesNext(x), ClassAccepted(x, c),
               StoreClass(c, ClassSent(x, c)), made' = [made EXCEPT ![x] = @ \cup {c}], x = b
        PROVE  MadeInv(b)'
    <3>1. ClassSent(b, c) \in Class /\ ClassSent(b, c).owner = b  BY Zenon, <2>3, ClassSentShape
    <3>2. classes'[c] = ClassSent(b, c)  BY Zenon, <2>3, <3>1, ClassStored DEF CatInv
    <3>3. ClassThere(b, c)'  BY Zenon, <3>1, <3>2, NoneApart DEF ClassThere
    <3>4. made'[b] = made[b] \cup {c}  BY Zenon, <1>0, <2>3
    <3> QED  BY <2>1, <3>3, <3>4 DEF MadeInv
  <2>4. Effect(x)  BY <1>2, BrokerMoves, EffectOfMoves DEF ObjInv
  <2>5. \/ made'[b] = made[b]
        \/ \E c \in Classes : /\ c \in w[x].classes /\ ClassesNext(x) /\ ClassAccepted(x, c)
                              /\ StoreClass(c, ClassSent(x, c)) /\ made' = [made EXCEPT ![x] = @ \cup {c}] /\ x = b
    BY Zenon, <1>0, <2>4 DEF Effect, Quiet
  <2> QED  BY Zenon, <2>2, <2>3, <2>5
<1> QED  BY <1>1, <1>2, NextCases

\* Every step keeps the invariant of current listers.
LEMMA StepClear ==
    ASSUME ObjInv, CatInv, ClearInv, [Next]_vars PROVE ClearInv'
<1>1. NoLag'  BY NoLagStep DEF ClearInv
<1> QED  BY <1>1, DeleteStep, DoneStep, MadeStep DEF ClearInv

\* It holds at the start.
LEMMA InitClear == MaxCatalogLag = 0 /\ Init => ClearInv
<1> SUFFICES ASSUME MaxCatalogLag = 0, Init PROVE ClearInv  OBVIOUS
<1>1. NoLag  BY DEF Init, NoLag
<1>2. ASSUME NEW b \in Brokers PROVE DeleteInv(b) /\ DoneInv(b) /\ MadeInv(b)
  <2>1. w[b] = Idle /\ made[b] = {} /\ \A c \in Classes : classes[c] = None  BY DEF Init
  <2>2. Idle.pc = "idle"  BY DEF Idle
  <2> QED  BY Zenon, <2>1, <2>2 DEF DeleteInv, DoneInv, MadeInv, ClassThere
<1> QED  BY <1>1, <1>2 DEF ClearInv

\* With current listers ClearInv holds in every reachable state.
THEOREM PromptListers == MaxCatalogLag = 0 /\ Spec => []ClearInv
<1>1. MaxCatalogLag = 0 /\ Init => ClearInv  BY InitClear
<1>2. (ObjInv /\ CatInv) /\ ClearInv /\ [Next]_vars => ClearInv'  BY StepClear
<1> QED  BY <1>1, <1>2, ObjectsAndCatalog, PTL DEF Spec

\* If the listers of classes and plans are current, a broker that is gone has
\* left no class behind and no plan of a class it created, also when brokers
\* share services, deletions fail half way and the controller restarts.
THEOREM RemovedBrokersAreCleared == MaxCatalogLag = 0 /\ Spec => []RemovedMeansCleared
<1>1. ObjInv /\ CatInv /\ ClearInv => RemovedMeansCleared
  <2> SUFFICES ASSUME ObjInv, CatInv, ClearInv, NEW b \in Brokers, api[b] = None
               PROVE  /\ \A c \in Classes : classes[c] # None => classes[c].owner # b
                      /\ \A p \in Plans : plans[p] # None /\ plans[p].owner = b => plans[p].class \notin made[b]
    BY DEF RemovedMeansCleared
  <2>1. \A c \in Classes : ~ClassThere(b, c)  BY Zenon DEF ClearInv, DoneInv, Done
  <2>2. made[b] \subseteq Classes  BY DEF ObjInv, ObjTyped
  <2>3. \A c \in made[b] : \A p \in Plans : ~PlanOf(b, p, c)  BY <2>1, <2>2 DEF ClearInv, MadeInv
  <2> QED  BY <2>1, <2>3 DEF ClassThere, PlanOf
<1> QED  BY <1>1, PromptListers, ObjectsAndCatalog, PTL
=============================================================================
