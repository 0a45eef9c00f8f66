------------------------ MODULE ProvisionRequestProofs ------------------------
(***************************************************************************)
(* The properties of ProvisionRequest hold for every catalog, every number *)
(* of secrets, faults and restarts, and any delay of the caches.           *)
(*                                                                         *)
(* The references are written once: only a reconciliation whose copy is    *)
(* still the stored version writes them, and such a copy has none.  So all *)
(* versions of an instance have the same references or none (VersionInv),  *)
(* and a request is sent only from a copy that has them (WorkerInv).  The  *)
(* broker keeps to the request it has once accepted, and a version speaks  *)
(* of an accepted request only in that request's terms (TrueStatus).       *)
(***************************************************************************)
EXTENDS ProvisionRequest, SequenceTheorems, TLAPS

Pcs == {"idle", "class", "plan", "refs", "prepare", "start", "provision", "poll", "write"}

TypeInv ==
    /\ classes \subseteq Classes
    /\ plans \in Seq(SUBSET Plans) /\ plans # <<>>
    /\ api \in Object \cup {None} /\ request \in Requests \cup {None}
    /\ secret \in [Secrets -> Contents]
    /\ watch \in Seq(Object) /\ cached \in Object \cup {None}
    /\ pc \in Pcs /\ local \in Object \cup {None} /\ fresh \in BOOLEAN
    /\ sending \in ProvisionRequests \cup {None}
    /\ broker \in BrokerInstances \cup {None}

RequestProperties == Properties(broker.request.plan, broker.request.params)

\* What a version says of the broker's instance is so.
TrueStatus(o) ==
    /\ o.async => broker # None /\ o.inProgress = RequestProperties
    /\ o.external # None => broker # None /\ o.external = RequestProperties

\* A version, stored or not, of the instance that is stored.
Follows(o) ==
    /\ api # None /\ o.class = api.class /\ o.plan = api.plan
    /\ TrueStatus(o)

HasReferences(o) ==
    o.planRef # None /\ o.planRef = api.planRef /\ o.classRef = api.classRef

References(o) == HasReferences(o) \/ (o.planRef = None /\ o.classRef = None)

Matches(o) ==
    /\ o.planRef # None /\ o.classRef = ClassOf[o.planRef]
    /\ ExternalName[o.classRef] = o.class /\ ExternalName[o.planRef] = o.plan

IsVersion(o) == o = api \/ o = cached \/ \E i \in DOMAIN watch : o = watch[i]

VersionInv == \A o \in Object : IsVersion(o) => Follows(o) /\ References(o)

LastInv ==
    /\ watch = <<>> => cached = api
    /\ watch # <<>> => watch[Len(watch)] = api

MatchInv == api # None /\ api.planRef # None => Matches(api)

WorkerInv ==
    /\ pc # "idle" => local # None /\ Follows(local)
    /\ pc \in {"class", "plan", "refs"} => ~local.async /\ (fresh => api.planRef = None)
    /\ pc = "plan" => local.classRef # None /\ ExternalName[local.classRef] = local.class
    /\ pc = "refs" => Matches(local)
    /\ pc \in {"prepare", "start", "provision"} => ~local.async /\ HasReferences(local)
    /\ pc \in {"start", "provision"} =>
          /\ sending \in ProvisionRequests
          /\ sending.class = local.classRef /\ sending.plan = local.planRef
          /\ local.inProgress = Properties(sending.plan, sending.params)
    /\ pc = "poll" => local.async

SentInv ==
    \A r \in sent : api # None /\ api.planRef # None /\ r = <<api.classRef, api.planRef>>

RequestInv == request # None => (request.verb = "create" <=> api = None)

IInv ==
    /\ TypeInv /\ VersionInv /\ LastInv /\ MatchInv
    /\ WorkerInv /\ SentInv /\ RequestInv

-----------------------------------------------------------------------------
(* Lemmas: parameters, the listers' versions, and new objects.             *)

\* A reading of a secret or of the spec that is not an error is a map.
LEMMA SourcesType ==
    ASSUME secret \in [Secrets -> Contents]
    PROVE  /\ DOMAIN Sources = 1..(Len(ParametersFrom) + 1)
           /\ \A i \in DOMAIN Sources : Sources[i] \in Maps(Values) \cup {Broken}
<1> DEFINE f == [i \in DOMAIN ParametersFrom |-> secret[ParametersFrom[i]]]
<1>1. DOMAIN ParametersFrom = 1..Len(ParametersFrom) /\ Len(ParametersFrom) \in Nat
  BY RequestAssumption
<1>2. \A i \in DOMAIN ParametersFrom : f[i] \in Maps(Values) \cup {Broken}
  BY RequestAssumption
<1>3. f \in Seq(Maps(Values) \cup {Broken}) /\ Len(f) = Len(ParametersFrom)
  BY <1>1, <1>2, IsASeq, LenProperties
<1>4. Sources = Append(f, Parameters) BY DEF Sources
<1>5. Parameters \in Maps(Values) \cup {Broken} BY RequestAssumption
<1> HIDE DEF f
<1> QED BY <1>1, <1>3, <1>4, <1>5, AppendProperties

\* The parameters of a request are a map of keys to values.
LEMMA BuildType ==
    ASSUME secret \in [Secrets -> Contents], BuildParameters # Broken
    PROVE  BuildParameters \in Maps(Values)
<1> DEFINE K == UNION {DOMAIN Sources[i] : i \in DOMAIN Sources}
           F == [k \in K |-> Sources[CHOOSE i \in DOMAIN Sources : k \in DOMAIN Sources[i]][k]]
<1>1. ~Unreadable /\ BuildParameters = F BY DEF BuildParameters
<1>2. \A i \in DOMAIN Sources : Sources[i] \in Maps(Values)
  BY <1>1, SourcesType DEF Unreadable
<1>3. K \in SUBSET Keys BY <1>2 DEF Maps
<1>4. ASSUME NEW k \in K PROVE F[k] \in Values
  <2> DEFINE j == CHOOSE i \in DOMAIN Sources : k \in DOMAIN Sources[i]
  <2>1. j \in DOMAIN Sources /\ k \in DOMAIN Sources[j] OBVIOUS
  <2>2. Sources[j] \in Maps(Values) BY <1>2, <2>1
  <2> HIDE DEF j
  <2>3. Sources[j][k] \in Values BY <2>1, <2>2 DEF Maps
  <2> QED BY <2>3 DEF j
<1>5. F \in [K -> Values] BY Zenon, <1>4
<1> QED BY Zenon, <1>1, <1>3, <1>5 DEF Maps

\* The properties of a request are a ServiceInstancePropertiesState.
LEMMA PropertiesType ==
    ASSUME NEW p \in Plans, NEW params \in Maps(Values)
    PROVE  Properties(p, params) \in PropertiesState
<1>1. ExternalName[p] \in PlanNames BY DEF PlanNames
<1>2. PICK K \in SUBSET Keys : params \in [K -> Values] BY DEF Maps
<1>3. Redacted(params) \in [K -> Values \cup {"<redacted>"}] BY <1>2 DEF Redacted
<1>4. Redacted(params) \in Maps(Values \cup {"<redacted>"}) BY <1>2, <1>3 DEF Maps
<1> QED BY <1>1, <1>4 DEF Properties, PropertiesState

\* A lister's versions stay versions when the stored one changes.
LEMMA ChangeType ==
    ASSUME NEW S, NEW v \in Seq(S), v # <<>>, NEW new \in S
    PROVE  /\ Stored(v) \in S /\ Listed(v) \subseteq S
           /\ Change(v, new) \in Seq(S) /\ Change(v, new) # <<>>
<1>1. Len(v) \in Nat \ {0} /\ \A i \in 1..Len(v) : v[i] \in S BY EmptySeq, LenProperties, ElementOfSeq
<1>2. Stored(v) \in S /\ Listed(v) \subseteq S BY <1>1 DEF Stored, Listed
<1> DEFINE a == Append(v, new)
           m == IF Len(v) > ListerLag THEN 2 ELSE 1
<1>3. a \in Seq(S) /\ Len(a) = Len(v) + 1 BY AppendProperties
<1>4. m \in 1..(Len(a) + 1) /\ Len(a) \in 1..Len(a) /\ Len(a) - m + 1 >= 1
  BY <1>1, <1>3, AdmissionAssumption
<1> DEFINE c == SubSeq(a, m, Len(a))
<1>5. Change(v, new) = c BY <1>3 DEF Change
<1>6. \A i \in m..Len(a) : a[i] \in S BY <1>1, <1>3, <1>4, ElementOfSeq
<1> HIDE DEF a, m
<1>7. c \in Seq(S) /\ Len(c) >= 1 BY <1>1, <1>3, <1>4, <1>6, SubSeqProperties
<1> HIDE DEF c
<1>8. c # <<>> BY <1>7
<1> QED BY <1>2, <1>5, <1>7, <1>8

\* PrepareForCreate makes an object without references and without status.
LEMMA NewInstanceType ==
    ASSUME NEW c \in ClassNames, NEW p \in PlanNames
    PROVE  NewInstance(c, p) \in Object
BY DEF NewInstance, Object

-----------------------------------------------------------------------------
(* Lemmas: what keeps the parts of the invariant.                          *)

BrokerKeeps == broker # None => broker' # None /\ broker'.request = broker.request

\* A status that is true stays so while the broker keeps to its request.
LEMMA TrueStatusKept ==
    ASSUME NEW o, TrueStatus(o), BrokerKeeps
    PROVE  TrueStatus(o)'
BY DEF TrueStatus, BrokerKeeps, RequestProperties

\* Without a write the versions and their references stay as they are.
LEMMA VersionsKept ==
    ASSUME VersionInv, LastInv, MatchInv, BrokerKeeps,
           api' = api, watch' = watch, cached' = cached
    PROVE  VersionInv' /\ LastInv' /\ MatchInv'
<1>1. ASSUME NEW o \in Object, IsVersion(o)' PROVE (Follows(o) /\ References(o))'
  <2>1. Follows(o) /\ References(o) BY <1>1 DEF VersionInv, IsVersion
  <2>2. TrueStatus(o)' BY <2>1, TrueStatusKept DEF Follows
  <2> QED BY <2>1, <2>2 DEF Follows, References, HasReferences
<1>2. VersionInv' BY <1>1 DEF VersionInv
<1> QED BY <1>2 DEF LastInv, MatchInv, Matches

\* What the worker relies on stays so while it and the stored object rest.
LEMMA WorkerKept ==
    ASSUME WorkerInv, BrokerKeeps, api' = api, UNCHANGED workerVars
    PROVE  WorkerInv'
<1>1. pc # "idle" => Follows(local)'
  <2> SUFFICES ASSUME pc # "idle" PROVE Follows(local)' OBVIOUS
  <2>1. Follows(local) BY DEF WorkerInv
  <2>2. local' = local BY DEF workerVars
  <2> QED BY <2>1, <2>2 DEF Follows, TrueStatus, BrokerKeeps, RequestProperties
<1> QED BY <1>1 DEF WorkerInv, workerVars, HasReferences, Matches

\* A stored version that keeps the names, and the references if there are
\* any, keeps the invariant on versions.
LEMMA CommitKeeps ==
    ASSUME TypeInv, VersionInv, LastInv, MatchInv, NEW o \in Object,
           Commit(o), cached' = cached, broker' = broker, Follows(o),
           \/ o.planRef = api.planRef /\ o.classRef = api.classRef
           \/ api.planRef = None /\ Matches(o)
    PROVE  /\ VersionInv' /\ LastInv' /\ MatchInv'
           /\ api' = o /\ watch' \in Seq(Object)
<1>1. api' = o /\ o # None /\ api # None /\ api \in Object /\ broker' = broker
  BY RequestAssumption DEF Commit, Follows, TypeInv
<1>2. o.class = api.class /\ o.plan = api.plan /\ TrueStatus(o) BY DEF Follows
<1>3. Follows(api) /\ References(api) BY <1>1 DEF VersionInv, IsVersion
<1>4. MatchInv'
  <2>1. CASE o.planRef = api.planRef /\ o.classRef = api.classRef
    BY <1>1, <1>2, <2>1 DEF MatchInv, Matches
  <2>2. CASE api.planRef = None /\ Matches(o) BY <1>1, <2>2 DEF MatchInv, Matches
  <2> QED BY <2>1, <2>2
<1>5. References(o)'
  <2>1. CASE o.planRef = api.planRef /\ o.classRef = api.classRef
    BY <1>1, <1>3, <2>1 DEF References, HasReferences
  <2>2. CASE Matches(o) BY <1>1, <2>2 DEF References, HasReferences, Matches
  <2> QED BY <2>1, <2>2
<1>6. ASSUME NEW v \in Object, Follows(v), References(v)
      PROVE  (Follows(v) /\ References(v))'
  <2>1. TrueStatus(v)' BY <1>1, <1>6, TrueStatusKept DEF Follows, BrokerKeeps
  <2>2. Follows(v)' BY <1>1, <1>2, <1>6, <2>1 DEF Follows
  <2>3. References(v)'
    BY <1>1, <1>6 DEF References, HasReferences
  <2> QED BY <2>2, <2>3
<1>7. Follows(o)'
  BY <1>1, <1>2, TrueStatusKept DEF Follows, BrokerKeeps
<1>8. watch \in Seq(Object) BY DEF TypeInv
<1>9. CASE watch' = Append(watch, o)
  <2>1. /\ watch' \in Seq(Object) /\ watch' # <<>> /\ Len(watch') = Len(watch) + 1
        /\ \A i \in 1..Len(watch) : watch'[i] = watch[i]
        /\ watch'[Len(watch) + 1] = o
    BY <1>8, <1>9, AppendProperties
  <2>2. Len(watch) \in Nat /\ DOMAIN watch = 1..Len(watch) /\ DOMAIN watch' = 1..(Len(watch) + 1)
    BY <1>8, <2>1, LenProperties
  <2>3. LastInv' BY <1>1, <2>1 DEF LastInv
  <2>4. ASSUME NEW v \in Object, IsVersion(v)' PROVE v = o \/ IsVersion(v)
    <3>1. CASE v = api' \/ v = cached' BY <1>1, <3>1 DEF IsVersion
    <3>2. CASE \E i \in DOMAIN watch' : v = watch'[i]
      <4>1. PICK i \in DOMAIN watch' : v = watch'[i] BY <3>2
      <4>2. i \in DOMAIN watch \/ i = Len(watch) + 1 BY <2>2
      <4> QED BY <2>1, <2>2, <4>1, <4>2 DEF IsVersion
    <3> QED BY <2>4, <3>1, <3>2 DEF IsVersion
  <2>5. VersionInv' BY <1>5, <1>6, <1>7, <2>4 DEF VersionInv
  <2> QED BY <1>1, <1>4, <2>1, <2>3, <2>5
<1>10. CASE o = api /\ watch' = watch
  <2>1. LastInv' BY <1>1, <1>10 DEF LastInv
  <2>2. VersionInv' BY <1>1, <1>6, <1>10 DEF VersionInv, IsVersion
  <2> QED BY <1>1, <1>4, <1>8, <1>10, <2>1, <2>2
<1> QED BY <1>9, <1>10 DEF Commit

\* PrepareForUpdate of the status strategy makes a version of the instance.
LEMMA StatusKeepsSpec ==
    ASSUME api \in Object, NEW o \in Object, Follows(o)
    PROVE  LET n == [o EXCEPT !.class = api.class, !.plan = api.plan,
                              !.classRef = api.classRef, !.planRef = api.planRef]
           IN  n \in Object /\ Follows(n) /\ n.planRef = api.planRef /\ n.classRef = api.classRef
<1> DEFINE n == [o EXCEPT !.class = api.class, !.plan = api.plan,
                          !.classRef = api.classRef, !.planRef = api.planRef]
<1>1. n \in Object BY Zenon DEF Object
<1>2. /\ n.class = api.class /\ n.plan = api.plan
      /\ n.planRef = api.planRef /\ n.classRef = api.classRef
      /\ n.async = o.async /\ n.inProgress = o.inProgress /\ n.external = o.external
  BY DEF Object
<1> HIDE DEF n
<1>3. Follows(n) BY <1>2 DEF Follows, TrueStatus
<1>4. n \in Object /\ Follows(n) /\ n.planRef = api.planRef /\ n.classRef = api.classRef
  BY <1>1, <1>2, <1>3
<1> QED BY <1>4 DEF n

-----------------------------------------------------------------------------
(* The invariant is inductive.                                             *)

\* It holds of the initial states.
LEMMA InitIInv == Init => IInv
<1> SUFFICES ASSUME Init PROVE IInv OBVIOUS
<1> USE DEF Init, AdmissionInit
<1>1. api \in Object \cup {None} BY NewInstanceType
<1>2. api # None => /\ api \in Object /\ api.classRef = None /\ api.planRef = None
                    /\ api.async = FALSE /\ api.external = None
  BY <1>1 DEF NewInstance
<1>3. plans \in Seq(SUBSET Plans) /\ plans # <<>> OBVIOUS
<1>4. watch \in Seq(Object) BY <1>2
<1>5. TypeInv
  <2>1. classes \subseteq Classes /\ request = None /\ secret \in [Secrets -> Contents]
    BY DEF AdmissionInit
  <2>2. cached = None /\ pc = "idle" /\ local = None /\ fresh = FALSE
    OBVIOUS
  <2>3. sending = None /\ broker = None OBVIOUS
  <2> USE <1>1, <1>3, <1>4
  <2> HIDE DEF Init, AdmissionInit
  <2> QED BY Zenon, <2>1, <2>2, <2>3 DEF TypeInv, Pcs
<1>6. LastInv
  <2>1. CASE api = None BY <2>1 DEF LastInv
  <2>2. CASE api # None
    <3>1. watch = <<api>> BY <2>2
    <3> QED BY <3>1 DEF LastInv
  <2> QED BY <2>1, <2>2
<1>7. ASSUME NEW o \in Object, IsVersion(o) PROVE Follows(o) /\ References(o)
  <2>1. o = api /\ api # None
    <3>1. o # None BY RequestAssumption
    <3>2. CASE api = None BY <1>7, <3>1, <3>2 DEF IsVersion
    <3>3. CASE api # None
      <4>1. watch = <<api>> BY <3>3
      <4>2. ASSUME NEW i \in DOMAIN watch PROVE watch[i] = api BY <4>1
      <4> QED BY <1>7, <3>1, <3>3, <4>2 DEF IsVersion
    <3> QED BY <3>2, <3>3
  <2> QED BY <1>2, <2>1 DEF Follows, TrueStatus, References
<1>8. VersionInv BY <1>7 DEF VersionInv
<1>9. MatchInv /\ WorkerInv /\ SentInv /\ RequestInv
  BY <1>2 DEF MatchInv, WorkerInv, SentInv, RequestInv
<1> QED BY <1>5, <1>6, <1>8, <1>9 DEF IInv

\* Steps of the catalog, of the user and of the plugins.
LEMMA AdmissionTypes ==
    ASSUME IInv, Catalog \/ UserRequest \/ Plugins
    PROVE  /\ classes' \subseteq Classes /\ plans' \in Seq(SUBSET Plans) /\ plans' # <<>>
           /\ api' = api /\ request' \in Requests \cup {None} /\ RequestInv'
<1> USE DEF catalogVars, namespaceVars
<1>0. /\ classes \subseteq Classes /\ plans \in Seq(SUBSET Plans) /\ plans # <<>>
      /\ api \in Object \cup {None} /\ request \in Requests \cup {None} /\ RequestInv
  BY DEF IInv, TypeInv
<1>1. Stored(plans) \in SUBSET Plans /\ Listed(plans) \subseteq SUBSET Plans
  <2>1. {} \in SUBSET Plans OBVIOUS
  <2> QED BY Zenon, <1>0, <2>1, ChangeType
<1>2. ASSUME NEW s \in SUBSET Plans
      PROVE  Change(plans, s) \in Seq(SUBSET Plans) /\ Change(plans, s) # <<>>
  BY Zenon, <1>0, ChangeType
<1>3. CASE CreatePlan \/ DeletePlan
  <2>1. PICK s \in SUBSET Plans : SetPlans(s) BY Zenon, <1>1, <1>3 DEF CreatePlan, DeletePlan
  <2>2. UNCHANGED <<api, request>> BY <1>3 DEF CreatePlan, DeletePlan, CatalogStep
  <2> QED BY <1>0, <1>2, <2>1, <2>2 DEF SetPlans, RequestInv
<1>4. CASE CreateClass \/ DeleteClass
  BY <1>0, <1>4 DEF CreateClass, DeleteClass, CatalogStep, RequestInv
<1>5. CASE NamespaceChanges BY <1>0, <1>5 DEF NamespaceChanges, RequestInv
<1>6. CASE UserRequest
  <2>1. api # None => api.class \in ClassNames BY <1>0 DEF Object
  <2>2. request' \in Requests /\ (request'.verb = "create" <=> api = None)
    <3>1. PICK plan \in PlanNames \cup {None} :
            \/ /\ api = None
               /\ \E class \in ClassNames :
                     request' = [verb |-> "create", class |-> class, plan |-> plan,
                                 at |-> "namespace"]
            \/ /\ api # None
               /\ request' = [verb |-> "update", class |-> api.class, plan |-> plan,
                              at |-> "namespace"]
      BY <1>6 DEF UserRequest
    <3> QED BY <2>1, <3>1 DEF Requests
  <2> QED BY <1>0, <1>6, <2>2 DEF UserRequest, RequestInv
<1>7. ASSUME request # None,
             \/ Refuse \/ \E stage \in {"again", "class", "plan", "change", "store"} : Proceed(stage)
      PROVE  api' = api /\ request' \in Requests \cup {None} /\ RequestInv'
  <2>1. CASE Refuse BY <2>1 DEF Refuse, RequestInv
  <2>2. ASSUME NEW stage \in {"again", "class", "plan", "change", "store"}, Proceed(stage)
        PROVE  api' = api /\ request' \in Requests /\ RequestInv'
    BY <1>0, <1>7, <2>2 DEF Proceed, Requests, RequestInv
  <2> QED BY <1>7, <2>1, <2>2
<1>8. CASE NamespaceLifecycle \/ NamespaceAgain
  BY <1>0, <1>7, <1>8 DEF NamespaceLifecycle, NamespaceAgain, At, AdmitNamespace
<1>9. CASE DefaultPlanClass BY <1>0, <1>7, <1>9 DEF DefaultPlanClass, At
<1>10. CASE DefaultPlan
  <2>1. request \in Requests BY Zenon, <1>0, <1>10 DEF DefaultPlan, At
  <2>2. \/ request' = None
        \/ \E n \in PlanNames : request' = [request EXCEPT !.plan = n, !.at = "change"]
    BY Zenon, <1>1, <1>10 DEF DefaultPlan, PlanNames
  <2>3. request' # None => request' \in Requests /\ request'.verb = request.verb
    BY Zenon, <2>1, <2>2 DEF Requests
  <2> QED BY Zenon, <1>0, <1>10, <2>1, <2>3, AdmissionAssumption DEF DefaultPlan, At, RequestInv
<1>11. CASE PlanChangeValidator BY <1>0, <1>7, <1>11 DEF PlanChangeValidator, At
<1> QED BY <1>3, <1>4, <1>5, <1>6, <1>8, <1>9, <1>10, <1>11 DEF Catalog, Plugins

\* Admission: nothing of the controller changes, or a version is stored.
LEMMA AdmissionStep == IInv /\ Admission => IInv'
<1> SUFFICES ASSUME IInv, Admission PROVE IInv' OBVIOUS
<1>1. CASE (Catalog \/ UserRequest \/ Plugins) /\ UNCHANGED controllerVars
  <2>1. UNCHANGED <<watch, cached, secret, broker, sent>> /\ UNCHANGED workerVars
    BY <1>1 DEF controllerVars, outsideVars
  <2>2. /\ classes' \subseteq Classes /\ plans' \in Seq(SUBSET Plans) /\ plans' # <<>>
        /\ api' = api /\ request' \in Requests \cup {None} /\ RequestInv'
    BY <1>1, AdmissionTypes
  <2>3. TypeInv' BY <2>1, <2>2 DEF IInv, TypeInv, workerVars
  <2>4. BrokerKeeps BY <2>1 DEF BrokerKeeps
  <2>5. VersionInv' /\ LastInv' /\ MatchInv' BY <2>1, <2>2, <2>4, VersionsKept DEF IInv
  <2>6. WorkerInv' BY <2>1, <2>2, <2>4, WorkerKept DEF IInv
  <2>7. SentInv' BY <2>1, <2>2 DEF IInv, SentInv
  <2> QED BY <2>2, <2>3, <2>5, <2>6, <2>7 DEF IInv
<1>2. CASE /\ Store
           /\ IF request.plan = None THEN UNCHANGED <<watch, fresh>>
              ELSE watch' = Append(watch, api') /\ fresh' = FALSE
           /\ UNCHANGED <<cached, pc, local, sending, outsideVars, faults>>
  <2>1. /\ request # None /\ request' = None /\ UNCHANGED <<classes, plans, secret, broker, sent>>
        /\ UNCHANGED <<cached, pc, local, sending>>
    BY <1>2 DEF Store, At, catalogVars, outsideVars
  <2>2. RequestInv' BY <2>1 DEF RequestInv
  <2>3. BrokerKeeps BY <2>1 DEF BrokerKeeps
  <2>4. CASE request.plan = None
    <3>1. UNCHANGED <<api, watch, fresh>> BY <1>2, <2>4 DEF Store
    <3>2. TypeInv' BY <2>1, <3>1 DEF IInv, TypeInv
    <3>3. VersionInv' /\ LastInv' /\ MatchInv' BY <2>1, <2>3, <3>1, VersionsKept DEF IInv
    <3>4. WorkerInv' BY <2>1, <2>3, <3>1, WorkerKept DEF IInv, workerVars
    <3>5. SentInv' BY <2>1, <3>1 DEF IInv, SentInv
    <3> QED BY <2>2, <3>2, <3>3, <3>4, <3>5 DEF IInv
  <2>5. CASE request.plan # None /\ request.verb = "create"
    <3>1. api = None BY <2>1, <2>5 DEF IInv, RequestInv
    <3>2. request.class \in ClassNames /\ request.plan \in PlanNames
      BY <2>1, <2>5 DEF IInv, TypeInv, Requests
    <3>3. /\ api' \in Object /\ api' # None /\ api'.planRef = None /\ api'.classRef = None
          /\ api'.async = FALSE /\ api'.external = None
      BY <1>2, <2>5, <3>2, NewInstanceType, RequestAssumption DEF Store, NewInstance
    <3>4. cached = None /\ pc = "idle"
      BY <3>1 DEF IInv, TypeInv, VersionInv, IsVersion, Follows, WorkerInv
    <3>5. watch = <<>>
      <4> SUFFICES ASSUME watch # <<>> PROVE FALSE OBVIOUS
      <4>1. watch \in Seq(Object) BY DEF IInv, TypeInv
      <4>2. 1 \in DOMAIN watch /\ watch[1] \in Object BY <4>1, EmptySeq, LenProperties
      <4> QED BY <3>1, <4>2 DEF IInv, VersionInv, IsVersion, Follows
    <3>6. watch' = <<api'>> /\ fresh' = FALSE BY <1>2, <2>5, <3>5
    <3>7. TypeInv'
      <4>1. watch' \in Seq(Object) BY <3>3, <3>6
      <4> QED BY Zenon, <2>1, <3>3, <3>6, <4>1 DEF IInv, TypeInv
    <3>8. LastInv' BY <3>6 DEF LastInv
    <3>9. ASSUME NEW o \in Object, IsVersion(o)' PROVE (Follows(o) /\ References(o))'
      <4>1. o # None BY RequestAssumption
      <4>2. \A i \in DOMAIN watch' : watch'[i] = api' BY <3>6
      <4>3. o = api' BY <2>1, <3>4, <3>9, <4>1, <4>2 DEF IsVersion
      <4> QED BY <3>3, <4>3 DEF Follows, References, TrueStatus
    <3>10. VersionInv' BY <3>9 DEF VersionInv
    <3>11. sent = {} BY <3>1 DEF IInv, SentInv
    <3>12. MatchInv' /\ WorkerInv' /\ SentInv'
      BY <2>1, <3>3, <3>4, <3>11 DEF MatchInv, WorkerInv, SentInv
    <3> QED BY <2>2, <3>7, <3>8, <3>10, <3>12 DEF IInv
  <2>6. CASE request.plan # None /\ request.verb # "create"
    <3>1. api' = api /\ watch' = Append(watch, api) /\ fresh' = FALSE
      BY <1>2, <2>6 DEF Store, PrepareForUpdate
    <3>2. api \in Object BY <2>1, <2>6 DEF IInv, TypeInv, RequestInv
    <3>3. watch \in Seq(Object) BY DEF IInv, TypeInv
    <3>4. /\ watch' \in Seq(Object) /\ watch' # <<>> /\ Len(watch') = Len(watch) + 1
          /\ \A i \in 1..Len(watch) : watch'[i] = watch[i]
          /\ watch'[Len(watch) + 1] = api
          /\ DOMAIN watch = 1..Len(watch) /\ DOMAIN watch' = 1..(Len(watch) + 1) /\ Len(watch) \in Nat
      BY <3>1, <3>2, <3>3, AppendProperties, LenProperties
    <3>5. TypeInv' BY Zenon, <2>1, <3>1, <3>4 DEF IInv, TypeInv
    <3>6. LastInv' BY <3>1, <3>4 DEF LastInv
    <3>7. ASSUME NEW o \in Object, IsVersion(o)' PROVE IsVersion(o)
      BY <2>1, <3>1, <3>4, <3>7 DEF IsVersion
    <3>8. VersionInv'
      <4>1. ASSUME NEW o \in Object, IsVersion(o)' PROVE (Follows(o) /\ References(o))'
        <5>1. Follows(o) /\ References(o) BY <3>7, <4>1 DEF IInv, VersionInv
        <5>2. TrueStatus(o)' BY <2>3, <5>1, TrueStatusKept DEF Follows
        <5> QED BY <3>1, <5>1, <5>2 DEF Follows, References, HasReferences
      <4> QED BY <4>1 DEF VersionInv
    <3>9. MatchInv' /\ SentInv' BY <2>1, <3>1 DEF IInv, MatchInv, Matches, SentInv
    <3>10. WorkerInv'
      <4>1. pc # "idle" => Follows(local)'
        BY <2>1, <3>1 DEF IInv, WorkerInv, Follows, TrueStatus, RequestProperties
      <4> QED BY <2>1, <3>1, <4>1 DEF IInv, WorkerInv, HasReferences, Matches
    <3> QED BY <2>2, <3>5, <3>6, <3>8, <3>9, <3>10 DEF IInv
  <2> QED BY <2>4, <2>5, <2>6
<1> QED BY Zenon, <1>1, <1>2 DEF Admission

\* The informer, secrets, a restart, and the end of the broker's operation.
LEMMA EnvironmentStep ==
    IInv /\ (InformerEvent \/ SecretChanges \/ Crash \/ BrokerFinish) => IInv'
<1> SUFFICES ASSUME IInv, InformerEvent \/ SecretChanges \/ Crash \/ BrokerFinish PROVE IInv'
  OBVIOUS
<1>0. UNCHANGED <<classes, plans, api, request, sent>>
  BY DEF InformerEvent, SecretChanges, Crash, BrokerFinish, admissionVars, catalogVars, outsideVars
<1>1. SentInv' /\ RequestInv' BY <1>0 DEF IInv, SentInv, RequestInv
<1>2. CASE InformerEvent
  <2>1. /\ watch # <<>> /\ cached' = Head(watch) /\ watch' = Tail(watch)
        /\ UNCHANGED workerVars /\ UNCHANGED <<secret, broker>>
    BY <1>2 DEF InformerEvent, outsideVars
  <2>2. watch \in Seq(Object) BY DEF IInv, TypeInv
  <2>3. Len(watch) \in Nat \ {0} /\ DOMAIN watch = 1..Len(watch)
    BY <2>1, <2>2, EmptySeq, LenProperties
  <2>4. /\ cached' = watch[1] /\ cached' \in Object /\ watch' \in Seq(Object)
        /\ Len(watch') = Len(watch) - 1 /\ DOMAIN watch' = 1..(Len(watch) - 1)
        /\ \A i \in 1..(Len(watch) - 1) : watch'[i] = watch[i + 1]
    BY <2>1, <2>2, <2>3
  <2>5. TypeInv' BY <1>0, <2>1, <2>4 DEF IInv, TypeInv, workerVars
  <2>6. LastInv'
    <3>1. watch[Len(watch)] = api BY <2>1 DEF IInv, LastInv
    <3>2. CASE Len(watch) = 1
      <4>1. watch' = <<>> BY <2>4, <3>2, EmptySeq
      <4> QED BY <1>0, <2>4, <3>1, <3>2, <4>1 DEF LastInv
    <3>3. CASE Len(watch) # 1
      <4>1. watch' # <<>> /\ watch'[Len(watch')] = api BY <2>3, <2>4, <3>1, <3>3
      <4> QED BY <1>0, <4>1 DEF LastInv
    <3> QED BY <3>2, <3>3
  <2>7. ASSUME NEW o \in Object, IsVersion(o)' PROVE IsVersion(o)
    BY <1>0, <2>3, <2>4, <2>7 DEF IsVersion
  <2>8. VersionInv'
    <3>1. ASSUME NEW o \in Object, Follows(o), References(o) PROVE (Follows(o) /\ References(o))'
      BY <1>0, <2>1, <3>1 DEF Follows, References, HasReferences, TrueStatus, RequestProperties
    <3> QED BY <2>7, <3>1 DEF IInv, VersionInv
  <2>9. MatchInv' BY <1>0 DEF IInv, MatchInv, Matches
  <2>10. WorkerInv' BY <1>0, <2>1, WorkerKept DEF IInv, BrokerKeeps
  <2> QED BY <1>1, <2>5, <2>6, <2>8, <2>9, <2>10 DEF IInv
<1>3. CASE SecretChanges \/ BrokerFinish
  <2>1. UNCHANGED <<watch, cached>> /\ UNCHANGED workerVars
    BY <1>3 DEF SecretChanges, BrokerFinish
  <2>2. BrokerKeeps /\ broker' \in BrokerInstances \cup {None}
    <3>1. CASE SecretChanges BY <3>1 DEF SecretChanges, BrokerKeeps, IInv, TypeInv
    <3>2. CASE BrokerFinish
      <4>1. broker # None /\ broker \in BrokerInstances BY <3>2 DEF BrokerFinish, IInv, TypeInv
      <4>2. PICK st \in {"there", "failed"} : broker' = [broker EXCEPT !.state = st]
        BY <3>2 DEF BrokerFinish
      <4>3. broker' \in BrokerInstances /\ broker'.request = broker.request
        BY <4>1, <4>2 DEF BrokerInstances
      <4> QED BY <4>3, RequestAssumption DEF BrokerKeeps
    <3> QED BY <1>3, <3>1, <3>2
  <2>3. secret' \in [Secrets -> Contents]
    BY <1>3 DEF SecretChanges, BrokerFinish, IInv, TypeInv
  <2>4. TypeInv' BY <1>0, <2>1, <2>2, <2>3 DEF IInv, TypeInv, workerVars
  <2>5. VersionInv' /\ LastInv' /\ MatchInv' BY <1>0, <2>1, <2>2, VersionsKept DEF IInv
  <2>6. WorkerInv' BY <1>0, <2>1, <2>2, WorkerKept DEF IInv
  <2> QED BY <1>1, <2>4, <2>5, <2>6 DEF IInv
<1>4. CASE Crash
  <2>1. /\ pc' = "idle" /\ local' = None /\ fresh' = FALSE /\ sending' = None
        /\ cached' = None /\ watch' = (IF api = None THEN <<>> ELSE <<api>>)
        /\ UNCHANGED <<secret, broker>>
    BY <1>4 DEF Crash, outsideVars
  <2>2. api \in Object \cup {None} BY DEF IInv, TypeInv
  <2>3. watch' \in Seq(Object) /\ (\A i \in DOMAIN watch' : watch'[i] = api) BY <2>1, <2>2
  <2>4. TypeInv' BY Zenon, <1>0, <2>1, <2>3 DEF IInv, TypeInv, Pcs
  <2>5. LastInv'
    <3>1. CASE api = None BY <1>0, <2>1, <3>1 DEF LastInv
    <3>2. CASE api # None
      <4>1. watch' = <<api>> BY <2>1, <3>2
      <4> QED BY <1>0, <4>1 DEF LastInv
    <3> QED BY <3>1, <3>2
  <2>6. ASSUME NEW o \in Object, IsVersion(o)' PROVE IsVersion(o)
    BY <1>0, <2>1, <2>3, <2>6, RequestAssumption DEF IsVersion
  <2>7. VersionInv'
    <3>1. ASSUME NEW o \in Object, Follows(o), References(o) PROVE (Follows(o) /\ References(o))'
      BY <1>0, <2>1, <3>1 DEF Follows, References, HasReferences, TrueStatus, RequestProperties
    <3> QED BY <2>6, <3>1 DEF IInv, VersionInv
  <2>8. MatchInv' /\ WorkerInv' BY <1>0, <2>1 DEF IInv, MatchInv, Matches, WorkerInv
  <2> QED BY <1>1, <2>4, <2>5, <2>7, <2>8 DEF IInv
<1> QED BY <1>2, <1>3, <1>4

\* What is left to show of a step of the worker that does not write.
LEMMA NoWriteStep ==
    ASSUME IInv, WorkerFrame, NoWrite, BrokerKeeps, WorkerInv', SentInv',
           broker' \in BrokerInstances \cup {None}, pc' \in Pcs,
           local' \in Object \cup {None}, fresh' \in BOOLEAN,
           sending' \in ProvisionRequests \cup {None}
    PROVE  IInv'
<1>1. UNCHANGED <<classes, plans, api, request, secret, watch, cached>>
  BY DEF WorkerFrame, NoWrite, catalogVars
<1>2. TypeInv' BY <1>1 DEF IInv, TypeInv
<1>3. VersionInv' /\ LastInv' /\ MatchInv' BY <1>1, VersionsKept DEF IInv
<1>4. RequestInv' BY <1>1 DEF IInv, RequestInv
<1> QED BY <1>2, <1>3, <1>4 DEF IInv

\* The steps of the worker that neither write nor call the broker to provision.
LEMMA QuietStep ==
    IInv /\ (Reconcile \/ ResolveClass \/ ResolvePlan \/ PrepareFails \/ Prepare \/ Poll) => IInv'
<1> SUFFICES ASSUME IInv,
                    Reconcile \/ ResolveClass \/ ResolvePlan \/ PrepareFails \/ Prepare \/ Poll
             PROVE  IInv'
  OBVIOUS
<1>0. WorkerFrame /\ NoWrite /\ UNCHANGED <<api, broker, sent>>
  BY DEF Reconcile, ResolveClass, ResolvePlan, PrepareFails, Prepare, Poll, NoWrite, NoCall
<1>1. BrokerKeeps /\ broker' \in BrokerInstances \cup {None} BY <1>0 DEF BrokerKeeps, IInv, TypeInv
<1>2. SentInv' BY <1>0 DEF IInv, SentInv
<1>3. /\ local \in Object \cup {None} /\ fresh \in BOOLEAN /\ pc \in Pcs
      /\ sending \in ProvisionRequests \cup {None} /\ WorkerInv
  BY DEF IInv, TypeInv
<1>4. pc # "idle" => local \in Object /\ Follows(local) BY <1>3 DEF WorkerInv
<1>6. CASE Reconcile
  <2>1. /\ cached \in Object /\ local' = cached /\ sending' = sending /\ fresh' = (watch = <<>>)
        /\ pc' = IF cached.async THEN "poll"
                 ELSE IF cached.classRef # None /\ cached.planRef # None THEN "prepare"
                 ELSE "class"
    BY <1>6 DEF Reconcile, IInv, TypeInv
  <2>2. Follows(cached) /\ References(cached) BY <2>1 DEF IInv, VersionInv, IsVersion
  <2>3. cached # None /\ api # None /\ api \in Object
    BY <2>1, <2>2, RequestAssumption DEF Follows, IInv, TypeInv
  <2>5. Follows(local)' BY <1>0, <2>1, <2>2 DEF Follows, TrueStatus, RequestProperties
  <2>6. cached.async \in BOOLEAN BY <2>1 DEF Object
  <2>7. pc' = "prepare" => ~cached.async /\ HasReferences(cached) BY <2>1, <2>2, <2>6 DEF References
  <2>8. pc' = "class" => ~cached.async /\ (fresh' => api.planRef = None)
    <3> SUFFICES ASSUME pc' = "class" PROVE ~cached.async /\ (fresh' => api.planRef = None) OBVIOUS
    <3>1. ~cached.async /\ (cached.classRef = None \/ cached.planRef = None) BY <2>1
    <3>2. cached.planRef = None \/ api.classRef = None
      BY <2>2, <3>1 DEF References, HasReferences
    <3>3. fresh' => cached = api BY Zenon, <2>1 DEF IInv, LastInv
    <3>4. api.planRef # None => api.classRef \in Classes
      BY <2>3, AdmissionAssumption DEF IInv, MatchInv, Matches, Object
    <3> QED BY <3>1, <3>2, <3>3, <3>4, AdmissionAssumption
  <2>9. WorkerInv' BY <1>0, <2>1, <2>3, <2>5, <2>7, <2>8 DEF WorkerInv, HasReferences
  <2>10. pc' \in Pcs BY <2>1 DEF Pcs
  <2>11. fresh' \in BOOLEAN BY <2>1
  <2> QED BY <1>0, <1>1, <1>2, <1>3, <2>1, <2>9, <2>10, <2>11, NoWriteStep
<1>7. CASE ResolveClass
  <2>1. /\ pc = "class" /\ UNCHANGED <<fresh, sending>>
        /\ \/ pc' = "write" /\ local' = local
           \/ \E c \in classes : /\ ExternalName[c] = local.class /\ pc' = "plan"
                                 /\ local' = [local EXCEPT !.classRef = c]
    BY <1>7 DEF ResolveClass, Continue
  <2>2. CASE pc' = "write" /\ local' = local
    <3>1. WorkerInv'
      <4>1. Follows(local)' BY <1>0, <1>4, <2>1, <2>2 DEF Follows, TrueStatus, RequestProperties
      <4> QED BY <1>3, <2>1, <2>2, <4>1 DEF WorkerInv
    <3>2. pc' \in Pcs BY <2>2 DEF Pcs
    <3> QED BY <1>0, <1>1, <1>2, <1>3, <2>1, <2>2, <3>1, <3>2, NoWriteStep
  <2>3. CASE \E c \in classes : /\ ExternalName[c] = local.class /\ pc' = "plan"
                                /\ local' = [local EXCEPT !.classRef = c]
    <3>1. PICK c \in classes : /\ ExternalName[c] = local.class /\ pc' = "plan"
                               /\ local' = [local EXCEPT !.classRef = c]
      BY <2>3
    <3>2. c \in Classes /\ c # None BY AdmissionAssumption DEF IInv, TypeInv
    <3>3. /\ local' \in Object /\ local'.classRef = c /\ local'.class = local.class
          /\ local'.plan = local.plan /\ local'.async = local.async
          /\ local'.external = local.external /\ local'.inProgress = local.inProgress
      BY <1>4, <2>1, <3>1, <3>2 DEF Object
    <3>4. Follows(local)' BY <1>0, <1>4, <2>1, <3>3 DEF Follows, TrueStatus, RequestProperties
    <3>5. local' # None BY <3>3, RequestAssumption
    <3>6. WorkerInv' BY <1>0, <1>3, <2>1, <3>1, <3>2, <3>3, <3>4, <3>5 DEF WorkerInv
    <3>7. pc' \in Pcs BY <3>1 DEF Pcs
    <3> QED BY <1>0, <1>1, <1>2, <1>3, <2>1, <3>3, <3>6, <3>7, NoWriteStep
  <2> QED BY <2>1, <2>2, <2>3
<1>8. CASE ResolvePlan
  <2>1. /\ pc = "plan" /\ UNCHANGED <<fresh, sending>>
        /\ \/ pc' = "write" /\ local' = local
           \/ \E p \in Stored(plans) :
                 /\ ExternalName[p] = local.plan /\ ClassOf[p] = local.classRef
                 /\ pc' = "refs" /\ local' = [local EXCEPT !.planRef = p]
    BY <1>8 DEF ResolvePlan, Continue
  <2>2. CASE pc' = "write" /\ local' = local
    <3>1. WorkerInv'
      <4>1. Follows(local)' BY <1>0, <1>4, <2>1, <2>2 DEF Follows, TrueStatus, RequestProperties
      <4> QED BY <1>3, <2>1, <2>2, <4>1 DEF WorkerInv
    <3>2. pc' \in Pcs BY <2>2 DEF Pcs
    <3> QED BY <1>0, <1>1, <1>2, <1>3, <2>1, <2>2, <3>1, <3>2, NoWriteStep
  <2>3. CASE \E p \in Stored(plans) :
                 /\ ExternalName[p] = local.plan /\ ClassOf[p] = local.classRef
                 /\ pc' = "refs" /\ local' = [local EXCEPT !.planRef = p]
    <3>1. PICK p \in Stored(plans) :
                 /\ ExternalName[p] = local.plan /\ ClassOf[p] = local.classRef
                 /\ pc' = "refs" /\ local' = [local EXCEPT !.planRef = p]
      BY <2>3
    <3>2. p \in Plans /\ p # None
      <4>1. {} \in SUBSET Plans /\ plans \in Seq(SUBSET Plans) /\ plans # <<>> BY DEF IInv, TypeInv
      <4>2. Stored(plans) \in SUBSET Plans BY <4>1, ChangeType
      <4> QED BY <3>1, <4>2, AdmissionAssumption
    <3>3. /\ local' \in Object /\ local'.planRef = p /\ local'.classRef = local.classRef
          /\ local'.class = local.class /\ local'.plan = local.plan
          /\ local'.async = local.async
          /\ local'.external = local.external /\ local'.inProgress = local.inProgress
      BY <1>4, <2>1, <3>1, <3>2 DEF Object
    <3>4. Follows(local)' BY <1>0, <1>4, <2>1, <3>3 DEF Follows, TrueStatus, RequestProperties
    <3>5. local' # None BY <3>3, RequestAssumption
    <3>6. Matches(local)' BY <1>3, <2>1, <3>1, <3>2, <3>3 DEF WorkerInv, Matches
    <3>7. WorkerInv' BY <1>0, <1>3, <2>1, <3>1, <3>3, <3>4, <3>5, <3>6 DEF WorkerInv
    <3>8. pc' \in Pcs BY <3>1 DEF Pcs
    <3> QED BY <1>0, <1>1, <1>2, <1>3, <2>1, <3>3, <3>7, <3>8, NoWriteStep
  <2> QED BY <2>1, <2>2, <2>3
<1>9. CASE PrepareFails
  <2>1. pc # "idle" /\ pc' = "write" /\ UNCHANGED <<local, fresh, sending>>
    BY <1>9 DEF PrepareFails, Continue
  <2>2. Follows(local)' BY <1>0, <1>4, <2>1 DEF Follows, TrueStatus, RequestProperties
  <2>3. WorkerInv' /\ pc' \in Pcs BY <1>3, <2>1, <2>2 DEF WorkerInv, Pcs
  <2> QED BY <1>0, <1>1, <1>2, <1>3, <2>1, <2>3, NoWriteStep
<1>10. CASE Prepare
  <2> DEFINE params == BuildParameters
             q == Properties(local.planRef, params)
  <2>1. /\ pc = "prepare" /\ fresh' = fresh
        /\ sending' = [class |-> local.classRef, plan |-> local.planRef, params |-> params]
        /\ pc' = (IF local.inProgress = None THEN "start" ELSE "provision")
        /\ local' = [local EXCEPT !.inProgress = q]
    BY <1>10 DEF Prepare
  <2>2. params \in Maps(Values) BY <1>10, BuildType DEF Prepare, IInv, TypeInv
  <2>3. local \in Object /\ HasReferences(local) /\ ~local.async BY <1>3, <1>4, <2>1 DEF WorkerInv
  <2>4. local.planRef \in Plans /\ local.classRef \in Classes
    <3>1. api # None BY <1>4, <2>1 DEF Follows
    <3>2. local.planRef \in Plans BY <2>3 DEF HasReferences, Object
    <3>3. local.classRef = ClassOf[local.planRef]
      BY <2>3, <3>1 DEF IInv, MatchInv, Matches, HasReferences
    <3> QED BY <3>2, <3>3, AdmissionAssumption
  <2>5. q \in PropertiesState BY <2>2, <2>4, PropertiesType
  <2> HIDE DEF params, q
  <2>6. sending' \in ProvisionRequests /\ sending'.class = local.classRef
        /\ sending'.plan = local.planRef /\ sending'.params = params
    BY <2>1, <2>2, <2>4 DEF ProvisionRequests
  <2>7. /\ local' \in Object /\ local'.planRef = local.planRef /\ local'.classRef = local.classRef
        /\ local'.class = local.class /\ local'.plan = local.plan
        /\ local'.async = local.async
        /\ local'.external = local.external /\ local'.inProgress = q
    BY <2>1, <2>3, <2>5 DEF Object
  <2>8. Follows(local)' BY <1>0, <1>4, <2>1, <2>3, <2>7 DEF Follows, TrueStatus, RequestProperties
  <2>9. local' # None BY <2>7, RequestAssumption
  <2>10. local'.inProgress = Properties(sending'.plan, sending'.params)
    BY <2>6, <2>7 DEF q
  <2>11. HasReferences(local)' BY <1>0, <2>3, <2>7 DEF HasReferences
  <2>12. pc' \in {"start", "provision"} BY <2>1
  <2>13. WorkerInv' BY <2>3, <2>6, <2>7, <2>8, <2>9, <2>10, <2>11, <2>12 DEF WorkerInv
  <2>14. pc' \in Pcs BY <2>12 DEF Pcs
  <2> QED BY <1>0, <1>1, <1>2, <1>3, <2>1, <2>6, <2>7, <2>13, <2>14, NoWriteStep
<1>11. CASE Poll
  <2>1. /\ pc = "poll" /\ pc' = "write" /\ UNCHANGED <<fresh, sending>>
        /\ local' \in {local, Succeed(local), Fail(local)}
    BY <1>11 DEF Poll, Continue
  <2>2. local \in Object /\ Follows(local) /\ local.async BY <1>3, <1>4, <2>1 DEF WorkerInv
  <2>3. /\ local' \in Object /\ local'.class = local.class /\ local'.plan = local.plan
        /\ \/ local' = local
           \/ ~local'.async /\ local'.external \in {local.external, local.inProgress}
    BY Zenon, <2>1, <2>2 DEF Succeed, Fail, Clear, Object
  <2>4. Follows(local)' BY <1>0, <2>2, <2>3 DEF Follows, TrueStatus, RequestProperties
  <2>5. local' # None BY <2>3, RequestAssumption
  <2>6. WorkerInv' /\ pc' \in Pcs BY <2>1, <2>4, <2>5 DEF WorkerInv, Pcs
  <2> QED BY <1>0, <1>1, <1>2, <1>3, <2>1, <2>3, <2>6, NoWriteStep
<1> QED BY <1>6, <1>7, <1>8, <1>9, <1>10, <1>11

\* What is left to show of a step of the worker that writes.
LEMMA WriteStep ==
    ASSUME IInv, WorkerFrame, NoCall, NEW o \in Object, Commit(o), Follows(o),
           \/ o.planRef = api.planRef /\ o.classRef = api.classRef
           \/ api.planRef = None /\ Matches(o),
           WorkerInv', pc' \in Pcs,
           local' \in Object \cup {None}, fresh' \in BOOLEAN,
           sending' \in ProvisionRequests \cup {None}
    PROVE  IInv'
<1>1. UNCHANGED <<classes, plans, request, secret, cached, broker, sent>>
  BY DEF WorkerFrame, NoCall, catalogVars
<1>2. VersionInv' /\ LastInv' /\ MatchInv' /\ api' = o /\ watch' \in Seq(Object)
  BY <1>1, CommitKeeps DEF IInv
<1>3. TypeInv' BY <1>1, <1>2 DEF IInv, TypeInv
<1>4. api # None /\ o # None BY RequestAssumption DEF Follows
<1>5. SentInv' BY Zenon, <1>1, <1>2, <1>4 DEF IInv, SentInv
<1>6. RequestInv' BY Zenon, <1>1, <1>2, <1>4 DEF IInv, RequestInv
<1> QED BY <1>2, <1>3, <1>5, <1>6 DEF IInv

\* The writes of the worker, and their failures.
LEMMA WritingStep ==
    IInv /\ (UpdateReferences \/ RecordStart \/ UpdateStatus \/ WriteFails) => IInv'
<1> SUFFICES ASSUME IInv, UpdateReferences \/ RecordStart \/ UpdateStatus \/ WriteFails
             PROVE  IInv'
  OBVIOUS
<1> DEFINE n == [local EXCEPT !.class = api.class, !.plan = api.plan,
                              !.classRef = api.classRef, !.planRef = api.planRef]
<1>0. WorkerFrame /\ NoCall /\ UNCHANGED <<broker, sent>>
  BY DEF UpdateReferences, RecordStart, UpdateStatus, WriteFails, NoCall
<1>1. pc # "idle"
  BY DEF UpdateReferences, RecordStart, UpdateStatus, WriteFails
<1>2. /\ local \in Object /\ Follows(local) /\ fresh \in BOOLEAN /\ pc \in Pcs
      /\ sending \in ProvisionRequests \cup {None} /\ WorkerInv /\ local # None
  BY <1>1 DEF IInv, TypeInv, WorkerInv
<1>3. api \in Object /\ api # None BY <1>2 DEF IInv, TypeInv, Follows
<1>4. n \in Object /\ Follows(n) /\ n.planRef = api.planRef /\ n.classRef = api.classRef
  BY Zenon, <1>2, <1>3, StatusKeepsSpec
<1>5. CommitStatus(local) = Commit(n) BY DEF CommitStatus
<1>6. n.class = api.class /\ n.plan = api.plan BY <1>4 DEF Follows
<1> HIDE DEF n
<1>7. Return => /\ WorkerInv' /\ pc' \in Pcs /\ local' \in Object \cup {None}
                /\ fresh' \in BOOLEAN /\ sending' \in ProvisionRequests \cup {None}
  BY Zenon DEF Return, WorkerInv, Pcs
<1>8. pc = "refs" /\ fresh => api.planRef = None /\ Matches(local) BY <1>2 DEF WorkerInv
<1>9. CASE UpdateReferences
  <2>1. /\ pc = "refs" /\ fresh /\ Commit(local) /\ pc' = "prepare"
        /\ UNCHANGED <<local, fresh, sending>>
    BY <1>9 DEF UpdateReferences, Continue
  <2>2. api' = local BY <2>1 DEF Commit
  <2>3. Follows(local)' /\ HasReferences(local)'
    BY <1>0, <1>2, <1>8, <2>1, <2>2 DEF Follows, TrueStatus, RequestProperties, HasReferences, Matches
  <2>4. ~local.async BY <1>2, <2>1 DEF WorkerInv
  <2>5. WorkerInv' BY Zenon, <1>2, <2>1, <2>3, <2>4 DEF WorkerInv
  <2>6. pc' \in Pcs BY <2>1 DEF Pcs
  <2> QED BY <1>0, <1>2, <1>8, <2>1, <2>5, <2>6, WriteStep
<1>10. CASE RecordStart
  <2>1. /\ pc = "start" /\ Commit(n) /\ pc' = "provision" /\ UNCHANGED <<local, fresh, sending>>
    BY <1>5, <1>10 DEF RecordStart, Continue
  <2>2. api' = n /\ n # None BY <1>4, <2>1, RequestAssumption DEF Commit
  <2>3. Follows(local)' /\ HasReferences(local)'
    BY <1>0, <1>2, <1>4, <1>6, <2>1, <2>2
    DEF WorkerInv, Follows, TrueStatus, RequestProperties, HasReferences
  <2>4. WorkerInv' BY Zenon, <1>2, <2>1, <2>3 DEF WorkerInv
  <2>5. pc' \in Pcs BY <2>1 DEF Pcs
  <2> QED BY <1>0, <1>2, <1>4, <2>1, <2>4, <2>5, WriteStep
<1>11. CASE UpdateStatus
  <2>1. Commit(n) /\ Return BY <1>5, <1>11 DEF UpdateStatus
  <2> QED BY <1>0, <1>4, <1>7, <2>1, WriteStep
<1>12. CASE WriteFails
  <2>1. Return /\ (NoWrite \/ (pc = "refs" /\ fresh /\ Commit(local)) \/ Commit(n))
    BY <1>5, <1>12 DEF WriteFails
  <2>2. CASE NoWrite
    <3>1. SentInv' BY <1>0, <2>2 DEF IInv, SentInv, NoWrite
    <3>2. BrokerKeeps /\ broker' \in BrokerInstances \cup {None}
      BY <1>0 DEF BrokerKeeps, IInv, TypeInv
    <3> QED BY <1>0, <1>7, <2>1, <2>2, <3>1, <3>2, NoWriteStep
  <2>3. CASE pc = "refs" /\ fresh /\ Commit(local)
    BY <1>0, <1>2, <1>7, <1>8, <2>1, <2>3, WriteStep
  <2>4. CASE Commit(n) BY <1>0, <1>4, <1>7, <2>1, <2>4, WriteStep
  <2> QED BY <2>1, <2>2, <2>3, <2>4
<1> QED BY <1>9, <1>10, <1>11, <1>12

\* The calls of the broker.
LEMMA CallingStep ==
    IInv /\ (ProvisionOK \/ ProvisionAccepted \/ ProvisionRejected \/ ProvisionError) => IInv'
<1> SUFFICES ASSUME IInv, ProvisionOK \/ ProvisionAccepted \/ ProvisionRejected \/ ProvisionError
             PROVE  IInv'
  OBVIOUS
<1>0. /\ WorkerFrame /\ NoWrite /\ api' = api /\ pc = "provision"
      /\ sent' = sent \cup {<<sending.class, sending.plan>>}
  BY DEF ProvisionOK, ProvisionAccepted, ProvisionRejected, ProvisionError, NoWrite, Call
<1>1. /\ local \in Object /\ Follows(local) /\ fresh \in BOOLEAN /\ ~local.async
      /\ HasReferences(local) /\ sending \in ProvisionRequests /\ sending \in ProvisionRequests \cup {None}
      /\ sending.class = local.classRef /\ sending.plan = local.planRef
      /\ local.inProgress = Properties(sending.plan, sending.params)
  BY <1>0 DEF IInv, TypeInv, WorkerInv
<1>2. api # None /\ api \in Object BY <1>1 DEF Follows, IInv, TypeInv
<1>3. SentInv' BY <1>0, <1>1, <1>2 DEF IInv, SentInv, HasReferences
<1>4. ASSUME NEW st \in {"there", "busy"}, Has(st)
      PROVE  broker' \in BrokerInstances /\ broker'.request = sending /\ broker' # None
  BY <1>1, <1>4, RequestAssumption DEF Has, BrokerInstances
<1>5. broker \in BrokerInstances \cup {None} BY DEF IInv, TypeInv
<1>6. BrokerKeeps /\ broker' \in BrokerInstances \cup {None}
  <2>1. CASE ProvisionOK \/ ProvisionAccepted
    BY <1>4, <2>1 DEF ProvisionOK, ProvisionAccepted, Repeats, BrokerKeeps
  <2>2. CASE ProvisionRejected BY <1>5, <2>2 DEF ProvisionRejected, BrokerKeeps
  <2>3. CASE ProvisionError BY <1>4, <1>5, <2>3 DEF ProvisionError, BrokerKeeps
  <2> QED BY <2>1, <2>2, <2>3
<1>7. ASSUME NEW o \in Object, Continue("write", o), Follows(o)' PROVE IInv'
  <2>1. pc' = "write" /\ local' = o /\ UNCHANGED <<fresh, sending>> BY <1>7 DEF Continue
  <2>2. o # None BY RequestAssumption
  <2>3. Follows(local)' BY <1>7, <2>1 DEF Follows, TrueStatus
  <2>4. WorkerInv' /\ pc' \in Pcs BY <2>1, <2>2, <2>3 DEF WorkerInv, Pcs
  <2> QED BY <1>0, <1>1, <1>3, <1>6, <2>1, <2>4, NoWriteStep
<1>8. ASSUME NEW o \in Object, Follows(o) PROVE Follows(o)'
  BY <1>0, <1>6, <1>8, TrueStatusKept DEF Follows
<1>9. CASE ProvisionOK
  <2>1. /\ Succeed(local) \in Object /\ Succeed(local).class = local.class
        /\ Succeed(local).plan = local.plan /\ Succeed(local).async = FALSE
        /\ Succeed(local).external = local.inProgress
    BY Zenon, <1>1 DEF Succeed, Clear, Object
  <2>2. Continue("write", Succeed(local)) /\ broker' # None /\ broker'.request = sending
    BY <1>4, <1>9 DEF ProvisionOK
  <2>3. PICK o \in Object : o = Succeed(local) BY <2>1
  <2>4. Follows(o)'
    BY Zenon, <1>0, <1>1, <1>2, <2>1, <2>2, <2>3 DEF Follows, TrueStatus, RequestProperties
  <2> QED BY <1>7, <2>2, <2>3, <2>4
<1>10. CASE ProvisionAccepted
  <2> DEFINE n == [local EXCEPT !.async = TRUE]
  <2>1. /\ n \in Object /\ n.class = local.class /\ n.plan = local.plan
        /\ n.inProgress = local.inProgress /\ n.external = local.external
    BY Zenon, <1>1 DEF Object
  <2>2. Continue("write", n) /\ broker' # None /\ broker'.request = sending
    BY <1>4, <1>10 DEF ProvisionAccepted
  <2> HIDE DEF n
  <2>3. PICK o \in Object : o = n BY <2>1
  <2>4. Follows(o)'
    BY Zenon, <1>0, <1>1, <1>2, <1>6, <2>1, <2>2, <2>3
    DEF Follows, TrueStatus, RequestProperties, BrokerKeeps
  <2> QED BY <1>7, <2>2, <2>3, <2>4
<1>11. CASE ProvisionRejected \/ ProvisionError
  <2>1. Continue("write", local) \/ Continue("write", Fail(local)) \/ Return
    BY <1>11 DEF ProvisionRejected, ProvisionError
  <2>2. CASE Continue("write", local)
    <3>1. PICK o \in Object : o = local BY <1>1
    <3>2. Follows(o) BY <1>1, <3>1
    <3> QED BY <1>7, <1>8, <2>2, <3>1, <3>2
  <2>3. CASE Continue("write", Fail(local))
    <3> DEFINE f == Fail(local)
    <3>1. /\ f \in Object /\ f.class = local.class /\ f.plan = local.plan
          /\ f.async = FALSE /\ f.external = local.external
      BY Zenon, <1>1 DEF Fail, Clear, Object
    <3> HIDE DEF f
    <3>2. PICK o \in Object : o = f BY <3>1
    <3>3. Follows(o) BY <1>1, <3>1, <3>2 DEF Follows, TrueStatus
    <3> QED BY <1>7, <1>8, <2>3, <3>2, <3>3 DEF f
  <2>4. CASE Return
    <3>1. WorkerInv' /\ pc' \in Pcs /\ local' = None /\ fresh' = FALSE /\ sending' = None
      BY <2>4 DEF Return, WorkerInv, Pcs
    <3> QED BY Zenon, <1>0, <1>3, <1>6, <3>1, NoWriteStep
  <2> QED BY <2>1, <2>2, <2>3, <2>4
<1> QED BY <1>9, <1>10, <1>11

-----------------------------------------------------------------------------
(* Theorems.                                                               *)

\* IInv is an invariant of the way of a request, for every catalog, all
\* secrets and any number of faults, restarts and events on their way.
THEOREM RequestInvariant == Spec => []IInv
<1>1. Init => IInv BY InitIInv
<1>2. IInv /\ [Next]_vars => IInv'
  <2> SUFFICES ASSUME IInv, [Next]_vars PROVE IInv' OBVIOUS
  <2>1. CASE Admission BY <2>1, AdmissionStep
  <2>2. CASE InformerEvent \/ SecretChanges \/ Crash \/ BrokerFinish BY <2>2, EnvironmentStep
  <2>3. CASE Worker BY <2>3, QuietStep, WritingStep, CallingStep DEF Worker
  <2>4. CASE UNCHANGED vars
    <3>1. /\ UNCHANGED <<classes, plans, api, request, secret, watch, cached, broker, sent>>
          /\ UNCHANGED workerVars
      BY <2>4 DEF vars, admissionVars, catalogVars, outsideVars
    <3>2. BrokerKeeps BY <3>1 DEF BrokerKeeps
    <3>3. TypeInv' BY <3>1 DEF IInv, TypeInv, workerVars
    <3>4. VersionInv' /\ LastInv' /\ MatchInv' BY <3>1, <3>2, VersionsKept DEF IInv
    <3>5. WorkerInv' BY <3>1, <3>2, WorkerKept DEF IInv
    <3>6. SentInv' /\ RequestInv' BY <3>1 DEF IInv, SentInv, RequestInv
    <3> QED BY <3>3, <3>4, <3>5, <3>6 DEF IInv
  <2> QED BY <2>1, <2>2, <2>3, <2>4 DEF Next
<1> QED BY <1>1, <1>2, PTL DEF Spec

\* All provision requests of an instance, its retries and those after a
\* restart included, are for one class and one plan (controller_instance.go,
\* which stores the references before it sends the first one).
THEOREM RequestsAgreeAlways == Spec => []RequestsAgree
<1>1. IInv => RequestsAgree BY DEF IInv, SentInv, RequestsAgree
<1> QED BY <1>1, RequestInvariant, PTL

\* The stored references are a class and a plan of that class with the names
\* of the spec (resolveReferences of controller_instance.go).
THEOREM ReferencesMatchAlways == Spec => []ReferencesMatchNames
<1>1. IInv => ReferencesMatchNames BY DEF IInv, MatchInv, Matches, ReferencesMatchNames
<1> QED BY <1>1, RequestInvariant, PTL

\* The ExternalProperties in the status are the properties of the request
\* that the broker's instance was made from (provisionServiceInstance).
THEOREM ExternalIsTrueAlways == Spec => []ExternalIsTrue
<1>1. IInv => ExternalIsTrue
  <2> SUFFICES ASSUME IInv PROVE ExternalIsTrue OBVIOUS
  <2>1. api # None => Follows(api) BY DEF IInv, TypeInv, VersionInv, IsVersion
  <2> QED BY <2>1 DEF Follows, TrueStatus, RequestProperties, ExternalIsTrue
<1> QED BY <1>1, RequestInvariant, PTL
=============================================================================
