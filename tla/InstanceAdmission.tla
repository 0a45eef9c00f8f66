-------------------------- MODULE InstanceAdmission --------------------------
(***************************************************************************)
(* The API server's side of a ServiceInstance: a user's request to create  *)
(* or to update it goes through the admission plugins in the order that    *)
(* charts/catalog gives them, then through the strategy and the            *)
(* validation.  Meanwhile the catalog and the namespace change, and the    *)
(* plugins read some of that live and some of it from informers' caches.   *)
(***************************************************************************)
EXTENDS Naturals, Sequences, FiniteSets

CONSTANTS None,            \* no object, an empty field
          Classes, Plans,  \* the ServiceClasses and ServicePlans, by object
                           \* name, which is the broker's ID
          ClassOf,         \* ClassOf[p]: spec.serviceClassRef.name
          ExternalName,    \* of classes and of plans: what users call them
          Updatable,       \* the classes with PlanUpdatable
          CatalogAtStart,  \* classes and plans that exist at the beginning
          NamespaceAtStart,\* its phases so far, the present one last
          MaxCatalogSteps, \* creations and deletions of classes and plans
          MaxNamespaceSteps, MaxRequests, \* of the namespace, of the user
          ListerLag        \* events a lister may be behind by

Phases == {"absent", "active", "terminating"}
ClassNames == {ExternalName[c] : c \in Classes}
PlanNames == {ExternalName[p] : p \in Plans}

\* A request to create or to update, and the plugin it has got to.
Requests == [verb : {"create", "update"}, class : ClassNames,
             plan : PlanNames \cup {None},
             at : {"namespace", "again", "class", "plan", "change", "store"}]

ASSUME AdmissionAssumption ==
    /\ None \notin Classes \cup Plans \cup PlanNames \cup Requests
    /\ ClassOf \in [Plans -> Classes] /\ Updatable \subseteq Classes
    /\ DOMAIN ExternalName = Classes \cup Plans
    /\ CatalogAtStart \subseteq Classes \cup Plans
    /\ NamespaceAtStart \in Seq(Phases) \ {<<>>}
    /\ {MaxCatalogSteps, MaxNamespaceSteps, MaxRequests} \subseteq Nat
    /\ ListerLag \in Nat

VARIABLES classes,    \* the stored classes
          plans,      \* the last versions of the set of plans; the stored one
                      \* last, and a lister may show any of them
          namespace,  \* the last phases of the namespace, in the same way
          api,        \* the stored instance, or None
          request,    \* the user's request that is being handled, or None
          catalogSteps, namespaceSteps, requests \* so far

catalogVars == <<classes, plans, catalogSteps>>
namespaceVars == <<namespace, namespaceSteps>>
admissionVars == <<catalogVars, namespaceVars, api, request, requests>>

Stored(versions) == versions[Len(versions)]
Listed(versions) == {versions[i] : i \in 1..Len(versions)}
Change(versions, new) ==
    SubSeq(Append(versions, new), IF Len(versions) > ListerLag THEN 2 ELSE 1, Len(versions) + 1)

\* PrepareForCreate: no references and no status.  InProgressProperties are
\* set exactly while CurrentOperation is Provision.
NewInstance(class, plan) ==
    [class |-> class, plan |-> plan, classRef |-> None, planRef |-> None,
     inProgress |-> None, external |-> None, async |-> FALSE,
     failed |-> FALSE, reconciled |-> FALSE]

\* There is no instance yet, or one that has just been created.
AdmissionInit ==
    /\ classes = CatalogAtStart \cap Classes
    /\ plans = <<CatalogAtStart \cap Plans>>
    /\ namespace = NamespaceAtStart
    /\ api \in {None} \cup {NewInstance(c, p) : c \in ClassNames, p \in PlanNames}
    /\ request = None
    /\ catalogSteps = 0 /\ namespaceSteps = 0 /\ requests = 0

-----------------------------------------------------------------------------
(* The catalog, as relists and deletions of brokers change it, and the     *)
(* namespace.                                                              *)

CatalogStep ==
    /\ catalogSteps < MaxCatalogSteps /\ catalogSteps' = catalogSteps + 1
    /\ UNCHANGED <<namespaceVars, api, request, requests>>

SetPlans(s) == plans' = Change(plans, s) /\ UNCHANGED classes

\* A relist creates the plans of all classes, then the classes; a class
\* without plans is refused with its catalog.
CreatePlan ==
    /\ CatalogStep
    /\ \E p \in Plans \ Stored(plans) : SetPlans(Stored(plans) \cup {p})

CreateClass ==
    /\ CatalogStep /\ UNCHANGED plans
    /\ \E c \in Classes \ classes : LET own == {p \in Plans : ClassOf[p] = c} IN
          /\ own # {} /\ own \subseteq Stored(plans)
          /\ classes' = classes \cup {c}

\* A broker that is deleted takes the plans of each of its classes along,
\* as far as a lister shows them, and then the class.
DeletePlan ==
    /\ CatalogStep
    /\ \E p \in Stored(plans) : SetPlans(Stored(plans) \ {p})

DeleteClass ==
    /\ CatalogStep /\ UNCHANGED plans
    /\ \E c \in classes : classes' = classes \ {c}

\* The namespace is created, terminated, and gone.
NamespaceChanges ==
    /\ namespaceSteps < MaxNamespaceSteps /\ namespaceSteps' = namespaceSteps + 1
    /\ namespace' = Change(namespace,
            CASE Stored(namespace) = "absent" -> "active"
              [] Stored(namespace) = "active" -> "terminating"
              [] Stored(namespace) = "terminating" -> "absent")
    /\ UNCHANGED <<catalogVars, api, request, requests>>

-----------------------------------------------------------------------------
(* A request and its way through the plugins.                              *)

\* The user creates the instance, perhaps without a plan, or updates it,
\* perhaps with another plan or none.
UserRequest ==
    /\ request = None /\ requests < MaxRequests /\ requests' = requests + 1
    /\ \E plan \in PlanNames \cup {None} :
          \/ /\ api = None
             /\ \E class \in ClassNames :
                   request' = [verb |-> "create", class |-> class, plan |-> plan,
                               at |-> "namespace"]
          \/ /\ api # None
             /\ request' = [verb |-> "update", class |-> api.class, plan |-> plan,
                            at |-> "namespace"]
    /\ UNCHANGED <<catalogVars, namespaceVars, api>>

At(stage) ==
    /\ request # None /\ request.at = stage
    /\ UNCHANGED <<catalogVars, namespaceVars, requests>>

Proceed(stage) == request' = [request EXCEPT !.at = stage] /\ UNCHANGED api
Refuse == request' = None /\ UNCHANGED api

\* The rest of lifecycle.Admit once a namespace of that phase is found, and
\* the first check of defaultServicePlan.Admit.
AdmitNamespace(phase) ==
    IF phase = "absent" \/ (request.verb = "create" /\ phase = "terminating")
    THEN Refuse
    ELSE Proceed(IF request.plan = None THEN "class" ELSE "change")

\* lifecycle.Admit: a create waits for a namespace that the lister does not
\* show; an update asks for it at once.
NamespaceLifecycle ==
    /\ At("namespace")
    /\ \E phase \in Listed(namespace) :
          IF phase # "absent" THEN AdmitNamespace(phase)
          ELSE IF request.verb = "create" THEN Proceed("again")
          ELSE AdmitNamespace(Stored(namespace))

\* After missingNamespaceWait: the lister again, and then the store.
NamespaceAgain ==
    /\ At("again")
    /\ \E phase \in Listed(namespace) :
          AdmitNamespace(IF phase # "absent" THEN phase ELSE Stored(namespace))

\* getServiceClassByExternalName: a live list must have exactly one class.
DefaultPlanClass ==
    /\ At("class")
    /\ IF Cardinality({c \in classes : ExternalName[c] = request.class}) = 1
       THEN Proceed("plan") ELSE Refuse

\* The only plan that the lister has, of whatever class.
DefaultPlan ==
    /\ At("plan") /\ UNCHANGED api
    /\ \E listed \in Listed(plans) :
          IF Cardinality(listed) = 1
          THEN \E p \in listed :
                  request' = [request EXCEPT !.plan = ExternalName[p], !.at = "change"]
          ELSE request' = None

\* denyPlanChangeIfNotUpdatable.Admit looks the class up by object name,
\* though the request has the external name.  Its listers may be behind:
\* the class or the instance may not be in them yet.
PlanChangeValidator ==
    /\ At("change")
    /\ \E known \in SUBSET Classes, seen \in BOOLEAN :
          IF \/ request.verb = "create"
             \/ request.class \notin known \/ request.class \in Updatable
             \/ seen /\ request.plan = api.plan
          THEN Proceed("store") ELSE Refuse

\* PrepareForUpdate keeps status, references and the whole spec.
PrepareForUpdate(new, old) == old

\* The strategy, the validation (which requires a plan), and the store.
Store ==
    /\ At("store")
    /\ request' = None
    /\ IF request.plan = None THEN UNCHANGED api
       ELSE api' = IF request.verb = "create" THEN NewInstance(request.class, request.plan)
                                              ELSE PrepareForUpdate(request, api)

Catalog ==
    \/ CreatePlan \/ CreateClass \/ DeletePlan \/ DeleteClass
    \/ NamespaceChanges

Plugins ==
    \/ NamespaceLifecycle \/ NamespaceAgain \/ DefaultPlanClass \/ DefaultPlan
    \/ PlanChangeValidator

AdmissionNext == Catalog \/ UserRequest \/ Plugins \/ Store

AdmissionSpec == AdmissionInit /\ [][AdmissionNext]_admissionVars

-----------------------------------------------------------------------------
(* What the comments of the plugins say of them.                           *)

\* A plan is filled in.
Defaulted == request # None /\ request' # None /\ request.plan = None /\ request'.plan # None

\* The plans of the classes that the request may mean.
OwnPlans == {p \in Stored(plans) : ExternalName[ClassOf[p]] = request.class}

\* A default is the only plan of its class; all plans of a class are there
\* before the class is, so that none can be missing ("Not currently.
\* Creation of all ServicePlans before creating the ServiceClass ensures
\* that this will work correctly", defaultserviceplan/admission.go:100).
DefaultIsTheOnlyPlan ==
    [][Defaulted => {ExternalName[p] : p \in OwnPlans} \subseteq {request'.plan}]_admissionVars

\* A request without a plan gets one if the class has only one
\* ("if there is only one Service Plan for the specified Service",
\* defaultserviceplan/admission.go:54).
OnlyPlanIsDefault ==
    [][ request # None /\ request.at = "plan" /\ Cardinality(OwnPlans) = 1
        /\ Listed(plans) = {Stored(plans)} => request' # None ]_admissionVars

\* No instance is created in a namespace that is being terminated
\* (namespace/lifecycle/admission.go:126).
NothingInTerminating ==
    [][api = None /\ api' # None => Stored(namespace) # "terminating"]_admissionVars

\* An update that changes the plan is admitted only for a class that allows
\* it (changevalidator/admission.go:50).
PlanChangeIsBlocked ==
    request # None /\ request.at = "store" /\ request.verb = "update"
    /\ (\A c \in Classes : ExternalName[c] = request.class => c \in classes \ Updatable)
       => request.plan = api.plan
=============================================================================
