--------------------------- MODULE ProvisionRequest ---------------------------
(***************************************************************************)
(* What a user asks for, on its way to the broker: the class and the plan  *)
(* of an admitted instance are resolved to references, its parameters are  *)
(* put together from secrets and from the spec, the provision request is   *)
(* sent, perhaps several times, and the properties that it had are         *)
(* recorded in the status.  Catalog and secrets change meanwhile.          *)
(*                                                                         *)
(* The worker of controller_instance.go is split at the same calls as in   *)
(* ServiceInstance, which has its queue, its deletion and orphan           *)
(* mitigation; here the key may be taken at any time, which covers every   *)
(* event, retry and resync, and the instance is not deleted.  The API      *)
(* server validates the status, so that no orphan mitigation is stored.    *)
(***************************************************************************)
EXTENDS InstanceAdmission

CONSTANTS Keys, Values,    \* of parameters
          Broken,          \* no such secret, no such key, or no JSON object
          Secrets,         \* names of secrets
          Contents,        \* what they may hold
          ParametersFrom,  \* the spec's list of secrets
          Parameters,      \* the spec's inline parameters
          MaxSecretChanges,
          MaxFaults,       \* failed requests, and restarts of the controller
          MaxLag           \* events the controller's informer may be behind by

Maps(values) == UNION {[K -> values] : K \in SUBSET Keys}

\* ServiceInstancePropertiesState: the plan's name, the parameters without
\* what is secret, and their checksum, which tells parameters apart.
PropertiesState == [plan : PlanNames, shown : Maps(Values \cup {"<redacted>"}),
                    checksum : Maps(Values)]

\* The fields of an instance that the request and its record depend on.
Object == [class : ClassNames, plan : PlanNames,
           classRef : Classes \cup {None}, planRef : Plans \cup {None},
           inProgress : PropertiesState \cup {None},
           external : PropertiesState \cup {None},
           async : BOOLEAN, failed : BOOLEAN, reconciled : BOOLEAN]

\* What a provision request says, and what the broker has made of one.
ProvisionRequests == [class : Classes, plan : Plans, params : Maps(Values)]
BrokerInstances == [request : ProvisionRequests, state : {"busy", "there", "failed"}]

ASSUME RequestAssumption ==
    /\ None \notin Object \cup PropertiesState \cup BrokerInstances
    /\ Broken \notin Maps(Values)
    /\ Contents \subseteq Maps(Values) \cup {Broken}
    /\ ParametersFrom \in Seq(Secrets) /\ Parameters \in Maps(Values)
    /\ {MaxSecretChanges, MaxFaults, MaxLag} \subseteq Nat

VARIABLES secret,            \* the secrets' contents
          watch, cached,     \* the controller's informer of instances
          pc, local, fresh,  \* the worker: control point, copy, same version?
          sending,           \* the provision request of this reconciliation
          broker,            \* the instance at the broker, or None
          sent,              \* history: class and plan of each request sent
          secretChanges, faults \* so far

workerVars == <<pc, local, fresh, sending>>
outsideVars == <<secret, broker, sent, secretChanges>>
vars == <<admissionVars, watch, cached, workerVars, outsideVars, faults>>

Init ==
    /\ AdmissionInit
    /\ secret \in [Secrets -> Contents]
    /\ watch = (IF api = None THEN <<>> ELSE <<api>>) /\ cached = None
    /\ pc = "idle" /\ local = None /\ fresh = FALSE /\ sending = None
    /\ broker = None /\ sent = {}
    /\ secretChanges = 0 /\ faults = 0

Fault == faults < MaxFaults /\ faults' = faults + 1

-----------------------------------------------------------------------------
(* The environment.                                                        *)

controllerVars == <<watch, cached, workerVars, outsideVars, faults>>

\* Admission does not concern the controller until something is stored: an
\* update of labels or annotations, too, is a new version.
Admission ==
    \/ (Catalog \/ UserRequest \/ Plugins) /\ UNCHANGED controllerVars
    \/ /\ Store /\ Len(watch) < MaxLag
       /\ IF request.plan = None THEN UNCHANGED <<watch, fresh>>
          ELSE watch' = Append(watch, api') /\ fresh' = FALSE
       /\ UNCHANGED <<cached, pc, local, sending, outsideVars, faults>>

InformerEvent ==
    /\ watch # <<>> /\ cached' = Head(watch) /\ watch' = Tail(watch)
    /\ UNCHANGED <<admissionVars, workerVars, outsideVars, faults>>

SecretChanges ==
    /\ secretChanges < MaxSecretChanges /\ secretChanges' = secretChanges + 1
    /\ \E s \in Secrets, c \in Contents : c # secret[s] /\ secret' = [secret EXCEPT ![s] = c]
    /\ UNCHANGED <<admissionVars, watch, cached, workerVars, broker, sent, faults>>

\* The controller is restarted and lists the instances.
Crash ==
    /\ Fault
    /\ pc' = "idle" /\ local' = None /\ fresh' = FALSE /\ sending' = None
    /\ cached' = None /\ watch' = IF api = None THEN <<>> ELSE <<api>>
    /\ UNCHANGED <<admissionVars, outsideVars>>

\* The broker's asynchronous operation ends, one way or the other.
BrokerFinish ==
    /\ broker # None /\ broker.state = "busy"
    /\ \/ broker' = [broker EXCEPT !.state = "there"] /\ UNCHANGED faults
       \/ broker' = [broker EXCEPT !.state = "failed"] /\ Fault
    /\ UNCHANGED <<admissionVars, watch, cached, workerVars, secret, sent,
                   secretChanges>>

-----------------------------------------------------------------------------
(* Parameters: parameters.go.                                              *)

\* What the secrets of the list hold, and then the spec's own.
Sources == Append([i \in DOMAIN ParametersFrom |-> secret[ParametersFrom[i]]], Parameters)

\* fetchParametersFromSource fails for one of them.
Unreadable == \E i \in DOMAIN Sources : Sources[i] = Broken

\* "duplicate entry for parameter".
Duplicates == \E i, j \in DOMAIN Sources : i # j /\ DOMAIN Sources[i] \cap DOMAIN Sources[j] # {}

\* buildParameters.
BuildParameters ==
    IF Unreadable \/ Duplicates THEN Broken
    ELSE [k \in UNION {DOMAIN Sources[i] : i \in DOMAIN Sources} |->
             Sources[CHOOSE i \in DOMAIN Sources : k \in DOMAIN Sources[i]][k]]

\* The second result: what came from a secret is not shown.
Redacted(params) ==
    [k \in DOMAIN params |-> IF k \in DOMAIN Parameters THEN params[k] ELSE "<redacted>"]

Properties(plan, params) ==
    [plan |-> ExternalName[plan], shown |-> Redacted(params), checksum |-> params]

-----------------------------------------------------------------------------
(* The worker.                                                             *)

WorkerFrame == UNCHANGED <<catalogVars, namespaceVars, request, requests, cached,
                           secret, secretChanges>>
NoWrite == UNCHANGED <<api, watch>>
NoCall == UNCHANGED <<broker, sent>>

Continue(p, o) == pc' = p /\ local' = o /\ UNCHANGED <<fresh, sending>>
Return == pc' = "idle" /\ local' = None /\ fresh' = FALSE /\ sending' = None

\* An update stored by the API server.  One that changes nothing is no new
\* version, which the abstraction of messages makes a choice.
Commit(o) ==
    /\ api' = o
    /\ \/ Len(watch) < MaxLag /\ watch' = Append(watch, o)
       \/ o = api /\ UNCHANGED watch

\* PrepareForUpdate of the status strategy keeps the spec.
CommitStatus(o) ==
    Commit([o EXCEPT !.class = api.class, !.plan = api.plan,
                     !.classRef = api.classRef, !.planRef = api.planRef])

\* reconcileServiceInstance up to the first call of another party.  One
\* update stores both references, so that there is never one alone.
Reconcile ==
    /\ pc = "idle" /\ cached # None /\ ~cached.failed /\ ~cached.reconciled
    /\ fresh' = (watch = <<>>) /\ local' = cached /\ UNCHANGED sending
    /\ pc' = IF cached.async THEN "poll"
             ELSE IF cached.classRef # None /\ cached.planRef # None THEN "prepare"
             ELSE "class"
    /\ WorkerFrame /\ NoWrite /\ NoCall /\ UNCHANGED faults

\* resolveReferences: a live list of the classes of that name.
ResolveClass ==
    /\ pc = "class"
    /\ LET found == {c \in classes : ExternalName[c] = local.class} IN
       IF Cardinality(found) = 1
       THEN \E c \in found : Continue("plan", [local EXCEPT !.classRef = c])
       ELSE Continue("write", local)
    /\ WorkerFrame /\ NoWrite /\ NoCall /\ UNCHANGED faults

\* Variant of ResolvePlan that lists the plans by their name alone.
ResolvePlan_AnyClass ==
    /\ pc = "plan"
    /\ LET found == {p \in Stored(plans) : ExternalName[p] = local.plan} IN
       IF Cardinality(found) = 1
       THEN \E p \in found : Continue("refs", [local EXCEPT !.planRef = p])
       ELSE Continue("write", local)
    /\ WorkerFrame /\ NoWrite /\ NoCall /\ UNCHANGED faults

\* Then a live list of the plans of that name and class; their broker is
\* that of the class.
ResolvePlan ==
    /\ pc = "plan"
    /\ LET found == {p \in Stored(plans) : /\ ExternalName[p] = local.plan
                                           /\ ClassOf[p] = local.classRef} IN
       IF Cardinality(found) = 1
       THEN \E p \in found : Continue("refs", [local EXCEPT !.planRef = p])
       ELSE Continue("write", local)
    /\ WorkerFrame /\ NoWrite /\ NoCall /\ UNCHANGED faults

\* Variant of UpdateReferences that keeps them for this reconciliation only.
UpdateReferences_NotStored ==
    /\ pc = "refs" /\ fresh
    /\ Continue("prepare", local)
    /\ WorkerFrame /\ NoWrite /\ NoCall /\ UNCHANGED faults

\* updateServiceInstanceReferences: the strategy keeps all but these.
UpdateReferences ==
    /\ pc = "refs" /\ fresh
    /\ Commit(local) /\ Continue("prepare", local)
    /\ WorkerFrame /\ NoCall /\ UNCHANGED faults

\* One of the two lists fails, a lister does not have the class, the plan or
\* the broker, the broker's secret or the namespace is missing, or the
\* parameters are wrong: Ready becomes False, and the key is retried.
PrepareFails ==
    /\ \/ pc \in {"class", "plan", "prepare"} /\ Fault
       \/ pc = "prepare" /\ BuildParameters = Broken /\ UNCHANGED faults
    /\ Continue("write", local)
    /\ WorkerFrame /\ NoWrite /\ NoCall

\* Variant of Prepare that records the properties of the first request only.
Prepare_Once ==
    /\ pc = "prepare" /\ BuildParameters # Broken
    /\ sending' = [class |-> local.classRef, plan |-> local.planRef,
                   params |-> BuildParameters]
    /\ pc' = IF local.inProgress = None THEN "start" ELSE "provision"
    /\ local' = IF local.inProgress # None THEN local ELSE
                [local EXCEPT !.inProgress = Properties(local.planRef, BuildParameters)]
    /\ UNCHANGED fresh
    /\ WorkerFrame /\ NoWrite /\ NoCall /\ UNCHANGED faults

\* The listers have all of it, or still have it; the request and the
\* properties are made anew each time.
Prepare ==
    /\ pc = "prepare" /\ BuildParameters # Broken
    /\ sending' = [class |-> local.classRef, plan |-> local.planRef,
                   params |-> BuildParameters]
    /\ pc' = IF local.inProgress = None THEN "start" ELSE "provision"
    /\ local' = [local EXCEPT !.inProgress = Properties(local.planRef, BuildParameters)]
    /\ UNCHANGED fresh
    /\ WorkerFrame /\ NoWrite /\ NoCall /\ UNCHANGED faults

RecordStart ==
    /\ pc = "start" /\ fresh
    /\ CommitStatus(local) /\ Continue("provision", local)
    /\ WorkerFrame /\ NoCall /\ UNCHANGED faults

\* The last status update, and the end of the reconciliation.
UpdateStatus ==
    /\ pc = "write" /\ fresh
    /\ CommitStatus(local) /\ Return
    /\ WorkerFrame /\ NoCall /\ UNCHANGED faults

\* Any write is refused for its version, fails, or loses its answer.
WriteFails ==
    /\ pc \in {"refs", "start", "write"}
    /\ \/ ~fresh /\ NoWrite /\ UNCHANGED faults
       \/ Fault /\ NoWrite
       \/ Fault /\ fresh /\ IF pc = "refs" THEN Commit(local) ELSE CommitStatus(local)
    /\ Return
    /\ WorkerFrame /\ NoCall

-----------------------------------------------------------------------------
(* The calls of the broker.  It takes a request for an instance that it    *)
(* has with the same plan and parameters for a repetition, and refuses one *)
(* with others, as the Open Service Broker API requires.                   *)

\* clearServiceInstanceCurrentOperation.
Clear(o) == [o EXCEPT !.inProgress = None, !.async = FALSE, !.reconciled = TRUE]

Succeed(o) == Clear([o EXCEPT !.external = o.inProgress])
Fail(o) == Clear([o EXCEPT !.failed = TRUE])

Call == pc = "provision" /\ sent' = sent \cup {<<sending.class, sending.plan>>}
Repeats == broker # None => broker.request = sending
Has(state) == broker' = [request |-> sending, state |-> state]

ProvisionOK ==
    /\ Call /\ Repeats /\ (broker # None => broker.state = "there") /\ Has("there")
    /\ Continue("write", Succeed(local))
    /\ WorkerFrame /\ NoWrite /\ UNCHANGED faults

ProvisionAccepted ==
    /\ Call /\ Repeats /\ (broker # None => broker.state = "busy") /\ Has("busy")
    /\ Continue("write", [local EXCEPT !.async = TRUE])
    /\ WorkerFrame /\ NoWrite /\ UNCHANGED faults

\* 409 Conflict, or another HTTP error: a permanent failure.
ProvisionRejected ==
    /\ Call /\ UNCHANGED broker
    /\ \/ broker # None /\ (~Repeats \/ broker.state = "failed") /\ UNCHANGED faults
       \/ broker = None /\ Fault
    /\ Continue("write", Fail(local))
    /\ WorkerFrame /\ NoWrite

\* The broker may or may not have done it.  Most errors are retried, until
\* the retry duration is over; for the answers that begin orphan mitigation
\* the status is refused, and nothing is written.
ProvisionError ==
    /\ Call /\ Fault
    /\ \/ UNCHANGED broker
       \/ broker = None /\ (Has("there") \/ Has("busy"))
    /\ \/ Continue("write", local) \/ Continue("write", Fail(local)) \/ Return
    /\ WorkerFrame /\ NoWrite

\* pollServiceInstance, by what the broker answers.  While it is busy, and
\* after errors, nothing but the condition's message changes.
Poll ==
    /\ pc = "poll" /\ broker # None
    /\ \/ broker.state = "there" /\ Continue("write", Succeed(local))
       \/ broker.state = "failed" /\ Continue("write", Fail(local))
       \/ broker.state = "busy" /\ Continue("write", local)
    /\ WorkerFrame /\ NoWrite /\ NoCall /\ UNCHANGED faults

Worker ==
    \/ Reconcile \/ ResolveClass \/ ResolvePlan \/ UpdateReferences
    \/ PrepareFails \/ Prepare \/ RecordStart \/ UpdateStatus \/ WriteFails
    \/ ProvisionOK \/ ProvisionAccepted \/ ProvisionRejected \/ ProvisionError \/ Poll

Next == Admission \/ InformerEvent \/ SecretChanges \/ Crash \/ BrokerFinish \/ Worker

Spec == Init /\ [][Next]_vars

-----------------------------------------------------------------------------
(* Properties.                                                             *)

\* However often the provision is requested, and whatever has become of the
\* catalog, each request is for the same class and plan.
RequestsAgree == \A r, s \in sent : r = s

\* The references are a class and one of its own plans, with the names that
\* the user gave or was given, though two lists at two times found them.
ReferencesMatchNames ==
    api # None /\ api.planRef # None =>
        /\ ClassOf[api.planRef] = api.classRef
        /\ ExternalName[api.classRef] = api.class
        /\ ExternalName[api.planRef] = api.plan

\* The ExternalProperties of an instance are those of the request that the
\* broker made it from, not of an earlier or a later one with other secrets.
ExternalIsTrue ==
    api # None /\ api.external # None =>
        /\ broker # None
        /\ api.external = Properties(broker.request.plan, broker.request.params)
=============================================================================
