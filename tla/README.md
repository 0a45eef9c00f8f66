# A TLA+ verification of the service catalog

The service catalog lets a Kubernetes cluster use services of Open Service
Broker API brokers. An administrator registers a `ClusterServiceBroker`; the
controller lists its catalog into `ServiceClass` and `ServicePlan` objects. A
user creates a `ServiceInstance`; the controller asks the broker to provision it,
records the outcome in the object's status, and deprovisions it when the object
is deleted. A `ServiceInstanceCredential` binds to an instance and puts the
credentials into a secret. This directory models the parts of that system where
the order of events decides the outcome, checks them with TLC, and proves the most
important facts with TLAPS.

## The system and its parts

| Part | Source | Modelled by |
| --- | --- | --- |
| Work queues and workers | `pkg/controller/controller.go`, client-go `util/workqueue` | `WorkQueue`, abstractly `KeyScheduler` |
| ServiceInstance reconciler, storage, informer | `pkg/controller/controller_instance.go`, `pkg/registry/servicecatalog/instance`, `validation/instance.go` | `ServiceInstance`, abstractly `ResourceLifecycle` |
| ServiceInstanceCredential reconciler, storage, informer | `pkg/controller/controller_binding.go`, `pkg/registry/servicecatalog/binding`, `validation/binding.go` | `ServiceInstanceCredential`, abstractly `ResourceLifecycle` |
| ClusterServiceBroker reconciler, classes and plans | `pkg/controller/controller_broker.go`, registries of broker, class and plan | `ClusterServiceBroker` |
| An instance together with its credential | both reconcilers, `plugin/pkg/admission/serviceinstancecredentials` | `InstanceAndCredential` |
| Admission of instances | `plugin/pkg/admission/namespace`, `plugin/pkg/admission/serviceplan` | `InstanceAdmission` |
| References, parameters, provision requests | `resolveReferences`, `pkg/controller/parameters.go` | `ProvisionRequest` |
| Broker | external | in each module, from its use |
| Broker authorization check, processes, API server assembly, OSB client, example brokers, generated code | `plugin/pkg/admission/broker`, `cmd`, `pkg/apiserver`, `vendor`, `contrib` | no, see below |

They interact through the API server only. Users change objects there; the
informers copy them into caches with some delay and put keys into the queues;
workers take keys, read the *caches*, call the broker and write the status back,
guarded by the resource version. A queue never hands the same key to two
workers (proved of `WorkQueue`), so each object has one reconciliation at a time,
which is what lets the other modules have one worker per object.

## Modules

**`KeyScheduler`** is what a queue with its workers promises: keys become
pending, a pending key that is not running starts, a running key finishes.

**`WorkQueue`** is the code: `queue`, `dirty` and `processing` of `queue.go`
(`QueueAdd`, `Get`, `QueueDone` are its three methods, each under the queue's
lock), the delayed adds of `delaying_queue.go` (`waiting`, `DelayElapsed`), the
failure counts of the rate limiter (`failures`), `worker` of `controller.go`
split at every queue call (`Get`/`Quit`, `ReconcileOK`/`ReconcileRetry`/
`ReconcileDrop`, the deferred `Done`), and the shutdown by `Run`. What a
reconciler does is its result only. `ForgetAfterSuccess` is `worker`'s
parameter, FALSE for the polling queue.

**`ResourceLifecycle`** is what a reconciler promises about the thing at the broker that
an object stands for: nothing is asked for after the release has begun, Ready is shown
once the broker has the thing and taken back only by a deletion or a failure, only the
thing of such an object is released, and the object goes away after its thing. The
last is not so of an instance that had failed or was never recorded as provisioned
(`MayAbandon`, finding 4); it is of every credential.

**`ServiceInstance`** is the life of one instance. `Object` has the fields of the
resource that its life cycle depends on. The worker's copy is `local`; its
control points (`pc`) are the places where another actor can step in: before
each write (`refs`, `startProvision`, `startDeprovision`, `write`) and each
broker call (`provision`, `deprovision`, `poll`). `fresh` says whether the copy
still has the stored resource version. The actions:

- `ReconcileNothing`, `DeleteBlocked`, `ClearFinalizer`, `LookupFails`,
  `ClientFails`, `BeginPoll`, `BeginDeprovision`, `BeginProvision`: the
  branches of `reconcileServiceInstance` and `reconcileServiceInstanceDelete` up
  to the first visible call;
- `UpdateReferences`, `RecordStartOfOperation`, `UpdateStatus`, `WriteFails`:
  the writes, with the conflict, the validation's refusal, a failed request and
  a stored write whose answer is lost;
- `Provision...`, `Deprovision...`, `Poll...`: the broker's answers, each with the
  status the code derives from it;
- `InformerEvent`, `Resync`, `RetryDue`, `RequeueForPoll`: the handlers and queues;
- `UserDelete`, `UserEdit`, `Crash`, `BrokerFinish`: the environment.

Abstractions. Messages, reasons, parameters and identities are dropped;
`LastOperation` is set and cleared with the operation and is dropped.
Missing classes, plans, brokers, namespaces and bad parameters all write
Ready=False and return an error, so they are one action, `LookupFails`. HTTP
answers that start orphan mitigation and timeouts have the same effect on the
status and are one action, `ProvisionAmbiguous`. The 410 Gone answer to the poll
of a deprovision is that of `PollSucceeded`. Failures of deep copies and
of encoding the user's identity, which cannot happen for these types, are left
out. The existence of credentials is an input (`DeleteBlocked`), which the
composition takes from the credential. `Init` is the
moment after the user created the object. The spec is immutable in this version
of the API, so its generation is 1, and 2 once the object is deleted.

**`ServiceInstanceCredential`** is built in the same way for one credential. Its
worker is also split at the injection and the ejection of the secret. `instance`
is what the lister shows of the instance, as the first check of the reconciler
that it fails; `secret` is what has the secret's name: nothing, the credential's
own secret, or someone else's.

**`ClusterServiceBroker`** has any number of brokers, each with its worker record
`w[b]`, and the classes and plans they share, with the two listers that the relist
and the deletion read. The relist fetches the catalog, writes each plan, then each
class, one call at a time, then the Ready condition. A status write is a draft and
what follows it (`next`), because `controller_broker.go` makes several writes from
one copy of the object and the later ones conflict with the earlier ones. A write
that changes nothing is not stored and makes no new version, as in the API server.
`clock` counts relist durations. After a restart the listers are empty and are sent
what is stored in any order (`FirstLists`). The finalizer is not a field: the object has it
until it is removed.

**`InstanceAndCredential`** composes the two: it extends `ServiceInstance`,
instantiates `ServiceInstanceCredential` with variables of its own, and joins their
steps in `PairNext`. The credential's reconciler
sees the instance through the instance informer's cache (`View`), the deletion of
the instance is blocked by a credential in the credential informer's cache
(`Blocked`), the admission plugin looks at a lister of its own (`closed`), and a
crash hits both.

**`InstanceAdmission`** is the API server's side of a request: namespace check,
default plan, check of plan changes, in the order of
`charts/catalog/templates/apiserver-deployment.yaml`, then strategy and store. It is
split at each read. `plans` and `namespace` are the last few versions: a lister
may show any of them, a live read shows the last.

**`ProvisionRequest`** extends it to the broker: `resolveReferences` with its two
live lists, `buildParameters` (written declaratively: the union of the sources,
refused when one is unreadable or two have a key in common), the provision call,
its retries and polls, and the properties that the status records. Here catalog and
secrets change, and requests have contents; queue, deletion and orphan mitigation
are those of `ServiceInstance` and left out, so the key may be taken at any time.
The broker refuses a request for an instance that it has with other parameters, as
the Open Service Broker API requires (external).

**`...Proofs`** hold the theorems. Those of the instance are in two modules, the
order of operations in `ServiceInstanceProofs` and, on top of it, the truth of the
status in `ServiceInstanceStatusProofs`; those of the composition build on both. Those
of brokers are in two modules as well, the objects in `ClusterServiceBrokerProofs` and,
on top of it, the classes and plans in `ServiceCatalogProofs`. **`MC...`** instantiate
the specifications for TLC. Definitions named `X_Something` are variants of `X` with a
plausible error; no specification uses them. They serve to show that each property can
fail.

## Runs

| Run | What it shows |
| --- | --- |
| `WorkQueueLiveness` | 3 keys, 2 workers: no concurrent reconciliation of a key, no lost or doubled key, exact retry counts; the queue implements `KeyScheduler`, each add is followed by a reconciliation, `Run` returns |
| `InstanceOrphans` | an instance implements `ResourceLifecycle`, with three faults of all kinds, a restart, and a cache behind by up to two events; the store accepts every status; statuses do not regress and are true, operations are polled |
| `InstanceLiveness` | the validating store, an asynchronous broker: each operation ends, each instance settles, each deleted one goes away but for finding 2, which is never left (`StuckForGood`) |
| `CredentialOrphans` | a credential implements `ResourceLifecycle` and abandons nothing, as `InstanceOrphans` |
| `CredentialLiveness` | the validating store: each credential settles, each deleted one goes away but for findings 7 and 8 |
| `CatalogSafety` | one broker with changing catalogs and spec, a fault, a restart with empty listers: Ready means listed, plans before classes, no spec is taken for listed that was not |
| `CatalogShared` | two brokers that offer the same service: a class stays with its broker, a removed broker has cleared what its caches showed |
| `CatalogLiveness` | each broker is listed with its latest spec again and again, each deleted one goes away |
| `PairSafety` | an instance and its credential with an asynchronous broker, stale caches and a restart: no bind before the provision |
| `PairPrompt` | caches that have caught up: no binding without its instance, and both go away in that order |
| `RequestSafety` | from admission to the broker, with two brokers that offer services and plans of the same names: all requests agree, references match names, recorded properties are true |
| `FailureRetried` | finding 1 |

`InstanceOrphans` and `CredentialOrphans` have no status validation because with it
no orphan mitigation is ever stored (findings 1 and 6). The unit tests run the
reconcilers on a clientset without validation, and these runs check them as
the tests see them; the theorems hold with and without it.

Further configurations, to be run in the same way (`tlc -config X.cfg M`):

- `DeletionStuck`, `AsyncDoubled`, `LeftBehind`, `PollingLost`
  (`MCServiceInstance`), `BindRetried`, `UnbindStuck`, `NeverBoundStuck`,
  `SecretTaken` (`MCServiceInstanceCredential`), `ClassesLeft`, `PlansLeft`,
  `PlanOverwritten`, `SharedServices`, `FailureNotRecorded`, `RetriesNotStopped`,
  `RelistTooOften`, `RetryClockLost` (`MCClusterServiceBroker`),
  `DeletedUnderCredential`, `DeletionDeadlock`
  (`MCInstanceAndCredential`), `DefaultTooEarly`, `DefaultRefused`,
  `CreatedInTerminating`, `PlanChanged` (`MCInstanceAdmission`): each ends with a
  counterexample, the one described under Findings.

Bounds. Faults are bounded by `MaxFaults`: each case the code distinguishes needs
one fault, and a second or third lets a fault meet the recovery from another.
`MaxCrashes` 1: a restart erases all volatile state, so a second one repeats the
first. `MaxLag` 2 lets the cache be behind by the user's deletion and the
controller's own write at once; in the composition each cache may be behind by 1.
`MaxRetries` is 1 where dropping a key is of interest, and 8 in `InstanceLiveness`,
where it must not happen: with a bounded number of faults fewer failures follow each
other than that. Two classes and two plans suffice for a catalog that grows and for
names that clash. In `CatalogShared` each broker keeps one catalog and the only
fault is an API call that fails, or succeeds with its answer lost, the one that
leaves a listing or a deletion half done; failed fetches, failed authentication,
expired retries and growing catalogs are in `CatalogSafety`, with one broker, and
the theorems bound none of these. In `RequestSafety` four catalog steps let a class
and its plan vanish and another broker's of the same names come. Deadlock is not
checked where the system may stop: when the object is removed, nothing remains to be
done. `WorkQueueLiveness` does check it.

Fairness. Workers, the delaying loop, the watch, resyncs and the broker's
operation keep going (weak fairness); nothing is assumed of users, and faults
and crashes are bounded rather than fair. The code justifies it: goroutines run
until the queue is shut down, the informers resync periodically, and every queue
call returns. In `InstanceLiveness` the cache also catches up before a back-off or a
resync period ends (`Lag = "below backoff"`), since the back-off grows
exponentially; with any lag conflicts on old versions can use up the retries, and
the key is then dropped just when an asynchronous operation has begun (finding 5).
`PairPrompt` has strong fairness for the two workers: with `Lag = "none"` a worker
waits for the caches to catch up, which they do again and again, and it gets its
turn then, as a goroutine does that is ready to run. `Prompt` in `CatalogLiveness` is
the same assumption as `Lag = "none"`.

## Findings

What a document, a comment or a test says and the code does not do. Each
configuration named checks that claim alone and ends with a counterexample.

Instances:

1. `FailureRetried`. A failure that starts orphan mitigation is written with
   `CurrentOperation` Provision but no start time and no in-progress properties.
   `validateServiceInstanceStatus` refuses that, so neither Failed nor the
   mitigation is stored and the provision is repeated
   (`controller_instance.go:674`: "should not be retried"). That no mitigation is ever
   stored is theorem `NoMitigationIsStored`.
2. `DeletionStuck`. An instance deleted during an asynchronous
   provision that succeeds has `ReconciledGeneration` equal to its generation; the
   start of the deprovision is refused by `validateServiceInstanceUpdate` each
   time, and the instance is never removed (`controller_instance.go:287`,
   `docs/walkthrough-1.7.md:304`): theorem `StuckDeletionStays`, whatever is retried and
   however often the controller restarts.
3. `AsyncDoubled`. A cache older than the start of an asynchronous operation makes
   the controller call the broker again during it; the write that follows is
   refused as a conflict (`docs/design.md:208`).
4. `LeftBehind`. A deletion between the provision call and the write of its
   result leaves `ReconciledGeneration` 0; the finalizer is cleared and the
   broker keeps the instance (`controller_instance.go:210`).
5. `PollingLost`. Polls answered with an unknown state are retried as errors; after
   `maxRetries` the key is dropped, and since events of an instance with an
   asynchronous operation are ignored, nothing polls it until a restart
   (`controller_instance.go:483`, `docs/design.md:203`).

Credentials:

6. `BindRetried`. As finding 1, for a bind (`controller_binding.go:401`: "Bind
   operation will not be retried"); again theorem `NoMitigationIsStored`.
7. `UnbindStuck`. An HTTP error of an unbind records the generation of the deletion as
   reconciled; the start of the next unbind is then refused for ever
   (`docs/walkthrough-1.7.md:287`; theorem `StuckDeletionStays`).
8. `NeverBoundStuck`. The lookups come before the look at the deletion, so a
   credential that was never bound stays while its instance is missing or not
   bindable (`docs/walkthrough-1.7.md:287`).
9. `SecretTaken`. The ejection deletes a secret of that name whoever owns it, though
   the injection checks the owner (`controller_binding.go:767`, `docs/design.md:310`).

Brokers:

10. `ClassesLeft`. A class that the lister does not show yet survives the deletion of
    its broker (`docs/walkthrough-1.7.md:321`).
11. `PlansLeft`. Plans are found through their class; one whose class was not created
    survives (`docs/walkthrough-1.7.md:313`).
12. `PlanOverwritten`. A broker that offers the plan of another overwrites it
    (`types.go:298`).
13. `SharedServices`. The deletion of one broker removes, by name, a plan that another
    has just listed, and that one is Ready without it (`controller_broker.go:154`,
    `docs/design.md:144`).
14. `FailureNotRecorded`. A condition is added to an empty list only, so Failed is lost
    when Ready is there (`controller_broker_test.go:692`, whose object has none).
15. `RetriesNotStopped`. A broker whose retries were stopped is not Ready, and so is due
    again at the next event (`controller_broker.go:273`, `types.go:181`).
16. `RelistTooOften`. The interval is counted from a transition time that repeated
    successes do not renew, so after the first interval each event relists
    (`types.go:69`).
17. `RetryClockLost`. The start time is written with a used-up version; with changing
    error texts it is never stored and the retries never end (`options.go:102`).

Together:

18. `DeletedUnderCredential`. A credential that the cache does not show yet does not
    block the removal of its instance (`docs/design.md:304`).
19. The same configuration with `DeletionWithCredentialFails` as its property. The
    deletion of an instance with a credential is accepted and only held back
    (`docs/design.md:307`).
20. `DeletionDeadlock`. An instance without resolved references and its credential, both
    deleted, wait for each other for ever (`docs/design.md:306`).

Admission:

21. `DefaultTooEarly`. The class is read live and the plans from a lister that may show
    only one of them yet; it becomes the default
    (`defaultserviceplan/admission.go:98-101`: "Not currently").
22. `DefaultRefused`. The plans of all classes are counted, so a class with one plan gets
    no default when there is another class (`defaultserviceplan/admission.go:54`).
23. `CreatedInTerminating`. The namespace's phase is the lister's
    (`namespace/lifecycle/admission.go:126`).
24. `PlanChanged`. The class is looked up by its external name though objects are named
    after the broker's ID, so the check never applies; the strategy then drops the
    change silently (`changevalidator/admission.go:49-50`).

## What is proved

All theorems hold for every value of the constants, under the assumptions
`QueueAssumption`, `InstanceAssumption`, `CredentialAssumption`, `BrokerAssumption`,
`PairAssumption`, `AdmissionAssumption` and `RequestAssumption`. They give the
constants their types and keep the value for "no object" apart from objects;
`BrokerAssumption` also says that two catalogs of a broker have different numbers. No
bound on lag, faults, crashes, retries or requests is used. Some theorems have a
further hypothesis, named below, without which the code does not have the property.

`WorkQueueProofs`: `QueueInvariant`, `TypeCorrect`, `MutualExclusion`,
`QueueExact`, `RetriesExact`, `Refinement`. Mutual exclusion is not inductive:
`Get` hands out the head of the queue, so the invariant adds that no queued key is
being processed, that each busy worker's key is, and that queued keys are
distinct (`QInv`). The refinement follows from it with `pending` as `dirty` and
`running` as `processing`.

`ServiceInstanceProofs`: `InstanceInvariant`, `TypeCorrect`,
`ProvisionNeverFollowsDeprovision`, `HealthyIsNotDeprovisioned`,
`WritesNeverRegress`. Call a version doomed when it is deleted or failed. An
accepted write continues the stored version (`FreshInv`), and no helper makes
a doomed version healthy (`Evolves`), so the versions in the cache, in the watch
and in the store are healthy ones followed by doomed ones (`Ordered`). A
deprovision call starts from a doomed version in the cache, so all later versions
are doomed (`AllDoomed`), also after a crash, and the provision branch is not taken
again.

`ServiceInstanceStatusProofs`: `StatusInvariant`, `ReadyIsProvisioned`,
`RemovedIsReleased`, `OperationIsPolled`. The status and the broker are changed by
different steps, so the invariant (`SInv`) says when the one may still rely on the
other. Call a version spent when it has failed, is being deprovisioned or has lost its
finalizer. No accepted write makes a spent version unspent, a spent version is never
Ready (`Sound`), and a deprovision is asked for, and carried out, only when the stored
version is spent (`ReleaseInv`). Therefore what the stored version, or a copy that
could still be stored, says of the broker stays true (`Honest`): a Ready instance is
there, an asynchronous operation that ended well did what it was for, and what loses
its finalizer is gone. That an operation is polled needs the versions on their way,
too: while the stored one has an operation, every version from the cached one on asks
for work (`AttentionInv`), so no reconciliation of a stale version ends without an
error, and an error is retried unless the key is dropped (`gaveUp`).

The same module shows that an instance implements `ResourceLifecycle`
(`InstanceImplementsLifecycle`), step by step: the invariants say that a write that
shows Ready meets an instance at the broker, that a call that makes one meets no release
and a call that releases one meets a doomed version, and `OperationInv` adds that the
broker is not still making an instance that is shown as Ready.

Last, what the validation of the status does to the reconciler, for a store that has
it. A version with an orphan mitigation is not valid, so by induction over the versions
none is stored, cached or on its way (`ValidInv`; `NoMitigationIsStored`, finding 1).
And once the generation of a deletion is recorded as reconciled, a copy that could still
be stored only reports an error, or is the start of a deprovision, which is not valid
(`StuckInv`); so nothing removes the finalizer (`StuckDeletionStays`, finding 2).

`ServiceInstanceCredentialProofs`: `CredentialInvariant` and, from it, all safety
properties of the module, `ReadyIsTrue` (Ready means bound, with the secret in place)
and `RemovalIsClean` among them. The same argument, and on top of it: a Ready version
has not failed (`Coherent`), so that the release of a binding meets a Ready version
only if it is deleted (`OutsideInv`); the finalizer is cleared only from a copy
made after the release, or from one that was never bound (`StageInv`).
`CredentialImplementsLifecycle`, `NoMitigationIsStored` and `StuckDeletionStays` are as
for an instance (findings 6 and 7). The refinement has no abandoned binding here, and
needs that a Ready credential has nothing to reconcile, so that no worker has a
copy of it that could be stored (`SettledInv`).

`ProvisionRequestProofs`: `RequestInvariant`, `RequestsAgreeAlways`,
`ReferencesMatchAlways`, `ExternalIsTrueAlways`. The references are written once: only
a copy that is still the stored version writes them, and such a copy has none. So all
versions have the same references or none (`VersionInv`), and a request is sent only
from a copy that has them (`WorkerInv`). The broker keeps to the request it once
accepted, and whatever a version says of it is in that request's terms
(`TrueStatus`).

`ClusterServiceBrokerProofs`: `ObjectsHold`, `ReconciledAreFetched`,
`ObjectsGoForward`, from the invariant `ObjInv`. A worker whose copy is fresh has the
stored object (`WorkerInv`), so an accepted write replaces the version it was made
from, and what it changes is known from the place in the code that made the draft
(`DraftInv`). Once a worker has a copy marked for deletion, all versions from the
cached one on are marked or gone (`Twilight`), since the informer sees them in their
order (`VersionsInv`); from then on the broker is never reconciled as a living one
(`Sunset`). The lemmas about the steps also say what each does to classes, plans and the
worker's loops (`Moves`).

`ServiceCatalogProofs` rests on that, and on what a move may change (`Effect`):

- `BrokerTypeCorrect`, `ClassesStay`, from `CatInv`, without hypotheses. What a
  class says of its listing comes from a catalog of the broker that it names: the
  code compares the owner in the lister, and the API server refuses a write made on an
  old version of the class.
- `ReadyBrokersAreListed`, `ClassesHavePlans`, from `SepInv`, for brokers that do not
  offer the same service or plan (`Separate`; finding 13 is what happens otherwise).
  Deletion works by name on what the listers show, so the invariant says of all copies,
  stored, listed and on their way, that their broker offers them (`CopiesOK`) and
  that a deletion therefore meets only the broker's own (`OwnDeletes`). What a
  running relist has written is there (`SyncInv`) and stays. The listers may be behind
  by any number of events, and empty after a restart.
- `RemovedBrokersAreCleared`, from `ClearInv`, for listers that are current
  (`MaxCatalogLag = 0`; findings 10 and 11 are what happens otherwise), also for brokers
  that share services. What is left to be deleted is what is there (`DeleteInv`), and
  when the last write is made nothing is (`DoneInv`).

`InstanceAndCredentialProofs` extends the composition and the instance's proofs, so
that the lemmas about the instance's steps apply to them as they stand.

- `InstanceBesideCredential`: a step of the pair is a step of the instance, a deletion
  blocked by a credential, or leaves the instance alone, and all three keep `IInv`
  and `SInv`. So what is proved of an instance by itself holds beside a credential.
- `BindsFollowProvisions`, for any lag. Every version that says Ready, however old, was
  provisioned, and stays so until a deprovision is sent (`PromiseInv`).
- `BindingsHaveInstances`, `RemovedInstancesAreUnbound`, from `EndsUnbound`, when the
  caches have caught up before a worker takes a key (`Lag = "none"`; finding 18 is what
  happens otherwise). When a deprovision or the removal of the finalizer begins, no
  credential is stored, and the admission check lets none in afterwards; or the instance
  has failed for good and is never Ready again, so that nothing is bound to it
  (`EndInv`). A credential goes away only unbound and with its secret ejected
  (`CredentialInv`).

Every safety property of the runs is now a theorem, and each inductive invariant was
checked with TLC on the small instances before it was proved. Only model-checked:

- the liveness properties, since fairness and `ENABLED` are beyond the prover;
- the claims of the findings, which are false in general.

## Not modelled

- Generated code (types, deep copies, conversions, clients, listers, informers, OpenAPI
  definitions). It is the larger part of the repository's lines, and without states
  or choices of its own, so the modules here stand for a small share of all lines
  but for the larger part of the controller.
- The processes: flags, start-up, health checks, leader election (vendored). A restart
  at any moment is the `Crash` action, and two controllers at once are excluded by the
  leader election.
- The assembly of the API server and its storage back ends. What the controller depends
  on, the strategies, the checks of resource versions and the status validation, is
  in the modules of the resources. The validation of specs is left out: the
  objects of the model are valid ones, and their specs do not change.
- HTTP, serialisation, and the parsing of YAML and JSON parameters: a source of
  parameters is readable or not.
- The admission plugin that asks whether the user may use a broker's secret: one
  question to the API server for each request, without state.
- The Open Service Broker client and the example brokers. The broker is modelled
  from what the controller assumes of it.
- The parameters of a bind. They are put together by the same functions as those of
  a provision (`ProvisionRequest`).
- The effect of a timed-out request that reaches the broker after later requests: the
  broker decides at the time of the error.
- Time. Delays and durations are "some time later", except for the relist interval and
  the retry duration of brokers, which are counted by `clock`.
