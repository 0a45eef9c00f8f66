--------------------------- MODULE ServiceInstance ---------------------------
(***************************************************************************)
(* One ServiceInstance, from its creation to its removal: the object in    *)
(* the API server, the informer that feeds the controller's cache, the     *)
(* reconciler of pkg/controller/controller_instance.go, the instance and   *)
(* polling queues, and the broker that holds the real instance.            *)
(*                                                                         *)
(* The reconciler is split where another actor can act: at every call of   *)
(* the API server and of the broker.  Between Take and its last write it   *)
(* works on a copy (`local') of what the cache held when it began; `fresh' *)
(* says whether the copy still has the object's resource version.          *)
(*                                                                         *)
(* The work queue is the two bits of KeyScheduler: `queued' (pending) and  *)
(* pc # "idle" (running), with the delayed retry of WorkQueue.             *)
(***************************************************************************)
EXTENDS Naturals, Sequences

CONSTANTS Absent,           \* no object
          StatusValidation, \* the API server applies validation/instance.go
          AsyncBroker,      \* the broker may answer 202 Accepted
          Lag,              \* the informer's: "any"; "below backoff", shorter
                            \* than retry delays and resyncs; or "none"
          FaultKinds,       \* what may go wrong: see Fault
          MaxFaults,        \* how often, in one behaviour
          MaxCrashes,       \* restarts of the controller in one behaviour
          MaxRetries,       \* maxRetries of controller.go
          MaxLag            \* watch events the informer may be behind by

\* The fields of a ServiceInstance that its life cycle depends on.
Object == [
    del     : BOOLEAN,   \* DeletionTimestamp is set
    fin     : BOOLEAN,   \* has the catalog's finalizer
    gen     : {1, 2},    \* Generation: 1, and 2 once deleted
    refs    : BOOLEAN,   \* ServiceClassRef and ServicePlanRef are set
    op      : {"none", "Provision", "Deprovision"}, \* CurrentOperation
    started : BOOLEAN,   \* OperationStartTime is set
    async   : BOOLEAN,   \* AsyncOpInProgress
    orphan  : BOOLEAN,   \* OrphanMitigationInProgress
    inProg  : BOOLEAN,   \* InProgressProperties are set
    ext     : BOOLEAN,   \* ExternalProperties are set
    ready   : {"unset", "True", "False", "Unknown"}, \* Ready condition
    failed  : BOOLEAN,   \* Failed condition is True
    recGen  : {0, 1, 2}] \* ReconciledGeneration

ASSUME InstanceAssumption ==
    /\ Absent \notin Object
    /\ StatusValidation \in BOOLEAN /\ AsyncBroker \in BOOLEAN
    /\ Lag \in {"any", "below backoff", "none"}
    /\ FaultKinds \subseteq {"broker", "api", "lookup", "creds", "expire", "edit"}
    /\ {MaxFaults, MaxCrashes, MaxRetries} \subseteq Nat
    /\ MaxLag \in Nat \ {0}

VARIABLES api,       \* the stored object, or Absent
          watch,     \* versions the informer has not seen yet, oldest first
          cached,    \* the informer's object
          pc, local, fresh, \* the worker: control point, copy, see above
          after,     \* what the worker returns after its last write
          queued, delayed, failures, \* instanceQueue: pending, retry, count
          polling,   \* the key is in the pollingQueue
          broker,    \* the broker's instance
          faults, crashes,  \* so far
          deprovisioned, \* history: DeprovisionInstance was called
          rejected,  \* history: a provision call failed for good
          removed,   \* history: the object as it was when it was removed
          gaveUp     \* history: a key was dropped after maxRetries

workerVars == <<pc, local, fresh, after>>
queueVars == <<queued, delayed, failures, polling, gaveUp>>
storeVars == <<api, watch>>
historyVars == <<deprovisioned, rejected, removed>>
vars == <<storeVars, cached, workerVars, queueVars, broker, faults, crashes, historyVars>>

\* PrepareForCreate: no status, no references, generation 1, the finalizer.
NewInstance ==
    [del |-> FALSE, fin |-> TRUE, gen |-> 1, refs |-> FALSE, op |-> "none",
     started |-> FALSE, async |-> FALSE, orphan |-> FALSE, inProg |-> FALSE,
     ext |-> FALSE, ready |-> "unset", failed |-> FALSE, recGen |-> 0]

\* The object has just been created.
Init ==
    /\ api = NewInstance /\ watch = <<NewInstance>> /\ cached = Absent
    /\ pc = "idle" /\ local = Absent /\ fresh = FALSE /\ after = "ok"
    /\ queued = FALSE /\ delayed = FALSE /\ failures = 0 /\ polling = FALSE
    /\ broker = [has |-> FALSE, busy |-> "none", last |-> "succeeded"]
    /\ faults = 0 /\ crashes = 0
    /\ deprovisioned = FALSE /\ rejected = FALSE /\ removed = Absent
    /\ gaveUp = FALSE

\* One of the bounded number of things that go wrong.
Fault(kind) ==
    kind \in FaultKinds /\ faults < MaxFaults /\ faults' = faults + 1

-----------------------------------------------------------------------------
(* The status helpers of controller_instance.go.                           *)

SetReady(o, status) == [o EXCEPT !.ready = status]

\* The Failed condition keeps its first reason during orphan mitigation; a
\* condition that is True already stays True.
SetFailedUnlessOrphan(o) == [o EXCEPT !.failed = @ \/ ~o.orphan]

ClearCurrentOperation(o) ==
    [o EXCEPT !.op = "none", !.started = FALSE, !.async = FALSE,
              !.orphan = FALSE, !.inProg = FALSE, !.recGen = o.gen]

StartOrphanMitigation(o) ==
    [o EXCEPT !.started = FALSE, !.async = FALSE, !.orphan = TRUE,
              !.inProg = FALSE]

RecordStart(o, operation) ==
    SetReady([o EXCEPT !.op = operation, !.started = TRUE], "False")

\* deleting of pollServiceInstance.
Deleting(o) == o.op = "Deprovision" \/ o.orphan

\* The retry duration is over, or the start time is missing.
StopPolling(o) ==
    IF Deleting(o) THEN ClearCurrentOperation(SetFailedUnlessOrphan(o))
                   ELSE StartOrphanMitigation(SetFailedUnlessOrphan(o))

-----------------------------------------------------------------------------
(* The API server.                                                         *)

\* validateServiceInstanceStatus and validateServiceInstanceUpdate.
\* (LastOperation is set only during an operation and cleared with it.)
ValidStatus(o) ==
    /\ o.op = "none" => ~o.started /\ ~o.async
    /\ o.op # "none" => o.started /\ o.ready # "True"
    /\ o.inProg <=> o.op = "Provision"
    /\ o.recGen = o.gen => o.op = "none"
    /\ o.recGen <= o.gen

\* A stored update: an object under deletion without finalizers is removed.
\* An update that changes nothing is not stored and causes no event; the
\* abstraction of messages makes that a choice.
Commit(o) ==
    LET stored == IF o.del /\ ~o.fin THEN Absent ELSE o
    IN  /\ api' = stored
        /\ \/ Len(watch) < MaxLag /\ watch' = Append(watch, stored)
           \/ stored = api /\ watch' = watch
        /\ removed' = IF stored = Absent THEN o ELSE removed

\* The user deletes the instance: marked, since it has a finalizer.
UserDelete ==
    /\ api # Absent /\ ~api.del
    /\ api' = [api EXCEPT !.del = TRUE, !.gen = 2]
    /\ Len(watch) < MaxLag /\ watch' = Append(watch, api')
    /\ fresh' = FALSE
    /\ UNCHANGED <<cached, pc, local, after, queueVars, broker, faults, crashes, historyVars>>

\* The user changes labels or annotations: PrepareForUpdate keeps status and
\* spec, but the object has a new resource version.
UserEdit ==
    /\ api # Absent /\ Fault("edit")
    /\ Len(watch) < MaxLag /\ watch' = Append(watch, api)
    /\ fresh' = FALSE
    /\ UNCHANGED <<api, cached, pc, local, after, queueVars, broker, crashes, historyVars>>

-----------------------------------------------------------------------------
(* The informer and the queues.                                            *)

\* instanceAdd for an object new to the cache; instanceUpdate ignores an
\* instance with an asynchronous operation; instanceDelete does nothing.
InformerEvent ==
    /\ watch # <<>>
    /\ LET o == Head(watch) IN
       /\ cached' = o /\ watch' = Tail(watch)
       /\ queued' = (queued \/ (o # Absent /\ (cached = Absent \/ ~o.async)))
    /\ UNCHANGED <<api, workerVars, delayed, failures, polling, gaveUp, broker, faults, crashes, historyVars>>

\* The informer's periodic resync calls instanceUpdate with what it has.
Resync ==
    /\ cached # Absent /\ ~cached.async /\ (Lag # "any" => watch = <<>>)
    /\ ~queued /\ queued' = TRUE
    /\ UNCHANGED <<storeVars, cached, workerVars, delayed, failures, polling, gaveUp, broker, faults, crashes, historyVars>>

\* The back-off of a failed reconciliation is over.
RetryDue ==
    /\ delayed /\ (Lag # "any" => watch = <<>>)
    /\ delayed' = FALSE /\ queued' = TRUE
    /\ UNCHANGED <<storeVars, cached, workerVars, failures, polling, gaveUp, broker, faults, crashes, historyVars>>

\* The polling queue's delay is over: requeueServiceInstanceForPoll.
RequeueForPoll ==
    /\ polling /\ polling' = FALSE /\ queued' = TRUE
    /\ UNCHANGED <<storeVars, cached, workerVars, delayed, failures, gaveUp, broker, faults, crashes, historyVars>>

\* The process dies and a new one lists the objects: its queues, its cache
\* and the worker start from nothing.
Crash ==
    /\ crashes < MaxCrashes /\ crashes' = crashes + 1
    /\ pc' = "idle" /\ local' = Absent /\ fresh' = FALSE /\ after' = "ok"
    /\ queued' = FALSE /\ delayed' = FALSE /\ failures' = 0 /\ polling' = FALSE
    /\ cached' = Absent
    /\ watch' = IF api = Absent THEN <<>> ELSE <<api>>
    /\ UNCHANGED <<api, gaveUp, broker, faults, historyVars>>

-----------------------------------------------------------------------------
(* The worker: taking the key, returning, writing.                         *)

\* Variant of Return that does not look at maxRetries.
Return_NoLimit(result) ==
    /\ pc' = "idle" /\ local' = Absent /\ fresh' = FALSE /\ after' = "ok"
    /\ polling' = (polling \/ result = "poll")
    /\ IF result = "err" THEN delayed' = TRUE /\ failures' = failures + 1
                         ELSE failures' = 0 /\ UNCHANGED delayed
    /\ UNCHANGED gaveUp

\* The worker ends: with nil, after which it polls or not, or with an error,
\* which worker() turns into a delayed retry or, at maxRetries, into nothing.
Return(result) ==
    /\ pc' = "idle" /\ local' = Absent /\ fresh' = FALSE /\ after' = "ok"
    /\ polling' = (polling \/ result = "poll")
    /\ IF result = "err"
       THEN /\ delayed' = (delayed \/ failures < MaxRetries)
            /\ failures' = IF failures < MaxRetries THEN failures + 1 ELSE 0
            /\ gaveUp' = (gaveUp \/ ~(failures < MaxRetries))
       ELSE failures' = 0 /\ UNCHANGED <<delayed, gaveUp>>

\* Go on with copy o at control point p.
Continue(p, o) == pc' = p /\ local' = o /\ UNCHANGED after

\* Write o as the last thing, then return result.
WriteThenReturn(o, result) == pc' = "write" /\ local' = o /\ after' = result

\* reconcileServiceInstanceKey: the key is taken and the cache read.
Take ==
    /\ pc = "idle" /\ queued /\ queued' = FALSE
    /\ Lag = "none" => watch = <<>>
    /\ UNCHANGED <<storeVars, cached, broker, crashes, historyVars>>

TakeInstance ==
    /\ Take /\ cached # Absent
    /\ fresh' = (watch = <<>>)
    /\ UNCHANGED <<delayed, failures, polling, gaveUp>>

-----------------------------------------------------------------------------
(* reconcileServiceInstance and reconcileServiceInstanceDelete up to their *)
(* first call that another actor can observe.                              *)

\* reconcileServiceInstanceDelete is called.
ToDelete(o) == ~o.async /\ (o.del \/ o.orphan)

\* Variant of NothingToDeprovision that does not look at what was recorded.
NothingToDeprovision_NoRecord(o) == ~o.async /\ ~o.orphan

\* The finalizer may go without a call to the broker.
NothingToDeprovision(o) == ~o.async /\ ~o.orphan /\ (o.failed \/ o.recGen = 0)

\* Variant of ToProvision that does not look at the deletion.
ToProvision_Deleted(o) == ~o.async /\ ~o.orphan /\ ~o.failed /\ o.recGen # o.gen

ToProvision(o) == ~o.async /\ ~o.del /\ ~o.orphan /\ ~o.failed /\ o.recGen # o.gen

ReconcileNothing ==
    /\ Take /\ UNCHANGED faults
    /\ cached # Absent => /\ ~cached.async /\ ~ToProvision(cached)
                          /\ ToDelete(cached) => ~cached.fin
    /\ Return("ok")

\* Credentials of the instance are in the binding cache.
DeleteBlocked ==
    /\ TakeInstance /\ ToDelete(cached) /\ Fault("creds")
    /\ WriteThenReturn(SetReady(cached, "False"), "ok")

ClearFinalizer ==
    /\ TakeInstance /\ UNCHANGED faults
    /\ ToDelete(cached) /\ cached.fin /\ NothingToDeprovision(cached)
    /\ WriteThenReturn([cached EXCEPT !.fin = FALSE], "ok")

\* The reconciliation gets as far as looking up its broker.
NeedsBroker(o) ==
    \/ o.async
    \/ ToDelete(o) /\ o.fin /\ ~NothingToDeprovision(o)
    \/ ToProvision(o)

\* The class, the plan, the broker, the namespace, a secret or a parameter is
\* missing or wrong.
LookupFails ==
    /\ TakeInstance /\ Fault("lookup") /\ NeedsBroker(cached)
    /\ WriteThenReturn(SetReady(cached, "False"), "err")

\* No client can be made for the broker: nothing is written.  (After the
\* write of the references this is the third case of WriteFails.)
ClientFails ==
    /\ Take /\ cached # Absent /\ Fault("lookup")
    /\ NeedsBroker(cached) /\ cached.refs
    /\ Return("err")

BeginPoll ==
    /\ TakeInstance /\ UNCHANGED faults
    /\ cached.async /\ Continue("poll", cached)

BeginDeprovision ==
    /\ TakeInstance /\ UNCHANGED faults
    /\ ToDelete(cached) /\ cached.fin /\ ~NothingToDeprovision(cached)
    /\ LET o == [cached EXCEPT !.started = @ \/ cached.orphan]
       IN  IF o.op = "none"
           THEN Continue("startDeprovision", RecordStart(o, "Deprovision"))
           ELSE Continue("deprovision", o)

\* From the resolved references to the first write or call.
PrepareProvision(o) ==
    LET p == [o EXCEPT !.inProg = TRUE]
    IN  IF o.op = "none"
        THEN Continue("startProvision", RecordStart(p, "Provision"))
        ELSE Continue("provision", p)

BeginProvision ==
    /\ TakeInstance /\ UNCHANGED faults
    /\ ToProvision(cached)
    /\ IF cached.refs THEN PrepareProvision(cached)
       ELSE Continue("refs", [cached EXCEPT !.refs = TRUE])

-----------------------------------------------------------------------------
(* The calls of the API server.  A write with an old resource version, or  *)
(* of an object that is gone, is refused.                                  *)

\* Variant of Refused without the resource version.
Refused_NoVersion(o) == StatusValidation /\ ~ValidStatus(o)

Refused(o) == ~fresh \/ (StatusValidation /\ ~ValidStatus(o))

\* The write fails, or it is stored and the answer is lost.
WriteFails ==
    /\ pc \in {"refs", "startProvision", "startDeprovision", "write"}
    /\ \/ /\ IF pc = "refs" THEN ~fresh ELSE Refused(local)
          /\ UNCHANGED <<storeVars, removed, faults>>
       \/ /\ Fault("api") /\ UNCHANGED <<storeVars, removed>>
       \/ /\ Fault("api")
          /\ IF pc = "refs" THEN fresh ELSE ~Refused(local)
          /\ Commit(local)
    /\ Return("err")
    /\ UNCHANGED <<cached, queued, broker, crashes, deprovisioned, rejected>>

\* updateServiceInstanceReferences, and what follows it.
UpdateReferences ==
    /\ pc = "refs" /\ fresh
    /\ Commit(local)
    /\ \/ UNCHANGED faults /\ PrepareProvision(local)
       \/ Fault("lookup") /\ WriteThenReturn(SetReady(local, "False"), "err")
    /\ UNCHANGED <<cached, fresh, queueVars, broker, crashes, deprovisioned, rejected>>

\* recordStartOfServiceInstanceOperation.
RecordStartOfOperation ==
    /\ pc \in {"startProvision", "startDeprovision"} /\ ~Refused(local)
    /\ Commit(local)
    /\ Continue(IF pc = "startProvision" THEN "provision" ELSE "deprovision", local)
    /\ UNCHANGED <<cached, fresh, queueVars, broker, faults, crashes, deprovisioned, rejected>>

\* The last updateServiceInstanceStatus of a reconciliation.
UpdateStatus ==
    /\ pc = "write" /\ ~Refused(local)
    /\ Commit(local)
    /\ Return(after)
    /\ UNCHANGED <<cached, queued, broker, faults, crashes, deprovisioned, rejected>>

-----------------------------------------------------------------------------
(* The calls of the broker, each with the status it leads to.              *)

CallFrame == UNCHANGED <<storeVars, cached, fresh, queueVars, crashes, removed>>

\* The broker may or may not have acted on a request that failed.
MaybeHas(has) == \E h \in {broker.has, has} : broker' = [broker EXCEPT !.has = h]

\* Variant of ProvisionOK that does not clear the current operation.
ProvisionOK_KeepsOperation ==
    /\ pc = "provision" /\ broker.busy = "none"
    /\ broker' = [broker EXCEPT !.has = TRUE]
    /\ WriteThenReturn(SetReady([local EXCEPT !.ext = local.inProg], "True"), "ok")
    /\ CallFrame /\ UNCHANGED <<faults, deprovisioned, rejected>>

ProvisionOK ==
    /\ pc = "provision" /\ broker.busy = "none"
    /\ broker' = [broker EXCEPT !.has = TRUE]
    /\ WriteThenReturn(SetReady(ClearCurrentOperation([local EXCEPT !.ext = local.inProg]), "True"), "ok")
    /\ CallFrame /\ UNCHANGED <<faults, deprovisioned, rejected>>

\* Variant of ProvisionAsync that does not begin to poll.
ProvisionAsync_NoPolling ==
    /\ pc = "provision" /\ AsyncBroker
    /\ broker.busy = "provisioning" \/ (broker.busy = "none" /\ ~broker.has)
    /\ broker' = [broker EXCEPT !.busy = "provisioning"]
    /\ WriteThenReturn(SetReady([local EXCEPT !.async = TRUE], "False"), "ok")
    /\ CallFrame /\ UNCHANGED <<faults, deprovisioned, rejected>>

ProvisionAsync ==
    /\ pc = "provision" /\ AsyncBroker
    /\ broker.busy = "provisioning" \/ (broker.busy = "none" /\ ~broker.has)
    /\ broker' = [broker EXCEPT !.busy = "provisioning"]
    /\ WriteThenReturn(SetReady([local EXCEPT !.async = TRUE], "False"), "poll")
    /\ CallFrame /\ UNCHANGED <<faults, deprovisioned, rejected>>

\* A 4xx answer: a permanent failure.
ProvisionRejected ==
    /\ pc = "provision" /\ Fault("broker") /\ UNCHANGED broker
    /\ WriteThenReturn(ClearCurrentOperation(SetReady([local EXCEPT !.failed = TRUE], "False")), "ok")
    /\ rejected' = TRUE
    /\ CallFrame /\ UNCHANGED deprovisioned

\* Variant of ProvisionAmbiguous that does not record the failure.
ProvisionAmbiguous_NotFailed ==
    /\ pc = "provision" /\ Fault("broker") /\ MaybeHas(TRUE)
    /\ WriteThenReturn(StartOrphanMitigation(SetReady(local, "False")), "err")
    /\ rejected' = TRUE
    /\ CallFrame /\ UNCHANGED deprovisioned

\* A 5xx, 408 or 2xx answer (shouldStartOrphanMitigation) or a timeout: a
\* permanent failure that may have left an instance behind.
ProvisionAmbiguous ==
    /\ pc = "provision" /\ Fault("broker") /\ MaybeHas(TRUE)
    /\ WriteThenReturn(StartOrphanMitigation(SetReady([local EXCEPT !.failed = TRUE], "False")), "err")
    /\ rejected' = TRUE
    /\ CallFrame /\ UNCHANGED deprovisioned

\* Any other error is retried until the retry duration is over.
ProvisionError ==
    /\ pc = "provision" /\ MaybeHas(TRUE)
    /\ LET o == SetReady(local, "False") IN
       \/ Fault("broker") /\ WriteThenReturn(o, "err")
       \/ /\ Fault("expire")
          /\ WriteThenReturn(ClearCurrentOperation([o EXCEPT !.failed = TRUE]), "ok")
    /\ CallFrame /\ UNCHANGED <<deprovisioned, rejected>>

\* Variant of DeprovisionOK that leaves the finalizer.
DeprovisionOK_KeepsFinalizer ==
    /\ pc = "deprovision" /\ broker.busy # "provisioning"
    /\ broker' = [broker EXCEPT !.has = FALSE, !.busy = "none"]
    /\ WriteThenReturn(SetReady(ClearCurrentOperation(
            [local EXCEPT !.ext = FALSE]), "False"), "ok")
    /\ deprovisioned' = TRUE
    /\ CallFrame /\ UNCHANGED <<faults, rejected>>

DeprovisionOK ==
    /\ pc = "deprovision" /\ broker.busy # "provisioning"
    /\ broker' = [broker EXCEPT !.has = FALSE, !.busy = "none"]
    /\ WriteThenReturn(SetReady(ClearCurrentOperation(
            [local EXCEPT !.ext = FALSE, !.fin = ~local.del]), "False"), "ok")
    /\ deprovisioned' = TRUE
    /\ CallFrame /\ UNCHANGED <<faults, rejected>>

DeprovisionAsync ==
    /\ pc = "deprovision" /\ AsyncBroker /\ broker.busy # "provisioning"
    /\ broker' = [broker EXCEPT !.busy = "deprovisioning"]
    /\ WriteThenReturn(SetReady([local EXCEPT !.async = TRUE], "False"), "poll")
    /\ deprovisioned' = TRUE
    /\ CallFrame /\ UNCHANGED <<faults, rejected>>

\* Any HTTP error is final; a broker that is still provisioning answers 422.
DeprovisionRejected ==
    /\ pc = "deprovision"
    /\ IF broker.busy = "provisioning" THEN UNCHANGED <<broker, faults>>
       ELSE Fault("broker") /\ MaybeHas(FALSE)
    /\ WriteThenReturn(ClearCurrentOperation(
            SetFailedUnlessOrphan(SetReady(local, "Unknown"))), "ok")
    /\ deprovisioned' = TRUE
    /\ CallFrame /\ UNCHANGED rejected

DeprovisionError ==
    /\ pc = "deprovision" /\ MaybeHas(FALSE)
    /\ LET o == SetReady(local, "Unknown") IN
       \/ Fault("broker") /\ WriteThenReturn(o, "err")
       \/ /\ Fault("expire")
          /\ WriteThenReturn(ClearCurrentOperation(SetFailedUnlessOrphan(o)), "ok")
    /\ deprovisioned' = TRUE
    /\ CallFrame /\ UNCHANGED rejected

-----------------------------------------------------------------------------
(* pollServiceInstance.                                                    *)

PollFrame == pc = "poll" /\ CallFrame /\ UNCHANGED <<broker, deprovisioned, rejected>>

\* Return without a write.
PollReturn(result) ==
    /\ pc = "poll" /\ Return(result)
    /\ UNCHANGED <<storeVars, cached, queued, broker, crashes, historyVars>>

\* No start time, or an answer other than the end of the operation after
\* the retry duration.
PollStops ==
    /\ PollFrame
    /\ IF local.started THEN Fault("expire") ELSE UNCHANGED faults
    /\ WriteThenReturn(StopPolling(local), "ok")

\* Variant of PollInProgress that does not continue polling.
PollInProgress_Once ==
    /\ pc = "poll" /\ local.started /\ broker.busy # "none" /\ UNCHANGED faults
    /\ \/ PollReturn("ok")
       \/ PollFrame /\ WriteThenReturn(SetReady([local EXCEPT !.async = TRUE], "False"), "ok")

PollInProgress ==
    /\ pc = "poll" /\ local.started /\ broker.busy # "none" /\ UNCHANGED faults
    /\ \/ PollReturn("poll")   \* the answer has no description
       \/ PollFrame /\ WriteThenReturn(SetReady([local EXCEPT !.async = TRUE], "False"), "poll")

\* Variant of PollSucceeded that takes every operation for a provision.
PollSucceeded_AsProvision ==
    /\ PollFrame /\ local.started /\ UNCHANGED faults
    /\ broker.busy = "none" /\ broker.last = "succeeded"
    /\ WriteThenReturn(SetReady(
            ClearCurrentOperation([local EXCEPT !.ext = local.inProg]), "True"), "ok")

\* Also the 410 Gone answer to the poll of a deprovision.
PollSucceeded ==
    /\ PollFrame /\ local.started /\ UNCHANGED faults
    /\ broker.busy = "none" /\ broker.last = "succeeded"
    /\ LET o == ClearCurrentOperation([local EXCEPT !.ext = local.inProg])
       IN  WriteThenReturn(
             IF Deleting(local)
             THEN SetReady([o EXCEPT !.fin = @ /\ local.orphan], "False")
             ELSE SetReady(o, "True"), "ok")

\* Variant of PollFailed that does not set the Failed condition.
PollFailed_NotFailed ==
    /\ PollFrame /\ local.started /\ UNCHANGED faults
    /\ broker.busy = "none" /\ broker.last = "failed"
    /\ WriteThenReturn(ClearCurrentOperation(SetReady(local, "False")), "ok")

PollFailed ==
    /\ PollFrame /\ local.started /\ UNCHANGED faults
    /\ broker.busy = "none" /\ broker.last = "failed"
    /\ LET o == SetReady(local, IF Deleting(local) THEN "Unknown" ELSE "False")
       IN  WriteThenReturn(ClearCurrentOperation(SetFailedUnlessOrphan(o)), "ok")

\* Variant of PollError that does not continue polling.
PollError_Stops ==
    /\ pc = "poll" /\ local.started /\ Fault("broker")
    /\ PollReturn("ok")

\* The call fails: polling continues.
PollError ==
    /\ pc = "poll" /\ local.started /\ Fault("broker")
    /\ PollReturn("poll")

\* The answer has a state that is none of the three: the error is returned,
\* and polling is not continued.
PollInvalid ==
    /\ pc = "poll" /\ local.started /\ Fault("broker")
    /\ PollReturn("err")

\* The broker's asynchronous operation ends.
BrokerFinish ==
    /\ broker.busy # "none"
    /\ \/ /\ broker' = [has |-> broker.busy = "provisioning", busy |-> "none",
                        last |-> "succeeded"]
          /\ UNCHANGED faults
       \/ /\ Fault("broker")
          /\ broker' = [broker EXCEPT !.busy = "none", !.last = "failed"]
    /\ UNCHANGED <<storeVars, cached, workerVars, queueVars, crashes, historyVars>>

-----------------------------------------------------------------------------
Reconcile ==
    \/ ReconcileNothing \/ DeleteBlocked \/ ClearFinalizer \/ LookupFails
    \/ ClientFails \/ BeginPoll \/ BeginDeprovision \/ BeginProvision

Write == WriteFails \/ UpdateReferences \/ RecordStartOfOperation \/ UpdateStatus

Call ==
    \/ ProvisionOK \/ ProvisionAsync \/ ProvisionRejected
    \/ ProvisionAmbiguous \/ ProvisionError
    \/ DeprovisionOK \/ DeprovisionAsync \/ DeprovisionRejected \/ DeprovisionError

Poll ==
    \/ PollStops \/ PollInProgress \/ PollSucceeded \/ PollFailed
    \/ PollError \/ PollInvalid

Worker == Reconcile \/ Write \/ Call \/ Poll

Environment == UserDelete \/ UserEdit \/ Crash

Next ==
    \/ Worker \/ InformerEvent \/ Resync \/ RetryDue \/ RequeueForPoll
    \/ BrokerFinish \/ Environment

Spec == Init /\ [][Next]_vars

\* Goroutines, timers, the watch and the broker's operation keep going; the
\* user, crashes and faults are free (and the latter two bounded).
Fairness ==
    /\ WF_vars(Worker) /\ WF_vars(InformerEvent) /\ WF_vars(Resync)
    /\ WF_vars(RetryDue) /\ WF_vars(RequeueForPoll) /\ WF_vars(BrokerFinish)

FairSpec == Spec /\ Fairness

-----------------------------------------------------------------------------
\* The types of the variables.
TypeOK ==
    /\ api \in Object \cup {Absent} /\ watch \in Seq(Object \cup {Absent})
    /\ cached \in Object \cup {Absent} /\ local \in Object \cup {Absent}
    /\ pc \in {"idle", "refs", "startProvision", "provision",
               "startDeprovision", "deprovision", "poll", "write"}
    /\ pc # "idle" => local # Absent
    /\ after \in {"ok", "err", "poll"}
    /\ fresh \in BOOLEAN /\ queued \in BOOLEAN /\ delayed \in BOOLEAN
    /\ polling \in BOOLEAN /\ gaveUp \in BOOLEAN
    /\ failures \in 0..MaxRetries
    /\ broker \in [has : BOOLEAN, busy : {"none", "provisioning", "deprovisioning"},
                   last : {"succeeded", "failed"}]
    /\ faults \in 0..MaxFaults /\ crashes \in 0..MaxCrashes
    /\ deprovisioned \in BOOLEAN /\ rejected \in BOOLEAN
    /\ removed \in Object \cup {Absent}

\* ProvisionInstance is never called once DeprovisionInstance has been, for
\* the same instance: not from a stale cache, not after a crash, not by the
\* retry of an older reconciliation.
NoProvisionAfterDeprovision == deprovisioned => pc # "provision"

\* An instance shown as Ready exists at the broker, with its properties,
\* whatever was retried, lost or polled on the way.
ReadyMeansProvisioned ==
    api # Absent => (api.ready = "True" => broker.has /\ api.ext)

\* A removed instance is not at the broker, unless its failure was recorded
\* or it had never been recorded as provisioned (see NothingLeftBehind).
RemovedMeansReleased ==
    removed # Absent /\ broker.has => removed.failed \/ removed.recGen = 0

\* A healthy instance is never deprovisioned: a worker about to call
\* DeprovisionInstance does it for an object that is deleted or has failed
\* now, not only in the cache it started from.
OnlyDoomedIsDeprovisioned ==
    pc = "deprovision" /\ api # Absent => api.del \/ api.failed

\* Someone is about to look at the instance again.
Scheduled == queued \/ delayed \/ polling \/ pc # "idle" \/ cached = Absent

\* An asynchronous operation is always polled again, unless the key was
\* dropped: events of the instance are ignored meanwhile (instanceUpdate).
PolledUnlessDropped == api # Absent /\ ~gaveUp => (api.async => Scheduled)

\* No write undoes another one: a deletion, a failure and a reconciled
\* generation stay once they are stored, and a removed object stays removed.
StatusNeverRegresses ==
    [][IF api = Absent THEN api' = Absent
       ELSE api' # Absent =>
              /\ api.del => api'.del
              /\ api.failed => api'.failed
              /\ api'.recGen >= api.recGen]_vars

\* Every instance settles: it is Ready, has Failed, or the user deletes it.
Settles == <>[](api # Absent => api.ready = "True" \/ api.failed \/ api.del)

\* Every asynchronous operation comes to an end in the status, whatever the
\* answers to the polls, the conflicts and the restarts in between.
AsyncOperationEnds ==
    (api # Absent /\ api.async) ~> (api # Absent => ~api.async)

\* A deleted instance goes away, whatever failed before; all that can hold it
\* is an asynchronous provision that succeeded after the deletion and so
\* recorded the deletion's generation as reconciled (see DeletionCompletes).
DeletionEnds ==
    (api # Absent /\ api.del) ~>
        (api # Absent => api.recGen = 2 /\ api.ext /\ ~api.failed)

-----------------------------------------------------------------------------
(* The life cycle that the API and the broker show.                        *)

\* A removed object whose instance nobody deprovisioned is one that had
\* failed or had never been recorded as provisioned.
Shown ==
    IF api = Absent
    THEN IF removed.failed \/ removed.recGen = 0 THEN "abandoned" ELSE "removed"
    ELSE IF api.del \/ api.failed THEN "doomed"
    ELSE IF api.ready = "True" THEN "ready" ELSE "pending"

Held ==
    IF broker.busy = "provisioning" THEN "coming"
    ELSE IF broker.has THEN "yes" ELSE "no"

Lifecycle == INSTANCE ResourceLifecycle
    WITH MayAbandon <- TRUE, shown <- Shown, held <- Held, released <- deprovisioned

\* Seen from outside, the reconciler, its queues and its restarts go through
\* the life cycle of ResourceLifecycle: Ready is shown once the broker has the
\* instance and not taken back before the object is deleted or fails, only
\* such an object's instance is deprovisioned, nothing is provisioned after
\* that, and an object that was provisioned goes away after its instance.
ImplementsLifecycle == Lifecycle!Spec

-----------------------------------------------------------------------------
(* What the validation of the status makes of the reconciler's writes.     *)

\* setServiceInstanceStartOrphanMitigation clears the start time and leaves
\* the current operation, which validateServiceInstanceStatus refuses: where
\* it is applied, no orphan mitigation is ever stored.
MitigationNeverStored == StatusValidation /\ api # Absent => ~api.orphan

\* The generation of the deletion is recorded as reconciled.
StuckDeletion == api # Absent /\ api.del /\ api.recGen = 2 /\ ~api.failed

\* Nothing frees such an instance, whatever is retried or restarted: every
\* deprovision begins with a write that the validation refuses.
StuckForGood == [][StatusValidation /\ StuckDeletion => StuckDeletion']_vars

-----------------------------------------------------------------------------
(* What comments and documents say and the code does not do.               *)

\* The walkthrough: "we can deprovision the instance.  To do this, we simply
\* delete the ServiceInstance resource".  A deleted instance goes away.
DeletionCompletes == (api # Absent /\ api.del) ~> api = Absent

\* "An error from the broker represents a permanent failure and should not
\* be retried": no provision call after one.
NoRetryAfterFailure == rejected => pc # "provision"

\* design.md: "While a Service Instance has an asynchronous operation in
\* progress, controller must ensure that there no other operations".
AsyncExcludesOthers ==
    api # Absent /\ api.async => pc \notin {"provision", "deprovision"}

\* "If there is no op in progress, and the instance either was never
\* provisioned or was already deprovisioned [...] we can just clear the
\* finalizer": what is removed without a failure is not at the broker.
NothingLeftBehind ==
    removed # Absent /\ ~removed.failed =>
        ~broker.has /\ broker.busy # "provisioning"

\* "If there is an async op in progress, we need to keep polling".
AsyncIsPolled == api # Absent => (api.async => Scheduled)
=============================================================================
