---------------------- MODULE ServiceInstanceCredential ----------------------
(***************************************************************************)
(* One ServiceInstanceCredential (a binding), from its creation to its     *)
(* removal: the object in the API server, the informer, the reconciler of  *)
(* pkg/controller/controller_binding.go, the secret that holds the         *)
(* credentials, and the binding at the broker.                             *)
(*                                                                         *)
(* As in ServiceInstance, the reconciler is split at every call of another *)
(* party: the status writes, the secret's injection and ejection, Bind and *)
(* Unbind.  `instance' is what the lister shows of the instance the        *)
(* credential refers to, as the first check of the reconciler it fails.    *)
(***************************************************************************)
EXTENDS Naturals, Sequences

CONSTANTS Absent,           \* no object
          StatusValidation, \* the API server applies validation/binding.go
          Lag,              \* the informer's: "any"; "below backoff", shorter
                            \* than retry delays and resyncs; or "none"
          FaultKinds,       \* what may go wrong: see Fault
          MaxFaults,        \* how often, in one behaviour
          MaxCrashes,       \* restarts of the controller in one behaviour
          MaxRetries,       \* maxRetries of controller.go
          MaxLag            \* watch events the informer may be behind by

\* The fields of a credential that its life cycle depends on.
Object == [
    del     : BOOLEAN,   \* DeletionTimestamp is set
    fin     : BOOLEAN,   \* has the catalog's finalizer
    gen     : {1, 2},    \* Generation: 1, and 2 once deleted
    op      : {"none", "Bind", "Unbind"}, \* CurrentOperation
    started : BOOLEAN,   \* OperationStartTime is set
    orphan  : BOOLEAN,   \* OrphanMitigationInProgress
    inProg  : BOOLEAN,   \* InProgressProperties are set
    ext     : BOOLEAN,   \* ExternalProperties are set
    ready   : {"unset", "True", "False", "Unknown"}, \* Ready condition
    failed  : BOOLEAN,   \* Failed condition is True
    recGen  : {0, 1, 2}] \* ReconciledGeneration

\* The instance is not in the lister; has an asynchronous operation; has no
\* class and plan yet; has a plan that is not bindable; is not Ready; is fine.
Instances == {"absent", "async", "unresolved", "nonbindable", "notReady", "ready"}

ASSUME CredentialAssumption ==
    /\ Absent \notin Object
    /\ StatusValidation \in BOOLEAN
    /\ Lag \in {"any", "below backoff", "none"}
    /\ FaultKinds \subseteq {"broker", "api", "lookup", "instance", "secret", "expire", "edit"}
    /\ {MaxFaults, MaxCrashes, MaxRetries} \subseteq Nat
    /\ MaxLag \in Nat \ {0}

VARIABLES api,       \* the stored object, or Absent
          watch,     \* versions the informer has not seen yet, oldest first
          cached,    \* the informer's object
          instance,  \* what instanceLister shows, see above
          pc, local, fresh, \* the worker: control point, copy, same version?
          after,     \* what the worker returns after its last write
          queued, delayed, failures, \* bindingQueue: pending, retry, count
          bound,     \* the broker has the binding
          secret,    \* what has the secret's name: "none", "own", "foreign"
          faults, crashes,  \* so far
          released,  \* history: the ejection of the secret has begun
          rejected,  \* history: a bind call failed for good
          removed,   \* history: the object as it was when it was removed
          gaveUp     \* history: the key was dropped after maxRetries

workerVars == <<pc, local, fresh, after>>
queueVars == <<queued, delayed, failures, gaveUp>>
storeVars == <<api, watch>>
outside == <<instance, bound, secret>>
historyVars == <<released, rejected, removed>>
vars == <<storeVars, cached, workerVars, queueVars, outside, faults, crashes, historyVars>>

\* PrepareForCreate: no status, generation 1, the finalizer.
NewCredential ==
    [del |-> FALSE, fin |-> TRUE, gen |-> 1, op |-> "none", started |-> FALSE,
     orphan |-> FALSE, inProg |-> FALSE, ext |-> FALSE, ready |-> "unset",
     failed |-> FALSE, recGen |-> 0]

\* The object has just been created, for any instance and any secret name.
Init ==
    /\ api = NewCredential /\ watch = <<NewCredential>> /\ cached = Absent
    /\ pc = "idle" /\ local = Absent /\ fresh = FALSE /\ after = "ok"
    /\ queued = FALSE /\ delayed = FALSE /\ failures = 0
    /\ instance \in Instances /\ bound = FALSE /\ secret \in {"none", "foreign"}
    /\ faults = 0 /\ crashes = 0
    /\ released = FALSE /\ rejected = FALSE /\ removed = Absent
    /\ gaveUp = FALSE

\* One of the bounded number of things that go wrong.
Fault(kind) ==
    kind \in FaultKinds /\ faults < MaxFaults /\ faults' = faults + 1

-----------------------------------------------------------------------------
(* The status helpers of controller_binding.go.                            *)

SetReady(o, status) == [o EXCEPT !.ready = status]

\* Variant of ClearCurrentOperation that does not record the generation.
ClearCurrentOperation_NoGeneration(o) ==
    [o EXCEPT !.op = "none", !.started = FALSE, !.orphan = FALSE, !.inProg = FALSE]

ClearCurrentOperation(o) ==
    [o EXCEPT !.op = "none", !.started = FALSE, !.orphan = FALSE,
              !.inProg = FALSE, !.recGen = o.gen]

\* Variant of StartOrphanMitigation without the Failed condition.
StartOrphanMitigation_NotFailed(o) ==
    [o EXCEPT !.orphan = TRUE, !.started = FALSE, !.inProg = FALSE, !.ready = "False"]

\* setAndUpdateOrphanMitigation, up to its write.
StartOrphanMitigation(o) ==
    [o EXCEPT !.failed = TRUE, !.orphan = TRUE, !.started = FALSE,
              !.inProg = FALSE, !.ready = "False"]

RecordStart(o, operation) ==
    [o EXCEPT !.op = operation, !.started = TRUE, !.ready = "False"]

-----------------------------------------------------------------------------
(* The API server.                                                         *)

\* validateServiceInstanceCredentialStatus and ...Update.
ValidStatus(o) ==
    /\ o.op = "none" => ~o.started
    /\ o.op # "none" => o.started /\ o.ready # "True"
    /\ o.inProg <=> o.op = "Bind"
    /\ o.recGen = o.gen => o.op = "none"
    /\ o.recGen <= o.gen

\* A stored update: an object under deletion without finalizers is removed.
\* An update that changes nothing is not stored and causes no event; the
\* abstraction of messages makes that a choice.
Commit(o) ==
    LET stored == IF o.del /\ ~o.fin THEN Absent ELSE o
    IN  /\ api' = stored
        /\ \/ Len(watch) < MaxLag /\ watch' = Append(watch, stored)
           \/ stored = api /\ watch' = watch
        /\ removed' = IF stored = Absent THEN o ELSE removed

\* The user deletes the credential: marked, since it has a finalizer.
UserDelete ==
    /\ api # Absent /\ ~api.del
    /\ api' = [api EXCEPT !.del = TRUE, !.gen = 2]
    /\ Len(watch) < MaxLag /\ watch' = Append(watch, api')
    /\ fresh' = FALSE
    /\ UNCHANGED <<cached, pc, local, after, queueVars, outside, faults, crashes, historyVars>>

\* The user changes labels or annotations: PrepareForUpdate keeps status and
\* spec, but the object has a new resource version.
UserEdit ==
    /\ api # Absent /\ Fault("edit")
    /\ Len(watch) < MaxLag /\ watch' = Append(watch, api)
    /\ fresh' = FALSE
    /\ UNCHANGED <<api, cached, pc, local, after, queueVars, outside, crashes, historyVars>>

\* The instance, its class or its plan changes.
InstanceChanges ==
    /\ Fault("instance") /\ instance' \in Instances \ {instance}
    /\ UNCHANGED <<storeVars, cached, workerVars, queueVars, bound, secret, crashes, historyVars>>

\* Somebody else creates a secret of the same name, or deletes theirs.
ForeignSecret ==
    /\ Fault("secret")
    /\ \/ secret = "none" /\ secret' = "foreign"
       \/ secret = "foreign" /\ secret' = "none"
    /\ UNCHANGED <<storeVars, cached, workerVars, queueVars, instance, bound, crashes, historyVars>>

-----------------------------------------------------------------------------
(* The informer and the queue.                                             *)

\* bindingAdd and bindingUpdate; bindingDelete does nothing.
InformerEvent ==
    /\ watch # <<>>
    /\ cached' = Head(watch) /\ watch' = Tail(watch)
    /\ queued' = (queued \/ cached' # Absent)
    /\ UNCHANGED <<api, workerVars, delayed, failures, gaveUp, outside, faults, crashes, historyVars>>

\* The informer's periodic resync calls bindingUpdate with what it has.
Resync ==
    /\ cached # Absent /\ (Lag # "any" => watch = <<>>)
    /\ ~queued /\ queued' = TRUE
    /\ UNCHANGED <<storeVars, cached, workerVars, delayed, failures, gaveUp, outside, faults, crashes, historyVars>>

\* The back-off of a failed reconciliation is over.
RetryDue ==
    /\ delayed /\ (Lag # "any" => watch = <<>>)
    /\ delayed' = FALSE /\ queued' = TRUE
    /\ UNCHANGED <<storeVars, cached, workerVars, failures, gaveUp, outside, faults, crashes, historyVars>>

\* The process dies and a new one lists the credentials.
Restart ==
    /\ crashes < MaxCrashes /\ crashes' = crashes + 1
    /\ pc' = "idle" /\ local' = Absent /\ fresh' = FALSE /\ after' = "ok"
    /\ queued' = FALSE /\ delayed' = FALSE /\ failures' = 0
    /\ cached' = Absent
    /\ watch' = IF api = Absent THEN <<>> ELSE <<api>>
    /\ UNCHANGED <<api, gaveUp, bound, secret, faults, historyVars>>

Crash == Restart /\ UNCHANGED instance

-----------------------------------------------------------------------------
(* The worker: taking the key, returning, writing.                         *)

\* Variant of Return that does not look at maxRetries.
Return_NoLimit(result) ==
    /\ pc' = "idle" /\ local' = Absent /\ fresh' = FALSE /\ after' = "ok"
    /\ IF result = "err" THEN delayed' = TRUE /\ failures' = failures + 1
                         ELSE failures' = 0 /\ UNCHANGED delayed
    /\ UNCHANGED gaveUp

\* The worker ends: with nil, or with an error, which worker() turns into a
\* delayed retry or, at maxRetries, into nothing.
Return(result) ==
    /\ pc' = "idle" /\ local' = Absent /\ fresh' = FALSE /\ after' = "ok"
    /\ IF result = "err"
       THEN /\ delayed' = (delayed \/ failures < MaxRetries)
            /\ failures' = IF failures < MaxRetries THEN failures + 1 ELSE 0
            /\ gaveUp' = (gaveUp \/ ~(failures < MaxRetries))
       ELSE failures' = 0 /\ UNCHANGED <<delayed, gaveUp>>

\* Go on with copy o at control point p.
Continue(p, o) == pc' = p /\ local' = o /\ UNCHANGED after

\* Write o as the last thing, then return result.
WriteThenReturn(o, result) == pc' = "write" /\ local' = o /\ after' = result

\* reconcileServiceInstanceCredentialKey: the key is taken and the cache read.
Take ==
    /\ pc = "idle" /\ queued /\ queued' = FALSE
    /\ Lag = "none" => watch = <<>>
    /\ UNCHANGED <<storeVars, cached, outside, crashes, historyVars>>

\* The two early returns: failed, or no new generation.
NothingToDo(o) ==
    \/ o.failed /\ ~o.del /\ ~o.orphan
    \/ ~o.del /\ o.recGen = o.gen

ReconcileNothing ==
    /\ Take /\ UNCHANGED faults
    /\ cached # Absent => NothingToDo(cached)
    /\ Return("ok")

\* There is something to do for the object in the cache.
TakeCredential ==
    /\ Take /\ cached # Absent /\ ~NothingToDo(cached)
    /\ fresh' = (watch = <<>>)
    /\ UNCHANGED <<delayed, failures, gaveUp>>

\* Variant of ToBind that does not look at the deletion.
ToBind_Deleted(o) == ~o.orphan

\* The credential is to be bound, not released.
ToBind(o) == ~o.del /\ ~o.orphan

\* The instance is missing or busy, or the class, the plan, the broker, its
\* secret, the namespace or a parameter is missing or wrong.
LookupFails ==
    /\ TakeCredential
    /\ \/ instance \in {"absent", "async"} /\ UNCHANGED faults
       \/ instance \notin {"absent", "async", "unresolved"} /\ Fault("lookup")
    /\ WriteThenReturn(SetReady(cached, "False"), "err")

\* The instance has no references yet, or no client can be made for the
\* broker: nothing is written.
NoClient ==
    /\ Take /\ cached # Absent /\ ~NothingToDo(cached)
    /\ \/ instance = "unresolved" /\ UNCHANGED faults
       \/ instance \notin {"absent", "async", "unresolved"} /\ Fault("lookup")
    /\ Return("err")

\* The plan is not bindable; or the instance is not Ready, for a bind.
InstanceUnfit ==
    /\ TakeCredential /\ UNCHANGED faults
    /\ instance = "nonbindable" \/ (instance = "notReady" /\ ToBind(cached))
    /\ WriteThenReturn(SetReady(cached, "False"), "ok")

BeginBind ==
    /\ TakeCredential /\ UNCHANGED faults
    /\ instance = "ready" /\ ToBind(cached)
    /\ LET o == [cached EXCEPT !.inProg = TRUE]
       IN  IF o.op = "none" THEN Continue("startBind", RecordStart(o, "Bind"))
                            ELSE Continue("bind", o)

BeginUnbind ==
    /\ TakeCredential /\ UNCHANGED faults
    /\ instance \in {"notReady", "ready"} /\ ~ToBind(cached)
    /\ cached.fin \/ cached.orphan
    /\ Continue("eject", cached)

-----------------------------------------------------------------------------
(* The status writes.  A write with an old resource version, or of an      *)
(* object that is gone, is refused.                                        *)

\* Variant of Refused without the resource version.
Refused_NoVersion(o) == StatusValidation /\ ~ValidStatus(o)

Refused(o) == ~fresh \/ (StatusValidation /\ ~ValidStatus(o))

\* The write fails, or it is stored and the answer is lost.
WriteFails ==
    /\ pc \in {"startBind", "startUnbind", "write"}
    /\ \/ Refused(local) /\ UNCHANGED <<storeVars, removed, faults>>
       \/ Fault("api") /\ UNCHANGED <<storeVars, removed>>
       \/ Fault("api") /\ ~Refused(local) /\ Commit(local)
    /\ Return("err")
    /\ UNCHANGED <<cached, queued, outside, crashes, released, rejected>>

\* recordStartOfServiceInstanceCredentialOperation.
RecordStartOfOperation ==
    /\ pc \in {"startBind", "startUnbind"} /\ ~Refused(local)
    /\ Commit(local)
    /\ Continue(IF pc = "startBind" THEN "bind" ELSE "unbind", local)
    /\ UNCHANGED <<cached, fresh, queueVars, outside, faults, crashes, released, rejected>>

\* The last updateServiceInstanceCredentialStatus of a reconciliation.
UpdateStatus ==
    /\ pc = "write" /\ ~Refused(local)
    /\ Commit(local)
    /\ Return(after)
    /\ UNCHANGED <<cached, queued, outside, faults, crashes, released, rejected>>

-----------------------------------------------------------------------------
(* Bind, and the injection of the credentials into the secret.             *)

CallFrame == UNCHANGED <<storeVars, cached, instance, fresh, queueVars, crashes, removed>>

BindOK ==
    /\ pc = "bind" /\ bound' = TRUE
    /\ Continue("inject", [local EXCEPT !.ext = local.inProg])
    /\ CallFrame /\ UNCHANGED <<secret, faults, released, rejected>>

\* An HTTP error that says the broker did nothing: a permanent failure.
BindRejected ==
    /\ pc = "bind" /\ Fault("broker")
    /\ WriteThenReturn(ClearCurrentOperation(SetReady([local EXCEPT !.failed = TRUE], "False")), "ok")
    /\ rejected' = TRUE
    /\ CallFrame /\ UNCHANGED <<bound, secret, released>>

\* A timeout, or a 2xx, 408 or 5xx answer: a permanent failure that may have
\* left a binding behind.
BindAmbiguous ==
    /\ pc = "bind" /\ Fault("broker") /\ bound' \in {bound, TRUE}
    /\ WriteThenReturn(StartOrphanMitigation(local), "ok")
    /\ rejected' = TRUE
    /\ CallFrame /\ UNCHANGED <<secret, released>>

\* Any other error is retried until the retry duration is over.
BindError ==
    /\ pc = "bind" /\ bound' \in {bound, TRUE}
    /\ LET o == SetReady(local, "False") IN
       \/ Fault("broker") /\ WriteThenReturn(o, "err")
       \/ /\ Fault("expire")
          /\ WriteThenReturn(ClearCurrentOperation([o EXCEPT !.failed = TRUE]), "ok")
    /\ CallFrame /\ UNCHANGED <<secret, released, rejected>>

\* injectServiceInstanceCredential creates the secret or updates its own.
InjectOK ==
    /\ pc = "inject" /\ secret # "foreign" /\ secret' = "own"
    /\ WriteThenReturn(SetReady(ClearCurrentOperation(local), "True"), "ok")
    /\ CallFrame /\ UNCHANGED <<bound, faults, released, rejected>>

\* Variant of InjectFails that takes every failure for a success.
InjectFails_Ignored ==
    /\ pc = "inject"
    /\ \/ secret = "foreign" /\ UNCHANGED <<secret, faults>>
       \/ Fault("api") /\ secret' \in {secret, IF secret = "foreign" THEN secret ELSE "own"}
    /\ WriteThenReturn(SetReady(ClearCurrentOperation(local), "True"), "ok")
    /\ CallFrame /\ UNCHANGED <<bound, released, rejected>>

\* The secret is another's, or a request for it fails or loses its answer.
InjectFails ==
    /\ pc = "inject"
    /\ LET o == SetReady(local, "False") IN
       \/ /\ \/ secret = "foreign" /\ UNCHANGED <<secret, faults>>
             \/ Fault("api") /\ secret' \in {secret, IF secret = "foreign" THEN secret ELSE "own"}
          /\ WriteThenReturn(o, "err")
       \/ /\ Fault("expire") /\ secret' \in {secret, IF secret = "foreign" THEN secret ELSE "own"}
          /\ WriteThenReturn(StartOrphanMitigation(o), "ok")
    /\ CallFrame /\ UNCHANGED <<bound, released, rejected>>

-----------------------------------------------------------------------------
(* The ejection of the secret, and Unbind.                                 *)

\* Variant of EjectOK that takes the secret for deleted.
EjectOK_Skipped ==
    /\ pc = "eject" /\ released' = TRUE
    /\ IF local.op = "none"
       THEN Continue("startUnbind", RecordStart(local, "Unbind"))
       ELSE Continue("unbind", [local EXCEPT !.started = @ \/ local.orphan])
    /\ CallFrame /\ UNCHANGED <<bound, secret, faults, rejected>>

\* Variant of EjectOK that does not set the start time of a mitigation.
EjectOK_NoStartTime ==
    /\ pc = "eject" /\ secret' = "none" /\ released' = TRUE
    /\ IF local.op = "none"
       THEN Continue("startUnbind", RecordStart(local, "Unbind"))
       ELSE Continue("unbind", local)
    /\ CallFrame /\ UNCHANGED <<bound, faults, rejected>>

\* ejectServiceInstanceCredential deletes the secret of the name, if any.
EjectOK ==
    /\ pc = "eject" /\ secret' = "none" /\ released' = TRUE
    /\ IF local.op = "none"
       THEN Continue("startUnbind", RecordStart(local, "Unbind"))
       ELSE Continue("unbind", [local EXCEPT !.started = @ \/ local.orphan])
    /\ CallFrame /\ UNCHANGED <<bound, faults, rejected>>

EjectFails ==
    /\ pc = "eject" /\ Fault("api") /\ secret' \in {secret, "none"}
    /\ WriteThenReturn(SetReady(local, "Unknown"), "err")
    /\ released' = TRUE
    /\ CallFrame /\ UNCHANGED <<bound, rejected>>

\* Variant of UnbindOK that leaves the finalizer.
UnbindOK_KeepsFinalizer ==
    /\ pc = "unbind" /\ bound' = FALSE
    /\ WriteThenReturn(ClearCurrentOperation(SetReady([local EXCEPT !.ext = FALSE], "False")), "ok")
    /\ CallFrame /\ UNCHANGED <<secret, faults, released, rejected>>

UnbindOK ==
    /\ pc = "unbind" /\ bound' = FALSE
    /\ WriteThenReturn(ClearCurrentOperation(SetReady(
            [local EXCEPT !.ext = FALSE, !.fin = @ /\ local.orphan], "False")), "ok")
    /\ CallFrame /\ UNCHANGED <<secret, faults, released, rejected>>

\* Variant of UnbindRejected that clears the finalizer all the same.
UnbindRejected_Removes ==
    /\ pc = "unbind" /\ Fault("broker") /\ bound' \in {bound, FALSE}
    /\ WriteThenReturn(ClearCurrentOperation(SetReady(
            [local EXCEPT !.failed = @ \/ ~local.orphan, !.fin = @ /\ local.orphan], "Unknown")), "ok")
    /\ CallFrame /\ UNCHANGED <<secret, released, rejected>>

\* Any HTTP error ends the operation; the finalizer stays.
UnbindRejected ==
    /\ pc = "unbind" /\ Fault("broker") /\ bound' \in {bound, FALSE}
    /\ WriteThenReturn(ClearCurrentOperation(SetReady(
            [local EXCEPT !.failed = @ \/ ~local.orphan], "Unknown")), "ok")
    /\ CallFrame /\ UNCHANGED <<secret, released, rejected>>

\* Any other error is retried until the retry duration is over; Failed is
\* set then, in orphan mitigation too.
UnbindError ==
    /\ pc = "unbind" /\ bound' \in {bound, FALSE}
    /\ LET o == SetReady(local, "Unknown") IN
       \/ Fault("broker") /\ WriteThenReturn(o, "err")
       \/ /\ Fault("expire")
          /\ WriteThenReturn(ClearCurrentOperation([o EXCEPT !.failed = TRUE]), "ok")
    /\ CallFrame /\ UNCHANGED <<secret, released, rejected>>

-----------------------------------------------------------------------------
Reconcile ==
    \/ ReconcileNothing \/ LookupFails \/ NoClient \/ InstanceUnfit
    \/ BeginBind \/ BeginUnbind

Write == WriteFails \/ RecordStartOfOperation \/ UpdateStatus

Call ==
    \/ BindOK \/ BindRejected \/ BindAmbiguous \/ BindError
    \/ InjectOK \/ InjectFails \/ EjectOK \/ EjectFails
    \/ UnbindOK \/ UnbindRejected \/ UnbindError

Worker == Reconcile \/ Write \/ Call

Environment == UserDelete \/ UserEdit \/ InstanceChanges \/ ForeignSecret \/ Crash

Next == Worker \/ InformerEvent \/ Resync \/ RetryDue \/ Environment

Spec == Init /\ [][Next]_vars

\* Goroutines, timers and the watch keep going; users, crashes and faults
\* are free (and the latter two bounded).
Fairness ==
    /\ WF_vars(Worker) /\ WF_vars(InformerEvent)
    /\ WF_vars(Resync) /\ WF_vars(RetryDue)

FairSpec == Spec /\ Fairness

-----------------------------------------------------------------------------
\* The types of the variables.
TypeOK ==
    /\ api \in Object \cup {Absent} /\ watch \in Seq(Object \cup {Absent})
    /\ cached \in Object \cup {Absent} /\ local \in Object \cup {Absent}
    /\ pc \in {"idle", "startBind", "bind", "inject", "eject", "startUnbind",
               "unbind", "write"}
    /\ pc # "idle" => local # Absent
    /\ after \in {"ok", "err"}
    /\ instance \in Instances /\ secret \in {"none", "own", "foreign"}
    /\ fresh \in BOOLEAN /\ queued \in BOOLEAN /\ delayed \in BOOLEAN
    /\ bound \in BOOLEAN /\ gaveUp \in BOOLEAN
    /\ failures \in 0..MaxRetries
    /\ faults \in 0..MaxFaults /\ crashes \in 0..MaxCrashes
    /\ released \in BOOLEAN /\ rejected \in BOOLEAN
    /\ removed \in Object \cup {Absent}

\* Once a credential's secret has begun to be ejected, no bind is sent and no
\* secret is injected for it any more: not from a stale cache, not after a
\* crash, not by the retry of an older reconciliation.
NoBindAfterRelease == released => pc \notin {"bind", "inject"}

\* A credential shown as Ready, and not being deleted, is bound at the broker
\* and has its own secret, whatever was retried or lost on the way.
ReadyMeansBound ==
    api # Absent => (api.ready = "True" /\ ~api.del => bound /\ api.ext /\ secret = "own")

\* A removed credential is neither at the broker nor in a secret, whatever
\* failed before: unlike for an instance, only Unbind's success removes it.
RemovedMeansUnbound == removed # Absent => ~bound /\ secret # "own"

\* A healthy credential is never released: a worker about to delete the
\* secret or to call Unbind does it for an object that is deleted or has
\* failed now, not only in the cache it started from.
OnlyDoomedIsReleased ==
    pc \in {"eject", "unbind"} /\ api # Absent => api.del \/ api.failed

\* The retry duration is computed from OperationStartTime without a check for
\* nil (controller_binding.go:461, 505, 661): it is set wherever the
\* reconciler may get there.
StartTimeKnown == pc \in {"bind", "inject", "unbind"} => local.started

\* No write undoes another one: a deletion, a failure and a reconciled
\* generation stay once they are stored, and a removed object stays removed.
StatusNeverRegresses ==
    [][IF api = Absent THEN api' = Absent
       ELSE api' # Absent =>
              /\ api.del => api'.del
              /\ api.failed => api'.failed
              /\ api'.recGen >= api.recGen]_vars

\* Every credential of a usable instance settles: it is Ready, has Failed, or
\* the user deletes it, unless another's secret has its name.
Settles ==
    <>[](api # Absent => \/ api.ready = "True" \/ api.failed \/ api.del
                         \/ instance # "ready" \/ secret = "foreign")

\* A deleted credential goes away, unless a failed Unbind was recorded or the
\* instance it refers to cannot be used.
DeletionEnds ==
    (api # Absent /\ api.del) ~>
        \/ api = Absent \/ (api.failed /\ api.recGen = 2)
        \/ instance \notin {"notReady", "ready"}

-----------------------------------------------------------------------------
(* The life cycle that the API and the broker show.                        *)

Shown ==
    IF api = Absent THEN "removed"
    ELSE IF api.del \/ api.failed THEN "doomed"
    ELSE IF api.ready = "True" THEN "ready" ELSE "pending"

Held == IF bound THEN "yes" ELSE "no"

Lifecycle == INSTANCE ResourceLifecycle
    WITH MayAbandon <- FALSE, shown <- Shown, held <- Held

\* Seen from outside, a credential goes through the life cycle of
\* ResourceLifecycle, as an instance does, and its binding is never abandoned:
\* Ready is shown once the broker has the binding and not taken back before
\* the object is deleted or fails, only such an object is unbound, nothing is
\* bound after that, and the object goes away after the binding.
ImplementsLifecycle == Lifecycle!Spec

-----------------------------------------------------------------------------
(* What the validation of the status makes of the reconciler's writes.     *)

\* setAndUpdateOrphanMitigation clears the start time and leaves the current
\* operation, which validateServiceInstanceCredentialStatus refuses: where it
\* is applied, no orphan mitigation is ever stored.
MitigationNeverStored == StatusValidation /\ api # Absent => ~api.orphan

\* The generation of the deletion is recorded as reconciled.
StuckDeletion == api # Absent /\ api.del /\ api.recGen = 2

\* Nothing frees such a credential, whatever is retried or restarted: the
\* secret is ejected again and again, but Unbind begins with a write that the
\* validation refuses.
StuckForGood == [][StatusValidation /\ StuckDeletion => StuckDeletion']_vars

-----------------------------------------------------------------------------
(* What comments, tests and documents say and the code does not do.        *)

\* "Bind operation will not be retried": no bind after a permanent failure.
NoRetryAfterFailure == rejected => pc # "bind"

\* The walkthrough: "let's unbind from the instance.  To do this, we simply
\* delete the ServiceInstanceCredential resource".  A deleted credential of a
\* usable instance goes away, though one Unbind may fail.
DeletionCompletes ==
    (api # Absent /\ api.del) ~> (api = Absent \/ instance \notin {"notReady", "ready"})

\* The same for a credential that never got as far as a bind: deleting it
\* needs nothing of the instance.
NeverBoundIsRemoved == (api # Absent /\ api.del /\ ~bound) ~> api = Absent

\* "Secret is not owned by ServiceInstanceCredential": the controller leaves
\* a secret of another owner alone.
ForeignSecretKept == [][secret = "foreign" /\ pc # "idle" /\ pc' # pc => secret' = secret]_vars
=============================================================================
