----------------------- MODULE InstanceAndCredential -----------------------
(***************************************************************************)
(* An instance and a credential for it, in one controller process: the     *)
(* credential's reconciler reads the instance from the instance informer's *)
(* cache, and the deletion of the instance is blocked by a credential in   *)
(* the credential informer's cache.  Between them stands the admission     *)
(* plugin that refuses new credentials of an instance under deletion, with *)
(* the API server's own lister.  One broker serves both.                   *)
(*                                                                         *)
(* The module extends that of the instance and instantiates that of the    *)
(* credential.                                                             *)
(***************************************************************************)
EXTENDS ServiceInstance

VARIABLES cApi, cWatch, cCached, cPc, cLocal, cFresh, cAfter, cQueued, cDelayed,
          cFailures, cGaveUp, bound, secret, released, cRejected, cRemoved,
          closed   \* the admission plugin's lister shows the instance's deletion

instanceVars == <<api, watch, cached, pc, local, fresh, after, queued, delayed,
    failures, polling, gaveUp, broker, deprovisioned, rejected, removed>>
credentialVars == <<cApi, cWatch, cCached, cPc, cLocal, cFresh, cAfter, cQueued, cDelayed,
    cFailures, cGaveUp, bound, secret, released, cRejected, cRemoved>>
pairVars == <<instanceVars, credentialVars, faults, crashes, closed>>

\* Variant of View that does not look at the Ready condition.
View_NotReady(o) ==
    IF o = Absent THEN "absent"
    ELSE IF o.async THEN "async" ELSE IF ~o.refs THEN "unresolved" ELSE "ready"

\* Variant of View for which an instance under deletion is as good as gone.
View_NotDeleting(o) ==
    IF o = Absent THEN "absent"
    ELSE IF o.del THEN "absent"
    ELSE IF o.async THEN "async"
    ELSE IF ~o.refs THEN "unresolved"
    ELSE IF o.ready # "True" THEN "notReady"
    ELSE "ready"

\* The instance as the credential's reconciler sees it: the first of its
\* checks that fails.
View(o) ==
    IF o = Absent THEN "absent"
    ELSE IF o.async THEN "async"
    ELSE IF ~o.refs THEN "unresolved"
    ELSE IF o.ready # "True" THEN "notReady"
    ELSE "ready"

C == INSTANCE ServiceInstanceCredential WITH
    api <- cApi, watch <- cWatch, cached <- cCached, pc <- cPc, local <- cLocal,
    fresh <- cFresh, after <- cAfter, queued <- cQueued, delayed <- cDelayed,
    failures <- cFailures, gaveUp <- cGaveUp, rejected <- cRejected,
    removed <- cRemoved, instance <- View(cached)

\* That a credential blocks the deletion is no input here ("creds").
ASSUME PairAssumption ==
    /\ Absent \notin C!Object
    /\ FaultKinds \subseteq {"broker", "api", "lookup", "expire"}

\* The instance has just been created; there is no credential yet.
PairInit ==
    /\ Init /\ closed = FALSE
    /\ cApi = Absent /\ cWatch = <<>> /\ cCached = Absent
    /\ cPc = "idle" /\ cLocal = Absent /\ cFresh = FALSE /\ cAfter = "ok"
    /\ cQueued = FALSE /\ cDelayed = FALSE /\ cFailures = 0
    /\ bound = FALSE /\ secret = "none" /\ released = FALSE
    /\ cRejected = FALSE /\ cRemoved = Absent /\ cGaveUp = FALSE

-----------------------------------------------------------------------------
(* Creating a credential.                                                  *)

InstanceDeleting == api # Absent /\ api.del

\* Variant of Admitted that lets every credential in.
Admitted_Always == TRUE

\* enforceNoNewCredentialsForDeletedInstance: an instance that the lister
\* does not have is no obstacle.
Admitted == ~closed

AdmissionEvent ==
    /\ closed # InstanceDeleting /\ closed' = InstanceDeleting
    /\ UNCHANGED <<instanceVars, credentialVars, faults, crashes>>

\* The user creates the credential, once.
CreateCredential ==
    /\ cApi = Absent /\ cRemoved = Absent
    /\ Admitted /\ (Lag = "none" => closed = InstanceDeleting)
    /\ cApi' = C!NewCredential /\ cWatch' = <<C!NewCredential>>
    /\ UNCHANGED <<instanceVars, cCached, cPc, cLocal, cFresh, cAfter, cQueued, cDelayed,
                   cFailures, cGaveUp, bound, secret, released, cRejected, cRemoved,
                   faults, crashes, closed>>

-----------------------------------------------------------------------------
(* The controller.                                                         *)

\* Variant of Blocked that looks for credentials of deleted instances only
\* when the instance is Ready.
Blocked_IfReady == cCached # Absent /\ cached.ready = "True"

\* reconcileServiceInstanceDelete finds a credential in the cache.
Blocked == cCached # Absent

\* A worker takes an instance that is to be deleted.
TakesDeletion == pc = "idle" /\ cached # Absent /\ ToDelete(cached)

BlockedByCredential ==
    /\ TakesDeletion /\ Blocked /\ (Lag = "none" => cWatch = <<>>)
    /\ TakeInstance /\ UNCHANGED faults
    /\ WriteThenReturn(SetReady(cached, "False"), "ok")
    /\ UNCHANGED <<credentialVars, closed>>

\* Every other step of the instance's reconciler.
InstanceWorker ==
    /\ TakesDeletion => ~Blocked /\ (Lag = "none" => cWatch = <<>>)
    /\ Worker
    /\ UNCHANGED <<credentialVars, closed>>

InstanceInformer == InformerEvent /\ UNCHANGED <<credentialVars, closed>>
InstanceResync == Resync /\ UNCHANGED <<credentialVars, closed>>
InstanceRetry == RetryDue /\ UNCHANGED <<credentialVars, closed>>
InstancePoll == RequeueForPoll /\ UNCHANGED <<credentialVars, closed>>
InstanceAtBroker == BrokerFinish /\ UNCHANGED <<credentialVars, closed>>
DeleteInstance == UserDelete /\ UNCHANGED <<credentialVars, closed>>

\* The credential's reconciler leaves the instance alone.
CredentialWorker ==
    /\ cPc = "idle" /\ Lag = "none" => watch = <<>>
    /\ UNCHANGED <<instanceVars, closed>>
    /\ C!Worker

CredentialInformer == UNCHANGED <<instanceVars, closed>> /\ C!InformerEvent
CredentialResync == UNCHANGED <<instanceVars, closed>> /\ C!Resync
CredentialRetry == UNCHANGED <<instanceVars, closed>> /\ C!RetryDue
DeleteCredential == UNCHANGED <<instanceVars, closed>> /\ C!UserDelete

\* Both reconcilers die with the process.
CrashBoth == Crash /\ C!Restart /\ UNCHANGED closed

PairNext ==
    \/ InstanceWorker \/ BlockedByCredential \/ InstanceInformer \/ InstanceResync
    \/ InstanceRetry \/ InstancePoll \/ InstanceAtBroker \/ DeleteInstance
    \/ CredentialWorker \/ CredentialInformer \/ CredentialResync
    \/ CredentialRetry \/ DeleteCredential
    \/ AdmissionEvent \/ CreateCredential \/ CrashBoth

PairSpec == PairInit /\ [][PairNext]_pairVars

\* As for the two parts, and for the API server's lister.  A worker that waits
\* for a cache to catch up (Lag = "none") gets its turn in the end.
PairFairness ==
    /\ SF_pairVars(InstanceWorker \/ BlockedByCredential) /\ WF_pairVars(InstanceInformer)
    /\ WF_pairVars(InstanceResync) /\ WF_pairVars(InstanceRetry)
    /\ WF_pairVars(InstancePoll) /\ WF_pairVars(InstanceAtBroker)
    /\ SF_pairVars(CredentialWorker) /\ WF_pairVars(CredentialInformer)
    /\ WF_pairVars(CredentialResync) /\ WF_pairVars(CredentialRetry)
    /\ WF_pairVars(AdmissionEvent)

FairPairSpec == PairSpec /\ PairFairness

-----------------------------------------------------------------------------
(* Properties.                                                             *)

\* A bind is sent only for an instance that the broker has made; it may have
\* begun to release it again, but the bind does not come before the provision,
\* whatever the two caches show.
BindFollowsProvision == cPc = "bind" => broker.has \/ deprovisioned

\* With caches that have caught up, the broker holds no binding of an
\* instance it does not have: the credential blocks the deletion until it is
\* unbound, and no new one gets in.
BindingHasInstance == bound => broker.has

\* With caches that have caught up, an instance that is removed leaves no
\* credential behind, except one that was created afterwards and is not bound.
RemovedInstanceHasNoBinding == removed # Absent => ~bound /\ secret # "own"

\* Instance and credential go away when both are deleted, if the instance had
\* its class and plan by then.
BothGoAway ==
    (InstanceDeleting /\ api.refs /\ cApi # Absent /\ cApi.del) ~> (api = Absent /\ cApi = Absent)

-----------------------------------------------------------------------------
(* What the documents say and the code does not do.                        *)

\* docs/design.md: "you can not delete a Service Instance while there are
\* ServiceInstanceCredentials associated with it".
NotDeletedUnderCredential ==
    [][api # Absent /\ api' = Absent => cApi = Absent]_pairVars

\* docs/design.md: "Attempting to delete an ServiceInstance that still has a
\* ServiceInstanceCredential will fail".
DeletionWithCredentialFails ==
    [][api # Absent /\ ~api.del /\ api' # Absent /\ api'.del => cApi = Absent]_pairVars

\* docs/design.md: first the credentials are deleted, then the instance.  When
\* a user has deleted both, both go away.
DeletedTogetherGoAway ==
    (InstanceDeleting /\ cApi # Absent /\ cApi.del) ~> (api = Absent /\ cApi = Absent)
=============================================================================
