-------------------- MODULE InstanceAndCredentialProofs --------------------
(***************************************************************************)
(* For every value of the constants: what is proved of an instance by      *)
(* itself holds when a credential is created for it, bound and unbound; a  *)
(* bind is never sent before the instance was provisioned; and with caches *)
(* that have caught up (Lag = "none") the broker holds no binding of an    *)
(* instance it does not have, and a removed instance leaves no binding and *)
(* no secret behind.                                                       *)
(*                                                                         *)
(* The argument.  A step of the pair is a step of the instance by itself,  *)
(* a deletion that a credential blocks, or leaves the instance alone; all  *)
(* three preserve the instance's invariants.  Every version that is Ready, *)
(* however old, was provisioned, and stays so until a deprovision is sent  *)
(* (PromiseInv); a bind starts from such a version, so the first theorem   *)
(* needs nothing of the caches.  The others do: when the worker that takes *)
(* a deletion sees every credential, none is stored when a deprovision or  *)
(* the removal of the finalizer begins, and the admission plugin lets none *)
(* in after that (Over); or the instance has failed for good, and is never *)
(* Ready again, so that nothing is bound to it (EndInv).  A credential     *)
(* goes away only when it is unbound and its secret ejected                *)
(* (CredentialInv).                                                        *)
(***************************************************************************)
EXTENDS InstanceAndCredential, ServiceInstanceStatusProofs

\* More time than by default, for a slow machine.
USE SMTT(30), ZenonT(30)

\* The broker has made the instance, or was asked to release it.
Provisioned == broker.has \/ deprovisioned

\* A version that is Ready, however old, was provisioned; so was an instance
\* that has a binding or is about to get one.
PromiseInv ==
    /\ broker.busy = "deprovisioning" => deprovisioned
    /\ \A o \in Versions : o # Absent => (o.ready = "True" => Provisioned)
    /\ bound \/ cPc \in {"startBind", "bind"} => Provisioned

\* A credential, and a version of one.
Credential == C!Object
CVersion == C!Object \cup {Absent}

\* The control points of its worker.
CStages == {"startBind", "bind", "inject", "eject", "startUnbind", "unbind", "write"}

\* The last version on its way is the stored one, and all have the finalizer.
CVersionsInv ==
    /\ cApi \in CVersion /\ cCached \in CVersion /\ cWatch \in Seq(CVersion)
    /\ IF cWatch = <<>> THEN cCached = cApi ELSE cWatch[Len(cWatch)] = cApi
    /\ cApi # Absent => cApi.fin
    /\ cCached # Absent => cCached.fin
    /\ \A i \in 1..Len(cWatch) : cWatch[i] # Absent => cWatch[i].fin

\* The worker has a copy only of a credential that is there, and takes the
\* finalizer away only when the broker and the secret are done with.
CWorkerInv ==
    /\ cPc = "idle" \/ (cPc \in CStages /\ cLocal \in Credential /\ cApi # Absent)
    /\ cPc \in CStages \ {"write"} => cLocal.fin
    /\ cPc = "write" => (cLocal.fin \/ (cLocal.del /\ ~bound /\ secret # "own"))
    /\ cPc \in {"eject", "startUnbind", "unbind"} => cLocal.del \/ cLocal.orphan
    /\ cPc \in {"startUnbind", "unbind"} => secret # "own"

\* A credential that is gone has left nothing behind.
CredentialInv ==
    /\ CVersionsInv /\ CWorkerInv
    /\ cApi = Absent => ~bound /\ secret # "own"

\* There is nothing to unbind, and nothing about to be bound.
Nothing == ~bound /\ secret # "own" /\ cPc \notin {"startBind", "bind", "inject"}

\* The instance is being released, or gone.
Ending ==
    \/ api = Absent \/ deprovisioned \/ pc \in {"startDeprovision", "deprovision"}
    \/ pc = "write" /\ fresh /\ ~local.fin

\* No credential will be bound to the stored instance.
Over == Spent(api) \/ (api.del /\ cApi = Absent)

\* The order in which instance and binding end, and what is removed is gone.
EndInv == (Ending => Nothing /\ Over) /\ (removed # Absent => api = Absent)

-----------------------------------------------------------------------------
(* The steps of the pair, as steps of the instance.                        *)

\* The credential, and what the admission plugin sees, do not change.
CredentialRests == UNCHANGED <<cApi, cWatch, cCached, cPc, cLocal, bound, secret, closed>>

\* The instance does not change; only a fault may be counted.
InstanceRests ==
    /\ UNCHANGED <<api, watch, cached, pc, local, fresh, after, queued, delayed, failures,
                   polling, gaveUp, broker, crashes, deprovisioned, rejected, removed>>
    /\ faults' = faults \/ (faults < MaxFaults /\ faults' = faults + 1)

\* The worker of the instance; it takes a deletion only when no credential is
\* in the cache.
InstanceWorks ==
    /\ Worker /\ CredentialRests
    /\ pc = "idle" /\ cached # Absent => (ToDelete(cached) =>
          cCached = Absent /\ (Lag = "none" => cWatch = <<>>))

\* Deletion is blocked by a credential.
InstanceBlocked ==
    /\ TakeInstance /\ ToDelete(cached) /\ UNCHANGED faults
    /\ WriteThenReturn(SetReady(cached, "False"), "ok")
    /\ CredentialRests

\* The other steps of the instance's side.
InstanceOther ==
    /\ InformerEvent \/ Resync \/ RetryDue \/ RequeueForPoll \/ BrokerFinish \/ UserDelete
    /\ CredentialRests

\* The worker of the credential.
CredentialWorks ==
    /\ InstanceRests /\ UNCHANGED closed /\ C!Worker
    /\ cPc = "idle" /\ Lag = "none" => watch = <<>>

\* The informer, the timers and the user of the credential.
CredentialOther ==
    /\ InstanceRests /\ UNCHANGED closed
    /\ C!InformerEvent \/ C!Resync \/ C!RetryDue \/ C!UserDelete

\* The admission plugin and the creation of a credential.
AdmissionSteps == InstanceRests /\ (AdmissionEvent \/ CreateCredential)

\* Nothing happens.
NoStep == UNCHANGED vars /\ CredentialRests

\* Every step of the pair is one of these.
LEMMA PairSteps ==
    ASSUME [PairNext]_pairVars
    PROVE  \/ InstanceWorks \/ InstanceBlocked \/ InstanceOther
           \/ CredentialWorks \/ CredentialOther \/ AdmissionSteps \/ CrashBoth \/ NoStep
<1>1. CASE InstanceWorker
  BY <1>1 DEF InstanceWorker, credentialVars, CredentialRests, TakesDeletion, Blocked, InstanceWorks
<1>2. CASE BlockedByCredential
  BY <1>2 DEF BlockedByCredential, TakesDeletion, credentialVars, CredentialRests, InstanceBlocked
<1>3. CASE \/ InstanceInformer \/ InstanceResync \/ InstanceRetry
           \/ InstancePoll \/ InstanceAtBroker \/ DeleteInstance
  <2>1. CredentialRests
    BY <1>3 DEF InstanceInformer, InstanceResync, InstanceRetry, InstancePoll,
       InstanceAtBroker, DeleteInstance, credentialVars, CredentialRests
  <2>2. InformerEvent \/ Resync \/ RetryDue \/ RequeueForPoll \/ BrokerFinish \/ UserDelete
    BY <1>3 DEF InstanceInformer, InstanceResync, InstanceRetry,
       InstancePoll, InstanceAtBroker, DeleteInstance
  <2> QED  BY <2>1, <2>2 DEF InstanceOther
<1>4. CASE CredentialWorker
  <2>1. C!Worker /\ UNCHANGED instanceVars /\ UNCHANGED closed
        /\ (cPc = "idle" /\ Lag = "none" => watch = <<>>)
    BY <1>4 DEF CredentialWorker
  <2>2. crashes' = crashes /\ (faults' = faults \/ (faults < MaxFaults /\ faults' = faults + 1))
    BY Zenon, <2>1 DEF C!Worker, C!Reconcile, C!Write, C!Call, C!ReconcileNothing,
       C!LookupFails, C!NoClient, C!InstanceUnfit, C!BeginBind, C!BeginUnbind,
       C!WriteFails, C!RecordStartOfOperation, C!UpdateStatus, C!BindOK,
       C!BindRejected, C!BindAmbiguous, C!BindError, C!InjectOK, C!InjectFails,
       C!EjectOK, C!EjectFails, C!UnbindOK, C!UnbindRejected, C!UnbindError,
       C!Fault, C!Take, C!TakeCredential, C!CallFrame
  <2> QED  BY <2>1, <2>2 DEF CredentialWorks, InstanceRests, instanceVars
<1>5. CASE \/ CredentialInformer \/ CredentialResync \/ CredentialRetry
           \/ DeleteCredential
  BY <1>5 DEF CredentialInformer, CredentialResync, CredentialRetry,
     DeleteCredential, instanceVars, CredentialOther, InstanceRests, C!InformerEvent,
     C!Resync, C!RetryDue, C!UserDelete
<1>6. CASE AdmissionEvent \/ CreateCredential
  BY <1>6 DEF AdmissionEvent, CreateCredential, instanceVars, AdmissionSteps, InstanceRests
<1>7. CASE UNCHANGED pairVars
  BY <1>7 DEF pairVars, instanceVars, credentialVars, NoStep, CredentialRests,
     vars, storeVars, workerVars, queueVars, historyVars
<1> QED  BY <1>1, <1>2, <1>3, <1>4, <1>5, <1>6, <1>7 DEF PairNext

-----------------------------------------------------------------------------
(* The invariants of the instance hold beside a credential.                *)

\* These steps of the pair are steps of the instance.
OwnStep == InstanceWorks \/ InstanceOther \/ CrashBoth \/ NoStep

\* The instance takes them as if it were alone.
LEMMA OwnSteps == OwnStep => [Next]_vars
  BY DEF OwnStep, InstanceWorks, InstanceOther, CrashBoth, NoStep, Next, Environment

\* A blocked deletion changes neither the versions nor the broker.
LEMMA BlockedShape ==
    ASSUME IInv, SInv, InstanceBlocked
    PROVE  /\ pc = "idle" /\ UNCHANGED <<api, watch, cached, broker, deprovisioned, removed>>
           /\ TakesOver /\ TakesSoundly /\ Scalars'
<1>1. /\ TakeInstance /\ ToDelete(cached) /\ faults' = faults /\ cached # Absent
      /\ WriteThenReturn(SetReady(cached, "False"), "ok") /\ fresh' = (watch = <<>>)
  BY DEF InstanceBlocked, TakeInstance
<1>2. /\ pc = "idle" /\ queued' = FALSE
      /\ UNCHANGED <<api, watch, cached, broker, crashes, deprovisioned, rejected, removed>>
      /\ UNCHANGED <<delayed, failures, polling, gaveUp>>
  BY <1>1 DEF TakeInstance, Take, storeVars, historyVars
<1>3. pc' = "write" /\ local' = SetReady(cached, "False") /\ after' = "ok"
  BY <1>1 DEF WriteThenReturn
<1>4. cached \in Object /\ Coherent(cached)
  BY <1>1 DEF IInv, TypeOK, VersionsInv, VersionsCoherent
<1>5. Evolves(cached, local') BY <1>3, <1>4, SetReadyEvolves, EvolvesRefl
<1>6. TakesOver BY <1>1, <1>3, <1>4, <1>5 DEF TakesOver
<1>7. Pending(cached) /\ ~cached.async BY <1>1, CachedFacts DEF Pending, ToDelete
<1>8. TakesSoundly BY <1>1, <1>7, ReportShape
<1>9. Scalars'
  <2>1. Scalars BY TypeParts DEF IInv
  <2>2. fresh' \in BOOLEAN BY <1>1
  <2> QED BY Zenon, <1>1, <1>2, <1>3, <2>1, <2>2 DEF Scalars
<1> QED BY <1>2, <1>6, <1>8, <1>9

\* The steps of the credential leave the instance's part well typed.
LEMMA RestsShape ==
    ASSUME IInv, InstanceRests
    PROVE  /\ UNCHANGED <<api, watch, cached, pc, local, fresh, broker, deprovisioned, removed>>
           /\ Scalars'
<1>1. Scalars BY TypeParts DEF IInv
<1>2. faults' \in 0..MaxFaults
  <2>1. MaxFaults \in Nat BY Zenon, InstanceAssumption DEF InstanceAssumption
  <2> QED BY <1>1, <2>1 DEF Scalars, InstanceRests
<1> QED BY <1>1, <1>2 DEF Scalars, InstanceRests

\* The steps that the instance does not take as if it were alone.
GuestStep == InstanceBlocked \/ InstanceRests

\* They store nothing and preserve what the instance's invariants say.
LEMMA GuestSteps ==
    ASSUME IInv, SInv, GuestStep
    PROVE  /\ UNCHANGED <<api, watch, cached, broker, deprovisioned, removed>>
           /\ IInv' /\ StatusStep
<1>1. /\ UNCHANGED <<api, watch, cached, broker, deprovisioned, removed>>
      /\ Scalars' /\ Objects' /\ Meaning' /\ StatusStep
  <2>1. CASE InstanceBlocked BY <2>1, BlockedShape, TakenStep, TakenStatus
  <2>2. CASE InstanceRests BY <2>2, RestsShape, QuietStep, QuietStatus
  <2> QED BY <2>1, <2>2 DEF GuestStep
<1>2. TypeOK' <=> Scalars' /\ Objects' BY DEF TypeOK, Scalars, Objects
<1> QED BY <1>1, <1>2 DEF IInv, Meaning

\* Every step of the pair is one or the other.
LEMMA TwoKinds == [PairNext]_pairVars => OwnStep \/ GuestStep
  BY PairSteps DEF OwnStep, GuestStep, CredentialWorks, CredentialOther, AdmissionSteps

\* What every step of the pair does to the versions and to the status.
LEMMA PairStatus ==
    ASSUME IInv, SInv, [PairNext]_pairVars
    PROVE  /\ IInv' /\ SInv' /\ Versions' \subseteq Versions \cup {api'}
           /\ Spent(api) => Spent(api')
<1>1. CASE OwnStep
  <2>1. [Next]_vars BY <1>1, OwnSteps
  <2>2. IInv' /\ SInv' /\ Versions' \subseteq Versions \cup {api'}
    BY <2>1, StepInv, StepStatus, VersionsStep
  <2>3. Spent(api) => Spent(api') BY <2>1, NextStatus DEF StatusStep
  <2> QED BY <2>2, <2>3
<1>2. CASE GuestStep
  <2>1. /\ UNCHANGED <<api, watch, cached, broker, deprovisioned, removed>>
        /\ IInv' /\ StatusStep
    BY <1>2, GuestSteps
  <2>2. Versions' = Versions BY <2>1 DEF Versions
  <2>3. StoredInv' /\ SpentInv' BY <2>1, <2>2 DEF SInv, StoredInv, SpentInv
  <2> QED BY <2>1, <2>2, <2>3 DEF StatusStep, SInv
<1> QED BY <1>1, <1>2, TwoKinds

-----------------------------------------------------------------------------
(* A bind follows a provision.                                             *)

\* What the broker was asked to release, it was asked to release; and what it
\* has made stays made until then.
BrokerKeeps ==
    /\ broker'.busy = "deprovisioning" => deprovisioned'
    /\ deprovisioned => deprovisioned'
    /\ Provisioned => Provisioned'

\* The steps of the instance keep it so.
LEMMA BrokerStep ==
    ASSUME IInv, SInv, [Next]_vars, broker.busy = "deprovisioning" => deprovisioned
    PROVE  BrokerKeeps
<1>1. CASE UNCHANGED <<broker, deprovisioned>> BY <1>1 DEF BrokerKeeps, Provisioned
<1>2. CASE Call
  <2>1. CASE pc = "provision"
    <3>1. ProvisionOutcome BY <1>2, <2>1, ProvisionCall
    <3>2. deprovisioned' = deprovisioned BY <1>2, <2>1, CallShape DEF IInv
    <3> QED BY <3>1, <3>2 DEF ProvisionOutcome, BrokerKeeps, Provisioned
  <2>2. CASE pc = "deprovision"
    <3>1. deprovisioned' BY <1>2, <2>2, DeprovisionCall DEF DeprovisionOutcome
    <3> QED BY <3>1 DEF BrokerKeeps, Provisioned
  <2>3. pc \in {"provision", "deprovision"} BY <1>2, CallShape DEF IInv
  <2> QED BY <2>1, <2>2, <2>3
<1>3. CASE BrokerFinish
  <2>1. broker.busy # "none" /\ deprovisioned' = deprovisioned
    BY <1>3 DEF BrokerFinish, historyVars
  <2>2. broker \in [has : BOOLEAN, busy : {"none", "provisioning", "deprovisioning"},
                    last : {"succeeded", "failed"}]
    BY DEF IInv, TypeOK
  <2>3. broker.busy = "provisioning" \/ deprovisioned BY <2>1, <2>2
  <2>4. broker'.busy = "none" /\ (broker.busy = "provisioning" /\ broker.has => broker'.has)
    <3>1. CASE broker' = [has |-> broker.busy = "provisioning", busy |-> "none",
                          last |-> "succeeded"]
      BY <3>1, Zenon
    <3>2. CASE broker' = [broker EXCEPT !.busy = "none", !.last = "failed"]
      BY <2>2, <3>2
    <3> QED BY <1>3, <3>1, <3>2 DEF BrokerFinish
  <2> QED BY <2>1, <2>3, <2>4 DEF BrokerKeeps, Provisioned
<1>4. CASE Reconcile BY <1>1, <1>4, TakenSoundly
<1>5. CASE Write
  <2>1. UNCHANGED <<broker, deprovisioned>>
    BY <1>5 DEF Write, WriteFails, UpdateReferences, RecordStartOfOperation, UpdateStatus
  <2> QED BY <1>1, <2>1
<1>6. CASE Poll
  <2>1. UNCHANGED <<broker, deprovisioned>>
    BY <1>6 DEF Poll, PollStops, PollInProgress, PollSucceeded, PollFailed, PollError,
       PollInvalid, PollFrame, PollReturn, historyVars
  <2> QED BY <1>1, <2>1
<1>7. CASE InformerEvent \/ Resync \/ RetryDue \/ RequeueForPoll \/ Environment \/ UNCHANGED vars
  <2>1. UNCHANGED <<broker, deprovisioned>>
    BY <1>7 DEF InformerEvent, Resync, RetryDue, RequeueForPoll, Environment, UserDelete,
       UserEdit, Crash, vars, historyVars
  <2> QED BY <1>1, <2>1
<1> QED BY <1>2, <1>3, <1>4, <1>5, <1>6, <1>7 DEF Next, Worker

\* So do the steps of the pair.
LEMMA PairBroker ==
    ASSUME IInv, SInv, [PairNext]_pairVars, broker.busy = "deprovisioning" => deprovisioned
    PROVE  BrokerKeeps
<1>1. CASE OwnStep BY <1>1, OwnSteps, BrokerStep
<1>2. CASE GuestStep BY <1>2, GuestSteps DEF BrokerKeeps, Provisioned
<1> QED BY <1>1, <1>2, TwoKinds

\* A worker begins to bind only when the cached instance is Ready, and only
\* Bind makes a binding.
LEMMA BindEntry ==
    ASSUME C!Worker
    PROVE  /\ bound' => bound \/ cPc = "bind"
           /\ cPc' \in {"startBind", "bind"} =>
                \/ cPc \in {"startBind", "bind"}
                \/ cPc = "idle" /\ View(cached) = "ready"
<1>1. CASE C!Reconcile
  BY <1>1 DEF C!Reconcile, C!ReconcileNothing, C!LookupFails, C!NoClient,
     C!InstanceUnfit, C!BeginBind, C!BeginUnbind, C!TakeCredential,
     C!Take, C!outside, C!Return, C!WriteThenReturn, C!Continue
<1>2. CASE C!Write
  BY <1>2 DEF C!Write, C!WriteFails, C!RecordStartOfOperation,
     C!UpdateStatus, C!outside, C!Return, C!Continue
<1>3. CASE C!Call
  <2>1. cPc' \notin {"startBind", "bind"}
    BY Zenon, <1>3 DEF C!Call, C!BindOK, C!BindRejected, C!BindAmbiguous,
       C!BindError, C!InjectOK, C!InjectFails, C!EjectOK, C!EjectFails,
       C!UnbindOK, C!UnbindRejected, C!UnbindError, C!WriteThenReturn,
       C!Continue
  <2>2. bound' => bound \/ cPc = "bind"
    BY Zenon, <1>3 DEF C!Call, C!BindOK, C!BindRejected, C!BindAmbiguous,
       C!BindError, C!InjectOK, C!InjectFails, C!EjectOK, C!EjectFails,
       C!UnbindOK, C!UnbindRejected, C!UnbindError
  <2> QED BY <2>1, <2>2
<1> QED BY <1>1, <1>2, <1>3 DEF C!Worker

\* No other step binds.
LEMMA BindsElsewhere ==
    ASSUME \/ InstanceWorks \/ InstanceBlocked \/ InstanceOther
           \/ CredentialOther \/ AdmissionSteps \/ CrashBoth \/ NoStep
    PROVE  bound' = bound /\ (cPc' = cPc \/ cPc' = "idle")
<1>1. CASE InstanceWorks \/ InstanceBlocked \/ InstanceOther \/ NoStep
  BY <1>1 DEF InstanceWorks, InstanceBlocked, InstanceOther, NoStep, CredentialRests
<1>2. CASE CredentialOther
  BY <1>2 DEF CredentialOther, C!InformerEvent, C!Resync, C!RetryDue,
     C!UserDelete, C!workerVars, C!outside
<1>3. CASE AdmissionSteps
  BY <1>3 DEF AdmissionSteps, AdmissionEvent, CreateCredential, credentialVars
<1>4. CASE CrashBoth BY <1>4 DEF CrashBoth, C!Restart
<1> QED BY <1>1, <1>2, <1>3, <1>4

\* The promise is kept by every step of the pair.
LEMMA PromiseStep ==
    ASSUME IInv, SInv, PromiseInv, [PairNext]_pairVars
    PROVE  PromiseInv'
<1>1. BrokerKeeps BY PairBroker DEF PromiseInv
<1>2. IInv' /\ SInv' /\ Versions' \subseteq Versions \cup {api'} BY PairStatus
<1>3. ASSUME NEW o \in Versions', o # Absent, o.ready = "True" PROVE Provisioned'
  <2>1. CASE o \in Versions BY <1>1, <1>3, <2>1 DEF PromiseInv, BrokerKeeps
  <2>2. CASE o = api'
    <3>1. Honest(api)' BY <1>2, <1>3, <2>2 DEF SInv, HonestInv
    <3> QED BY <1>3, <2>2, <3>1 DEF Honest, Provisioned
  <2> QED BY <1>2, <1>3, <2>1, <2>2
<1>4. ASSUME bound' \/ cPc' \in {"startBind", "bind"} PROVE Provisioned'
  <2>1. CASE CredentialWorks
    <3>1. /\ bound' => bound \/ cPc = "bind"
          /\ cPc' \in {"startBind", "bind"} =>
               cPc \in {"startBind", "bind"} \/ View(cached) = "ready"
      BY <2>1, BindEntry DEF CredentialWorks
    <3>2. View(cached) = "ready" => cached # Absent /\ cached.ready = "True"
      BY DEF View
    <3>3. cached # Absent => cached \in Versions BY DEF Versions
    <3>4. Provisioned BY <1>4, <3>1, <3>2, <3>3 DEF PromiseInv
    <3> QED BY <1>1, <3>4 DEF BrokerKeeps
  <2>2. CASE ~CredentialWorks
    <3>1. bound' = bound /\ (cPc' = cPc \/ cPc' = "idle")
      BY <2>2, PairSteps, BindsElsewhere
    <3> QED BY <1>1, <1>4, <3>1 DEF PromiseInv, BrokerKeeps
  <2> QED BY <2>1, <2>2
<1> QED BY <1>1, <1>3, <1>4 DEF PromiseInv, BrokerKeeps

\* There is no credential at first, and the instance is not Ready.
LEMMA InitPromise == PairInit => IInv /\ SInv /\ PromiseInv
<1> SUFFICES ASSUME PairInit PROVE IInv /\ SInv /\ PromiseInv OBVIOUS
<1>1. Init BY DEF PairInit
<1>2. IInv /\ SInv BY <1>1, InitInv, InitStatus
<1>3. /\ api = NewInstance /\ watch = <<NewInstance>> /\ cached = Absent
      /\ broker.busy = "none"
  BY <1>1 DEF Init
<1>4. \A o \in Versions : o = NewInstance
  <2>1. Len(watch) = 1 /\ watch[1] = NewInstance BY <1>3
  <2> QED BY <1>3, <2>1 DEF Versions
<1>5. NewInstance.ready # "True" BY DEF NewInstance
<1>6. bound = FALSE /\ cPc = "idle" BY DEF PairInit
<1> QED BY <1>2, <1>3, <1>4, <1>5, <1>6 DEF PromiseInv

\* What is proved of an instance by itself holds when a credential of it is
\* created, bound, unbound and blocks its deletion.
THEOREM InstanceBesideCredential == PairSpec => [](IInv /\ SInv)
<1>1. PairInit => IInv /\ SInv BY InitPromise
<1>2. IInv /\ SInv /\ [PairNext]_pairVars => (IInv /\ SInv)' BY PairStatus
<1> QED BY <1>1, <1>2, PTL DEF PairSpec

\* Nothing that is Ready or bound was not provisioned.
THEOREM PromisesAreKept == PairSpec => []PromiseInv
<1>1. PairInit => PromiseInv BY InitPromise
<1>2. IInv /\ SInv /\ PromiseInv /\ [PairNext]_pairVars => PromiseInv' BY PromiseStep
<1> QED BY <1>1, <1>2, InstanceBesideCredential, PTL DEF PairSpec

\* A bind is sent only for an instance that the broker has made, however old
\* the version of the instance is that the credential's reconciler has read.
THEOREM BindsFollowProvisions == PairSpec => []BindFollowsProvision
<1>1. PromiseInv => BindFollowsProvision
  BY DEF PromiseInv, Provisioned, BindFollowsProvision
<1> QED BY <1>1, PromisesAreKept, PTL

-----------------------------------------------------------------------------
(* The credential, when the caches have caught up.                         *)

\* The copy p says the same as o of the deletion and the finalizer.
Keeps(o, p) == p \in Credential /\ p.del = o.del /\ p.fin = o.fin

\* The status helpers of the credential's reconciler.
LEMMA CredentialHelpers ==
    ASSUME NEW o \in Credential, NEW s \in {"unset", "True", "False", "Unknown"},
           NEW operation \in {"Bind", "Unbind"}
    PROVE  /\ Keeps(o, C!SetReady(o, s)) /\ C!SetReady(o, s).orphan = o.orphan
           /\ Keeps(o, C!ClearCurrentOperation(o))
           /\ Keeps(o, C!StartOrphanMitigation(o))
           /\ Keeps(o, C!RecordStart(o, operation))
           /\ C!RecordStart(o, operation).orphan = o.orphan
  BY Zenon DEF Credential, Keeps, C!Object, C!SetReady, C!ClearCurrentOperation,
         C!StartOrphanMitigation, C!RecordStart

\* Single fields.
LEMMA CredentialEdits ==
    ASSUME NEW o \in Credential, NEW b \in BOOLEAN
    PROVE  /\ Keeps(o, [o EXCEPT !.inProg = b]) /\ [o EXCEPT !.inProg = b].orphan = o.orphan
           /\ Keeps(o, [o EXCEPT !.ext = b]) /\ [o EXCEPT !.ext = b].orphan = o.orphan
           /\ Keeps(o, [o EXCEPT !.failed = b]) /\ [o EXCEPT !.failed = b].orphan = o.orphan
           /\ Keeps(o, [o EXCEPT !.started = b]) /\ [o EXCEPT !.started = b].orphan = o.orphan
           /\ [o EXCEPT !.ext = FALSE, !.fin = b] \in Credential
           /\ [o EXCEPT !.ext = FALSE, !.fin = b].del = o.del
           /\ [o EXCEPT !.ext = FALSE, !.fin = b].fin = b
  BY Zenon DEF Credential, Keeps, C!Object

\* One change after another.
LEMMA KeepsTrans ==
    ASSUME NEW o, NEW p, NEW q, Keeps(o, p), Keeps(p, q) PROVE Keeps(o, q)
  BY DEF Keeps

\* A call of the broker or for the secret.
CredentialCalls ==
    /\ UNCHANGED <<cApi, cWatch, cCached>> /\ cLocal' \in Credential
    /\ \/ cPc = "bind" /\ cPc' \in {"inject", "write"} /\ cLocal'.fin
       \/ cPc = "inject" /\ cPc' = "write" /\ cLocal'.fin
       \/ /\ cPc = "eject" /\ cLocal'.fin
          /\ bound' = bound /\ (secret' = "own" => secret = "own")
          /\ \/ cPc' = "write"
             \/ /\ cPc' \in {"startUnbind", "unbind"} /\ secret' # "own"
                /\ cLocal'.del \/ cLocal'.orphan
       \/ /\ cPc = "unbind" /\ cPc' = "write"
          /\ (bound' => bound) /\ secret' = secret
          /\ cLocal'.fin \/ (cLocal'.del /\ ~bound')

\* Bind and the injection.
LEMMA BindCalls ==
    ASSUME CWorkerInv, \/ C!BindOK \/ C!BindRejected \/ C!BindAmbiguous
                       \/ C!BindError \/ C!InjectOK \/ C!InjectFails
    PROVE  CredentialCalls
<1>1. cPc \in {"bind", "inject"} /\ UNCHANGED <<cApi, cWatch, cCached>>
  BY Zenon DEF C!BindOK, C!BindRejected, C!BindAmbiguous, C!BindError,
     C!InjectOK, C!InjectFails, C!CallFrame, C!storeVars
<1>2. cLocal \in Credential /\ cLocal.fin BY <1>1 DEF CWorkerInv, CStages
<1>3. cLocal.inProg \in BOOLEAN BY <1>2 DEF Credential, C!Object
<1> DEFINE e == [cLocal EXCEPT !.ext = cLocal.inProg]
           f == [cLocal EXCEPT !.failed = TRUE]
           r == C!SetReady(cLocal, "False")
           g == [r EXCEPT !.failed = TRUE]
<1>4. Keeps(cLocal, e) /\ Keeps(cLocal, f) /\ Keeps(cLocal, r)
  BY Zenon, <1>2, <1>3, CredentialEdits, CredentialHelpers
<1>5. e \in Credential /\ f \in Credential /\ r \in Credential BY <1>4 DEF Keeps
<1>6. Keeps(cLocal, g) BY Zenon, <1>4, <1>5, CredentialEdits, KeepsTrans
<1>7. g \in Credential BY <1>6 DEF Keeps
<1> HIDE DEF f, r, g
<1> DEFINE a == C!ClearCurrentOperation(C!SetReady(f, "False"))
           b == C!StartOrphanMitigation(cLocal)
           c == C!ClearCurrentOperation(g)
           d == C!SetReady(C!ClearCurrentOperation(cLocal), "True")
           h == C!StartOrphanMitigation(r)
<1>8. Keeps(cLocal, a)
  <2>1. Keeps(f, C!SetReady(f, "False")) BY <1>5, CredentialHelpers
  <2>2. Keeps(C!SetReady(f, "False"), a) BY <2>1, CredentialHelpers DEF Keeps
  <2> QED BY <1>4, <2>1, <2>2, KeepsTrans
<1>9. Keeps(cLocal, b) /\ Keeps(cLocal, c) /\ Keeps(cLocal, h)
  BY <1>2, <1>4, <1>5, <1>6, <1>7, CredentialHelpers, KeepsTrans
<1>10. Keeps(cLocal, d)
  <2>1. Keeps(cLocal, C!ClearCurrentOperation(cLocal)) BY <1>2, CredentialHelpers
  <2>2. Keeps(C!ClearCurrentOperation(cLocal), d) BY <2>1, CredentialHelpers DEF Keeps
  <2> QED BY <2>1, <2>2, KeepsTrans
<1> HIDE DEF e, a, b, c, d, h
<1>11. /\ cLocal' \in {e, a, b, r, c, d, h}
       /\ cPc' \in {"inject", "write"} /\ (cPc' = "inject" => cPc = "bind")
  BY Zenon DEF C!BindOK, C!BindRejected, C!BindAmbiguous, C!BindError,
     C!InjectOK, C!InjectFails, C!Continue, C!WriteThenReturn,
     e, f, r, g, a, b, c, d, h
<1>12. Keeps(cLocal, cLocal') BY <1>4, <1>8, <1>9, <1>10, <1>11
<1> QED BY <1>1, <1>2, <1>11, <1>12 DEF CredentialCalls, Keeps

\* The ejection of the secret.
LEMMA EjectCalls ==
    ASSUME CWorkerInv, C!EjectOK \/ C!EjectFails PROVE CredentialCalls
<1>1. cPc = "eject" /\ UNCHANGED <<cApi, cWatch, cCached>> /\ bound' = bound
  BY DEF C!EjectOK, C!EjectFails, C!CallFrame, C!storeVars
<1>2. cLocal \in Credential /\ cLocal.fin /\ (cLocal.del \/ cLocal.orphan)
  BY <1>1 DEF CWorkerInv, CStages
<1> DEFINE t == cLocal.started \/ cLocal.orphan
           s == [cLocal EXCEPT !.started = t]
           u == C!RecordStart(cLocal, "Unbind")
           k == C!SetReady(cLocal, "Unknown")
<1>3. t \in BOOLEAN OBVIOUS
<1> HIDE DEF t
<1>4. /\ Keeps(cLocal, s) /\ s.orphan = cLocal.orphan
      /\ Keeps(cLocal, u) /\ u.orphan = cLocal.orphan /\ Keeps(cLocal, k)
  BY Zenon, <1>2, <1>3, CredentialEdits, CredentialHelpers
<1> HIDE DEF s, u, k
<1>5. CASE C!EjectOK
  <2>1. secret' = "none" /\ \/ cPc' = "startUnbind" /\ cLocal' = u
                            \/ cPc' = "unbind" /\ cLocal' = s
    BY <1>5 DEF C!EjectOK, C!Continue, s, t, u
  <2> QED BY Zenon, <1>1, <1>2, <1>4, <2>1 DEF CredentialCalls, Keeps
<1>6. CASE C!EjectFails
  <2>1. secret' \in {secret, "none"} /\ cPc' = "write" /\ cLocal' = k
    BY <1>6 DEF C!EjectFails, C!WriteThenReturn, k
  <2> QED BY Zenon, <1>1, <1>2, <1>4, <2>1 DEF CredentialCalls, Keeps
<1> QED BY <1>5, <1>6

\* Unbind: only its success takes the finalizer away, of a deleted credential.
LEMMA UnbindCalls ==
    ASSUME CWorkerInv, C!UnbindOK \/ C!UnbindRejected \/ C!UnbindError
    PROVE  CredentialCalls
<1>1. /\ cPc = "unbind" /\ cPc' = "write" /\ UNCHANGED <<cApi, cWatch, cCached, secret>>
      /\ bound' => bound
  <2>1. /\ cPc = "unbind" /\ cPc' = "write" /\ UNCHANGED secret /\ C!CallFrame
        /\ bound' = FALSE \/ bound' = bound
    BY Zenon DEF C!UnbindOK, C!UnbindRejected, C!UnbindError, C!WriteThenReturn
  <2> QED BY <2>1 DEF C!CallFrame, C!storeVars
<1>2. cLocal \in Credential /\ cLocal.fin /\ (cLocal.del \/ cLocal.orphan)
  BY <1>1 DEF CWorkerInv, CStages
<1> DEFINE x == cLocal.fin /\ cLocal.orphan
           y == cLocal.failed \/ ~cLocal.orphan
           n == [cLocal EXCEPT !.ext = FALSE, !.fin = x]
           m == [cLocal EXCEPT !.failed = y]
           k == C!SetReady(cLocal, "Unknown")
           j == [k EXCEPT !.failed = TRUE]
<1>3. x \in BOOLEAN /\ y \in BOOLEAN OBVIOUS
<1>4. x <=> cLocal.orphan BY <1>2
<1> HIDE DEF x, y
<1>5. /\ n \in Credential /\ n.del = cLocal.del /\ n.fin = x
      /\ Keeps(cLocal, m) /\ Keeps(cLocal, k)
  BY Zenon, <1>2, <1>3, CredentialEdits, CredentialHelpers
<1>6. m \in Credential /\ k \in Credential BY <1>5 DEF Keeps
<1>7. Keeps(cLocal, j) BY Zenon, <1>5, <1>6, CredentialEdits, KeepsTrans
<1>8. j \in Credential BY <1>7 DEF Keeps
<1> HIDE DEF n, m, k, j
<1>9. ASSUME NEW o \in Credential, NEW st \in {"False", "Unknown"}
      PROVE  Keeps(o, C!ClearCurrentOperation(C!SetReady(o, st)))
  <2>1. Keeps(o, C!SetReady(o, st)) BY CredentialHelpers
  <2>2. Keeps(C!SetReady(o, st), C!ClearCurrentOperation(C!SetReady(o, st)))
    BY <2>1, CredentialHelpers DEF Keeps
  <2> QED BY <2>1, <2>2, KeepsTrans
<1>10. CASE C!UnbindOK
  <2>1. bound' = FALSE /\ cLocal' = C!ClearCurrentOperation(C!SetReady(n, "False"))
    BY <1>10 DEF C!UnbindOK, C!WriteThenReturn, n, x
  <2>2. cLocal' \in Credential /\ cLocal'.del = cLocal.del /\ cLocal'.fin = x
    BY <1>5, <1>9, <2>1 DEF Keeps
  <2>3. cLocal'.fin \/ cLocal'.del BY <1>2, <1>4, <2>2
  <2> QED BY <1>1, <2>1, <2>2, <2>3 DEF CredentialCalls
<1>11. CASE C!UnbindRejected \/ C!UnbindError
  <2>1. \/ cLocal' = C!ClearCurrentOperation(C!SetReady(m, "Unknown"))
        \/ cLocal' = k \/ cLocal' = C!ClearCurrentOperation(j)
    BY Zenon, <1>11 DEF C!UnbindRejected, C!UnbindError, C!WriteThenReturn, m, y, k, j
  <2>2. Keeps(cLocal, C!ClearCurrentOperation(C!SetReady(m, "Unknown")))
    BY <1>5, <1>6, <1>9, KeepsTrans
  <2>3. Keeps(cLocal, C!ClearCurrentOperation(j))
    BY <1>7, <1>8, CredentialHelpers, KeepsTrans
  <2>4. Keeps(cLocal, cLocal') BY <1>5, <2>1, <2>2, <2>3
  <2> QED BY <1>1, <1>2, <2>4 DEF CredentialCalls, Keeps
<1> QED BY <1>10, <1>11

\* Every call of the worker is one of these.
LEMMA CallsShape == ASSUME CWorkerInv, C!Call PROVE CredentialCalls
  BY BindCalls, EjectCalls, UnbindCalls DEF C!Call

\* A reconciliation begins with the stored credential, or returns at once.
CredentialTaken ==
    /\ cPc = "idle" /\ UNCHANGED <<cApi, cWatch, cCached, bound, secret>>
    /\ cWatch = <<>>
    /\ \/ cPc' = "idle"
       \/ /\ cCached # Absent /\ cLocal' \in Credential /\ cLocal'.fin = cCached.fin
          /\ \/ cPc' \in {"startBind", "bind"} /\ View(cached) = "ready"
             \/ cPc' = "eject" /\ (cLocal'.del \/ cLocal'.orphan)
             \/ cPc' = "write"

\* Every beginning of a reconciliation is such a step.
LEMMA TakesShape ==
    ASSUME Lag = "none", cCached \in CVersion, C!Reconcile PROVE CredentialTaken
<1>1. cPc = "idle" /\ UNCHANGED <<cApi, cWatch, cCached, bound, secret>> /\ cWatch = <<>>
  BY DEF C!Reconcile, C!ReconcileNothing, C!LookupFails, C!NoClient,
     C!InstanceUnfit, C!BeginBind, C!BeginUnbind, C!TakeCredential,
     C!Take, C!storeVars, C!outside
<1>2. CASE C!ReconcileNothing \/ C!NoClient
  <2>1. cPc' = "idle" BY <1>2 DEF C!ReconcileNothing, C!NoClient, C!Return
  <2> QED BY <1>1, <2>1 DEF CredentialTaken
<1>3. ASSUME C!TakeCredential PROVE cCached # Absent /\ cCached \in Credential
  BY <1>3 DEF C!TakeCredential, CVersion, Credential
<1>4. CASE C!LookupFails \/ C!InstanceUnfit
  <2>1. /\ C!TakeCredential /\ cPc' = "write"
        /\ cLocal' = C!SetReady(cCached, "False")
    BY <1>4 DEF C!LookupFails, C!InstanceUnfit, C!WriteThenReturn
  <2>2. Keeps(cCached, cLocal') BY <1>3, <2>1, CredentialHelpers
  <2> QED BY <1>1, <1>3, <2>1, <2>2 DEF CredentialTaken, Keeps
<1>5. CASE C!BeginBind
  <2> DEFINE o == [cCached EXCEPT !.inProg = TRUE]
  <2>1. /\ C!TakeCredential /\ View(cached) = "ready"
        /\ \/ cPc' = "startBind" /\ cLocal' = C!RecordStart(o, "Bind")
           \/ cPc' = "bind" /\ cLocal' = o
    BY <1>5 DEF C!BeginBind, C!Continue
  <2>2. Keeps(cCached, o) BY Zenon, <1>3, <2>1, CredentialEdits
  <2>3. o \in Credential BY <2>2 DEF Keeps
  <2> HIDE DEF o
  <2>4. Keeps(cCached, cLocal') BY <2>1, <2>2, <2>3, CredentialHelpers, KeepsTrans
  <2> QED BY <1>1, <1>3, <2>1, <2>4 DEF CredentialTaken, Keeps
<1>6. CASE C!BeginUnbind
  <2>1. /\ C!TakeCredential /\ cPc' = "eject" /\ cLocal' = cCached
        /\ cCached.del \/ cCached.orphan
    BY <1>6 DEF C!BeginUnbind, C!Continue, C!ToBind
  <2> QED BY <1>1, <1>3, <2>1 DEF CredentialTaken
<1> QED BY <1>2, <1>4, <1>5, <1>6 DEF C!Reconcile

\* A status write: nothing is stored, or the copy is.
CredentialWritten ==
    /\ cPc \in {"startBind", "startUnbind", "write"} /\ UNCHANGED <<cCached, bound, secret>>
    /\ UNCHANGED <<cApi, cWatch>> \/ C!Commit(cLocal)
    /\ \/ cPc' = "idle"
       \/ cPc = "startBind" /\ cPc' = "bind" /\ cLocal' = cLocal
       \/ cPc = "startUnbind" /\ cPc' = "unbind" /\ cLocal' = cLocal

\* Every write of the worker is such a step.
LEMMA WritesShape ==
    ASSUME C!Write
    PROVE  /\ CredentialWritten
           /\ cPc' # "idle" => C!Commit(cLocal)
<1>1. CASE C!WriteFails \/ C!UpdateStatus
  BY <1>1 DEF C!WriteFails, C!UpdateStatus, C!outside, C!storeVars,
     C!Return, CredentialWritten
<1>2. CASE C!RecordStartOfOperation
  BY <1>2 DEF C!RecordStartOfOperation, C!Continue, C!outside, CredentialWritten
<1> QED BY <1>1, <1>2 DEF C!Write

-----------------------------------------------------------------------------
(* The versions of the credential.                                         *)

\* A version is stored and put on its way, or nothing changes.
LEMMA CredentialStored ==
    ASSUME CVersionsInv, NEW v \in CVersion, v # Absent => v.fin,
           cApi' = v, cCached' = cCached,
           cWatch' = Append(cWatch, v) \/ (v = cApi /\ cWatch' = cWatch)
    PROVE  CVersionsInv'
<1>1. CASE v = cApi /\ cWatch' = cWatch BY <1>1 DEF CVersionsInv, CVersion
<1>2. CASE cWatch' = Append(cWatch, v)
  <2> DEFINE n == Len(cWatch)
  <2>0. cWatch \in Seq(CVersion) BY DEF CVersionsInv
  <2>1. /\ n \in Nat /\ cWatch' \in Seq(CVersion)
        /\ Len(cWatch') = n + 1 /\ cWatch'[n + 1] = v
        /\ \A i \in 1..n : cWatch'[i] = cWatch[i]
    BY <1>2, <2>0
  <2>2. cWatch' # <<>>
    BY <2>1, EmptySeq
  <2> HIDE DEF n
  <2>3. \A i \in 1..(n + 1) : i \in 1..n \/ i = n + 1 BY <2>1
  <2>4. \A i \in 1..n : cWatch[i] # Absent => cWatch[i].fin BY DEF CVersionsInv, n
  <2>5. \A i \in 1..(n + 1) : cWatch'[i] # Absent => cWatch'[i].fin BY <2>1, <2>3, <2>4
  <2>6. cCached' \in CVersion /\ (cCached' # Absent => cCached'.fin) BY DEF CVersionsInv
  <2> QED BY <2>1, <2>2, <2>5, <2>6 DEF CVersionsInv, CVersion
<1> QED BY <1>1, <1>2

\* The informer takes the oldest version.
LEMMA CredentialSeen ==
    ASSUME CVersionsInv, cWatch # <<>>, cCached' = Head(cWatch), cWatch' = Tail(cWatch),
           cApi' = cApi
    PROVE  CVersionsInv'
<1> DEFINE n == Len(cWatch)
<1>0. cWatch \in Seq(CVersion) /\ cWatch[n] = cApi BY DEF CVersionsInv
<1>1. /\ n \in Nat /\ n >= 1 /\ cCached' = cWatch[1] /\ Len(cWatch') = n - 1
      /\ \A i \in 1..(n - 1) : cWatch'[i] = cWatch[i + 1]
      /\ cWatch' \in Seq(CVersion) /\ cCached' \in CVersion
  BY <1>0
<1> HIDE DEF n
<1>2. cWatch' = <<>> <=> n = 1
  <2>1. cWatch' = <<>> <=> Len(cWatch') = 0 BY <1>1, EmptySeq, Zenon
  <2> QED BY <1>1, <2>1
<1>3. 1 \in 1..n /\ \A i \in 1..(n - 1) : i + 1 \in 1..n BY <1>1
<1>4. \A i \in 1..n : cWatch[i] # Absent => cWatch[i].fin BY DEF CVersionsInv, n
<1>5. /\ cCached' # Absent => cCached'.fin
      /\ \A i \in 1..(n - 1) : cWatch'[i] # Absent => cWatch'[i].fin
  BY <1>1, <1>3, <1>4
<1>6. n # 1 => cWatch'[n - 1] = cApi
  <2>1. n # 1 => n - 1 \in 1..(n - 1) /\ (n - 1) + 1 = n BY <1>1
  <2> QED BY <1>0, <1>1, <2>1
<1>7. n = 1 => cCached' = cApi BY <1>0, <1>1
<1>8. cApi \in CVersion /\ (cApi # Absent => cApi.fin) BY DEF CVersionsInv
<1> QED BY <1>1, <1>2, <1>5, <1>6, <1>7, <1>8 DEF CVersionsInv, CVersion

\* A restart lists the stored credential, and a new one is a first version.
LEMMA CredentialListed ==
    ASSUME cApi' \in CVersion, cApi' # Absent => cApi'.fin,
           cCached' \in CVersion, cCached' # Absent => cCached'.fin,
           \/ cApi' # Absent /\ cWatch' = <<cApi'>>
           \/ cApi' = Absent /\ cWatch' = <<>> /\ cCached' = Absent
    PROVE  CVersionsInv'
<1>1. CASE cApi' # Absent /\ cWatch' = <<cApi'>>
  <2>1. cWatch' # <<>> /\ Len(cWatch') = 1 /\ cWatch'[1] = cApi' BY <1>1
  <2>2. cWatch' \in Seq(CVersion)
    BY <1>1
  <2>3. \A i \in 1..1 : i = 1 OBVIOUS
  <2> QED BY <2>1, <2>2, <2>3 DEF CVersionsInv, CVersion
<1>2. CASE cApi' = Absent /\ cWatch' = <<>> /\ cCached' = Absent
  <2>1. Len(cWatch') = 0 /\ \A i \in 1..0 : FALSE BY <1>2
  <2>2. cWatch' \in Seq(CVersion)
    BY <1>2
  <2> QED BY <1>2, <2>1, <2>2 DEF CVersionsInv, CVersion
<1> QED BY <1>1, <1>2

-----------------------------------------------------------------------------
(* The credential's invariant.                                             *)

\* Absent is told apart from every credential.
LEMMA AbsentNoCredential == Absent \notin Credential
  BY PairAssumption DEF Credential

\* What a write does to the stored credential.
LEMMA CredentialCommit ==
    ASSUME CredentialInv, cPc \in {"startBind", "startUnbind", "write"},
           cCached' = cCached, C!Commit(cLocal)
    PROVE  /\ CVersionsInv'
           /\ cPc # "write" => cApi' # Absent
           /\ cApi' = Absent => ~bound /\ secret # "own"
<1>1. /\ cLocal \in Credential /\ cLocal # Absent
      /\ cLocal.fin \/ (cPc = "write" /\ cLocal.del /\ ~bound /\ secret # "own")
  BY AbsentNoCredential DEF CredentialInv, CWorkerInv, CStages
<1> DEFINE v == IF cLocal.del /\ ~cLocal.fin THEN Absent ELSE cLocal
<1>2. /\ cApi' = v
      /\ cWatch' = Append(cWatch, v) \/ (v = cApi /\ cWatch' = cWatch)
  BY DEF C!Commit
<1>3. v \in CVersion /\ (v # Absent => v.fin)
  BY <1>1 DEF CVersion, Credential
<1>4. CVersionsInv' BY <1>2, <1>3, CredentialStored DEF CredentialInv
<1> QED BY <1>1, <1>2, <1>4

\* The worker preserves the invariant.
LEMMA CredentialWorkStep ==
    ASSUME Lag = "none", CredentialInv, C!Worker
    PROVE  /\ CredentialInv'
           /\ cApi = Absent => cApi' = Absent
<1>0. Absent \notin Credential BY AbsentNoCredential
<1>1. CASE C!Reconcile
  <2>1. CredentialTaken BY <1>1, TakesShape DEF CredentialInv, CVersionsInv
  <2>2. CVersionsInv' BY <2>1 DEF CredentialTaken, CredentialInv, CVersionsInv, CVersion
  <2>3. cCached = cApi /\ (cCached # Absent => cCached.fin)
    BY <2>1 DEF CredentialTaken, CredentialInv, CVersionsInv
  <2>4. CWorkerInv' BY <2>1, <2>3 DEF CredentialTaken, CWorkerInv, CStages
  <2> QED BY <2>1, <2>2, <2>4 DEF CredentialTaken, CredentialInv
<1>2. CASE C!Write
  <2>1. CredentialWritten /\ (cPc' # "idle" => C!Commit(cLocal)) BY <1>2, WritesShape
  <2>2. cApi # Absent /\ cLocal \in Credential
    BY <2>1 DEF CredentialWritten, CredentialInv, CWorkerInv, CStages
  <2>3. /\ CVersionsInv' /\ (cPc # "write" => cApi' # Absent)
        /\ cApi' = Absent => ~bound /\ secret # "own"
    <3>1. CASE UNCHANGED <<cApi, cWatch>>
      BY <2>1, <2>2, <3>1 DEF CredentialWritten, CredentialInv, CVersionsInv, CVersion
    <3>2. CASE C!Commit(cLocal) BY <2>1, <3>2, CredentialCommit DEF CredentialWritten
    <3> QED BY <2>1, <3>1, <3>2 DEF CredentialWritten
  <2>4. CWorkerInv'
    BY <2>1, <2>2, <2>3 DEF CredentialWritten, CredentialInv, CWorkerInv, CStages
  <2> QED BY <2>1, <2>2, <2>3, <2>4 DEF CredentialWritten, CredentialInv
<1>3. CASE C!Call
  <2>1. CredentialCalls BY <1>3, CallsShape DEF CredentialInv
  <2>2. cApi # Absent BY <2>1 DEF CredentialCalls, CredentialInv, CWorkerInv, CStages
  <2>3. CVersionsInv' BY <2>1 DEF CredentialCalls, CredentialInv, CVersionsInv, CVersion
  <2>4. cPc = "unbind" => secret # "own" BY DEF CredentialInv, CWorkerInv
  <2>5. CWorkerInv' BY <2>1, <2>2, <2>4 DEF CredentialCalls, CWorkerInv, CStages
  <2> QED BY <2>1, <2>2, <2>3, <2>5 DEF CredentialCalls, CredentialInv
<1> QED BY <1>1, <1>2, <1>3 DEF C!Worker

\* So do the user, the informer and the timers.
LEMMA CredentialOtherStep ==
    ASSUME CredentialInv,
           \/ C!InformerEvent \/ C!Resync \/ C!RetryDue \/ C!UserDelete
    PROVE  /\ CredentialInv' /\ UNCHANGED <<cPc, bound, secret>>
           /\ cApi = Absent => cApi' = Absent
<1>1. UNCHANGED <<cPc, cLocal, bound, secret>>
  BY DEF C!InformerEvent, C!Resync, C!RetryDue, C!UserDelete,
     C!workerVars, C!outside
<1>2. CVersionsInv' /\ (cApi' = Absent <=> cApi = Absent)
  <2>1. CASE C!InformerEvent
    <3>1. cWatch # <<>> /\ cCached' = Head(cWatch) /\ cWatch' = Tail(cWatch) /\ cApi' = cApi
      BY <2>1 DEF C!InformerEvent
    <3> QED BY <3>1, CredentialSeen DEF CredentialInv
  <2>2. CASE C!Resync \/ C!RetryDue
    <3>1. UNCHANGED <<cApi, cWatch, cCached>>
      BY <2>2 DEF C!Resync, C!RetryDue, C!storeVars
    <3> QED BY <3>1 DEF CredentialInv, CVersionsInv, CVersion
  <2>3. CASE C!UserDelete
    <3> DEFINE v == [cApi EXCEPT !.del = TRUE, !.gen = 2]
    <3>1. cApi # Absent /\ cApi' = v /\ cWatch' = Append(cWatch, v) /\ cCached' = cCached
      BY <2>3 DEF C!UserDelete
    <3>2. cApi \in Credential /\ cApi.fin
      BY <3>1 DEF CredentialInv, CVersionsInv, CVersion, Credential
    <3>3. v \in Credential /\ v.fin BY Zenon, <3>2 DEF Credential, C!Object
    <3> HIDE DEF v
    <3>4. v \in CVersion /\ v # Absent BY <3>3, AbsentNoCredential DEF CVersion, Credential
    <3> QED BY <3>1, <3>3, <3>4, CredentialStored DEF CredentialInv
  <2> QED BY <2>1, <2>2, <2>3
<1>3. CWorkerInv' BY <1>1, <1>2 DEF CredentialInv, CWorkerInv
<1> QED BY <1>1, <1>2, <1>3 DEF CredentialInv

\* The creation of a credential, and what the admission plugin sees of the
\* instance.
LEMMA AdmissionStep ==
    ASSUME CredentialInv, AdmissionSteps
    PROVE  /\ CredentialInv' /\ UNCHANGED <<cPc, bound, secret>>
<1>1. CASE AdmissionEvent
  <2>1. UNCHANGED <<cApi, cWatch, cCached, cPc, cLocal, bound, secret>>
    BY <1>1 DEF AdmissionEvent, credentialVars
  <2> QED BY <2>1 DEF CredentialInv, CVersionsInv, CWorkerInv, CVersion
<1>2. CASE CreateCredential
  <2> DEFINE v == C!NewCredential
  <2>1. /\ cApi = Absent /\ cApi' = v /\ cWatch' = <<v>>
        /\ UNCHANGED <<cCached, cPc, cLocal, bound, secret>>
    BY <1>2 DEF CreateCredential
  <2>2. v \in Credential /\ v.fin BY DEF Credential, C!Object, C!NewCredential
  <2>3. v \in CVersion /\ v # Absent BY <2>2, AbsentNoCredential DEF CVersion, Credential
  <2> HIDE DEF v
  <2>4. cCached' \in CVersion /\ (cCached' # Absent => cCached'.fin)
    BY <2>1 DEF CredentialInv, CVersionsInv
  <2>5. CVersionsInv' BY <2>1, <2>2, <2>3, <2>4, CredentialListed DEF CVersion
  <2>6. cPc = "idle" BY <2>1 DEF CredentialInv, CWorkerInv
  <2>7. CWorkerInv' BY <2>1, <2>6 DEF CWorkerInv, CStages
  <2> QED BY <2>1, <2>3, <2>5, <2>7 DEF CredentialInv
<1> QED BY <1>1, <1>2 DEF AdmissionSteps

\* A restart.
LEMMA RestartStep ==
    ASSUME CredentialInv, CrashBoth
    PROVE  CredentialInv' /\ cPc' = "idle" /\ UNCHANGED <<cApi, bound, secret>>
<1>1. /\ cPc' = "idle" /\ cCached' = Absent /\ UNCHANGED <<cApi, bound, secret>>
      /\ cWatch' = IF cApi = Absent THEN <<>> ELSE <<cApi>>
  BY DEF CrashBoth, C!Restart
<1>2. cApi \in CVersion /\ (cApi # Absent => cApi.fin) BY DEF CredentialInv, CVersionsInv
<1>3. cApi' \in CVersion /\ cCached' \in CVersion BY <1>1, <1>2 DEF CVersion
<1>4. CVersionsInv' BY <1>1, <1>2, <1>3, CredentialListed
<1>5. CWorkerInv' BY <1>1 DEF CWorkerInv, CStages
<1> QED BY <1>1, <1>4, <1>5 DEF CredentialInv

\* Every step of the pair preserves it.
LEMMA CredentialStep ==
    ASSUME Lag = "none", CredentialInv, [PairNext]_pairVars
    PROVE  CredentialInv'
<1>1. CASE InstanceWorks \/ InstanceBlocked \/ InstanceOther \/ NoStep
  <2>1. UNCHANGED <<cApi, cWatch, cCached, cPc, cLocal, bound, secret>>
    BY <1>1 DEF InstanceWorks, InstanceBlocked, InstanceOther, NoStep, CredentialRests
  <2> QED BY <2>1 DEF CredentialInv, CVersionsInv, CWorkerInv, CVersion
<1>2. CASE CredentialWorks BY <1>2, CredentialWorkStep DEF CredentialWorks
<1>3. CASE CredentialOther BY <1>3, CredentialOtherStep DEF CredentialOther
<1> QED BY <1>1, <1>2, <1>3, AdmissionStep, RestartStep, PairSteps

-----------------------------------------------------------------------------
(* The end of the instance.                                                *)

\* A stored deletion stays, and what is removed stays removed.
Forward ==
    /\ api = Absent => api' = Absent /\ removed' = removed
    /\ api # Absent /\ api' # Absent => removed' = removed /\ (api.del => api'.del)

\* Every step of the instance goes forward.
LEMMA ForwardStep == ASSUME IInv, [Next]_vars PROVE Forward
<1>1. CASE UNCHANGED <<api, removed>> BY <1>1 DEF Forward
<1>2. CASE Write
  <2>1. /\ pc # "idle" /\ cached' = cached
        /\ UNCHANGED <<api, removed>> \/ (fresh /\ Commit(local))
    BY <1>2, WriteShape DEF IInv
  <2>2. CASE fresh /\ Commit(local)
    <3>1. api # Absent /\ Evolves(api, local) /\ (api' = Absent \/ api' = local)
      BY <2>1, <2>2, CommitShape DEF IInv
    <3>2. api' # Absent => removed' = removed BY <2>2 DEF Commit
    <3> QED BY <3>1, <3>2 DEF Forward, Evolves
  <2> QED BY <1>1, <2>1, <2>2
<1>3. CASE UserDelete
  <2>1. /\ api # Absent /\ api' = [api EXCEPT !.del = TRUE, !.gen = 2] /\ removed' = removed
    BY <1>3 DEF UserDelete, historyVars
  <2>2. api \in Object BY <2>1 DEF IInv, TypeOK
  <2>3. api'.del BY <2>1, <2>2 DEF Object
  <2> QED BY <2>1, <2>3 DEF Forward
<1>4. CASE Reconcile
  BY <1>1, <1>4 DEF Reconcile, ReconcileNothing, DeleteBlocked, ClearFinalizer, LookupFails,
     ClientFails, BeginPoll, BeginDeprovision, BeginProvision, TakeInstance, Take,
     storeVars, historyVars
<1>5. CASE Call BY <1>1, <1>5, CallUnchanged
<1>6. CASE Poll
  BY <1>1, <1>6 DEF Poll, PollStops, PollInProgress, PollSucceeded, PollFailed, PollError,
     PollInvalid, PollFrame, PollReturn, CallFrame, storeVars, historyVars
<1>7. CASE \/ InformerEvent \/ Resync \/ RetryDue \/ RequeueForPoll \/ BrokerFinish
           \/ UserEdit \/ Crash \/ UNCHANGED vars
  BY <1>1, <1>7 DEF InformerEvent, Resync, RetryDue, RequeueForPoll, BrokerFinish,
     UserEdit, Crash, vars, storeVars, historyVars
<1> QED BY <1>2, <1>3, <1>4, <1>5, <1>6, <1>7 DEF Next, Worker, Environment

\* A reconciliation that begins to release the instance found it deleted or
\* orphaned in the cache.
LEMMA EndingTaken ==
    ASSUME IInv, SInv, Reconcile, Ending', ~Ending
    PROVE  cached # Absent /\ ToDelete(cached)
<1>1. UNCHANGED <<api, deprovisioned>> BY TakeShape DEF IInv, VersionsInv
<1>2. pc' \in {"startDeprovision", "deprovision"} \/ (pc' = "write" /\ ~local'.fin)
  BY <1>1 DEF Ending
<1>3. CASE DeleteBlocked \/ ClearFinalizer \/ BeginDeprovision
  BY <1>3 DEF DeleteBlocked, ClearFinalizer, BeginDeprovision, TakeInstance
<1>4. CASE LookupFails
  <2>1. cached # Absent /\ pc' = "write" /\ local' = SetReady(cached, "False")
    BY <1>4 DEF LookupFails, TakeInstance, WriteThenReturn
  <2>2. cached \in Object /\ cached.fin BY <2>1, CachedFacts
  <2>3. local'.fin BY <2>1, <2>2 DEF Object, SetReady
  <2> QED BY <1>2, <2>1, <2>3
<1>5. CASE ReconcileNothing \/ ClientFails \/ BeginPoll \/ BeginProvision
  BY <1>2, <1>5 DEF ReconcileNothing, ClientFails, BeginPoll, BeginProvision,
     PrepareProvision, Return, Continue
<1> QED BY <1>3, <1>4, <1>5 DEF Reconcile

\* No other step begins to release it.
LEMMA EndingEntry ==
    ASSUME IInv, SInv, [Next]_vars, Ending', ~Ending
    PROVE  Reconcile
<1>0. /\ api # Absent /\ ~deprovisioned /\ pc \notin {"startDeprovision", "deprovision"}
      /\ ~(pc = "write" /\ fresh /\ ~local.fin)
  BY DEF Ending
<1>1. CASE Write
  <2>1. /\ pc # "idle" /\ UNCHANGED <<cached, deprovisioned>>
        /\ UNCHANGED api \/ (fresh /\ Commit(local))
        /\ Returned \/ GoesOn
    BY <1>1, WriteShape DEF IInv
  <2>2. pc \in {"refs", "startProvision", "startDeprovision", "write"}
    BY <1>1 DEF Write, WriteFails, UpdateReferences, RecordStartOfOperation, UpdateStatus
  <2>3. api' # Absent
    <3>1. CASE fresh /\ Commit(local)
      <4>1. local.fin \/ ~local.del BY <1>0, <2>2, <3>1 DEF IInv, StageInv
      <4>2. api' = local BY <2>1, <3>1, <4>1, CommitShape DEF IInv
      <4> QED BY <2>1, <4>2 DEF IInv, TypeOK
    <3> QED BY <1>0, <2>1, <3>1
  <2>4. CASE Returned BY <1>0, <2>1, <2>3, <2>4 DEF Returned, Ending
  <2>5. CASE GoesOn
    <3>1. pc' = "write" /\ local'.del = local.del /\ ~local.del
      BY Zenon, <1>0, <2>1, <2>3, <2>5 DEF GoesOn, Ending, Evolves
    <3>2. Sound(local') BY <3>1, StepStatus DEF SInv, CopyInv
    <3>3. local'.fin BY Zenon, <3>1, <3>2 DEF Sound
    <3> QED BY <1>0, <2>1, <2>3, <3>1, <3>3 DEF Ending
  <2> QED BY <2>1, <2>4, <2>5
<1>2. CASE Call
  <2>1. pc = "provision" BY <1>0, <1>2, CallShape DEF IInv
  <2>2. pc' = "write" /\ UNCHANGED <<api, deprovisioned>>
    BY <1>2, <2>1, CallShape DEF IInv
  <2>3. local'.fin BY <1>2, <2>1, ProvisionCall DEF ProvisionOutcome
  <2> QED BY <1>0, <2>2, <2>3 DEF Ending
<1>3. CASE Poll
  <2>1. /\ pc = "poll" /\ UNCHANGED <<api, deprovisioned>>
        /\ \/ Return("poll") \/ Return("err")
           \/ pc' = "write" /\ fresh' = fresh /\ PollOutcome
    BY <1>3, PollCases
  <2>2. CASE Return("poll") \/ Return("err") BY <1>0, <2>1, <2>2 DEF Return, Ending
  <2>3. CASE pc' = "write" /\ fresh' = fresh /\ PollOutcome
    <3>1. fresh /\ ~local'.fin BY <1>0, <2>1, <2>3 DEF Ending
    <3>2. local.async /\ local.fin BY <2>1, PollCopy
    <3>3. Deleting(local) BY <2>3, <3>1, <3>2 DEF PollOutcome
    <3>4. deprovisioned BY <2>1, <3>1, <3>2, <3>3 DEF SInv, HonestInv, Honest
    <3> QED BY <1>0, <3>4
  <2> QED BY <2>1, <2>2, <2>3
<1>4. CASE \/ InformerEvent \/ Resync \/ RetryDue \/ RequeueForPoll \/ BrokerFinish
           \/ UserDelete \/ UserEdit \/ Crash \/ UNCHANGED vars
  <2>1. /\ deprovisioned' = deprovisioned
        /\ pc' = "idle" \/ (UNCHANGED <<pc, local>> /\ (fresh' = fresh \/ fresh' = FALSE))
    BY <1>4 DEF InformerEvent, Resync, RetryDue, RequeueForPoll, BrokerFinish, UserDelete,
       UserEdit, Crash, vars, workerVars, historyVars
  <2>2. api' # Absent
    <3>1. CASE UserDelete
      <4>1. api' = [api EXCEPT !.del = TRUE, !.gen = 2] /\ api \in Object
        BY <1>0, <3>1 DEF UserDelete, IInv, TypeOK
      <4>2. api' \in Object BY Zenon, <4>1 DEF Object
      <4> QED BY <4>2, AbsentNoObject
    <3>2. CASE ~UserDelete
      BY <1>0, <1>4, <3>2 DEF InformerEvent, Resync, RetryDue, RequeueForPoll, BrokerFinish,
         UserEdit, Crash, vars, storeVars
    <3> QED BY <3>1, <3>2
  <2> QED BY <1>0, <2>1, <2>2 DEF Ending
<1> QED BY <1>1, <1>2, <1>3, <1>4 DEF Next, Worker, Environment

-----------------------------------------------------------------------------
(* Nothing is bound to an instance that is being released.                 *)

\* The instance moves on while the credential rests.
LEMMA EndWhileCredentialRests ==
    ASSUME Lag = "none", IInv, SInv, CredentialInv, EndInv,
           InstanceWorks \/ InstanceOther \/ NoStep
    PROVE  EndInv'
<1>1. UNCHANGED <<cApi, cWatch, cCached, cPc, cLocal, bound, secret>>
  BY DEF InstanceWorks, InstanceOther, NoStep, CredentialRests
<1>2. [Next]_vars BY OwnSteps DEF OwnStep
<1>3. Forward /\ (Spent(api) => Spent(api')) BY <1>2, ForwardStep, NextStatus DEF StatusStep
<1>4. (Nothing' <=> Nothing) /\ (Over => Over')
  BY <1>1, <1>3 DEF Nothing, Over, Forward, Spent
<1>5. ASSUME Ending', ~Ending PROVE Nothing /\ Over
  <2>1. Reconcile /\ cached # Absent /\ ToDelete(cached)
    BY <1>2, <1>5, EndingEntry, EndingTaken
  <2>2. pc = "idle" /\ watch = <<>>
    BY <2>1 DEF Reconcile, ReconcileNothing, DeleteBlocked, ClearFinalizer, LookupFails,
       ClientFails, BeginPoll, BeginDeprovision, BeginProvision, TakeInstance, Take
  <2>3. pc' # "idle"
    BY <1>5, <2>1, TakeShape DEF Ending, IInv, VersionsInv
  <2>4. InstanceWorks
    BY <2>2, <2>3 DEF InstanceOther, NoStep, InformerEvent, Resync, RetryDue, RequeueForPoll,
       BrokerFinish, UserDelete, vars, workerVars
  <2>5. cCached = Absent /\ cWatch = <<>> BY <2>1, <2>2, <2>4 DEF InstanceWorks
  <2>6. cApi = Absent BY <2>5 DEF CredentialInv, CVersionsInv
  <2>7. Nothing BY <2>6 DEF CredentialInv, CWorkerInv, Nothing
  <2>8. api = cached BY <2>2 DEF IInv, VersionsInv, UpToDate
  <2>9. api.del \/ api.failed
    BY <2>1, <2>8, CachedFacts DEF ToDelete
  <2> QED BY <2>6, <2>7, <2>9 DEF Over, Spent
<1>6. Ending' => Nothing' /\ Over' BY <1>4, <1>5 DEF EndInv
<1>7. removed' # Absent => api' = Absent BY <1>3 DEF EndInv, Forward
<1> QED BY <1>6, <1>7 DEF EndInv

\* A deletion that is blocked releases nothing.
LEMMA EndWhenBlocked ==
    ASSUME IInv, SInv, EndInv, InstanceBlocked PROVE EndInv'
<1>1. /\ UNCHANGED <<api, deprovisioned, removed, cApi, cPc, bound, secret>>
      /\ cached # Absent /\ pc' = "write" /\ local' = SetReady(cached, "False")
  BY BlockedShape DEF InstanceBlocked, CredentialRests, TakeInstance, WriteThenReturn
<1>2. local'.fin
  <2>1. cached \in Object /\ cached.fin BY <1>1, CachedFacts
  <2> QED BY <1>1, <2>1 DEF Object, SetReady
<1>3. Ending' => Ending BY <1>1, <1>2 DEF Ending
<1> QED BY <1>1, <1>3 DEF EndInv, Nothing, Over, Spent

\* The credential's worker binds nothing to such an instance.
LEMMA EndWhileCredentialWorks ==
    ASSUME Lag = "none", IInv, SInv, CredentialInv, EndInv,
           CredentialWorks
    PROVE  EndInv'
<1>1. /\ UNCHANGED <<api, watch, cached, pc, local, fresh, deprovisioned, removed>>
      /\ C!Worker /\ (cPc = "idle" => watch = <<>>)
  BY DEF CredentialWorks, InstanceRests
<1>2. Ending' <=> Ending BY <1>1 DEF Ending
<1>3. Over => Over' BY <1>1, CredentialWorkStep DEF Over, Spent
<1>4. ASSUME Ending PROVE Nothing'
  <2>1. Nothing /\ Over BY <1>4 DEF EndInv
  <2>2. CASE C!Reconcile
    <3>1. CredentialTaken BY <2>2, TakesShape DEF CredentialInv, CVersionsInv
    <3>2. cPc' \notin {"startBind", "bind"}
      <4> SUFFICES ASSUME cPc' \in {"startBind", "bind"} PROVE FALSE OBVIOUS
      <4>1. /\ cCached # Absent /\ cCached = cApi /\ watch = <<>>
            /\ View(cached) = "ready"
        BY <1>1, <3>1 DEF CredentialTaken, CredentialInv, CVersionsInv
      <4>2. cached = api /\ cached # Absent /\ cached.ready = "True"
        BY <4>1 DEF View, IInv, VersionsInv, UpToDate
      <4>3. ~Spent(api) BY <4>2, CachedFacts DEF Sound
      <4> QED BY <2>1, <4>1, <4>3 DEF Over
    <3> QED BY <2>1, <3>1, <3>2 DEF CredentialTaken, Nothing
  <2>3. CASE C!Write
    BY <2>1, <2>3, WritesShape DEF CredentialWritten, Nothing
  <2>4. CASE C!Call
    <3>1. CredentialCalls BY <2>4, CallsShape DEF CredentialInv
    <3> QED BY <2>1, <3>1 DEF CredentialCalls, Nothing
  <2> QED BY <1>1, <2>2, <2>3, <2>4 DEF C!Worker
<1> QED BY <1>1, <1>2, <1>3, <1>4 DEF EndInv

\* No credential of it is let in by the admission plugin.
LEMMA EndAtAdmission ==
    ASSUME Lag = "none", CredentialInv, EndInv, AdmissionSteps
    PROVE  EndInv'
<1>1. UNCHANGED <<api, pc, local, fresh, deprovisioned, removed, cPc, bound, secret>>
  BY AdmissionStep DEF AdmissionSteps, InstanceRests
<1>2. (Ending' <=> Ending) /\ (Nothing' <=> Nothing) BY <1>1 DEF Ending, Nothing
<1>3. Over => Over'
  <2>1. CASE AdmissionEvent
    <3>1. cApi' = cApi BY <2>1 DEF AdmissionEvent, credentialVars
    <3> QED BY <1>1, <3>1 DEF Over, Spent
  <2>2. CASE CreateCredential
    <3>1. ~(api # Absent /\ api.del)
      BY Zenon, <2>2 DEF CreateCredential, Admitted, InstanceDeleting
    <3> QED BY <1>1, <3>1 DEF Over, Spent
  <2> QED BY <2>1, <2>2 DEF AdmissionSteps
<1> QED BY <1>1, <1>2, <1>3 DEF EndInv

\* Every step of the pair keeps it so.
LEMMA EndStep ==
    ASSUME Lag = "none", IInv, SInv, CredentialInv, EndInv,
           [PairNext]_pairVars
    PROVE  EndInv'
<1>1. CASE CredentialOther
  <2>1. /\ UNCHANGED <<api, pc, local, fresh, deprovisioned, removed>>
        /\ UNCHANGED <<cPc, bound, secret>> /\ (cApi = Absent => cApi' = Absent)
    BY <1>1, CredentialOtherStep DEF CredentialOther, InstanceRests
  <2> QED BY <2>1 DEF EndInv, Ending, Nothing, Over, Spent
<1>2. CASE CrashBoth
  <2>1. pc' = "idle" /\ UNCHANGED <<api, deprovisioned, removed>>
    BY <1>2 DEF CrashBoth, Crash, historyVars
  <2>2. cPc' = "idle" /\ UNCHANGED <<cApi, bound, secret>> BY <1>2, RestartStep
  <2> QED BY <2>1, <2>2 DEF EndInv, Ending, Nothing, Over, Spent
<1> QED
  BY <1>1, <1>2, EndWhileCredentialRests, EndWhenBlocked, EndWhileCredentialWorks,
     EndAtAdmission, PairSteps

\* At first there is nothing to release.
LEMMA EndInit == PairInit => CredentialInv /\ EndInv
<1> SUFFICES ASSUME PairInit PROVE CredentialInv /\ EndInv OBVIOUS
<1>1. /\ api = NewInstance /\ pc = "idle" /\ deprovisioned = FALSE /\ removed = Absent
  BY DEF PairInit, Init
<1>2. /\ cApi = Absent /\ cWatch = <<>> /\ cCached = Absent /\ cPc = "idle"
      /\ bound = FALSE /\ secret = "none"
  BY DEF PairInit
<1>3. NewInstance \in Object BY DEF NewInstance, Object
<1>4. api # Absent BY <1>1, <1>3, AbsentNoObject
<1>5. EndInv BY <1>1, <1>4 DEF EndInv, Ending
<1>6. CVersionsInv
  <2>1. Len(cWatch) = 0 /\ \A i \in 1..0 : FALSE BY <1>2
  <2>2. cWatch \in Seq(CVersion) BY <1>2
  <2> QED BY <1>2, <2>1, <2>2 DEF CVersionsInv, CVersion
<1>7. CWorkerInv BY <1>2 DEF CWorkerInv, CStages
<1> QED BY <1>2, <1>5, <1>6, <1>7 DEF CredentialInv

\* With caches that have caught up, nothing is bound to an instance that is
\* being released or is gone, and nothing will be.
THEOREM EndsUnbound ==
    ASSUME Lag = "none"
    PROVE  PairSpec => [](CredentialInv /\ EndInv)
<1>1. PairInit => CredentialInv /\ EndInv BY EndInit
<1>2. (IInv /\ SInv) /\ (CredentialInv /\ EndInv) /\ [PairNext]_pairVars
        => (CredentialInv /\ EndInv)'
  BY CredentialStep, EndStep
<1> QED BY <1>1, <1>2, InstanceBesideCredential, PTL DEF PairSpec

\* With caches that have caught up, the broker never holds a binding of an
\* instance that it does not have: a credential blocks the deletion of its
\* instance until it is unbound, and none is let in after that.
THEOREM BindingsHaveInstances ==
    ASSUME Lag = "none"
    PROVE  PairSpec => []BindingHasInstance
<1>1. PromiseInv /\ (CredentialInv /\ EndInv) => BindingHasInstance
  BY DEF PromiseInv, Provisioned, EndInv, Ending, Nothing, BindingHasInstance
<1> QED BY <1>1, PromisesAreKept, EndsUnbound, PTL

\* With caches that have caught up, an instance that is removed leaves neither
\* a binding nor the secret of a credential behind.
THEOREM RemovedInstancesAreUnbound ==
    ASSUME Lag = "none"
    PROVE  PairSpec => []RemovedInstanceHasNoBinding
<1>1. CredentialInv /\ EndInv => RemovedInstanceHasNoBinding
  BY DEF EndInv, Ending, Nothing, RemovedInstanceHasNoBinding
<1> QED BY <1>1, EndsUnbound, PTL
=============================================================================
