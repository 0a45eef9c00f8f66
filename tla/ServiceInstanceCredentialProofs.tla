------------------- MODULE ServiceInstanceCredentialProofs -------------------
(***************************************************************************)
(* All the safety properties of ServiceInstanceCredential, for every       *)
(* number of faults, crashes and retries, every lag of the informer, with  *)
(* and without status validation.                                          *)
(*                                                                         *)
(* The argument.  As for instances, a version of the object is doomed when *)
(* it is deleted or has failed; writes never make a doomed version healthy *)
(* (FreshInv, Evolves), so healthy versions come before doomed ones        *)
(* (Ordered), and once the secret's ejection has begun all versions are    *)
(* doomed (ReleaseInv), so that nothing is bound any more.  On top of it:  *)
(* a Ready version is not a failed one (Coherent), so the release of a     *)
(* binding can only meet a Ready version that is deleted (OutsideInv), and *)
(* the finalizer goes only from a copy made after the release (StageInv).  *)
(*                                                                         *)
(* From these invariants also: a credential implements ResourceLifecycle;  *)
(* and, where the API server validates statuses, no orphan mitigation is   *)
(* stored (ValidInv) and a credential whose deletion is recorded as        *)
(* reconciled stays for ever (StuckInv).                                   *)
(***************************************************************************)
EXTENDS ServiceInstanceCredential, TLAPS

\* More time than by default, for a slow machine.
USE SMTT(30), ZenonT(30)

\* The object is deleted or has failed.
Doomed(o) == o = Absent \/ o.del \/ o.failed

AllDoomed ==
    /\ Doomed(api) /\ Doomed(cached)
    /\ \A i \in 1..Len(watch) : Doomed(watch[i])

\* Facts that hold of every version, and every copy, by itself.
Coherent(o) ==
    /\ o.orphan => o.failed
    /\ o.recGen <= o.gen
    /\ o.op # "none" => o.started \/ o.orphan
    /\ o.ready = "True" => o.op = "none" /\ o.ext /\ ~o.failed

\* A version that was stored is coherent and has the finalizer.
Version(o) == o = Absent \/ (Coherent(o) /\ o.fin)

VersionsCoherent ==
    /\ Version(api) /\ Version(cached)
    /\ \A i \in 1..Len(watch) : Version(watch[i])

\* b is a copy that may follow a.
Evolves(a, b) ==
    /\ b \in Object /\ Coherent(b) /\ b.del = a.del /\ b.gen = a.gen
    /\ a.failed => b.failed
    /\ a.recGen <= b.recGen

\* The last version on its way is the stored one.
UpToDate ==
    IF watch = <<>> THEN cached = api ELSE watch[Len(watch)] = api

\* Healthy versions come before doomed ones.
Ordered ==
    /\ \A i, j \in 1..Len(watch) : i <= j /\ Doomed(watch[i]) => Doomed(watch[j])
    /\ \A i \in 1..Len(watch) : Doomed(watch[i]) => Doomed(api)
    /\ cached # Absent /\ Doomed(cached) => AllDoomed

VersionsInv == VersionsCoherent /\ UpToDate /\ Ordered

\* A copy whose resource version is current continues the stored object.
FreshInv == pc # "idle" /\ fresh => api # Absent /\ Evolves(api, local)

Binding == {"startBind", "bind", "inject"}
Unbinding == {"eject", "startUnbind", "unbind"}

\* A copy of a healthy object whose bind has been started.
BindingCopy(o) ==
    /\ ~o.del /\ ~o.orphan /\ ~o.failed /\ o.fin
    /\ o.op # "none" /\ o.started /\ o.inProg

\* What the worker knows of its copy, and of the world, at a control point.
StageInv ==
    /\ pc # "idle" => Coherent(local)
    /\ pc \in Binding => BindingCopy(local) /\ ~released
    /\ pc = "inject" => local.ext /\ bound
    /\ pc \in Unbinding => (local.del \/ local.orphan) /\ local.fin /\ AllDoomed
    /\ pc \in {"startUnbind", "unbind"} =>
          local.op # "none" /\ local.started /\ released /\ secret # "own"
    /\ pc = "write" /\ ~local.fin => local.del /\ released /\ ~bound /\ secret # "own"
    /\ pc = "write" /\ local.ready = "True" => bound /\ secret = "own"

\* Once the ejection of the secret has begun, all versions are doomed.
ReleaseInv == released => AllDoomed

\* What a stored Ready version, and a removal, say of broker and secret.
OutsideInv ==
    /\ api # Absent => (api.ready = "True" /\ ~api.del => bound /\ secret = "own")
    /\ removed # Absent => released /\ ~bound /\ secret # "own"

IInv == TypeOK /\ VersionsInv /\ FreshInv /\ StageInv /\ ReleaseInv /\ OutsideInv

-----------------------------------------------------------------------------
(* The status helpers, field by field.                                     *)

\* Absent is told apart from every object.
LEMMA AbsentNoObject == Absent \notin Object
  BY Zenon, CredentialAssumption DEF CredentialAssumption

\* The types of the fields.
LEMMA ObjectFields ==
    ASSUME NEW o \in Object
    PROVE  /\ o.del \in BOOLEAN /\ o.fin \in BOOLEAN /\ o.gen \in {1, 2}
           /\ o.op \in {"none", "Bind", "Unbind"} /\ o.started \in BOOLEAN
           /\ o.orphan \in BOOLEAN /\ o.inProg \in BOOLEAN /\ o.ext \in BOOLEAN
           /\ o.ready \in {"unset", "True", "False", "Unknown"}
           /\ o.failed \in BOOLEAN /\ o.recGen \in {0, 1, 2}
  BY DEF Object

\* Two objects agree on what the helpers below leave alone.
SameLife(a, b) == b.del = a.del /\ b.gen = a.gen /\ b.fin = a.fin

\* setServiceInstanceCredentialCondition(Ready).
LEMMA ReadyFields ==
    ASSUME NEW o \in Object, NEW st \in {"True", "False", "Unknown"}
    PROVE  LET b == SetReady(o, st) IN
           /\ b \in Object /\ SameLife(o, b) /\ b.ready = st
           /\ b.op = o.op /\ b.started = o.started /\ b.orphan = o.orphan
           /\ b.inProg = o.inProg /\ b.ext = o.ext /\ b.failed = o.failed
           /\ b.recGen = o.recGen
  BY DEF SetReady, Object, SameLife

\* clearServiceInstanceCredentialCurrentOperation.
LEMMA ClearFields ==
    ASSUME NEW o \in Object
    PROVE  LET b == ClearCurrentOperation(o) IN
           /\ b \in Object /\ SameLife(o, b) /\ b.op = "none" /\ ~b.orphan
           /\ b.recGen = o.gen /\ b.ext = o.ext /\ b.failed = o.failed
           /\ b.ready = o.ready
  BY Zenon DEF ClearCurrentOperation, Object, SameLife

\* setAndUpdateOrphanMitigation.
LEMMA OrphanFields ==
    ASSUME NEW o \in Object
    PROVE  LET b == StartOrphanMitigation(o) IN
           /\ b \in Object /\ SameLife(o, b) /\ b.op = o.op /\ b.orphan
           /\ b.failed /\ b.recGen = o.recGen /\ b.ready = "False"
  BY Zenon DEF StartOrphanMitigation, Object, SameLife

\* recordStartOfServiceInstanceCredentialOperation.
LEMMA StartFields ==
    ASSUME NEW o \in Object, NEW op \in {"Bind", "Unbind"}
    PROVE  LET b == RecordStart(o, op) IN
           /\ b \in Object /\ SameLife(o, b) /\ b.op = op /\ b.started
           /\ b.orphan = o.orphan /\ b.inProg = o.inProg /\ b.failed = o.failed
           /\ b.recGen = o.recGen /\ b.ready = "False"
  BY Zenon DEF RecordStart, Object, SameLife

\* The Failed condition.
LEMMA FailFields ==
    ASSUME NEW o \in Object, NEW f \in BOOLEAN
    PROVE  LET b == [o EXCEPT !.failed = f] IN
           /\ b \in Object /\ SameLife(o, b) /\ b.failed = f
           /\ b.op = o.op /\ b.started = o.started /\ b.orphan = o.orphan
           /\ b.ext = o.ext /\ b.recGen = o.recGen /\ b.ready = o.ready
  BY DEF Object, SameLife

\* The other edits of single fields.
LEMMA EditFields ==
    ASSUME NEW o \in Object, NEW x \in BOOLEAN, NEW b,
           \/ b = [o EXCEPT !.inProg = x] \/ b = [o EXCEPT !.ext = x]
           \/ b = [o EXCEPT !.started = x]
    PROVE  /\ b \in Object /\ SameLife(o, b)
           /\ b.op = o.op /\ b.orphan = o.orphan /\ b.failed = o.failed
           /\ b.recGen = o.recGen /\ b.ready = o.ready
<1>1. CASE b = [o EXCEPT !.inProg = x] BY <1>1 DEF Object, SameLife
<1>2. CASE b = [o EXCEPT !.ext = x] BY <1>2 DEF Object, SameLife
<1>3. CASE b = [o EXCEPT !.started = x] BY <1>3 DEF Object, SameLife
<1> QED BY <1>1, <1>2, <1>3

\* The first edit of a successful unbind.
LEMMA UnbindFields ==
    ASSUME NEW o \in Object
    PROVE  LET b == [o EXCEPT !.ext = FALSE, !.fin = @ /\ o.orphan] IN
           /\ b \in Object /\ b.del = o.del /\ b.gen = o.gen
           /\ (b.fin <=> o.fin /\ o.orphan)
           /\ b.op = o.op /\ b.started = o.started /\ b.orphan = o.orphan
           /\ b.failed = o.failed /\ b.recGen = o.recGen /\ b.ready = o.ready
  BY Zenon DEF Object

\* A copy continues itself.
LEMMA EvolvesRefl == ASSUME NEW o \in Object, Coherent(o) PROVE Evolves(o, o)
<1>1. o.recGen <= o.recGen BY ObjectFields
<1> QED BY <1>1 DEF Evolves

\* A copy that continues a continuation continues.
LEMMA EvolvesTrans ==
    ASSUME NEW a \in Object, NEW b, NEW c, Evolves(a, b), Evolves(b, c)
    PROVE  Evolves(a, c)
<1>1. a.recGen \in {0, 1, 2} /\ b.recGen \in {0, 1, 2} /\ c.recGen \in {0, 1, 2}
  BY ObjectFields DEF Evolves
<1>2. a.recGen <= c.recGen BY <1>1 DEF Evolves
<1> QED BY <1>2 DEF Evolves

\* When the reconciled generation is kept, or becomes the generation.
LEMMA EvolvesIf ==
    ASSUME NEW o \in Object, Coherent(o), NEW b \in Object,
           b.del = o.del, b.gen = o.gen, o.failed => b.failed,
           b.recGen = o.recGen \/ b.recGen = o.gen,
           b.orphan => b.failed,
           b.op # "none" => b.started \/ b.orphan,
           b.ready = "True" => b.op = "none" /\ b.ext /\ ~b.failed
    PROVE  Evolves(o, b)
<1>1. /\ o.recGen \in {0, 1, 2} /\ b.recGen \in {0, 1, 2}
      /\ o.gen \in {1, 2} /\ o.recGen <= o.gen
  BY ObjectFields DEF Coherent
<1>2. o.recGen <= b.recGen /\ b.recGen <= b.gen BY <1>1
<1> QED BY <1>2 DEF Evolves, Coherent

-----------------------------------------------------------------------------
(* The versions: a new one is stored, the informer takes one, a restart.   *)

\* A new version that follows the stored one.
LEMMA NewVersion ==
    ASSUME TypeOK, VersionsInv, NEW v \in Object \cup {Absent}, Version(v),
           Doomed(api) => Doomed(v), api' = v, cached' = cached,
           \/ watch' = Append(watch, v)
           \/ v = api /\ watch' = watch
    PROVE  VersionsInv' /\ (AllDoomed => AllDoomed')
<1> USE DEF VersionsInv
<1>1. CASE v = api /\ watch' = watch
  BY <1>1 DEF VersionsCoherent, UpToDate, Ordered, AllDoomed
<1>2. CASE watch' = Append(watch, v)
  <2> DEFINE n == Len(watch)
  <2>1. n \in Nat BY DEF TypeOK
  <2>2. /\ Len(watch') = n + 1 /\ watch'[n + 1] = v
        /\ \A i \in 1..n : watch'[i] = watch[i]
        /\ watch' # <<>>
    BY <1>2 DEF TypeOK
  <2> HIDE DEF n
  <2>3. \A i \in 1..(n + 1) : i \in 1..n \/ i = n + 1 BY <2>1
  <2>4. n + 1 \in 1..(n + 1) BY <2>1
  <2>5. VersionsCoherent'
    BY <2>1, <2>2, <2>3 DEF VersionsCoherent, n
  <2>6. UpToDate' BY <2>2 DEF UpToDate
  <2>7. AllDoomed => AllDoomed'
    BY <2>1, <2>2, <2>3 DEF AllDoomed, n
  <2>8. \A i \in 1..n : Doomed(watch[i]) => Doomed(v)
    BY DEF Ordered, n
  <2>9. Ordered'
    <3>1. ASSUME NEW i \in 1..(n + 1), Doomed(watch'[i]) PROVE Doomed(v)
      BY <2>2, <2>3, <2>8, <3>1
    <3>2. ASSUME NEW i \in 1..(n + 1), NEW j \in 1..(n + 1), i <= j,
                 Doomed(watch'[i])
          PROVE  Doomed(watch'[j])
      <4>1. CASE j = n + 1 BY <4>1, <3>1, <3>2, <2>2
      <4>2. CASE j \in 1..n
        <5>1. i \in 1..n BY <4>2, <3>2, <2>1
        <5> QED BY <5>1, <4>2, <3>2, <2>2 DEF Ordered, n
      <4> QED BY <4>1, <4>2, <2>3
    <3>3. cached' # Absent /\ Doomed(cached') => AllDoomed'
      BY <2>7 DEF Ordered
    <3> QED BY <3>1, <3>2, <3>3, <2>2 DEF Ordered
  <2> QED BY <2>5, <2>6, <2>7, <2>9
<1> QED BY <1>1, <1>2

\* A sequence is empty exactly when its length is 0.
LEMMA EmptySeq == \A S : \A q \in Seq(S) : q = <<>> <=> Len(q) = 0
  OBVIOUS

\* The informer takes the oldest version.
LEMMA InformerVersions ==
    ASSUME TypeOK, VersionsInv, watch # <<>>, cached' = Head(watch),
           watch' = Tail(watch), api' = api
    PROVE  VersionsInv' /\ (AllDoomed => AllDoomed')
<1> USE DEF VersionsInv
<1> DEFINE n == Len(watch)
<1>1. /\ n \in Nat /\ n >= 1 /\ cached' = watch[1] /\ Len(watch') = n - 1
      /\ \A i \in 1..(n - 1) : watch'[i] = watch[i + 1]
  BY DEF TypeOK
<1>e. watch' = <<>> <=> n = 1
  <2>1. watch' \in Seq(Object \cup {Absent}) BY DEF TypeOK
  <2>2. watch' = <<>> <=> Len(watch') = 0 BY Zenon, <2>1, EmptySeq
  <2> QED BY <2>2, <1>1
<1> HIDE DEF n
<1>2. 1 \in 1..n /\ n \in 1..n BY <1>1
<1>3. \A i \in 1..(n - 1) : i + 1 \in 1..n /\ 1 <= i + 1 BY <1>1
<1>4. VersionsCoherent'
  BY <1>1, <1>2, <1>3 DEF VersionsCoherent, n
<1>5. UpToDate'
  <2>1. watch[n] = api BY DEF UpToDate, n
  <2>2. CASE n = 1 BY <1>1, <1>e, <2>1, <2>2 DEF UpToDate
  <2>3. CASE n # 1
    <3>1. n - 1 \in 1..(n - 1) /\ (n - 1) + 1 = n BY <1>1, <2>3
    <3> QED BY <1>1, <1>e, <2>1, <2>3, <3>1 DEF UpToDate
  <2> QED BY <2>2, <2>3
<1>6. AllDoomed => AllDoomed'
  BY <1>1, <1>2, <1>3 DEF AllDoomed, n
<1>7. Ordered'
  <2>1. ASSUME NEW i \in 1..(n - 1), NEW j \in 1..(n - 1), i <= j,
               Doomed(watch'[i])
        PROVE  Doomed(watch'[j])
    <3>1. i + 1 <= j + 1 BY <2>1, <1>1
    <3> QED BY <3>1, <2>1, <1>1, <1>3 DEF Ordered, n
  <2>2. \A i \in 1..(n - 1) : Doomed(watch'[i]) => Doomed(api)
    BY <1>1, <1>3 DEF Ordered, n
  <2>3. ASSUME Doomed(watch[1]) PROVE AllDoomed'
    BY <2>3, <1>1, <1>2, <1>3 DEF Ordered, AllDoomed, n
  <2> QED BY <2>1, <2>2, <2>3, <1>1 DEF Ordered
<1> QED BY <1>4, <1>5, <1>6, <1>7

\* A restart lists the stored object.
LEMMA CrashVersions ==
    ASSUME VersionsInv, api' = api, cached' = Absent,
           watch' = IF api = Absent THEN <<>> ELSE <<api>>
    PROVE  VersionsInv' /\ (AllDoomed => AllDoomed')
<1>1. CASE api = Absent
  <2>1. watch' = <<>> /\ Len(watch') = 0 BY <1>1
  <2> QED
    BY <1>1, <2>1 DEF VersionsInv, VersionsCoherent, UpToDate, Ordered,
                      AllDoomed, Version, Doomed
<1>2. CASE api # Absent
  <2>1. watch' # <<>> /\ Len(watch') = 1 /\ watch'[1] = api BY <1>2
  <2>2. \A i \in 1..1 : i = 1 OBVIOUS
  <2> QED
    BY <1>2, <2>1, <2>2 DEF VersionsInv, VersionsCoherent, UpToDate, Ordered,
                            AllDoomed, Version, Doomed
<1> QED BY <1>1, <1>2

-----------------------------------------------------------------------------
(* The types of what is not an object, and of the objects.                 *)

Scalars ==
    /\ after \in {"ok", "err"}
    /\ instance \in Instances /\ secret \in {"none", "own", "foreign"}
    /\ fresh \in BOOLEAN /\ queued \in BOOLEAN /\ delayed \in BOOLEAN
    /\ bound \in BOOLEAN /\ gaveUp \in BOOLEAN
    /\ failures \in 0..MaxRetries
    /\ faults \in 0..MaxFaults /\ crashes \in 0..MaxCrashes
    /\ released \in BOOLEAN /\ rejected \in BOOLEAN

Objects ==
    /\ api \in Object \cup {Absent} /\ watch \in Seq(Object \cup {Absent})
    /\ cached \in Object \cup {Absent} /\ local \in Object \cup {Absent}
    /\ pc \in {"idle", "startBind", "bind", "inject", "eject", "startUnbind",
               "unbind", "write"}
    /\ pc # "idle" => local # Absent
    /\ removed \in Object \cup {Absent}

\* TypeOK in two parts.
LEMMA TypeParts == TypeOK <=> Scalars /\ Objects
  BY DEF TypeOK, Scalars, Objects

Queues == <<delayed, failures, gaveUp>>

QueueTypes == delayed \in BOOLEAN /\ gaveUp \in BOOLEAN /\ failures \in 0..MaxRetries

\* The worker has returned.
Returned == pc' = "idle" /\ local' = Absent

\* A fault is counted up to the bound.
LEMMA FaultType ==
    ASSUME faults \in 0..MaxFaults, NEW kind, Fault(kind)
    PROVE  faults' \in 0..MaxFaults
<1>1. MaxFaults \in Nat BY Zenon, CredentialAssumption DEF CredentialAssumption
<1> QED BY <1>1 DEF Fault

\* A returning worker leaves well-typed queues.
LEMMA ReturnType ==
    ASSUME QueueTypes, NEW r, Return(r)
    PROVE  QueueTypes' /\ after' = "ok" /\ fresh' = FALSE /\ Returned
<1>1. MaxRetries \in Nat BY Zenon, CredentialAssumption DEF CredentialAssumption
<1>2. failures' \in 0..MaxRetries
  <2>1. (failures' = failures + 1 /\ failures < MaxRetries) \/ failures' = 0
    BY DEF Return
  <2> QED BY <1>1, <2>1 DEF QueueTypes
<1>3. delayed' \in BOOLEAN /\ gaveUp' \in BOOLEAN
  BY ZenonT(30) DEF Return, QueueTypes
<1> QED BY <1>2, <1>3 DEF Return, Returned, QueueTypes

\* The beginning of a reconciliation keeps the types.
LEMMA ScalarsReconcile == ASSUME Scalars, Reconcile PROVE Scalars'
<1>1. Take BY DEF Reconcile, ReconcileNothing, LookupFails, NoClient, InstanceUnfit,
                  BeginBind, BeginUnbind, TakeCredential
<1>2. UNCHANGED <<instance, bound, secret, crashes, released, rejected>> /\ queued' = FALSE
  BY <1>1 DEF Take, historyVars, outside
<1>3. UNCHANGED faults \/ Fault("lookup")
  BY DEF Reconcile, ReconcileNothing, LookupFails, NoClient, InstanceUnfit,
         BeginBind, BeginUnbind
<1>4. faults' \in 0..MaxFaults BY <1>3, FaultType DEF Scalars
<1>5. \/ Return("ok") \/ Return("err")
      \/ /\ UNCHANGED Queues /\ fresh' \in BOOLEAN
         /\ UNCHANGED after \/ after' \in {"ok", "err"}
  BY Zenon DEF Reconcile, ReconcileNothing, LookupFails, NoClient, InstanceUnfit,
         BeginBind, BeginUnbind, TakeCredential, Continue, WriteThenReturn, Queues
<1>6. QueueTypes' /\ fresh' \in BOOLEAN /\ after' \in {"ok", "err"}
  <2>1. CASE Return("ok") BY Zenon, <2>1, ReturnType DEF Scalars, QueueTypes
  <2>2. CASE Return("err") BY Zenon, <2>2, ReturnType DEF Scalars, QueueTypes
  <2> QED BY <1>5, <2>1, <2>2 DEF Scalars, QueueTypes, Queues
<1> QED BY Zenon, <1>2, <1>4, <1>6 DEF Scalars, QueueTypes

\* The status writes keep the types.
LEMMA ScalarsWrite == ASSUME Scalars, Write PROVE Scalars'
<1>1. UNCHANGED <<queued, instance, bound, secret, crashes, released, rejected>>
  BY DEF Write, WriteFails, RecordStartOfOperation, UpdateStatus, queueVars, outside
<1>2. UNCHANGED faults \/ Fault("api")
  BY DEF Write, WriteFails, RecordStartOfOperation, UpdateStatus
<1>3. faults' \in 0..MaxFaults BY <1>2, FaultType DEF Scalars
<1>4. \/ Return("err") \/ Return(after)
      \/ UNCHANGED Queues /\ UNCHANGED fresh /\ UNCHANGED after
  BY DEF Write, WriteFails, RecordStartOfOperation, UpdateStatus, Continue, Queues,
         queueVars
<1>5. QueueTypes' /\ fresh' \in BOOLEAN /\ after' \in {"ok", "err"}
  <2>1. CASE Return("err") BY Zenon, <2>1, ReturnType DEF Scalars, QueueTypes
  <2>2. CASE Return(after) BY Zenon, <2>2, ReturnType DEF Scalars, QueueTypes
  <2> QED BY <1>4, <2>1, <2>2 DEF Scalars, QueueTypes, Queues
<1> QED BY <1>1, <1>3, <1>5 DEF Scalars, QueueTypes

\* The calls of the broker and of the secrets keep the types.
LEMMA ScalarsCall == ASSUME Scalars, Call PROVE Scalars'
<1> USE DEF Call, BindOK, BindRejected, BindAmbiguous, BindError, InjectOK, InjectFails,
            EjectOK, EjectFails, UnbindOK, UnbindRejected, UnbindError
<1>1. UNCHANGED <<instance, fresh, queued, delayed, gaveUp, failures, crashes>>
  BY Zenon DEF CallFrame, queueVars
<1>2. UNCHANGED faults \/ \E k \in {"api", "broker", "expire"} : Fault(k)
  BY Zenon
<1>3. faults' \in 0..MaxFaults BY <1>2, FaultType DEF Scalars
<1>4. after' \in {"ok", "err"} \/ after' = after BY Zenon DEF WriteThenReturn, Continue
<1>5. /\ released' = released \/ released' = TRUE
      /\ rejected' = rejected \/ rejected' = TRUE
  BY Zenon
<1>6. bound' = bound \/ bound' = TRUE \/ bound' = FALSE OBVIOUS
<1>7. secret' = secret \/ secret' \in {"own", "none"} BY Zenon
<1> HIDE DEF Call, BindOK, BindRejected, BindAmbiguous, BindError, InjectOK, InjectFails,
             EjectOK, EjectFails, UnbindOK, UnbindRejected, UnbindError
<1>8. bound' \in BOOLEAN /\ released' \in BOOLEAN /\ rejected' \in BOOLEAN
  BY <1>5, <1>6, Zenon DEF Scalars
<1>9. secret' \in {"none", "own", "foreign"} /\ after' \in {"ok", "err"}
  BY <1>4, <1>7 DEF Scalars
<1> QED BY <1>1, <1>3, <1>8, <1>9 DEF Scalars

\* The informer, the timers and the environment.
LEMMA ScalarsOther ==
    ASSUME Scalars, InformerEvent \/ Resync \/ RetryDue \/ Environment
    PROVE  Scalars'
<1>1. CASE InformerEvent
  <2>1. queued' \in BOOLEAN BY <1>1, Zenon DEF InformerEvent, Scalars
  <2> QED BY <1>1, <2>1 DEF InformerEvent, Scalars, workerVars, outside, historyVars
<1>2. CASE Resync BY <1>2 DEF Resync, Scalars, workerVars, outside, historyVars
<1>3. CASE RetryDue BY Zenon, <1>3 DEF RetryDue, Scalars, workerVars, outside, historyVars
<1>4. CASE UserDelete BY Zenon, <1>4 DEF UserDelete, Scalars, queueVars, outside, historyVars
<1>5. CASE UserEdit
  <2>1. faults' \in 0..MaxFaults BY <1>5, FaultType DEF UserEdit, Scalars
  <2> QED BY Zenon, <1>5, <2>1 DEF UserEdit, Scalars, queueVars, outside, historyVars
<1>6. CASE InstanceChanges
  <2>1. faults' \in 0..MaxFaults BY <1>6, FaultType DEF InstanceChanges, Scalars
  <2> QED BY <1>6, <2>1 DEF InstanceChanges, Scalars, workerVars, queueVars, historyVars
<1>7. CASE ForeignSecret
  <2>1. faults' \in 0..MaxFaults BY <1>7, FaultType DEF ForeignSecret, Scalars
  <2> QED BY <1>7, <2>1 DEF ForeignSecret, Scalars, workerVars, queueVars, historyVars
<1>8. CASE Crash
  <2>1. MaxCrashes \in Nat /\ MaxRetries \in Nat
    BY Zenon, CredentialAssumption DEF CredentialAssumption
  <2>2. crashes' \in 0..MaxCrashes BY <1>8, <2>1 DEF Crash, Restart, Scalars
  <2>3. failures' \in 0..MaxRetries BY <1>8, <2>1 DEF Crash, Restart
  <2> QED BY Zenon, <1>8, <2>2, <2>3 DEF Crash, Restart, Scalars, historyVars
<1> QED BY <1>1, <1>2, <1>3, <1>4, <1>5, <1>6, <1>7, <1>8 DEF Environment

-----------------------------------------------------------------------------
(* What each kind of worker step does to the copy.                         *)

\* The worker goes on with a copy of the cached version.
TakesOver ==
    /\ cached \in Object /\ Evolves(cached, local') /\ fresh' = (watch = <<>>)
    /\ ~NothingToDo(cached)
    /\ \/ pc' = "write" /\ local'.fin /\ local'.ready # "True"
       \/ pc' \in {"startBind", "bind"} /\ ~Doomed(cached) /\ BindingCopy(local')
       \/ /\ pc' = "eject" /\ Doomed(cached) /\ local'.fin
          /\ local'.del \/ local'.orphan

\* A reconciliation begins from the cached version, or returns at once.
LEMMA TakeShape ==
    ASSUME TypeOK, VersionsCoherent, Reconcile
    PROVE  /\ pc = "idle"
           /\ UNCHANGED <<api, watch, cached, bound, secret, released, removed>>
           /\ Returned \/ TakesOver
<1> USE AbsentNoObject
<1>1. /\ pc = "idle"
      /\ UNCHANGED <<api, watch, cached, bound, secret, released, removed>>
  BY DEF Reconcile, ReconcileNothing, LookupFails, NoClient, InstanceUnfit, BeginBind,
         BeginUnbind, TakeCredential, Take, storeVars, historyVars, outside
<1> SUFFICES Returned \/ TakesOver BY <1>1
<1>2. ASSUME TakeCredential
      PROVE  /\ cached \in Object /\ cached # Absent /\ Coherent(cached) /\ cached.fin
             /\ fresh' = (watch = <<>>) /\ ~NothingToDo(cached)
  BY <1>2 DEF TakeCredential, TypeOK, VersionsCoherent, Version
<1>3. CASE ReconcileNothing \/ NoClient
  BY <1>3 DEF ReconcileNothing, NoClient, Return, Returned
<1>4. CASE LookupFails \/ InstanceUnfit
  <2>1. TakeCredential BY <1>4 DEF LookupFails, InstanceUnfit
  <2> DEFINE b == SetReady(cached, "False")
  <2>2. local' = b /\ pc' = "write"
    BY <1>4 DEF LookupFails, InstanceUnfit, WriteThenReturn
  <2>3. /\ b \in Object /\ SameLife(cached, b) /\ b.ready = "False" /\ b.op = cached.op
        /\ b.started = cached.started /\ b.orphan = cached.orphan
        /\ b.failed = cached.failed /\ b.recGen = cached.recGen
    BY <2>1, <1>2, ReadyFields
  <2> HIDE DEF b
  <2>4. Evolves(cached, b)
    BY <2>1, <2>3, <1>2, EvolvesIf DEF SameLife, Coherent
  <2> QED BY <2>1, <2>2, <2>3, <2>4, <1>2 DEF TakesOver, SameLife
<1>5. CASE BeginBind
  <2>1. TakeCredential /\ ToBind(cached) BY <1>5 DEF BeginBind
  <2>2. ~cached.del /\ ~cached.orphan /\ ~cached.failed /\ ~Doomed(cached)
    BY <2>1, <1>2 DEF ToBind, NothingToDo, Doomed
  <2> DEFINE b == [cached EXCEPT !.inProg = TRUE]
             r == RecordStart(b, "Bind")
  <2>3. \/ b.op = "none" /\ local' = r /\ pc' = "startBind"
        \/ b.op # "none" /\ local' = b /\ pc' = "bind"
    BY <1>5 DEF BeginBind, Continue
  <2>4. /\ b \in Object /\ b.inProg /\ b.ext = cached.ext /\ b.started = cached.started
    BY Zenon, <2>1, <1>2 DEF Object
  <2>5. /\ SameLife(cached, b) /\ b.op = cached.op /\ b.orphan = cached.orphan
        /\ b.failed = cached.failed /\ b.recGen = cached.recGen /\ b.ready = cached.ready
    BY Zenon, <2>1, <1>2, EditFields
  <2> HIDE DEF b
  <2>6. /\ r \in Object /\ SameLife(b, r) /\ r.op = "Bind" /\ r.started
        /\ r.orphan = b.orphan /\ r.inProg = b.inProg /\ r.failed = b.failed
        /\ r.recGen = b.recGen /\ r.ready = "False"
    BY Zenon, <2>4, StartFields
  <2> HIDE DEF r
  <2>7. Evolves(cached, b)
    BY <2>1, <2>4, <2>5, <1>2, EvolvesIf DEF SameLife, Coherent
  <2>8. Evolves(cached, r)
    BY <2>1, <2>2, <2>5, <2>6, <1>2, EvolvesIf DEF SameLife
  <2>9. BindingCopy(r)
    BY <2>1, <2>2, <2>4, <2>5, <2>6, <1>2 DEF SameLife, BindingCopy
  <2>10. b.op # "none" => BindingCopy(b)
    BY <2>1, <2>2, <2>4, <2>5, <1>2 DEF SameLife, BindingCopy, Coherent
  <2> QED BY <2>1, <2>2, <2>3, <2>7, <2>8, <2>9, <2>10, <1>2 DEF TakesOver
<1>6. CASE BeginUnbind
  <2>1. TakeCredential /\ ~ToBind(cached) /\ local' = cached /\ pc' = "eject"
    BY <1>6 DEF BeginUnbind, Continue
  <2>2. cached.del \/ cached.orphan BY <2>1 DEF ToBind
  <2>3. Doomed(cached) BY <2>1, <2>2, <1>2 DEF Doomed, Coherent
  <2> QED BY <2>1, <2>2, <2>3, <1>2, EvolvesRefl DEF TakesOver
<1> QED BY <1>3, <1>4, <1>5, <1>6 DEF Reconcile

\* A call made to bind: the worker goes on to inject, or writes.
BindShape ==
    /\ released' = released
    /\ bound' = bound \/ bound' = TRUE
    /\ secret' = secret \/ secret' = "own"
    /\ \/ pc' = "inject" /\ BindingCopy(local') /\ local'.ext /\ bound' = TRUE
       \/ /\ pc' = "write" /\ local'.fin
          /\ local'.ready = "True" =>
               bound' /\ secret' = "own" /\ local'.recGen = local'.gen

\* The status of a call is a chain of helpers: it continues the copy when it
\* keeps the life of the object and is coherent.
LEMMA BindCalls ==
    ASSUME local \in Object, Coherent(local), StageInv, pc \in {"bind", "inject"},
           Call
    PROVE  Evolves(local, local') /\ BindShape
<1> DEFINE l == local
<1>1. BindingCopy(l) /\ (pc = "inject" => l.ext /\ bound)
  BY DEF StageInv, Binding
<1>2. CASE BindOK
  <2> DEFINE b == [l EXCEPT !.ext = l.inProg]
  <2>1. /\ local' = b /\ pc' = "inject" /\ bound' = TRUE /\ UNCHANGED <<secret, released>>
    BY <1>2 DEF BindOK, Continue
  <2>2. /\ b \in Object /\ b.ext = l.inProg /\ b.started = l.started
        /\ b.inProg = l.inProg
    BY DEF Object
  <2>3. /\ SameLife(l, b) /\ b.op = l.op /\ b.orphan = l.orphan
        /\ b.failed = l.failed /\ b.recGen = l.recGen /\ b.ready = l.ready
    <3>1. l.inProg \in BOOLEAN BY ObjectFields
    <3> QED BY <3>1, EditFields
  <2> HIDE DEF b
  <2>4. Evolves(l, b)
    BY Zenon, <1>1, <2>2, <2>3, EvolvesIf DEF SameLife, Coherent, BindingCopy
  <2>5. BindingCopy(b) BY <1>1, <2>2, <2>3 DEF BindingCopy, SameLife
  <2> QED BY <1>1, <2>1, <2>2, <2>4, <2>5 DEF BindShape, BindingCopy
<1>3. CASE BindRejected
  <2> DEFINE f == [l EXCEPT !.failed = TRUE]
             r == SetReady(f, "False")
             c == ClearCurrentOperation(r)
  <2>1. local' = c /\ pc' = "write" /\ UNCHANGED <<bound, secret, released>>
    BY <1>3 DEF BindRejected, WriteThenReturn
  <2>2. f \in Object /\ SameLife(l, f) /\ f.failed /\ f.recGen = l.recGen
    BY Zenon, FailFields
  <2> HIDE DEF f
  <2>3. r \in Object /\ SameLife(f, r) /\ r.failed = f.failed /\ r.ready = "False"
    BY Zenon, <2>2, ReadyFields
  <2> HIDE DEF r
  <2>4. /\ c \in Object /\ SameLife(r, c) /\ c.op = "none" /\ ~c.orphan
        /\ c.recGen = r.gen /\ c.failed = r.failed /\ c.ready = r.ready
    BY <2>3, ClearFields
  <2> HIDE DEF c
  <2>5. Evolves(l, c) BY Zenon, <2>2, <2>3, <2>4, EvolvesIf DEF SameLife
  <2> QED BY <1>1, <2>1, <2>2, <2>3, <2>4, <2>5 DEF BindShape, BindingCopy, SameLife
<1>4. CASE BindAmbiguous
  <2> DEFINE c == StartOrphanMitigation(l)
  <2>1. /\ local' = c /\ pc' = "write" /\ UNCHANGED <<secret, released>>
        /\ bound' = bound \/ bound' = TRUE
    BY Zenon, <1>4 DEF BindAmbiguous, WriteThenReturn
  <2>2. /\ c \in Object /\ SameLife(l, c) /\ c.op = l.op /\ c.orphan
        /\ c.failed /\ c.recGen = l.recGen /\ c.ready = "False"
    BY OrphanFields
  <2> HIDE DEF c
  <2>3. Evolves(l, c) BY <2>2, EvolvesIf DEF SameLife
  <2> QED BY <1>1, <2>1, <2>2, <2>3 DEF BindShape, BindingCopy, SameLife
<1>5. ASSUME NEW o, o = SetReady(l, "False")
      PROVE  /\ o \in Object /\ SameLife(l, o) /\ Evolves(l, o) /\ o.ready = "False"
             /\ o.recGen = l.recGen /\ o.fin /\ Coherent(o)
  <2>1. /\ o \in Object /\ SameLife(l, o) /\ o.ready = "False" /\ o.op = l.op
        /\ o.started = l.started /\ o.orphan = l.orphan /\ o.failed = l.failed
        /\ o.recGen = l.recGen
    BY <1>5, ReadyFields
  <2>2. Evolves(l, o) BY <2>1, EvolvesIf DEF SameLife, Coherent
  <2> QED BY <1>1, <2>1, <2>2 DEF BindingCopy, SameLife, Evolves
<1>6. CASE BindError
  <2> DEFINE o == SetReady(l, "False")
             f == [o EXCEPT !.failed = TRUE]
             c == ClearCurrentOperation(f)
  <2>1. /\ local' = o \/ local' = c
        /\ pc' = "write" /\ UNCHANGED <<secret, released>>
        /\ bound' = bound \/ bound' = TRUE
    BY Zenon, <1>6 DEF BindError, WriteThenReturn
  <2>2. /\ o \in Object /\ SameLife(l, o) /\ Evolves(l, o) /\ o.ready = "False"
        /\ o.fin
    BY <1>5
  <2> HIDE DEF o
  <2>3. f \in Object /\ SameLife(o, f) /\ f.failed /\ f.ready = o.ready
    BY Zenon, <2>2, FailFields
  <2> HIDE DEF f
  <2>4. /\ c \in Object /\ SameLife(f, c) /\ c.op = "none" /\ ~c.orphan
        /\ c.recGen = f.gen /\ c.failed = f.failed /\ c.ready = f.ready
    BY Zenon, <2>3, ClearFields
  <2> HIDE DEF c
  <2>5. Evolves(l, c) BY Zenon, <2>2, <2>3, <2>4, EvolvesIf DEF SameLife
  <2> QED BY <2>1, <2>2, <2>3, <2>4, <2>5 DEF BindShape, SameLife
<1>7. CASE InjectOK
  <2> DEFINE c == ClearCurrentOperation(l)
             r == SetReady(c, "True")
  <2>1. /\ local' = r /\ pc' = "write" /\ pc = "inject" /\ secret' = "own"
        /\ UNCHANGED <<bound, released>>
    BY <1>7 DEF InjectOK, WriteThenReturn
  <2>2. /\ c \in Object /\ SameLife(l, c) /\ c.op = "none" /\ ~c.orphan
        /\ c.recGen = l.gen /\ c.failed = l.failed /\ c.ext = l.ext
    BY ClearFields
  <2> HIDE DEF c
  <2>3. /\ r \in Object /\ SameLife(c, r) /\ r.op = c.op /\ r.orphan = c.orphan
        /\ r.recGen = c.recGen /\ r.failed = c.failed /\ r.ext = c.ext
    BY <2>2, ReadyFields
  <2> HIDE DEF r
  <2>4. Evolves(l, r)
    BY <1>1, <2>1, <2>2, <2>3, EvolvesIf DEF SameLife, BindingCopy
  <2> QED BY <1>1, <2>1, <2>2, <2>3, <2>4 DEF BindShape, SameLife, BindingCopy
<1>8. CASE InjectFails
  <2> DEFINE o == SetReady(l, "False")
             c == StartOrphanMitigation(o)
  <2>1. /\ local' = o \/ local' = c
        /\ pc' = "write" /\ UNCHANGED <<bound, released>>
        /\ secret' = secret \/ secret' = "own"
    BY <1>8 DEF InjectFails, WriteThenReturn
  <2>2. /\ o \in Object /\ SameLife(l, o) /\ Evolves(l, o) /\ o.ready = "False"
        /\ o.recGen = l.recGen /\ o.fin
    BY <1>5
  <2> HIDE DEF o
  <2>3. /\ c \in Object /\ SameLife(o, c) /\ c.orphan
        /\ c.failed /\ c.recGen = o.recGen /\ c.ready = "False"
    BY <2>2, OrphanFields
  <2> HIDE DEF c
  <2>4. Evolves(l, c) BY <2>2, <2>3, EvolvesIf DEF SameLife
  <2> QED BY Zenon, <2>1, <2>2, <2>3, <2>4 DEF BindShape, SameLife
<1> QED
  <2>1. ~(EjectOK \/ EjectFails \/ UnbindOK \/ UnbindRejected \/ UnbindError)
    BY Zenon DEF EjectOK, EjectFails, UnbindOK, UnbindRejected, UnbindError
  <2> QED BY <2>1, <1>2, <1>3, <1>4, <1>6, <1>7, <1>8 DEF Call

\* A call made to release: towards Unbind, or a write; the finalizer goes
\* only with the binding and the secret.
UnbindShape ==
    /\ bound' = bound \/ bound' = FALSE
    /\ secret' = secret \/ secret' = "none"
    /\ released' = TRUE
    /\ \/ /\ pc' \in {"startUnbind", "unbind"} /\ local'.fin
          /\ local'.del \/ local'.orphan
          /\ local'.op # "none" /\ local'.started /\ secret' = "none"
       \/ /\ pc' = "write" /\ local'.ready # "True"
          /\ local'.fin \/ (local'.del /\ bound' = FALSE /\ secret' # "own")

\* The same for the calls that release.
LEMMA UnbindCalls ==
    ASSUME local \in Object, Coherent(local), StageInv, pc \in {"eject", "unbind"},
           released \in BOOLEAN, Call
    PROVE  Evolves(local, local') /\ UnbindShape
<1> DEFINE l == local
<1>1. (l.del \/ l.orphan) /\ l.fin /\ (pc = "unbind" => released = TRUE /\ secret # "own")
  BY DEF StageInv, Unbinding
<1>2. CASE EjectOK
  <2>1. /\ secret' = "none" /\ released' = TRUE /\ UNCHANGED bound
    BY <1>2 DEF EjectOK
  <2>2. CASE l.op = "none"
    <3> DEFINE b == RecordStart(l, "Unbind")
    <3>1. local' = b /\ pc' = "startUnbind" BY <1>2, <2>2 DEF EjectOK, Continue
    <3>2. /\ b \in Object /\ SameLife(l, b) /\ b.op = "Unbind" /\ b.started
          /\ b.orphan = l.orphan /\ b.failed = l.failed
          /\ b.recGen = l.recGen /\ b.ready = "False"
      BY StartFields
    <3> HIDE DEF b
    <3>3. Evolves(l, b) BY <3>2, EvolvesIf DEF SameLife, Coherent
    <3> QED BY <1>1, <2>1, <3>1, <3>2, <3>3 DEF UnbindShape, SameLife
  <2>3. CASE l.op # "none"
    <3> DEFINE b == [l EXCEPT !.started = @ \/ l.orphan]
    <3>1. local' = b /\ pc' = "unbind" BY <1>2, <2>3 DEF EjectOK, Continue
    <3>2. b.started /\ b.ext = l.ext BY <2>3 DEF Object, Coherent
    <3>3. /\ b \in Object /\ SameLife(l, b) /\ b.op = l.op /\ b.orphan = l.orphan
          /\ b.failed = l.failed /\ b.recGen = l.recGen /\ b.ready = l.ready
      <4> DEFINE x == l.started \/ l.orphan
      <4>1. x \in BOOLEAN BY ObjectFields
      <4>2. b = [l EXCEPT !.started = x] OBVIOUS
      <4> HIDE DEF x, b
      <4> QED BY <4>1, <4>2, EditFields
    <3> HIDE DEF b
    <3>4. Evolves(l, b) BY <3>2, <3>3, EvolvesIf DEF SameLife, Coherent
    <3> QED BY <1>1, <2>1, <2>3, <3>1, <3>2, <3>3, <3>4 DEF UnbindShape, SameLife
  <2> QED BY <2>2, <2>3
<1>3. ASSUME NEW o, o = SetReady(l, "Unknown")
      PROVE  /\ o \in Object /\ SameLife(l, o) /\ Evolves(l, o) /\ o.ready = "Unknown"
  <2>1. /\ o \in Object /\ SameLife(l, o) /\ o.ready = "Unknown" /\ o.op = l.op
        /\ o.started = l.started /\ o.orphan = l.orphan /\ o.failed = l.failed
        /\ o.recGen = l.recGen
    BY <1>3, ReadyFields
  <2>2. Evolves(l, o) BY <2>1, EvolvesIf DEF SameLife, Coherent
  <2> QED BY <2>1, <2>2
<1>4. CASE EjectFails
  <2>1. /\ local' = SetReady(l, "Unknown") /\ pc' = "write" /\ released' = TRUE
        /\ UNCHANGED bound /\ (secret' = secret \/ secret' = "none")
    BY <1>4 DEF EjectFails, WriteThenReturn
  <2>2. Evolves(l, local') /\ SameLife(l, local') /\ local'.ready = "Unknown"
    BY <2>1, <1>3
  <2> QED BY Zenon, <1>1, <2>1, <2>2 DEF UnbindShape, SameLife
<1>5. CASE UnbindOK
  <2> DEFINE b == [l EXCEPT !.ext = FALSE, !.fin = @ /\ l.orphan]
             r == SetReady(b, "False")
             c == ClearCurrentOperation(r)
  <2>1. /\ pc = "unbind" /\ local' = c /\ pc' = "write" /\ bound' = FALSE
        /\ UNCHANGED <<secret, released>>
    BY <1>5 DEF UnbindOK, WriteThenReturn
  <2>2. /\ b \in Object /\ b.del = l.del /\ b.gen = l.gen
        /\ (b.fin <=> l.fin /\ l.orphan) /\ b.failed = l.failed
    BY Zenon, UnbindFields
  <2> HIDE DEF b
  <2>3. r \in Object /\ SameLife(b, r) /\ r.failed = b.failed /\ r.ready = "False"
    BY <2>2, ReadyFields
  <2> HIDE DEF r
  <2>4. /\ c \in Object /\ SameLife(r, c) /\ c.op = "none" /\ ~c.orphan
        /\ c.recGen = r.gen /\ c.failed = r.failed /\ c.ready = r.ready
    BY <2>3, ClearFields
  <2> HIDE DEF c
  <2>5. Evolves(l, c) BY <2>2, <2>3, <2>4, EvolvesIf DEF SameLife
  <2>6. c.fin \/ c.del BY <1>1, <2>2, <2>3, <2>4 DEF SameLife
  <2> QED BY <1>1, <2>1, <2>3, <2>4, <2>5, <2>6 DEF UnbindShape
<1>6. CASE UnbindRejected
  <2> DEFINE x == l.failed \/ ~l.orphan
             f == [l EXCEPT !.failed = x]
             r == SetReady(f, "Unknown")
             c == ClearCurrentOperation(r)
  <2>1. /\ pc = "unbind" /\ local' = c /\ pc' = "write"
        /\ bound' = bound \/ bound' = FALSE
        /\ UNCHANGED <<secret, released>>
    BY Zenon, <1>6 DEF UnbindRejected, WriteThenReturn
  <2>2. x \in BOOLEAN /\ (l.failed => x) BY ObjectFields
  <2> HIDE DEF x
  <2>3. f \in Object /\ SameLife(l, f) /\ f.failed = x BY <2>2, FailFields
  <2> HIDE DEF f
  <2>4. r \in Object /\ SameLife(f, r) /\ r.failed = f.failed /\ r.ready = "Unknown"
    BY <2>3, ReadyFields
  <2> HIDE DEF r
  <2>5. /\ c \in Object /\ SameLife(r, c) /\ c.op = "none" /\ ~c.orphan
        /\ c.recGen = r.gen /\ c.failed = r.failed /\ c.ready = r.ready
    BY <2>4, ClearFields
  <2> HIDE DEF c
  <2>6. Evolves(l, c) BY <2>2, <2>3, <2>4, <2>5, EvolvesIf DEF SameLife
  <2> QED BY <1>1, <2>1, <2>3, <2>4, <2>5, <2>6 DEF UnbindShape, SameLife
<1>7. CASE UnbindError
  <2> DEFINE o == SetReady(l, "Unknown")
             f == [o EXCEPT !.failed = TRUE]
             c == ClearCurrentOperation(f)
  <2>1. /\ pc = "unbind" /\ (local' = o \/ local' = c)
        /\ pc' = "write" /\ UNCHANGED <<secret, released>>
        /\ bound' = bound \/ bound' = FALSE
    BY Zenon, <1>7 DEF UnbindError, WriteThenReturn
  <2>2. o \in Object /\ SameLife(l, o) /\ Evolves(l, o) /\ o.ready = "Unknown"
    BY <1>3
  <2> HIDE DEF o
  <2>3. f \in Object /\ SameLife(o, f) /\ f.failed /\ f.ready = o.ready
    BY Zenon, <2>2, FailFields
  <2> HIDE DEF f
  <2>4. /\ c \in Object /\ SameLife(f, c) /\ c.op = "none" /\ ~c.orphan
        /\ c.recGen = f.gen /\ c.failed = f.failed /\ c.ready = f.ready
    BY Zenon, <2>3, ClearFields
  <2> HIDE DEF c
  <2>5. Evolves(l, c) BY Zenon, <2>2, <2>3, <2>4, EvolvesIf DEF SameLife
  <2>6. released' = TRUE BY <1>1, <1>7, <2>1 DEF UnbindError
  <2> QED BY Zenon, <1>1, <2>1, <2>2, <2>3, <2>4, <2>5, <2>6 DEF UnbindShape, SameLife
<1> QED
  <2>1. ~(BindOK \/ BindRejected \/ BindAmbiguous \/ BindError \/ InjectOK \/ InjectFails)
    BY Zenon DEF BindOK, BindRejected, BindAmbiguous, BindError, InjectOK, InjectFails
  <2> QED BY <2>1, <1>2, <1>4, <1>5, <1>6, <1>7 DEF Call

\* A write that is accepted continues the stored version, and removes the
\* object only if it is under deletion and has lost its finalizer.
LEMMA CommitShape ==
    ASSUME TypeOK, VersionsInv, FreshInv, StageInv,
           pc \in {"startBind", "startUnbind", "write"}, fresh, Commit(local),
           cached' = cached
    PROVE  /\ VersionsInv' /\ (AllDoomed => AllDoomed')
           /\ api # Absent /\ Evolves(api, local)
           /\ api' = Absent \/ api' = local
           /\ local.fin => api' = local
           /\ removed' = removed \/ ~local.fin
           /\ watch' \in Seq(Object \cup {Absent}) /\ removed' \in Object \cup {Absent}
<1> DEFINE v == IF local.del /\ ~local.fin THEN Absent ELSE local
<1>1. /\ api' = v
      /\ watch' = Append(watch, v) \/ (v = api /\ watch' = watch)
      /\ removed' = IF v = Absent THEN local ELSE removed
  BY DEF Commit
<1>2. api # Absent /\ api \in Object /\ Evolves(api, local) /\ local \in Object
  BY DEF FreshInv, TypeOK, Evolves
<1>3. local.fin \/ local.del
  BY DEF StageInv, Binding, Unbinding, BindingCopy
<1>4. (v = Absent /\ ~local.fin) \/ (v = local /\ local.fin) BY <1>3
<1> HIDE DEF v
<1>5. v \in Object \cup {Absent} BY <1>2, <1>4
<1>6. Version(v) BY <1>2, <1>4 DEF Version, Evolves
<1>7. Doomed(api) => Doomed(v) BY <1>2, <1>4 DEF Doomed, Evolves
<1>8. VersionsInv' /\ (AllDoomed => AllDoomed')
  BY <1>1, <1>5, <1>6, <1>7, NewVersion
<1>9. watch' \in Seq(Object \cup {Absent}) BY <1>1, <1>5 DEF TypeOK
<1>10. local # Absent BY <1>2, AbsentNoObject
<1>11. removed' \in Object \cup {Absent} /\ (removed' = removed \/ ~local.fin)
  BY <1>1, <1>2, <1>4, <1>10 DEF TypeOK
<1> QED BY <1>1, <1>2, <1>4, <1>8, <1>9, <1>11

\* The worker goes on after a write that was stored.
GoesOn ==
    /\ fresh /\ fresh' = fresh /\ local' = local /\ Commit(local)
    /\ \/ pc = "startBind" /\ pc' = "bind"
       \/ pc = "startUnbind" /\ pc' = "unbind"

\* What a status write does, whatever comes of it.
LEMMA WriteShape ==
    ASSUME Write
    PROVE  /\ pc \in {"startBind", "startUnbind", "write"}
           /\ UNCHANGED <<cached, bound, secret, released>>
           /\ \/ UNCHANGED <<api, watch, removed>>
              \/ fresh /\ Commit(local)
           /\ Returned \/ GoesOn
<1>1. /\ pc \in {"startBind", "startUnbind", "write"}
      /\ UNCHANGED <<cached, bound, secret, released>>
      /\ \/ UNCHANGED <<api, watch, removed>>
         \/ fresh /\ Commit(local)
  BY DEF Write, WriteFails, RecordStartOfOperation, UpdateStatus, Refused, storeVars,
         outside
<1>2. CASE WriteFails BY <1>1, <1>2 DEF WriteFails, Return, Returned
<1>3. CASE UpdateStatus BY <1>1, <1>3 DEF UpdateStatus, Return, Returned
<1>4. CASE RecordStartOfOperation
  BY <1>1, <1>4 DEF RecordStartOfOperation, Refused, Continue, GoesOn
<1> QED BY <1>2, <1>3, <1>4 DEF Write

-----------------------------------------------------------------------------
(* The induction: one lemma per kind of step.                              *)

\* What remains of IInv when the types are known.
Meaning == VersionsInv /\ FreshInv /\ StageInv /\ ReleaseInv /\ OutsideInv

\* A worker that has returned holds nothing.
LEMMA ReturnedStep ==
    ASSUME VersionsInv', Returned, ReleaseInv', OutsideInv'
    PROVE  Meaning'
  BY DEF Meaning, Returned, FreshInv, StageInv, Binding, Unbinding

\* A stored Ready version that is not deleted has not failed: it is healthy.
LEMMA ReadyIsHealthy ==
    ASSUME VersionsCoherent, AllDoomed, api # Absent, api.ready = "True" PROVE api.del
  BY DEF VersionsCoherent, Version, Coherent, AllDoomed, Doomed

\* The beginning of a reconciliation: the copy is fresh exactly when the cache
\* is up to date, and a doomed copy means that all versions are doomed.
LEMMA ReconcileStep ==
    ASSUME IInv, Reconcile PROVE Objects' /\ Meaning'
<1> USE AbsentNoObject
<1>1. /\ pc = "idle"
      /\ UNCHANGED <<api, watch, cached, bound, secret, released, removed>>
      /\ Returned \/ TakesOver
  BY TakeShape DEF IInv, VersionsInv
<1>2. VersionsInv' /\ (AllDoomed' <=> AllDoomed)
  BY <1>1 DEF IInv, VersionsInv, VersionsCoherent, UpToDate, Ordered, AllDoomed
<1>3. ReleaseInv' /\ OutsideInv'
  BY <1>1, <1>2 DEF IInv, ReleaseInv, OutsideInv
<1>4. CASE Returned
  BY <1>1, <1>2, <1>3, <1>4, ReturnedStep DEF Returned, Objects, IInv, TypeOK
<1>5. CASE TakesOver
  <2>1. local' \in Object /\ Coherent(local') /\ cached # Absent
    BY <1>5 DEF TakesOver, Evolves
  <2>2. Objects' BY <1>1, <1>5, <2>1 DEF TakesOver, Objects, IInv, TypeOK
  <2>3. FreshInv'
    <3>1. CASE watch = <<>>
      <4>1. api = cached BY <3>1 DEF IInv, VersionsInv, UpToDate
      <4> QED BY <1>1, <1>5, <2>1, <4>1 DEF TakesOver, FreshInv
    <3> QED BY Zenon, <1>5, <3>1 DEF TakesOver, FreshInv
  <2>4. Doomed(cached) <=> AllDoomed
    BY <2>1 DEF IInv, VersionsInv, Ordered, AllDoomed
  <2>5. released => AllDoomed BY DEF IInv, ReleaseInv
  <2>6. StageInv'
    BY <1>1, <1>2, <1>5, <2>1, <2>4, <2>5 DEF TakesOver, StageInv, Binding, Unbinding
  <2> QED BY <1>2, <1>3, <2>2, <2>3, <2>6 DEF Meaning
<1> QED BY <1>1, <1>4, <1>5

\* A status write: only a fresh copy is stored.
LEMMA WriteStep ==
    ASSUME IInv, Write PROVE Objects' /\ Meaning'
<1> USE AbsentNoObject
<1>1. /\ pc \in {"startBind", "startUnbind", "write"}
      /\ UNCHANGED <<cached, bound, secret, released>>
      /\ \/ UNCHANGED <<api, watch, removed>>
         \/ fresh /\ Commit(local)
      /\ Returned \/ GoesOn
  BY WriteShape
<1>2. local \in Object BY <1>1 DEF IInv, TypeOK
<1>3. ASSUME fresh, Commit(local)
      PROVE  /\ VersionsInv' /\ (AllDoomed => AllDoomed')
             /\ api' = Absent \/ api' = local
             /\ local.fin => api' = local
             /\ removed' = removed \/ ~local.fin
             /\ watch' \in Seq(Object \cup {Absent}) /\ removed' \in Object \cup {Absent}
  BY <1>1, <1>3, CommitShape DEF IInv
<1>4. /\ VersionsInv' /\ (AllDoomed => AllDoomed')
      /\ api' \in Object \cup {Absent} /\ watch' \in Seq(Object \cup {Absent})
      /\ removed' \in Object \cup {Absent}
  <2>1. CASE UNCHANGED <<api, watch, removed>>
    BY <1>1, <2>1 DEF IInv, TypeOK, VersionsInv, VersionsCoherent, UpToDate,
                      Ordered, AllDoomed
  <2>2. CASE fresh /\ Commit(local) BY <1>2, <1>3, <2>2
  <2> QED BY <1>1, <2>1, <2>2
<1>5. ReleaseInv' BY <1>1, <1>4 DEF IInv, ReleaseInv
<1>6. OutsideInv'
  <2>1. CASE UNCHANGED <<api, watch, removed>>
    BY <1>1, <2>1 DEF IInv, OutsideInv
  <2>2. CASE fresh /\ Commit(local)
    <3>1. local.ready = "True" => pc = "write"
      BY <1>1 DEF IInv, StageInv, Binding, BindingCopy, Coherent
    <3>2. ~local.fin => pc = "write"
      BY <1>1 DEF IInv, StageInv, Binding, BindingCopy, Unbinding
    <3>3. local.ready = "True" => bound /\ secret = "own"
      BY <3>1 DEF IInv, StageInv
    <3>4. ~local.fin => released /\ ~bound /\ secret # "own"
      BY <3>2 DEF IInv, StageInv
    <3>5. removed # Absent => released /\ ~bound /\ secret # "own"
      BY DEF IInv, OutsideInv
    <3> QED BY <1>1, <1>3, <2>2, <3>3, <3>4, <3>5 DEF OutsideInv
  <2> QED BY <1>1, <2>1, <2>2
<1>7. CASE Returned
  BY <1>1, <1>4, <1>5, <1>6, <1>7, ReturnedStep DEF Returned, Objects, IInv, TypeOK
<1>8. CASE GoesOn
  <2>1. local' = local /\ fresh' = fresh /\ pc # "idle" /\ pc' # "idle" BY <1>8 DEF GoesOn
  <2>2. Coherent(local) /\ local.fin
    BY <1>8 DEF GoesOn, IInv, StageInv, Binding, BindingCopy, Unbinding
  <2>3. api' = local BY <1>3, <1>8, <2>2 DEF GoesOn
  <2>4. Objects' BY <1>1, <1>2, <1>4, <1>8, <2>1 DEF GoesOn, Objects, IInv, TypeOK
  <2>5. FreshInv' BY <1>2, <2>1, <2>2, <2>3, EvolvesRefl DEF FreshInv
  <2>6. StageInv'
    BY <1>1, <1>4, <1>8, <2>1, <2>2 DEF GoesOn, IInv, StageInv, Binding, Unbinding
  <2> QED BY <1>4, <1>5, <1>6, <2>4, <2>5, <2>6 DEF Meaning
<1> QED BY <1>1, <1>7, <1>8

\* A call of the broker or of the secrets: while binding nothing has been
\* released, and while releasing all versions are doomed.
LEMMA CallStep ==
    ASSUME IInv, Call PROVE Objects' /\ Meaning'
<1> USE AbsentNoObject
<1>1. /\ pc \in {"bind", "inject", "eject", "unbind"}
      /\ UNCHANGED <<api, watch, cached, fresh, removed>>
  BY Zenon DEF Call, BindOK, BindRejected, BindAmbiguous, BindError, InjectOK, InjectFails,
         EjectOK, EjectFails, UnbindOK, UnbindRejected, UnbindError, CallFrame, storeVars
<1>2. local \in Object /\ Coherent(local) /\ StageInv /\ released \in BOOLEAN
  BY <1>1 DEF IInv, TypeOK, StageInv
<1>3. /\ Evolves(local, local')
      /\ pc \in {"bind", "inject"} => BindShape
      /\ pc \in {"eject", "unbind"} => UnbindShape
  BY <1>1, <1>2, BindCalls, UnbindCalls
<1>4. VersionsInv' /\ (AllDoomed' <=> AllDoomed)
  BY <1>1 DEF IInv, VersionsInv, VersionsCoherent, UpToDate, Ordered, AllDoomed
<1>5. local' \in Object /\ Coherent(local') BY <1>3 DEF Evolves
<1>6. FreshInv'
  <2> SUFFICES ASSUME fresh PROVE api # Absent /\ Evolves(api, local')
    BY <1>1 DEF FreshInv
  <2>1. api # Absent /\ api \in Object /\ Evolves(api, local)
    BY <1>1 DEF IInv, TypeOK, FreshInv
  <2> QED BY <1>3, <2>1, EvolvesTrans
<1>7. CASE pc \in {"bind", "inject"}
  <2>1. BindShape /\ ~released BY <1>3, <1>7, <1>2 DEF StageInv, Binding
  <2>2. Objects' BY <1>1, <1>5, <2>1 DEF BindShape, Objects, IInv, TypeOK
  <2>3. ReleaseInv' BY <2>1 DEF BindShape, ReleaseInv
  <2>4. OutsideInv' BY <1>1, <2>1 DEF BindShape, IInv, OutsideInv
  <2>5. StageInv' BY <1>5, <2>1 DEF BindShape, StageInv, Binding, Unbinding
  <2> QED BY <1>4, <1>6, <2>2, <2>3, <2>4, <2>5 DEF Meaning
<1>8. CASE pc \in {"eject", "unbind"}
  <2>1. UnbindShape /\ AllDoomed BY <1>3, <1>8, <1>2 DEF StageInv, Unbinding
  <2>2. Objects' BY <1>1, <1>5, <2>1 DEF UnbindShape, Objects, IInv, TypeOK
  <2>3. ReleaseInv' BY <1>4, <2>1 DEF ReleaseInv
  <2>4. OutsideInv'
    <3>1. api # Absent /\ api.ready = "True" => api.del
      BY <2>1, ReadyIsHealthy DEF IInv, VersionsInv
    <3> QED BY <1>1, <2>1, <3>1 DEF UnbindShape, IInv, OutsideInv
  <2>5. StageInv' BY <1>4, <1>5, <2>1 DEF UnbindShape, StageInv, Binding, Unbinding
  <2> QED BY <1>4, <1>6, <2>2, <2>3, <2>4, <2>5 DEF Meaning
<1> QED BY <1>1, <1>7, <1>8

\* The user marks the object for deletion.
LEMMA UserDeleteStep ==
    ASSUME IInv, UserDelete PROVE Objects' /\ Meaning'
<1> USE AbsentNoObject
<1> DEFINE v == [api EXCEPT !.del = TRUE, !.gen = 2]
<1>1. /\ api' = v /\ watch' = Append(watch, v) /\ fresh' = FALSE /\ api # Absent
      /\ UNCHANGED <<cached, pc, local, bound, secret, released, removed>>
  BY DEF UserDelete, historyVars, outside
<1>2. api \in Object BY <1>1 DEF IInv, TypeOK
<1>3. v \in Object BY Zenon, <1>2 DEF Object
<1>4. /\ v.del /\ v.gen = 2 /\ v.orphan = api.orphan /\ v.failed = api.failed
      /\ v.recGen = api.recGen /\ v.recGen \in {0, 1, 2} /\ v.fin = api.fin
      /\ v.op = api.op /\ v.started = api.started /\ v.ready = api.ready /\ v.ext = api.ext
  BY <1>2 DEF Object
<1> HIDE DEF v
<1>5. Version(v)
  <2>1. v.recGen <= v.gen BY <1>4
  <2> QED BY <1>1, <1>2, <1>4, <2>1 DEF Version, Coherent, IInv, VersionsInv, VersionsCoherent
<1>6. Doomed(v) BY <1>4 DEF Doomed
<1>7. VersionsInv' /\ (AllDoomed => AllDoomed')
  BY <1>1, <1>3, <1>5, <1>6, NewVersion DEF IInv
<1>8. watch' \in Seq(Object \cup {Absent}) BY <1>1, <1>3 DEF IInv, TypeOK
<1>9. Objects' BY <1>1, <1>3, <1>8 DEF Objects, IInv, TypeOK
<1>10. FreshInv' BY <1>1 DEF FreshInv
<1>11. StageInv' BY <1>1, <1>7 DEF StageInv, IInv
<1>12. ReleaseInv' BY <1>1, <1>7 DEF IInv, ReleaseInv
<1>13. OutsideInv' BY <1>1, <1>4 DEF IInv, OutsideInv
<1> QED BY <1>7, <1>9, <1>10, <1>11, <1>12, <1>13 DEF Meaning

\* The user edits labels: a new version, equal to the last.
LEMMA UserEditStep ==
    ASSUME IInv, UserEdit PROVE Objects' /\ Meaning'
<1>1. /\ api' = api /\ watch' = Append(watch, api) /\ fresh' = FALSE
      /\ UNCHANGED <<cached, pc, local, bound, secret, released, removed>>
  BY DEF UserEdit, historyVars, outside
<1>2. api \in Object \cup {Absent} /\ Version(api)
  BY DEF IInv, TypeOK, VersionsInv, VersionsCoherent
<1>3. VersionsInv' /\ (AllDoomed => AllDoomed')
  BY <1>1, <1>2, NewVersion DEF IInv
<1>4. watch' \in Seq(Object \cup {Absent}) BY <1>1, <1>2 DEF IInv, TypeOK
<1>5. Objects' BY <1>1, <1>4 DEF Objects, IInv, TypeOK
<1>6. FreshInv' BY <1>1 DEF FreshInv
<1>7. StageInv' BY <1>1, <1>3 DEF StageInv, IInv
<1>8. ReleaseInv' /\ OutsideInv' BY <1>1, <1>3 DEF IInv, ReleaseInv, OutsideInv
<1> QED BY <1>3, <1>5, <1>6, <1>7, <1>8 DEF Meaning

\* A restart: versions that are all doomed stay so.
LEMMA CrashStep ==
    ASSUME IInv, Crash PROVE Objects' /\ Meaning'
<1>1. /\ api' = api /\ cached' = Absent /\ UNCHANGED <<bound, secret, released, removed>>
      /\ watch' = IF api = Absent THEN <<>> ELSE <<api>>
      /\ Returned
  BY DEF Crash, Restart, Returned, historyVars
<1>2. VersionsInv' /\ (AllDoomed => AllDoomed') BY <1>1, CrashVersions DEF IInv
<1>3. watch' \in Seq(Object \cup {Absent})
  <2> DEFINE V == Object \cup {Absent}
  <2>1. api \in V BY DEF IInv, TypeOK
  <2> HIDE DEF V
  <2>2. <<>> \in Seq(V) /\ <<api>> \in Seq(V) BY <2>1
  <2> QED BY Zenon, <1>1, <2>2 DEF V
<1>4. Objects' BY <1>1, <1>3 DEF Objects, IInv, TypeOK, Returned
<1>5. ReleaseInv' /\ OutsideInv' BY <1>1, <1>2 DEF IInv, ReleaseInv, OutsideInv
<1> QED BY <1>1, <1>2, <1>4, <1>5, ReturnedStep

\* The informer catches up by one version.
LEMMA InformerStep ==
    ASSUME IInv, InformerEvent PROVE Objects' /\ Meaning'
<1>1. /\ watch # <<>> /\ cached' = Head(watch) /\ watch' = Tail(watch)
      /\ UNCHANGED <<api, pc, local, fresh, bound, secret, released, removed>>
  BY DEF InformerEvent, workerVars, historyVars, outside
<1>2. VersionsInv' /\ (AllDoomed => AllDoomed')
  BY <1>1, InformerVersions DEF IInv
<1>3. watch' \in Seq(Object \cup {Absent}) /\ cached' \in Object \cup {Absent}
  BY <1>1 DEF IInv, TypeOK
<1>4. Objects' BY <1>1, <1>3 DEF Objects, IInv, TypeOK
<1>5. FreshInv' BY <1>1 DEF FreshInv, IInv
<1>6. StageInv' BY <1>1, <1>2 DEF StageInv, IInv
<1>7. ReleaseInv' /\ OutsideInv' BY <1>1, <1>2 DEF IInv, ReleaseInv, OutsideInv
<1> QED BY <1>2, <1>4, <1>5, <1>6, <1>7 DEF Meaning

\* The steps that touch neither the versions nor the worker; another's secret
\* may come or go.
LEMMA QuietStep ==
    ASSUME IInv,
           UNCHANGED <<api, watch, cached, pc, local, fresh, bound, released, removed>>,
           secret' = secret \/ (secret # "own" /\ secret' # "own")
    PROVE  Objects' /\ Meaning'
<1>1. VersionsInv' /\ (AllDoomed' <=> AllDoomed)
  BY DEF IInv, VersionsInv, VersionsCoherent, UpToDate, Ordered, AllDoomed
<1>2. Objects' BY DEF Objects, IInv, TypeOK
<1>3. FreshInv' BY DEF FreshInv, IInv
<1>4. StageInv' BY <1>1 DEF StageInv, IInv
<1>5. ReleaseInv' /\ OutsideInv' BY <1>1 DEF IInv, ReleaseInv, OutsideInv
<1> QED BY <1>1, <1>2, <1>3, <1>4, <1>5 DEF Meaning

\* A new credential satisfies the invariant.
LEMMA InitInv == Init => IInv
<1> SUFFICES ASSUME Init PROVE IInv OBVIOUS
<1> USE AbsentNoObject
<1>1. NewCredential \in Object BY DEF NewCredential, Object
<1>2. /\ ~NewCredential.failed /\ ~NewCredential.del /\ ~NewCredential.orphan
      /\ NewCredential.recGen = 0 /\ NewCredential.gen = 1 /\ NewCredential.fin
      /\ NewCredential.op = "none" /\ NewCredential.ready = "unset"
  BY DEF NewCredential
<1>3. /\ api = NewCredential /\ watch = <<NewCredential>> /\ cached = Absent
      /\ pc = "idle" /\ local = Absent /\ released = FALSE /\ removed = Absent
    BY DEF Init
<1>4. Version(NewCredential)
  <2>1. NewCredential.recGen <= NewCredential.gen BY <1>2
  <2> QED BY <1>2, <2>1 DEF Version, Coherent
<1>5. watch # <<>> /\ Len(watch) = 1 /\ watch[1] = NewCredential BY <1>3
<1>6. \A i \in 1..1 : i = 1 OBVIOUS
<1>7. VersionsInv
  BY <1>3, <1>4, <1>5, <1>6 DEF VersionsInv, VersionsCoherent, UpToDate, Ordered, Version
<1>8. Meaning
  BY <1>2, <1>3, <1>7 DEF Meaning, FreshInv, StageInv, ReleaseInv, OutsideInv,
                          Binding, Unbinding
<1>9. Objects
  <2>1. watch \in Seq(Object \cup {Absent}) BY <1>1, <1>3
  <2> QED BY <1>1, <1>3, <2>1 DEF Objects, Init
<1>10. Scalars
  <2>1. MaxFaults \in Nat /\ MaxCrashes \in Nat /\ MaxRetries \in Nat
    BY Zenon, CredentialAssumption DEF CredentialAssumption
  <2>2. failures \in 0..MaxRetries /\ faults \in 0..MaxFaults /\ crashes \in 0..MaxCrashes
    BY <2>1 DEF Init
  <2> QED BY Zenon, <2>2 DEF Scalars, Init
<1> QED BY <1>8, <1>9, <1>10, TypeParts DEF IInv, Meaning

\* Every step preserves the invariant.
LEMMA StepInv == IInv /\ [Next]_vars => IInv'
<1> SUFFICES ASSUME IInv, [Next]_vars PROVE IInv' OBVIOUS
<1>1. Scalars /\ TypeOK BY TypeParts DEF IInv
<1> SUFFICES Scalars' /\ Objects' /\ Meaning'
  <2>1. TypeOK' <=> Scalars' /\ Objects' BY DEF TypeOK, Scalars, Objects
  <2> QED BY <2>1 DEF IInv, Meaning
<1>2. CASE Reconcile BY <1>1, <1>2, ScalarsReconcile, ReconcileStep
<1>3. CASE Write BY <1>1, <1>3, ScalarsWrite, WriteStep
<1>4. CASE Call BY <1>1, <1>4, ScalarsCall, CallStep
<1>5. CASE UserDelete \/ UserEdit \/ Crash
  BY <1>1, <1>5, ScalarsOther, UserDeleteStep, UserEditStep, CrashStep DEF Environment
<1>6. CASE InformerEvent BY <1>1, <1>6, ScalarsOther, InformerStep
<1>7. CASE Resync \/ RetryDue \/ InstanceChanges
  <2>1. /\ UNCHANGED <<api, watch, cached, pc, local, fresh, bound, released, removed>>
        /\ secret' = secret
    BY <1>7 DEF Resync, RetryDue, InstanceChanges, storeVars, workerVars, historyVars,
                outside
  <2> QED BY <1>1, <1>7, <2>1, ScalarsOther, QuietStep DEF Environment
<1>8. CASE ForeignSecret
  <2>1. /\ UNCHANGED <<api, watch, cached, pc, local, fresh, bound, released, removed>>
        /\ secret # "own" /\ secret' # "own"
    BY <1>8 DEF ForeignSecret, storeVars, workerVars, historyVars
  <2> QED BY <1>1, <1>8, <2>1, ScalarsOther, QuietStep DEF Environment
<1>9. CASE UNCHANGED vars
  <2>1. /\ UNCHANGED <<api, watch, cached, pc, local, fresh, bound, released, removed>>
        /\ secret' = secret
    BY <1>9 DEF vars, storeVars, workerVars, historyVars, outside
  <2>2. Scalars'
    BY <1>1, <1>9 DEF Scalars, vars, workerVars, queueVars, historyVars, outside
  <2> QED BY <2>1, <2>2, QuietStep
<1> QED
  BY <1>2, <1>3, <1>4, <1>5, <1>6, <1>7, <1>8, <1>9 DEF Next, Worker, Environment

-----------------------------------------------------------------------------
(* The theorems.                                                           *)

\* The inductive invariant holds in every reachable state.
THEOREM CredentialInvariant == Spec => []IInv
  BY InitInv, StepInv, PTL DEF Spec

\* The variables have their types.
THEOREM TypeCorrect == Spec => []TypeOK
<1>1. IInv => TypeOK BY DEF IInv
<1> QED BY <1>1, CredentialInvariant, PTL

\* Once the ejection of the secret has begun, no worker is about to bind or to
\* inject: not from a stale cache, after a crash or in a retry.
THEOREM BindNeverFollowsRelease == Spec => []NoBindAfterRelease
<1>1. IInv => NoBindAfterRelease
  BY DEF IInv, StageInv, Binding, NoBindAfterRelease
<1> QED BY <1>1, CredentialInvariant, PTL

\* A stored Ready=True, of a credential that is not being deleted, tells the
\* truth about the broker's binding and the secret.
THEOREM ReadyIsTrue == Spec => []ReadyMeansBound
<1>1. IInv => ReadyMeansBound
  BY DEF IInv, OutsideInv, VersionsInv, VersionsCoherent, Version, Coherent,
         ReadyMeansBound
<1> QED BY <1>1, CredentialInvariant, PTL

\* The API server removes a credential only when the broker has no binding
\* and the secret is gone.
THEOREM RemovalIsClean == Spec => []RemovedMeansUnbound
<1>1. IInv => RemovedMeansUnbound BY DEF IInv, OutsideInv, RemovedMeansUnbound
<1> QED BY <1>1, CredentialInvariant, PTL

\* The secret is deleted and Unbind is called only for an object that is
\* deleted or has failed at that moment, whatever the worker's cache said.
THEOREM HealthyIsNotReleased == Spec => []OnlyDoomedIsReleased
<1>1. IInv => OnlyDoomedIsReleased
  BY DEF IInv, StageInv, Unbinding, AllDoomed, Doomed, OnlyDoomedIsReleased
<1> QED BY <1>1, CredentialInvariant, PTL

\* The start time that the retry duration is computed from is never nil.
THEOREM StartTimeIsSet == Spec => []StartTimeKnown
<1>1. IInv => StartTimeKnown
  BY DEF IInv, StageInv, Binding, BindingCopy, StartTimeKnown
<1> QED BY <1>1, CredentialInvariant, PTL

\* No status write, from whatever version it was computed, undoes a deletion,
\* a failure or a reconciled generation that is stored.
THEOREM WritesNeverRegress == Spec => StatusNeverRegresses
<1> DEFINE Kept == IF api = Absent THEN api' = Absent
                   ELSE api' # Absent =>
                          /\ api.del => api'.del
                          /\ api.failed => api'.failed
                          /\ api'.recGen >= api.recGen
<1>1. ASSUME IInv, [Next]_vars PROVE [Kept]_vars
  <2> USE AbsentNoObject
  <2>1. ASSUME api' = api PROVE Kept
    <3>1. api # Absent => api.recGen \in {0, 1, 2} BY <1>1 DEF IInv, TypeOK, Object
    <3>2. api # Absent => api.recGen >= api.recGen BY <3>1
    <3> QED BY <2>1, <3>2
  <2>2. CASE Write
    <3>1. /\ pc \in {"startBind", "startUnbind", "write"} /\ UNCHANGED cached
          /\ api' = api \/ (fresh /\ Commit(local))
      BY <2>2, WriteShape
    <3>2. CASE fresh /\ Commit(local)
      <4>1. api # Absent /\ Evolves(api, local) /\ (api' = Absent \/ api' = local)
        BY <1>1, <3>1, <3>2, CommitShape DEF IInv
      <4>2. api \in Object BY <1>1, <4>1 DEF IInv, TypeOK
      <4>3. local.recGen >= api.recGen BY <4>1, <4>2 DEF Evolves, Object
      <4> QED BY <4>1, <4>3 DEF Evolves
    <3> QED BY <2>1, <3>1, <3>2
  <2>3. CASE UserDelete
    <3>1. api \in Object /\ api # Absent /\ api' = [api EXCEPT !.del = TRUE, !.gen = 2]
      BY <1>1, <2>3 DEF UserDelete, IInv, TypeOK
    <3>2. /\ api'.del /\ api'.failed = api.failed /\ api'.recGen = api.recGen
          /\ api.recGen \in {0, 1, 2}
      BY <3>1 DEF Object
    <3>3. api'.recGen >= api.recGen BY <3>2
    <3> QED BY <3>1, <3>2, <3>3
  <2>4. CASE Reconcile BY <1>1, <2>1, <2>4, TakeShape DEF IInv, VersionsInv
  <2>5. CASE Call
    <3>1. api' = api
      BY Zenon, <2>5 DEF Call, BindOK, BindRejected, BindAmbiguous, BindError, InjectOK,
                  InjectFails, EjectOK, EjectFails, UnbindOK, UnbindRejected,
                  UnbindError, CallFrame, storeVars
    <3> QED BY <2>1, <3>1
  <2>6. CASE \/ InformerEvent \/ Resync \/ RetryDue \/ UserEdit
             \/ InstanceChanges \/ ForeignSecret \/ Crash
    <3>1. api' = api
      BY <2>6 DEF InformerEvent, Resync, RetryDue, UserEdit, InstanceChanges,
                  ForeignSecret, Crash, Restart, storeVars
    <3> QED BY <2>1, <3>1
  <2> QED
    BY <1>1, <2>2, <2>3, <2>4, <2>5, <2>6 DEF Next, Worker, Environment
<1>2. Spec => [][Kept]_vars
  BY <1>1, CredentialInvariant, PTL DEF Spec
<1> QED BY <1>2 DEF StatusNeverRegresses

-----------------------------------------------------------------------------
(* The life cycle seen from outside.                                       *)

\* A Ready object has nothing to reconcile, so no worker has a fresh copy.
SettledInv ==
    /\ api # Absent => (api.ready = "True" /\ ~api.del => api.recGen = api.gen)
    /\ pc = "write" /\ local.ready = "True" => local.recGen = local.gen
    /\ pc # "idle" /\ fresh => Doomed(api) \/ api.ready # "True"

\* The frame of the calls.
LEMMA CallUnchanged ==
    ASSUME Call
    PROVE  /\ pc \in {"bind", "inject", "eject", "unbind"}
           /\ UNCHANGED <<api, fresh, removed>>
  BY Zenon DEF Call, BindOK, BindRejected, BindAmbiguous, BindError, InjectOK, InjectFails,
         EjectOK, EjectFails, UnbindOK, UnbindRejected, UnbindError, CallFrame, storeVars

\* The shapes of the calls, from the invariant.
LEMMA CallShape ==
    ASSUME IInv, Call
    PROVE  /\ pc \in {"bind", "inject"} => BindShape /\ ~released
           /\ pc \in {"eject", "unbind"} => UnbindShape
           /\ Evolves(local, local')
<1>1. local \in Object /\ Coherent(local) /\ StageInv /\ released \in BOOLEAN
  BY CallUnchanged DEF IInv, TypeOK, StageInv
<1>2. pc \in {"bind", "inject"} => ~released BY <1>1 DEF StageInv, Binding
<1> QED BY <1>1, <1>2, CallUnchanged, BindCalls, UnbindCalls

\* A status write, from the invariant: what is stored at the start of an
\* operation is not Ready.
LEMMA WriteCopy ==
    ASSUME IInv, Write
    PROVE  /\ pc \in {"startBind", "startUnbind", "write"}
           /\ UNCHANGED <<bound, released>>
           /\ \/ UNCHANGED <<api, removed>>
              \/ /\ fresh /\ Evolves(api, local) /\ api # Absent /\ local # Absent
                 /\ IF local.fin THEN api' = local
                                 ELSE api' = Absent /\ local.del /\ released /\ ~bound
           /\ \/ pc' = "idle"
              \/ /\ pc' # "write" /\ api' = local /\ local' = local
                 /\ local.ready # "True"
           /\ local.ready = "True" => pc = "write" /\ bound
<1>1. /\ pc \in {"startBind", "startUnbind", "write"}
      /\ UNCHANGED <<cached, bound, secret, released>>
      /\ \/ UNCHANGED <<api, watch, removed>>
         \/ fresh /\ Commit(local)
      /\ Returned \/ GoesOn
  BY WriteShape
<1>2. local \in Object /\ local # Absent /\ Coherent(local)
  BY <1>1, AbsentNoObject DEF IInv, TypeOK, StageInv
<1>3. pc # "write" => local.op # "none" /\ local.fin
  BY <1>1 DEF IInv, StageInv, Binding, BindingCopy, Unbinding
<1>4. local.ready = "True" => pc = "write" /\ bound
  BY <1>2, <1>3 DEF Coherent, IInv, StageInv
<1>5. ~local.fin => local.del /\ released /\ ~bound BY <1>1, <1>3 DEF IInv, StageInv
<1>6. ASSUME fresh, Commit(local)
      PROVE  /\ fresh /\ Evolves(api, local) /\ api # Absent
             /\ IF local.fin THEN api' = local
                             ELSE api' = Absent /\ local.del /\ released /\ ~bound
  <2>1. Evolves(api, local) /\ api # Absent /\ (local.fin => api' = local)
    BY <1>1, <1>6, CommitShape DEF IInv
  <2>2. ~local.fin => api' = Absent BY <1>5, <1>6 DEF Commit
  <2> QED BY <1>5, <1>6, <2>1, <2>2
<1>7. \/ pc' = "idle"
      \/ pc' # "write" /\ api' = local /\ local' = local /\ local.ready # "True"
  BY <1>1, <1>3, <1>4, <1>6 DEF Returned, GoesOn
<1> QED BY <1>1, <1>2, <1>4, <1>6, <1>7

\* Every step keeps that invariant.
LEMMA StepSettled == ASSUME IInv, SettledInv, [Next]_vars PROVE SettledInv'
<1>1. CASE Reconcile
  <2>1. pc = "idle" /\ UNCHANGED <<api, watch, cached>> /\ (Returned \/ TakesOver)
    BY <1>1, TakeShape DEF IInv, VersionsInv
  <2>2. CASE Returned BY <2>1, <2>2 DEF Returned, SettledInv
  <2>3. CASE TakesOver
    <3>1. fresh' => api = cached BY Zenon, <2>3 DEF TakesOver, IInv, VersionsInv, UpToDate
    <3>2. cached # Absent BY <2>3, AbsentNoObject DEF TakesOver
    <3>3. fresh' => Doomed(api) \/ api.ready # "True"
      BY <2>3, <3>1, <3>2 DEF TakesOver, SettledInv, NothingToDo, Doomed
    <3>4. pc' = "write" => local'.ready # "True" BY <2>3 DEF TakesOver
    <3> QED BY <2>1, <3>3, <3>4 DEF SettledInv, Doomed
  <2> QED BY <2>1, <2>2, <2>3
<1>2. CASE Write
  <2>1. api' # Absent => (api'.ready = "True" /\ ~api'.del => api'.recGen = api'.gen)
    BY <1>2, WriteCopy DEF SettledInv
  <2>2. \/ pc' = "idle"
        \/ pc' # "write" /\ api' = local /\ local.ready # "True"
    BY <1>2, WriteCopy
  <2> QED BY <2>1, <2>2 DEF SettledInv
<1>3. CASE Call
  <2>1. pc \in {"bind", "inject", "eject", "unbind"} /\ UNCHANGED <<api, fresh>>
    BY <1>3, CallUnchanged
  <2>2. pc' = "write" => (local'.ready = "True" => local'.recGen = local'.gen)
    BY Zenon, <1>3, <2>1, CallShape DEF BindShape, UnbindShape
  <2>3. Doomed(api') <=> Doomed(api) BY <2>1 DEF Doomed
  <2> QED BY <2>1, <2>2, <2>3 DEF SettledInv
<1>4. CASE UserDelete
  <2>1. /\ fresh' = FALSE /\ UNCHANGED <<pc, local>> /\ api # Absent
        /\ api' = [api EXCEPT !.del = TRUE, !.gen = 2]
    BY <1>4 DEF UserDelete
  <2>2. api'.del BY <2>1 DEF IInv, TypeOK, Object
  <2> QED BY <2>1, <2>2 DEF SettledInv
<1>5. CASE \/ InformerEvent \/ Resync \/ RetryDue \/ UserEdit \/ InstanceChanges
           \/ ForeignSecret \/ Crash \/ UNCHANGED vars
  <2>1. /\ api' = api
        /\ \/ pc' = "idle"
           \/ UNCHANGED <<pc, local>> /\ (fresh' = fresh \/ fresh' = FALSE)
    BY <1>5 DEF InformerEvent, Resync, RetryDue, UserEdit, InstanceChanges,
                ForeignSecret, Crash, Restart, vars, storeVars, workerVars
  <2>2. Doomed(api') <=> Doomed(api) BY <2>1 DEF Doomed
  <2> QED BY <2>1, <2>2 DEF SettledInv
<1> QED BY <1>1, <1>2, <1>3, <1>4, <1>5 DEF Next, Worker, Environment

\* What is shown of a stored object.
LEMMA ShownStored ==
    ASSUME api # Absent
    PROVE  Shown = IF Doomed(api) THEN "doomed"
                   ELSE IF api.ready = "True" THEN "ready" ELSE "pending"
  BY DEF Shown, Doomed

\* The same in the next state.
LEMMA ShownStoredNext ==
    ASSUME api' # Absent
    PROVE  Shown' = IF Doomed(api') THEN "doomed"
                    ELSE IF api'.ready = "True" THEN "ready" ELSE "pending"
  BY DEF Shown, Doomed

\* A write shows Ready what is bound, dooms the object, or removes a doomed
\* one after its release; anything else it stores is not seen.
LEMMA WriteLifecycle ==
    ASSUME IInv, SettledInv, Write
    PROVE  Lifecycle!Next \/ UNCHANGED Lifecycle!vars
<1>1. Held' = Held /\ released' = released BY WriteCopy DEF Held
<1>2. CASE UNCHANGED <<api, removed>>
  <2>1. Shown' = Shown BY <1>2 DEF Shown
  <2> QED BY <1>1, <2>1 DEF Lifecycle!vars
<1>3. CASE /\ fresh /\ Evolves(api, local) /\ api # Absent /\ local # Absent
           /\ IF local.fin THEN api' = local
                           ELSE api' = Absent /\ local.del /\ released /\ ~bound
  <2>1. Doomed(api) \/ api.ready # "True" BY <1>3, WriteCopy DEF SettledInv
  <2>2. CASE ~local.fin
    <3>1. Shown = "doomed" BY <1>3, <2>2, ShownStored DEF Evolves, Doomed
    <3>2. Shown' = "removed" /\ Held = "no" /\ released BY <1>3, <2>2 DEF Shown, Held
    <3> QED BY <1>1, <3>1, <3>2 DEF Lifecycle!Remove, Lifecycle!Next
  <2>3. CASE local.fin
    <3>1. api' = local /\ api' # Absent BY <1>3, <2>3
    <3>2. Doomed(api) => Doomed(api') BY <1>3, <3>1 DEF Evolves, Doomed
    <3>3. api'.ready = "True" => Held = "yes" BY <3>1, WriteCopy DEF Held
    <3>4. CASE Shown' = Shown BY <1>1, <3>4 DEF Lifecycle!vars
    <3>5. CASE Shown' = "doomed" /\ Shown' # Shown
      <4>1. Shown \in {"pending", "ready"} BY <1>3, <3>5, ShownStored
      <4> QED BY <1>1, <3>5, <4>1 DEF Lifecycle!Doom, Lifecycle!Next
    <3>6. CASE Shown' = "ready" /\ Shown' # Shown
      <4>1. Shown = "pending" /\ Held = "yes"
        BY <1>3, <2>1, <3>1, <3>2, <3>3, <3>6, ShownStored, ShownStoredNext
      <4> QED BY <1>1, <3>6, <4>1 DEF Lifecycle!ShowReady, Lifecycle!Next
    <3> QED BY <1>3, <2>1, <3>1, <3>2, <3>4, <3>5, <3>6, ShownStored, ShownStoredNext
  <2> QED BY <2>2, <2>3
<1> QED BY <1>2, <1>3, WriteCopy

\* A call of the broker or on the secret binds before any release, or releases
\* what a doomed object stands for.
LEMMA CallLifecycle ==
    ASSUME IInv, Call
    PROVE  Lifecycle!Next \/ UNCHANGED Lifecycle!vars
<1>1. pc \in {"bind", "inject", "eject", "unbind"} /\ Shown' = Shown
  BY CallUnchanged DEF Shown
<1>2. CASE pc \in {"bind", "inject"}
  <2>1. ~released /\ released' = released /\ (bound' = bound \/ bound' = TRUE)
    BY Zenon, <1>2, CallShape DEF BindShape
  <2>2. CASE Held' = Held BY <1>1, <2>1, <2>2 DEF Lifecycle!vars
  <2>3. CASE Held' # Held
    <3>1. Held = "no" /\ Held' = "yes" BY <2>1, <2>3 DEF Held
    <3> QED BY <1>1, <2>1, <3>1 DEF Lifecycle!Acquire, Lifecycle!Next
  <2> QED BY <2>2, <2>3
<1>3. CASE pc \in {"eject", "unbind"}
  <2>1. released' = TRUE /\ (bound' = bound \/ bound' = FALSE)
    BY Zenon, <1>3, CallShape DEF UnbindShape
  <2>2. Doomed(api) BY <1>3 DEF IInv, StageInv, Unbinding, AllDoomed
  <2>3. Shown \notin {"pending", "ready"} BY <2>2 DEF Shown, Doomed
  <2>4. Held' = Held \/ (Held = "yes" /\ Held' = "no") BY <2>1 DEF Held
  <2> QED BY <1>1, <2>1, <2>3, <2>4 DEF Lifecycle!Release, Lifecycle!Next
<1> QED BY <1>1, <1>2, <1>3

\* A deletion dooms the object, if nothing has doomed it before.
LEMMA DeleteLifecycle ==
    ASSUME IInv, UserDelete
    PROVE  Lifecycle!Next \/ UNCHANGED Lifecycle!vars
<1>1. /\ api # Absent /\ UNCHANGED <<bound, released>>
      /\ api' = [api EXCEPT !.del = TRUE, !.gen = 2]
  BY DEF UserDelete, historyVars, outside
<1>2. api \in Object /\ api'.del /\ api' \in Object BY Zenon, <1>1 DEF IInv, TypeOK, Object
<1>3. Shown' = "doomed" BY <1>2, AbsentNoObject DEF Shown
<1>4. Held' = Held BY <1>1 DEF Held
<1>5. Shown \in {"doomed", "pending", "ready"} BY <1>1, ShownStored
<1> QED BY <1>1, <1>3, <1>4, <1>5 DEF Lifecycle!Doom, Lifecycle!Next, Lifecycle!vars

\* Every step of the credential is one of the life cycle's or is not seen.
LEMMA StepLifecycle ==
    ASSUME IInv, SettledInv, [Next]_vars
    PROVE  [Lifecycle!Next]_Lifecycle!vars
<1> SUFFICES Lifecycle!Next \/ UNCHANGED Lifecycle!vars OBVIOUS
<1>1. ASSUME UNCHANGED <<api, bound, released>>
      PROVE  UNCHANGED Lifecycle!vars
  <2>1. Shown' = Shown /\ Held' = Held BY <1>1 DEF Shown, Held
  <2> QED BY <1>1, <2>1 DEF Lifecycle!vars
<1>2. CASE Reconcile BY <1>1, <1>2, TakeShape DEF IInv, VersionsInv
<1>3. CASE \/ InformerEvent \/ Resync \/ RetryDue \/ UserEdit \/ InstanceChanges
           \/ ForeignSecret \/ Crash \/ UNCHANGED vars
  <2>1. UNCHANGED <<api, bound, released>>
    BY <1>3 DEF InformerEvent, Resync, RetryDue, UserEdit, InstanceChanges,
                ForeignSecret, Crash, Restart, vars, storeVars, historyVars, outside
  <2> QED BY <1>1, <2>1
<1> QED
  BY <1>2, <1>3, WriteLifecycle, CallLifecycle, DeleteLifecycle
     DEF Next, Worker, Environment

\* A new credential is the initial state of the life cycle.
LEMMA InitLifecycle == Init => Lifecycle!Init /\ SettledInv
<1> SUFFICES ASSUME Init PROVE Lifecycle!Init /\ SettledInv OBVIOUS
<1>1. api = NewCredential /\ pc = "idle" /\ bound = FALSE /\ released = FALSE
  BY DEF Init
<1>2. NewCredential \in Object BY DEF NewCredential, Object
<1>3. api # Absent BY <1>1, <1>2, AbsentNoObject
<1>4. ~Doomed(api) /\ api.ready # "True" BY <1>1, <1>3 DEF NewCredential, Doomed
<1>5. Shown = "pending" BY <1>3, <1>4, ShownStored
<1>6. Held = "no" BY <1>1 DEF Held
<1> QED BY <1>1, <1>4, <1>5, <1>6 DEF Lifecycle!Init, SettledInv

\* Seen from outside, a credential goes through the life cycle that
\* ResourceLifecycle promises, and its binding is never abandoned.
THEOREM CredentialImplementsLifecycle == Spec => ImplementsLifecycle
<1>1. Spec => []SettledInv
  BY InitLifecycle, StepSettled, CredentialInvariant, PTL DEF Spec
<1>2. IInv /\ SettledInv /\ [Next]_vars => [Lifecycle!Next]_Lifecycle!vars
  BY StepLifecycle
<1> QED
  BY <1>1, <1>2, InitLifecycle, CredentialInvariant, PTL
     DEF Spec, ImplementsLifecycle, Lifecycle!Spec

-----------------------------------------------------------------------------
(* With the validation of the status.                                      *)

\* The versions a worker reads now or later.
Versions ==
    {api} \cup ({cached} \ {Absent}) \cup {watch[i] : i \in 1..Len(watch)}

\* A write or an edit appends the stored version, or changes nothing.
LEMMA AppendVersions ==
    ASSUME TypeOK, cached' = cached, watch' = Append(watch, api') \/ watch' = watch
    PROVE  Versions' \subseteq Versions \cup {api'}
<1>1. CASE watch' = watch BY <1>1 DEF Versions
<1>2. CASE watch' = Append(watch, api')
  <2> DEFINE n == Len(watch)
  <2>1. n \in Nat BY DEF TypeOK
  <2>2. /\ Len(watch') = n + 1 /\ watch'[n + 1] = api'
        /\ \A i \in 1..n : watch'[i] = watch[i]
    BY <1>2 DEF TypeOK
  <2> HIDE DEF n
  <2>3. \A i \in 1..(n + 1) : i \in 1..n \/ i = n + 1 BY <2>1
  <2>4. \A i \in 1..Len(watch') : watch'[i] \in Versions \cup {api'}
    BY <2>2, <2>3 DEF Versions, n
  <2> QED BY <2>4 DEF Versions
<1> QED BY <1>1, <1>2

\* The informer takes the oldest version.
LEMMA TakenVersions ==
    ASSUME TypeOK, InformerEvent PROVE Versions' \subseteq Versions
<1> DEFINE n == Len(watch)
<1>1. /\ watch # <<>> /\ cached' = Head(watch) /\ watch' = Tail(watch) /\ api' = api
  BY DEF InformerEvent
<1>2. /\ n \in Nat /\ n >= 1 /\ cached' = watch[1] /\ Len(watch') = n - 1
      /\ \A i \in 1..(n - 1) : watch'[i] = watch[i + 1]
  BY <1>1 DEF TypeOK
<1> HIDE DEF n
<1>3. 1 \in 1..n /\ \A i \in 1..(n - 1) : i + 1 \in 1..n BY <1>2
<1>4. \A i \in 1..Len(watch') : watch'[i] \in Versions BY <1>2, <1>3 DEF Versions, n
<1>5. cached' \in Versions BY <1>2, <1>3 DEF Versions, n
<1> QED BY <1>1, <1>4, <1>5 DEF Versions

\* A restart lists the stored object.
LEMMA ListedVersions == ASSUME Crash PROVE Versions' \subseteq Versions
<1>1. /\ api' = api /\ cached' = Absent
      /\ watch' = IF api = Absent THEN <<>> ELSE <<api>>
  BY DEF Crash, Restart
<1>2. \A i \in 1..Len(watch') : watch'[i] = api
  <2>1. CASE api = Absent BY <1>1, <2>1
  <2>2. CASE api # Absent
    <3>1. Len(watch') = 1 /\ watch'[1] = api BY <1>1, <2>2
    <3> QED BY <3>1
  <2> QED BY <2>1, <2>2
<1> QED BY <1>1, <1>2 DEF Versions

\* Every step adds at most the version it stores.
LEMMA VersionsStep ==
    ASSUME IInv, [Next]_vars PROVE Versions' \subseteq Versions \cup {api'}
<1>0. TypeOK BY DEF IInv
<1>1. CASE UNCHANGED <<api, watch, cached>> BY <1>1 DEF Versions
<1>2. CASE Write
  <2>1. cached' = cached /\ (UNCHANGED <<api, watch>> \/ Commit(local))
    BY <1>2, WriteShape
  <2>2. CASE Commit(local)
    <3>1. watch' = Append(watch, api') \/ watch' = watch BY <2>2 DEF Commit
    <3> QED BY <1>0, <2>1, <3>1, AppendVersions
  <2> QED BY <1>1, <2>1, <2>2
<1>3. CASE UserDelete \/ UserEdit
  <2>1. cached' = cached /\ watch' = Append(watch, api')
    BY <1>3 DEF UserDelete, UserEdit
  <2> QED BY <1>0, <2>1, AppendVersions
<1>4. CASE InformerEvent BY <1>0, <1>4, TakenVersions
<1>5. CASE Crash BY <1>5, ListedVersions
<1>6. CASE Reconcile BY <1>1, <1>6, TakeShape DEF IInv, VersionsInv
<1>7. CASE Call
  <2>1. UNCHANGED <<api, watch, cached>>
    BY Zenon, <1>7 DEF Call, BindOK, BindRejected, BindAmbiguous, BindError, InjectOK,
                InjectFails, EjectOK, EjectFails, UnbindOK, UnbindRejected, UnbindError,
                CallFrame, storeVars
  <2> QED BY <1>1, <2>1
<1>8. CASE Resync \/ RetryDue \/ InstanceChanges \/ ForeignSecret \/ UNCHANGED vars
  BY <1>1, <1>8 DEF Resync, RetryDue, InstanceChanges, ForeignSecret, storeVars, vars
<1> QED
  BY <1>2, <1>3, <1>4, <1>5, <1>6, <1>7, <1>8 DEF Next, Worker, Environment

\* What is stored is valid, and a copy that starts orphan mitigation is not.
ValidInv ==
    StatusValidation =>
      /\ \A o \in Versions : o # Absent => ValidStatus(o) /\ ~o.orphan
      /\ pc # "idle" /\ local.orphan => pc = "write" /\ ~ValidStatus(local)

\* A call to bind marks only a copy that is not valid.
LEMMA BindMarks ==
    ASSUME IInv, Call, pc \in {"bind", "inject"}
    PROVE  local'.orphan => pc' = "write" /\ ~ValidStatus(local')
<1>1. local \in Object /\ ~local.orphan /\ local.op # "none"
  BY DEF IInv, TypeOK, StageInv, Binding, BindingCopy
<1> DEFINE e == [local EXCEPT !.ext = local.inProg]
           f == [local EXCEPT !.failed = TRUE]
           s == SetReady(local, "False")
           g == [s EXCEPT !.failed = TRUE]
<1>2. \/ local' = StartOrphanMitigation(local) /\ pc' = "write"
      \/ local' = StartOrphanMitigation(s) /\ pc' = "write"
      \/ local' \in {e, ClearCurrentOperation(SetReady(f, "False")), s,
                     ClearCurrentOperation(g), SetReady(ClearCurrentOperation(local), "True")}
  BY Zenon DEF Call, BindOK, BindRejected, BindAmbiguous, BindError, InjectOK, InjectFails,
         EjectOK, EjectFails, UnbindOK, UnbindRejected, UnbindError, WriteThenReturn,
         Continue
<1>3. e.orphan = local.orphan /\ f \in Object BY Zenon, <1>1 DEF Object
<1>4. s \in Object /\ ~s.orphan /\ s.op # "none" BY <1>1, ReadyFields
<1> HIDE DEF s, e, f
<1>5. g \in Object BY Zenon, <1>4 DEF Object
<1> HIDE DEF g
<1>6. SetReady(f, "False") \in Object BY <1>3, ReadyFields
<1>7. /\ ~ClearCurrentOperation(SetReady(f, "False")).orphan
      /\ ~ClearCurrentOperation(g).orphan /\ ~ClearCurrentOperation(local).orphan
      /\ ClearCurrentOperation(local) \in Object
  BY <1>1, <1>5, <1>6, ClearFields
<1>8. ~SetReady(ClearCurrentOperation(local), "True").orphan BY <1>7, ReadyFields
<1>9. ASSUME NEW o \in Object, o.op # "none" PROVE ~ValidStatus(StartOrphanMitigation(o))
  <2>1. /\ StartOrphanMitigation(o).op = o.op
        /\ StartOrphanMitigation(o).started = FALSE
    BY <1>9 DEF StartOrphanMitigation, Object
  <2> QED BY <1>9, <2>1 DEF ValidStatus
<1> QED BY <1>1, <1>2, <1>3, <1>4, <1>7, <1>8, <1>9

\* A call to release marks nothing.
LEMMA UnbindMarks ==
    ASSUME IInv, Call, pc \in {"eject", "unbind"}, ~local.orphan
    PROVE  ~local'.orphan
<1>1. local \in Object BY DEF IInv, TypeOK
<1> DEFINE x == [local EXCEPT !.started = @ \/ local.orphan]
           u == SetReady(local, "Unknown")
           w == [local EXCEPT !.ext = FALSE, !.fin = @ /\ local.orphan]
           f == [local EXCEPT !.failed = @ \/ ~local.orphan]
           g == [u EXCEPT !.failed = TRUE]
<1>2. local' \in {RecordStart(local, "Unbind"), x, u, ClearCurrentOperation(g),
                  ClearCurrentOperation(SetReady(w, "False")),
                  ClearCurrentOperation(SetReady(f, "Unknown"))}
  BY Zenon DEF Call, BindOK, BindRejected, BindAmbiguous, BindError, InjectOK, InjectFails,
         EjectOK, EjectFails, UnbindOK, UnbindRejected, UnbindError, WriteThenReturn,
         Continue
<1>3. x.orphan = local.orphan /\ w \in Object /\ f \in Object BY Zenon, <1>1 DEF Object
<1>4. u \in Object /\ ~u.orphan BY <1>1, ReadyFields
<1> HIDE DEF x, u, w, f
<1>5. g \in Object BY Zenon, <1>4 DEF Object
<1> HIDE DEF g
<1>6. SetReady(w, "False") \in Object /\ SetReady(f, "Unknown") \in Object
  BY <1>3, ReadyFields
<1>7. /\ ~ClearCurrentOperation(g).orphan
      /\ ~ClearCurrentOperation(SetReady(w, "False")).orphan
      /\ ~ClearCurrentOperation(SetReady(f, "Unknown")).orphan
  BY <1>5, <1>6, ClearFields
<1>8. ~RecordStart(local, "Unbind").orphan BY <1>1, StartFields
<1> QED BY <1>2, <1>3, <1>4, <1>7, <1>8

\* What a reconciliation goes on with keeps the mark of the cached version.
LEMMA TakenMarks ==
    ASSUME IInv, Reconcile, pc' # "idle"
    PROVE  cached \in Object /\ cached # Absent /\ local'.orphan = cached.orphan
<1>1. cached # Absent
  BY DEF Reconcile, ReconcileNothing, LookupFails, NoClient, InstanceUnfit, BeginBind,
         BeginUnbind, TakeCredential, Return
<1>2. cached \in Object BY <1>1 DEF IInv, TypeOK
<1> DEFINE p == [cached EXCEPT !.inProg = TRUE]
<1>3. local' \in {SetReady(cached, "False"), cached, RecordStart(p, "Bind"), p}
  BY DEF Reconcile, ReconcileNothing, LookupFails, NoClient, InstanceUnfit, BeginBind,
         BeginUnbind, Return, WriteThenReturn, Continue
<1>4. p \in Object /\ p.orphan = cached.orphan BY Zenon, <1>2 DEF Object
<1> HIDE DEF p
<1>5. /\ RecordStart(p, "Bind").orphan = p.orphan
      /\ SetReady(cached, "False").orphan = cached.orphan
  BY <1>2, <1>4, StartFields, ReadyFields
<1> QED BY <1>1, <1>2, <1>3, <1>4, <1>5

\* A write that is stored is valid, and only such a write goes on.
LEMMA WriteValid ==
    ASSUME Write, StatusValidation
    PROVE  /\ pc \in {"startBind", "startUnbind", "write"}
           /\ api' = api \/ (ValidStatus(local) /\ fresh /\ Commit(local))
           /\ \/ pc' = "idle"
              \/ /\ pc # "write" /\ local' = local
                 /\ ValidStatus(local) /\ fresh /\ Commit(local)
  BY DEF Write, WriteFails, RecordStartOfOperation, UpdateStatus, Refused, storeVars,
         Continue, Return

\* A deletion keeps the status valid.
LEMMA DeletedIsValid ==
    ASSUME NEW o \in Object, ValidStatus(o)
    PROVE  LET d == [o EXCEPT !.del = TRUE, !.gen = 2]
           IN  ValidStatus(d) /\ d.orphan = o.orphan
<1> DEFINE d == [o EXCEPT !.del = TRUE, !.gen = 2]
<1>1. /\ d.op = o.op /\ d.started = o.started /\ d.gen = 2 /\ d.ready = o.ready
      /\ d.inProg = o.inProg /\ d.recGen = o.recGen /\ d.orphan = o.orphan
  BY DEF Object
<1>2. o.recGen \in {0, 1, 2} /\ o.gen \in {1, 2} BY DEF Object
<1> HIDE DEF d
<1>3. d.recGen = d.gen => o.recGen = o.gen BY <1>1, <1>2 DEF ValidStatus
<1>4. d.recGen <= d.gen BY <1>1, <1>2
<1>5. ValidStatus(d) BY <1>1, <1>3, <1>4 DEF ValidStatus
<1> QED BY <1>1, <1>5 DEF d

\* Every step keeps that invariant.
LEMMA StepValid == ASSUME IInv, ValidInv, [Next]_vars PROVE ValidInv'
<1> SUFFICES ASSUME StatusValidation PROVE ValidInv' BY DEF ValidInv
<1> DEFINE Fine(o) == o # Absent => ValidStatus(o) /\ ~o.orphan
           CopyFine == pc # "idle" /\ local.orphan => pc = "write" /\ ~ValidStatus(local)
<1>1. (\A o \in Versions : Fine(o)) /\ Fine(api) /\ CopyFine BY Zenon DEF ValidInv, Versions
<1>2. ASSUME Fine(api'), CopyFine' PROVE ValidInv'
  <2>1. \A o \in Versions' : Fine(o) BY <1>1, <1>2, VersionsStep
  <2> QED BY <1>2, <2>1 DEF ValidInv
<1>3. CASE Reconcile
  <2>1. api' = api BY <1>3, TakeShape DEF IInv, VersionsInv
  <2>2. CASE pc' = "idle" BY <1>1, <1>2, <2>1, <2>2
  <2>3. CASE pc' # "idle"
    <3>1. cached \in Object /\ cached # Absent /\ local'.orphan = cached.orphan
      BY <1>3, <2>3, TakenMarks
    <3>2. ~cached.orphan BY <1>1, <3>1 DEF Versions
    <3> QED BY <1>1, <1>2, <2>1, <3>1, <3>2
  <2> QED BY <2>2, <2>3
<1>4. CASE Write
  <2>1. pc # "idle" BY <1>4, WriteValid
  <2>2. Fine(api')
    <3>1. CASE api' = api BY <1>1, <3>1
    <3>2. CASE ValidStatus(local) /\ fresh /\ Commit(local)
      <4>1. api' = Absent \/ api' = local BY <3>2 DEF Commit
      <4> QED BY <1>1, <2>1, <3>2, <4>1
    <3> QED BY <1>4, <3>1, <3>2, WriteValid
  <2>3. CopyFine' BY <1>1, <1>4, <2>1, WriteValid
  <2> QED BY <1>2, <2>2, <2>3
<1>5. CASE Call
  <2>1. api' = api /\ pc \in {"bind", "inject", "eject", "unbind"} BY <1>5, CallUnchanged
  <2>2. ~local.orphan BY <1>1, <2>1
  <2>3. local'.orphan => pc' = "write" /\ ~ValidStatus(local')
    BY <1>5, <2>1, <2>2, BindMarks, UnbindMarks
  <2> QED BY <1>1, <1>2, <2>1, <2>3
<1>6. CASE UserDelete
  <2>1. /\ api # Absent /\ api' = [api EXCEPT !.del = TRUE, !.gen = 2]
        /\ UNCHANGED <<pc, local>>
    BY <1>6 DEF UserDelete
  <2>2. api \in Object BY <2>1 DEF IInv, TypeOK
  <2>3. Fine(api') BY Zenon, <1>1, <2>1, <2>2, DeletedIsValid
  <2>4. CopyFine' BY <1>1, <2>1
  <2> QED BY <1>2, <2>3, <2>4
<1>7. CASE \/ InformerEvent \/ Resync \/ RetryDue \/ UserEdit \/ InstanceChanges
           \/ ForeignSecret \/ Crash \/ UNCHANGED vars
  <2>1. api' = api /\ (pc' = "idle" \/ UNCHANGED <<pc, local>>)
    BY Zenon, <1>7 DEF InformerEvent, Resync, RetryDue, UserEdit, InstanceChanges,
                ForeignSecret, Crash, Restart, vars, storeVars, workerVars
  <2>2. CopyFine' BY <1>1, <2>1
  <2> QED BY <1>1, <1>2, <2>1, <2>2
<1> QED BY <1>3, <1>4, <1>5, <1>6, <1>7 DEF Next, Worker, Environment

\* A fresh copy of a stuck deletion reports something, ejects, or is refused.
StuckInv ==
    StatusValidation /\ StuckDeletion /\ pc # "idle" /\ fresh =>
      \/ pc = "write" /\ local.fin
      \/ pc = "eject" /\ local = api
      \/ pc = "startUnbind" /\ ~ValidStatus(local)

\* What is known of a stuck deletion.
LEMMA StuckFields ==
    ASSUME NEW o \in Object, Coherent(o), o.recGen = 2, ValidStatus(o)
    PROVE  o.gen = 2 /\ o.op = "none"
<1>1. o.gen = 2 BY DEF Object, Coherent
<1> QED BY <1>1 DEF ValidStatus

\* A reconciliation of one.
LEMMA StuckTaken ==
    ASSUME IInv, StuckDeletion, Reconcile, pc' # "idle", fresh'
    PROVE  \/ pc' = "write" /\ local'.fin
           \/ pc' = "eject" /\ local' = api
<1>1. TakesOver BY TakeShape DEF IInv, VersionsInv, Returned
<1>2. cached = api /\ cached.del
  BY Zenon, <1>1 DEF TakesOver, IInv, VersionsInv, UpToDate, StuckDeletion
<1>3. ~BeginBind BY <1>2 DEF BeginBind, ToBind
<1>4. CASE BeginUnbind BY <1>2, <1>4 DEF BeginUnbind, Continue
<1>5. CASE ~BeginUnbind
  <2>1. pc' = "write"
    BY <1>3, <1>5 DEF Reconcile, ReconcileNothing, NoClient, LookupFails, InstanceUnfit,
                      Return, WriteThenReturn
  <2> QED BY <1>1, <2>1 DEF TakesOver
<1> QED BY <1>4, <1>5

\* The ejection of its secret, after which the unbind can not begin.
LEMMA StuckEjected ==
    ASSUME IInv, ValidInv, StatusValidation, StuckDeletion, Call, pc = "eject", local = api
    PROVE  \/ pc' = "write" /\ local'.fin
           \/ pc' = "startUnbind" /\ ~ValidStatus(local')
<1>1. /\ local \in Object /\ Coherent(local) /\ local.fin /\ local.recGen = 2
      /\ ValidStatus(local)
  BY DEF StuckDeletion, IInv, TypeOK, StageInv, Unbinding, ValidInv, Versions
<1>2. local.gen = 2 /\ local.op = "none" BY <1>1, StuckFields
<1>3. CASE EjectOK
  <2>1. pc' = "startUnbind" /\ local' = RecordStart(local, "Unbind")
    BY <1>2, <1>3 DEF EjectOK, Continue
  <2>2. local'.op = "Unbind" /\ local'.recGen = 2 /\ local'.gen = 2
    BY <1>1, <1>2, <2>1, StartFields DEF SameLife
  <2> QED BY <2>1, <2>2 DEF ValidStatus
<1>4. CASE EjectFails
  <2>1. pc' = "write" /\ local' = SetReady(local, "Unknown")
    BY <1>4 DEF EjectFails, WriteThenReturn
  <2> QED BY <1>1, <2>1, ReadyFields DEF SameLife
<1> QED
  BY <1>3, <1>4 DEF Call, BindOK, BindRejected, BindAmbiguous, BindError, InjectOK,
                    InjectFails, UnbindOK, UnbindRejected, UnbindError

\* A write of one: it stays what it is.
LEMMA StuckWrite ==
    ASSUME IInv, StuckInv, StatusValidation, Write
    PROVE  /\ StuckDeletion => StuckDeletion'
           /\ pc' # "idle" /\ fresh' => ~StuckDeletion'
<1>1. /\ pc \in {"startBind", "startUnbind", "write"} /\ cached' = cached
      /\ api' = api \/ (ValidStatus(local) /\ fresh /\ Commit(local))
  BY WriteValid, WriteShape
<1>2. /\ local \in Object /\ local # Absent /\ Coherent(local)
  BY <1>1, AbsentNoObject DEF IInv, TypeOK, StageInv
<1>3. ASSUME ValidStatus(local), fresh, Commit(local), StuckDeletion PROVE StuckDeletion'
  <2>1. pc = "write" /\ local.fin BY <1>1, <1>3 DEF StuckInv
  <2>2. Evolves(api, local) /\ api' = local /\ api \in Object
    BY <1>1, <1>3, <2>1, CommitShape DEF IInv, TypeOK
  <2>3. local.recGen = 2 /\ local.del
    BY <1>2, <1>3, <2>2 DEF Evolves, StuckDeletion, Object
  <2> QED BY <1>2, <2>2, <2>3 DEF StuckDeletion
<1>4. ASSUME pc' # "idle", fresh', StuckDeletion' PROVE FALSE
  <2>1. pc # "write" /\ ValidStatus(local) /\ fresh /\ Commit(local)
    BY <1>4, WriteValid
  <2>2. api' = local BY <1>4, <2>1 DEF Commit, StuckDeletion
  <2>3. local.recGen = 2 BY <1>4, <2>2 DEF StuckDeletion
  <2>4. local.op = "none" BY <1>2, <2>1, <2>3, StuckFields
  <2> QED BY <1>1, <2>1, <2>4 DEF IInv, StageInv, Binding, BindingCopy
<1>5. api' = api => (StuckDeletion => StuckDeletion') BY DEF StuckDeletion
<1> QED BY <1>1, <1>3, <1>4, <1>5

\* Every step keeps a stuck deletion, and what is known of its copies.
LEMMA StepStuck ==
    ASSUME IInv, ValidInv, StuckInv, [Next]_vars
    PROVE  StuckInv' /\ (StatusValidation /\ StuckDeletion => StuckDeletion')
<1> SUFFICES ASSUME StatusValidation
             PROVE  StuckInv' /\ (StuckDeletion => StuckDeletion')
  BY DEF StuckInv
<1>1. ASSUME api' = api PROVE StuckDeletion' <=> StuckDeletion
  BY <1>1 DEF StuckDeletion
<1>2. CASE Reconcile
  <2>1. api' = api BY <1>2, TakeShape DEF IInv, VersionsInv
  <2> QED BY <1>1, <1>2, <2>1, StuckTaken DEF StuckInv
<1>3. CASE Write BY <1>3, StuckWrite DEF StuckInv
<1>4. CASE Call
  <2>1. /\ api' = api /\ fresh' = fresh /\ pc \in {"bind", "inject", "eject", "unbind"}
    BY <1>4, CallUnchanged
  <2> QED BY <1>1, <1>4, <2>1, StuckEjected DEF StuckInv
<1>5. CASE UserDelete
  <2>1. ~api.del /\ fresh' = FALSE BY <1>5 DEF UserDelete
  <2> QED BY <2>1 DEF StuckInv, StuckDeletion
<1>6. CASE \/ InformerEvent \/ Resync \/ RetryDue \/ UserEdit \/ InstanceChanges
           \/ ForeignSecret \/ Crash \/ UNCHANGED vars
  <2>1. /\ api' = api
        /\ \/ pc' = "idle" \/ fresh' = FALSE
           \/ UNCHANGED <<pc, local, fresh>>
    BY <1>6 DEF InformerEvent, Resync, RetryDue, UserEdit, InstanceChanges,
                ForeignSecret, Crash, Restart, vars, storeVars, workerVars
  <2> QED BY <1>1, <2>1 DEF StuckInv
<1> QED BY <1>2, <1>3, <1>4, <1>5, <1>6 DEF Next, Worker, Environment

\* A new credential has a valid status.
LEMMA InitValid == Init => ValidInv /\ StuckInv
<1> SUFFICES ASSUME Init PROVE ValidInv /\ StuckInv OBVIOUS
<1>1. /\ api = NewCredential /\ watch = <<NewCredential>> /\ cached = Absent /\ pc = "idle"
  BY DEF Init
<1>2. Len(watch) = 1 /\ watch[1] = NewCredential BY <1>1
<1>3. \A o \in Versions : o = NewCredential BY <1>1, <1>2 DEF Versions
<1>4. ValidStatus(NewCredential) /\ ~NewCredential.orphan BY DEF NewCredential, ValidStatus
<1> QED BY <1>1, <1>3, <1>4 DEF ValidInv, StuckInv

\* Where the status is validated, no orphan mitigation is ever stored, whatever
\* the broker answers and however often the call is repeated.
THEOREM NoMitigationIsStored == Spec => []MitigationNeverStored
<1>1. ValidInv => MitigationNeverStored BY DEF ValidInv, MitigationNeverStored, Versions
<1>2. IInv /\ ValidInv /\ [Next]_vars => ValidInv' BY StepValid
<1> QED BY <1>1, <1>2, InitValid, CredentialInvariant, PTL DEF Spec

\* Where the status is validated, a credential whose deletion is recorded as
\* reconciled is never removed.
THEOREM StuckDeletionStays == Spec => StuckForGood
<1>1. IInv /\ ValidInv /\ [Next]_vars => ValidInv' BY StepValid
<1>2. IInv /\ ValidInv /\ StuckInv /\ [Next]_vars
        => StuckInv' /\ [StatusValidation /\ StuckDeletion => StuckDeletion']_vars
  BY StepStuck
<1> QED BY <1>1, <1>2, InitValid, CredentialInvariant, PTL DEF Spec, StuckForGood
=============================================================================
