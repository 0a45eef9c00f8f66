------------------------ MODULE ServiceInstanceProofs ------------------------
(***************************************************************************)
(* For every number of faults, crashes and retries, every lag of the       *)
(* informer, with and without asynchronous answers and status validation:  *)
(* types, no provision call after a deprovision call, no deprovision of a  *)
(* healthy instance, and no write that undoes another.                     *)
(*                                                                         *)
(* The argument.  Call a version of the object doomed when it is deleted   *)
(* or has failed.  No write ever makes a doomed object healthy again       *)
(* (FreshInv: a write that is accepted continues the stored version), so   *)
(* the versions - cached, on their way, stored - are healthy ones followed *)
(* by doomed ones (Ordered).  DeprovisionInstance is only called after a   *)
(* doomed version was read from the cache, so from then on every version   *)
(* is doomed (AllDoomed), also after a crash, and ToProvision is false of  *)
(* all that the worker can still read.                                     *)
(***************************************************************************)
EXTENDS ServiceInstance, TLAPS

\* The object is deleted or has failed.
Doomed(o) == o = Absent \/ o.del \/ o.failed

AllDoomed ==
    /\ Doomed(api) /\ Doomed(cached)
    /\ \A i \in 1..Len(watch) : Doomed(watch[i])

\* Facts that hold of every version by itself.
Coherent(o) == o = Absent \/ ((o.orphan => o.failed) /\ o.recGen <= o.gen)

VersionsCoherent ==
    /\ Coherent(api) /\ Coherent(cached)
    /\ \A i \in 1..Len(watch) : Coherent(watch[i])

\* b is a version that may follow a.
Evolves(a, b) ==
    /\ b \in Object /\ b.del = a.del /\ b.gen = a.gen
    /\ a.failed => b.failed
    /\ a.recGen <= b.recGen /\ Coherent(b)

\* The last version on its way is the stored one.
UpToDate ==
    IF watch = <<>> THEN cached = api ELSE watch[Len(watch)] = api

\* Healthy versions come before doomed ones.
Ordered ==
    /\ \A i, j \in 1..Len(watch) : i <= j /\ Doomed(watch[i]) => Doomed(watch[j])
    /\ \A i \in 1..Len(watch) : Doomed(watch[i]) => Doomed(api)
    /\ cached # Absent /\ Doomed(cached) => AllDoomed

\* A copy whose resource version is current continues the stored object.
FreshInv == pc # "idle" /\ fresh => api # Absent /\ Evolves(api, local)

\* What the worker knows at its control points.
StageInv ==
    /\ pc \in {"refs", "startProvision"} => ~local.del
    /\ pc = "startDeprovision" => local.fin
    /\ pc \in {"startDeprovision", "deprovision"} => AllDoomed
    /\ pc \in {"refs", "startProvision", "provision"} => ~deprovisioned

\* What holds of the versions, whatever the worker does.
VersionsInv == VersionsCoherent /\ UpToDate /\ Ordered

IInv ==
    /\ TypeOK /\ VersionsInv /\ Coherent(local) /\ FreshInv /\ StageInv
    /\ deprovisioned => AllDoomed

-----------------------------------------------------------------------------
(* The status helpers continue the version they are given.                 *)

\* Absent is told apart from every object.
LEMMA AbsentNoObject == Absent \notin Object
  BY Zenon, InstanceAssumption DEF InstanceAssumption

\* Evolution is reflexive on coherent objects, and transitive.
LEMMA EvolvesRefl == ASSUME NEW o \in Object, Coherent(o) PROVE Evolves(o, o)
<1>1. o.recGen <= o.recGen BY DEF Object
<1> QED BY <1>1 DEF Evolves

\* A version that follows a follower follows.
LEMMA EvolvesTrans ==
    ASSUME NEW a \in Object, NEW b, NEW c, Evolves(a, b), Evolves(b, c)
    PROVE  Evolves(a, c)
<1>1. a.recGen <= c.recGen BY DEF Evolves, Object
<1> QED BY <1>1 DEF Evolves

\* A change of fields other than the deletion, the failure and the reconciled
\* generation.
LEMMA EditEvolves ==
    ASSUME NEW o \in Object, Coherent(o), NEW b \in Object,
           b.del = o.del, b.gen = o.gen, b.failed = o.failed,
           b.recGen = o.recGen, b.orphan = o.orphan
    PROVE  Evolves(o, b)
<1>1. o.recGen <= b.recGen BY DEF Object
<1>2. Coherent(b) BY AbsentNoObject DEF Coherent
<1> QED BY <1>1, <1>2 DEF Evolves

\* setServiceInstanceCondition(Ready) touches the Ready condition only.
LEMMA SetReadyEvolves ==
    ASSUME NEW o \in Object, Coherent(o), NEW st \in {"True", "False", "Unknown"}
    PROVE  /\ Evolves(o, SetReady(o, st)) /\ SetReady(o, st).orphan = o.orphan
           /\ SetReady(o, st).failed = o.failed
           /\ SetReady(o, st).fin = o.fin
<1> DEFINE b == SetReady(o, st)
<1>1. b \in Object BY DEF SetReady, Object
<1>2. /\ b.del = o.del /\ b.gen = o.gen /\ b.failed = o.failed
      /\ b.recGen = o.recGen /\ b.orphan = o.orphan /\ b.fin = o.fin
  BY DEF SetReady, Object
<1> HIDE DEF b
<1> QED BY <1>1, <1>2, EditEvolves DEF b

\* Recording the start of an operation keeps deletion, failure and finalizer.
LEMMA RecordStartEvolves ==
    ASSUME NEW o \in Object, Coherent(o), NEW op \in {"Provision", "Deprovision"}
    PROVE  Evolves(o, RecordStart(o, op)) /\ RecordStart(o, op).fin = o.fin
<1> DEFINE b == [o EXCEPT !.op = op, !.started = TRUE]
<1>1. b \in Object BY Zenon DEF Object
<1>2. /\ b.del = o.del /\ b.gen = o.gen /\ b.failed = o.failed
      /\ b.recGen = o.recGen /\ b.orphan = o.orphan /\ b.fin = o.fin
  BY DEF Object
<1>3. RecordStart(o, op) = SetReady(b, "False") BY DEF RecordStart
<1> HIDE DEF b
<1>4. Evolves(o, b) /\ Coherent(b) BY <1>1, <1>2, EditEvolves DEF Evolves
<1> QED BY <1>1, <1>2, <1>3, <1>4, SetReadyEvolves, EvolvesTrans

\* A failure is added, never taken back.
LEMMA SetFailedEvolves ==
    ASSUME NEW o \in Object, Coherent(o)
    PROVE  /\ Evolves(o, SetFailedUnlessOrphan(o))
           /\ SetFailedUnlessOrphan(o).orphan = o.orphan
           /\ SetFailedUnlessOrphan(o).op = o.op
           /\ SetFailedUnlessOrphan(o).failed
<1> DEFINE b == SetFailedUnlessOrphan(o)
<1>1. b \in Object BY Zenon DEF SetFailedUnlessOrphan, Object
<1>2. /\ b.del = o.del /\ b.gen = o.gen /\ b.recGen = o.recGen
      /\ b.orphan = o.orphan /\ b.op = o.op
  BY DEF SetFailedUnlessOrphan, Object
<1>3. b.failed
  <2>1. o # Absent BY AbsentNoObject
  <2> QED BY Zenon, <2>1 DEF Coherent, SetFailedUnlessOrphan, Object
<1> HIDE DEF b
<1>4. o.recGen <= b.recGen /\ Coherent(b)
  BY <1>1, <1>2, <1>3, AbsentNoObject DEF Coherent, Object
<1> QED BY <1>1, <1>2, <1>3, <1>4 DEF b, Evolves

\* clearServiceInstanceCurrentOperation raises the reconciled generation at
\* most to the generation.
LEMMA ClearEvolves ==
    ASSUME NEW o \in Object, Coherent(o)
    PROVE  Evolves(o, ClearCurrentOperation(o))
<1> DEFINE b == ClearCurrentOperation(o)
<1>1. b \in Object BY Zenon DEF ClearCurrentOperation, Object
<1>2. /\ b.del = o.del /\ b.gen = o.gen /\ b.recGen = o.gen
      /\ b.orphan = FALSE /\ b.failed = o.failed
  BY DEF ClearCurrentOperation, Object
<1> HIDE DEF b
<1>3. o.recGen <= o.gen BY AbsentNoObject DEF Coherent
<1>4. Coherent(b) BY <1>1, <1>2 DEF Coherent, Object
<1> QED BY <1>1, <1>2, <1>3, <1>4 DEF b, Evolves

\* Orphan mitigation starts only on an object that has failed.
LEMMA StartOrphanEvolves ==
    ASSUME NEW o \in Object, Coherent(o), o.failed
    PROVE  Evolves(o, StartOrphanMitigation(o))
<1> DEFINE b == StartOrphanMitigation(o)
<1>1. b \in Object BY Zenon DEF StartOrphanMitigation, Object
<1>2. /\ b.del = o.del /\ b.gen = o.gen /\ b.recGen = o.recGen
      /\ b.failed = o.failed
  BY Zenon DEF StartOrphanMitigation, Object
<1> HIDE DEF b
<1>3. o.recGen <= b.recGen /\ Coherent(b)
  BY <1>1, <1>2, AbsentNoObject DEF Coherent, Object
<1> QED BY <1>1, <1>2, <1>3 DEF b, Evolves

\* Giving up on a poll marks the failure before it starts orphan mitigation.
LEMMA StopPollingEvolves ==
    ASSUME NEW o \in Object, Coherent(o)
    PROVE  Evolves(o, StopPolling(o))
<1> DEFINE f == SetFailedUnlessOrphan(o)
<1>1. Evolves(o, f) /\ f.failed BY SetFailedEvolves
<1>2. f \in Object /\ Coherent(f) BY <1>1 DEF Evolves
<1> HIDE DEF f
<1>3. Evolves(f, ClearCurrentOperation(f)) BY <1>2, ClearEvolves
<1>4. Evolves(f, StartOrphanMitigation(f)) BY <1>1, <1>2, StartOrphanEvolves
<1>5. Evolves(o, ClearCurrentOperation(f)) /\ Evolves(o, StartOrphanMitigation(f))
  BY <1>1, <1>3, <1>4, EvolvesTrans
<1> QED BY <1>5 DEF StopPolling, f

-----------------------------------------------------------------------------
(* The versions: a new one is stored, the informer takes one, a restart.   *)

\* A new version that follows the stored one.
LEMMA NewVersion ==
    ASSUME TypeOK, VersionsInv, NEW v \in Object \cup {Absent}, Coherent(v),
           Doomed(api) => Doomed(v), api' = v, cached' = cached,
           \/ watch' = Append(watch, v)
           \/ v = api /\ watch' = watch
    PROVE  VersionsInv' /\ (AllDoomed => AllDoomed')
<1> USE DEF VersionsInv
<1>1. CASE v = api /\ watch' = watch
  BY <1>1 DEF VersionsCoherent, UpToDate, Ordered, AllDoomed
<1>2. CASE watch' = Append(watch, v)
  <2> DEFINE n == Len(watch)
  <2>1. n \in Nat BY DEF TypeOK
  <2>2. /\ Len(watch') = n + 1 /\ watch'[n + 1] = v
        /\ \A i \in 1..n : watch'[i] = watch[i]
        /\ watch' # <<>>
    BY <1>2 DEF TypeOK
  <2> HIDE DEF n
  <2>3. \A i \in 1..(n + 1) : i \in 1..n \/ i = n + 1 BY <2>1
  <2>4. n + 1 \in 1..(n + 1) BY <2>1
  <2>5. VersionsCoherent'
    BY <2>1, <2>2, <2>3 DEF VersionsCoherent, n
  <2>6. UpToDate' BY <2>2 DEF UpToDate
  <2>7. AllDoomed => AllDoomed'
    BY <2>1, <2>2, <2>3 DEF AllDoomed, n
  <2>8. \A i \in 1..n : Doomed(watch[i]) => Doomed(v)
    BY DEF Ordered, n
  <2>9. Ordered'
    <3>1. ASSUME NEW i \in 1..(n + 1), Doomed(watch'[i]) PROVE Doomed(v)
      BY <2>2, <2>3, <2>8, <3>1
    <3>2. ASSUME NEW i \in 1..(n + 1), NEW j \in 1..(n + 1), i <= j,
                 Doomed(watch'[i])
          PROVE  Doomed(watch'[j])
      <4>1. CASE j = n + 1 BY <4>1, <3>1, <3>2, <2>2
      <4>2. CASE j \in 1..n
        <5>1. i \in 1..n BY <4>2, <3>2, <2>1
        <5> QED BY <5>1, <4>2, <3>2, <2>2 DEF Ordered, n
      <4> QED BY <4>1, <4>2, <2>3
    <3>3. cached' # Absent /\ Doomed(cached') => AllDoomed'
      BY <2>7 DEF Ordered
    <3> QED BY <3>1, <3>2, <3>3, <2>2 DEF Ordered
  <2> QED BY <2>5, <2>6, <2>7, <2>9
<1> QED BY <1>1, <1>2

\* A sequence is empty exactly when its length is 0.
LEMMA EmptySeq == \A S : \A q \in Seq(S) : q = <<>> <=> Len(q) = 0
  OBVIOUS

\* The informer takes the oldest version.
LEMMA InformerVersions ==
    ASSUME TypeOK, VersionsInv, watch # <<>>, cached' = Head(watch),
           watch' = Tail(watch), api' = api
    PROVE  VersionsInv' /\ (AllDoomed => AllDoomed')
<1> USE DEF VersionsInv
<1> DEFINE n == Len(watch)
<1>1. /\ n \in Nat /\ n >= 1 /\ cached' = watch[1] /\ Len(watch') = n - 1
      /\ \A i \in 1..(n - 1) : watch'[i] = watch[i + 1]
  BY DEF TypeOK
<1>e. watch' = <<>> <=> n = 1
  <2>1. watch' \in Seq(Object \cup {Absent}) BY DEF TypeOK
  <2>2. watch' = <<>> <=> Len(watch') = 0 BY Zenon, <2>1, EmptySeq
  <2> QED BY <2>2, <1>1
<1> HIDE DEF n
<1>2. 1 \in 1..n /\ n \in 1..n BY <1>1
<1>3. \A i \in 1..(n - 1) : i + 1 \in 1..n /\ 1 <= i + 1 BY <1>1
<1>4. VersionsCoherent'
  BY <1>1, <1>2, <1>3 DEF VersionsCoherent, n
<1>5. UpToDate'
  <2>1. watch[n] = api BY DEF UpToDate, n
  <2>2. CASE n = 1 BY <1>1, <1>e, <2>1, <2>2 DEF UpToDate
  <2>3. CASE n # 1
    <3>1. n - 1 \in 1..(n - 1) /\ (n - 1) + 1 = n BY <1>1, <2>3
    <3> QED BY <1>1, <1>e, <2>1, <2>3, <3>1 DEF UpToDate
  <2> QED BY <2>2, <2>3
<1>6. AllDoomed => AllDoomed'
  BY <1>1, <1>2, <1>3 DEF AllDoomed, n
<1>7. Ordered'
  <2>1. ASSUME NEW i \in 1..(n - 1), NEW j \in 1..(n - 1), i <= j,
               Doomed(watch'[i])
        PROVE  Doomed(watch'[j])
    <3>1. i + 1 <= j + 1 BY <2>1, <1>1
    <3> QED BY <3>1, <2>1, <1>1, <1>3 DEF Ordered, n
  <2>2. \A i \in 1..(n - 1) : Doomed(watch'[i]) => Doomed(api)
    BY <1>1, <1>3 DEF Ordered, n
  <2>3. ASSUME Doomed(watch[1]) PROVE AllDoomed'
    BY <2>3, <1>1, <1>2, <1>3 DEF Ordered, AllDoomed, n
  <2> QED BY <2>1, <2>2, <2>3, <1>1 DEF Ordered
<1> QED BY <1>4, <1>5, <1>6, <1>7

\* A restart lists the stored object.
LEMMA CrashVersions ==
    ASSUME VersionsInv, api' = api, cached' = Absent,
           watch' = IF api = Absent THEN <<>> ELSE <<api>>
    PROVE  VersionsInv' /\ (AllDoomed => AllDoomed')
<1>1. CASE api = Absent
  <2>1. watch' = <<>> /\ Len(watch') = 0 BY <1>1
  <2> QED
    BY <1>1, <2>1 DEF VersionsInv, VersionsCoherent, UpToDate, Ordered,
                      AllDoomed, Coherent, Doomed
<1>2. CASE api # Absent
  <2>1. watch' # <<>> /\ Len(watch') = 1 /\ watch'[1] = api BY <1>2
  <2>2. \A i \in 1..1 : i = 1 OBVIOUS
  <2> QED
    BY <1>2, <2>1, <2>2 DEF VersionsInv, VersionsCoherent, UpToDate, Ordered,
                            AllDoomed, Coherent, Doomed
<1> QED BY <1>1, <1>2

-----------------------------------------------------------------------------
(* What each kind of worker step does to the copy.                         *)

\* The worker has returned.
Returned == pc' = "idle" /\ local' = Absent

\* The worker goes on with a copy of the cached version.
TakesOver ==
    /\ cached \in Object /\ Evolves(cached, local') /\ fresh' = (watch = <<>>)
    /\ pc' \in {"refs", "startProvision", "provision", "startDeprovision",
                "deprovision", "poll", "write"}
    /\ pc' \in {"refs", "startProvision", "provision"} => ~Doomed(cached)
    /\ pc' \in {"startDeprovision", "deprovision"} => Doomed(cached) /\ local'.fin

\* A reconciliation begins from the cached version, or returns at once.
LEMMA TakeShape ==
    ASSUME TypeOK, VersionsCoherent, Reconcile
    PROVE  /\ pc = "idle" /\ UNCHANGED <<api, watch, cached, deprovisioned>>
           /\ Returned \/ TakesOver
<1> USE AbsentNoObject
<1>1. pc = "idle" /\ UNCHANGED <<api, watch, cached, deprovisioned>>
  BY DEF Reconcile, ReconcileNothing, DeleteBlocked, ClearFinalizer, LookupFails,
         ClientFails, BeginPoll, BeginDeprovision, BeginProvision, TakeInstance, Take,
         storeVars, historyVars
<1> SUFFICES Returned \/ TakesOver BY <1>1
<1>2. ASSUME TakeInstance
      PROVE  /\ cached \in Object /\ cached # Absent /\ Coherent(cached)
             /\ fresh' = (watch = <<>>)
  BY <1>2 DEF TakeInstance, TypeOK, VersionsCoherent
<1>3. ASSUME TakeInstance, NEW b, Evolves(cached, b), local' = b, pc' = "write"
      PROVE  TakesOver
  BY <1>2, <1>3 DEF TakesOver
<1>4. CASE ReconcileNothing \/ ClientFails
  BY <1>4 DEF ReconcileNothing, ClientFails, Return, Returned
<1>5. CASE DeleteBlocked
  <2>1. TakeInstance BY <1>5 DEF DeleteBlocked
  <2> QED BY <1>5, <2>1, <1>2, <1>3, SetReadyEvolves DEF DeleteBlocked, WriteThenReturn
<1>6. CASE ClearFinalizer
  <2>1. TakeInstance BY <1>6 DEF ClearFinalizer
  <2> DEFINE b == [cached EXCEPT !.fin = FALSE]
  <2>2. b \in Object BY Zenon, <2>1, <1>2 DEF Object
  <2>3. /\ b.del = cached.del /\ b.gen = cached.gen /\ b.failed = cached.failed
        /\ b.recGen = cached.recGen /\ b.orphan = cached.orphan
    BY <2>1, <1>2 DEF Object
  <2>4. local' = b /\ pc' = "write" BY <1>6 DEF ClearFinalizer, WriteThenReturn
  <2> HIDE DEF b
  <2>5. Evolves(cached, b) BY <2>1, <2>2, <2>3, <1>2, EditEvolves
  <2> QED BY <2>1, <2>4, <2>5, <1>3
<1>7. CASE LookupFails
  <2>1. TakeInstance BY <1>7 DEF LookupFails
  <2> QED BY <1>7, <2>1, <1>2, <1>3, SetReadyEvolves DEF LookupFails, WriteThenReturn
<1>8. CASE BeginPoll
  <2>1. TakeInstance BY <1>8 DEF BeginPoll
  <2>2. local' = cached /\ pc' = "poll" BY <1>8 DEF BeginPoll, Continue
  <2> QED BY <2>1, <2>2, <1>2, EvolvesRefl DEF TakesOver
<1>9. CASE BeginDeprovision
  <2>1. TakeInstance BY <1>9 DEF BeginDeprovision
  <2>2. ToDelete(cached) /\ cached.fin BY <1>9 DEF BeginDeprovision
  <2>3. Doomed(cached)
    BY <2>1, <2>2, <1>2 DEF ToDelete, Doomed, Coherent
  <2> DEFINE b == [cached EXCEPT !.started = @ \/ cached.orphan]
  <2>4. b \in Object BY <2>1, <1>2 DEF Object
  <2>5. /\ b.del = cached.del /\ b.gen = cached.gen /\ b.failed = cached.failed
        /\ b.recGen = cached.recGen /\ b.orphan = cached.orphan
        /\ b.fin = cached.fin
    BY <2>1, <1>2 DEF Object
  <2>6. \/ local' = RecordStart(b, "Deprovision") /\ pc' = "startDeprovision"
        \/ local' = b /\ pc' = "deprovision"
    BY <1>9 DEF BeginDeprovision, Continue
  <2> HIDE DEF b
  <2>7. Evolves(cached, b) BY <2>1, <2>4, <2>5, <1>2, EditEvolves
  <2>8. Coherent(b) BY <2>7 DEF Evolves
  <2>9. Evolves(b, RecordStart(b, "Deprovision"))
        /\ RecordStart(b, "Deprovision").fin = b.fin
    BY <2>4, <2>8, RecordStartEvolves
  <2>10. Evolves(cached, RecordStart(b, "Deprovision"))
    BY <2>1, <1>2, <2>7, <2>9, EvolvesTrans
  <2> QED BY Zenon, <2>1, <2>2, <2>3, <2>5, <2>6, <2>7, <2>9, <2>10, <1>2 DEF TakesOver
<1>10. CASE BeginProvision
  <2>1. TakeInstance BY <1>10 DEF BeginProvision
  <2>2. ~Doomed(cached)
    BY <1>10, <2>1, <1>2 DEF BeginProvision, ToProvision, Doomed
  <2> DEFINE r == [cached EXCEPT !.refs = TRUE]
             b == [cached EXCEPT !.inProg = TRUE]
  <2>3. r \in Object /\ b \in Object BY Zenon, <2>1, <1>2 DEF Object
  <2>4. /\ b.del = cached.del /\ b.gen = cached.gen /\ b.failed = cached.failed
        /\ b.recGen = cached.recGen /\ b.orphan = cached.orphan
        /\ r.del = cached.del /\ r.gen = cached.gen /\ r.failed = cached.failed
        /\ r.recGen = cached.recGen /\ r.orphan = cached.orphan
    BY <2>1, <1>2 DEF Object
  <2>5. \/ local' = r /\ pc' = "refs"
        \/ local' = RecordStart(b, "Provision") /\ pc' = "startProvision"
        \/ local' = b /\ pc' = "provision"
    BY <1>10 DEF BeginProvision, PrepareProvision, Continue
  <2> HIDE DEF b, r
  <2>6. Evolves(cached, b) /\ Evolves(cached, r)
    BY <2>1, <2>3, <2>4, <1>2, EditEvolves
  <2>7. Evolves(b, RecordStart(b, "Provision"))
    BY <2>3, <2>6, RecordStartEvolves DEF Evolves
  <2>8. Evolves(cached, RecordStart(b, "Provision"))
    BY <2>1, <1>2, <2>6, <2>7, EvolvesTrans
  <2> QED BY <2>1, <2>2, <2>5, <2>6, <2>8, <1>2 DEF TakesOver
<1> QED BY <1>4, <1>5, <1>6, <1>7, <1>8, <1>9, <1>10 DEF Reconcile

\* A field edit followed by the helpers, as the call actions nest them.
LEMMA ReadyAfter ==
    ASSUME NEW o \in Object, NEW b, Evolves(o, b), NEW st \in {"True", "False", "Unknown"}
    PROVE  Evolves(o, SetReady(b, st))
<1>1. b \in Object /\ Coherent(b) BY DEF Evolves
<1> QED BY <1>1, SetReadyEvolves, EvolvesTrans

\* The same for clearServiceInstanceCurrentOperation.
LEMMA ClearAfter ==
    ASSUME NEW o \in Object, NEW b, Evolves(o, b)
    PROVE  Evolves(o, ClearCurrentOperation(b))
<1>1. b \in Object /\ Coherent(b) BY DEF Evolves
<1> QED BY <1>1, ClearEvolves, EvolvesTrans

\* The same for the Failed condition.
LEMMA FailAfter ==
    ASSUME NEW o \in Object, NEW b, Evolves(o, b)
    PROVE  Evolves(o, SetFailedUnlessOrphan(b))
<1>1. b \in Object /\ Coherent(b) BY DEF Evolves
<1> QED BY <1>1, SetFailedEvolves, EvolvesTrans

\* The edits of single fields in the actions.
LEMMA FieldEdits ==
    ASSUME NEW o \in Object, Coherent(o)
    PROVE  /\ Evolves(o, [o EXCEPT !.ext = o.inProg])
           /\ Evolves(o, [o EXCEPT !.async = TRUE])
           /\ Evolves(o, [o EXCEPT !.ext = FALSE, !.fin = ~o.del])
           /\ Evolves(o, [o EXCEPT !.failed = TRUE]) /\ [o EXCEPT !.failed = TRUE].failed
<1>1. Evolves(o, [o EXCEPT !.ext = o.inProg])
  <2>1. [o EXCEPT !.ext = o.inProg] \in Object BY DEF Object
  <2> QED BY <2>1, EditEvolves DEF Object
<1>2. Evolves(o, [o EXCEPT !.async = TRUE])
  <2>1. [o EXCEPT !.async = TRUE] \in Object BY Zenon DEF Object
  <2> QED BY <2>1, EditEvolves DEF Object
<1>3. Evolves(o, [o EXCEPT !.ext = FALSE, !.fin = ~o.del])
  <2> DEFINE b == [o EXCEPT !.ext = FALSE, !.fin = ~o.del]
  <2>1. b \in Object BY Zenon DEF Object
  <2>2. /\ b.del = o.del /\ b.gen = o.gen /\ b.failed = o.failed
        /\ b.recGen = o.recGen /\ b.orphan = o.orphan
    BY DEF Object
  <2> HIDE DEF b
  <2> QED BY Zenon, <2>1, <2>2, EditEvolves DEF b
<1>4. Evolves(o, [o EXCEPT !.failed = TRUE]) /\ [o EXCEPT !.failed = TRUE].failed
  <2> DEFINE b == [o EXCEPT !.failed = TRUE]
  <2>1. b \in Object BY Zenon DEF Object
  <2>2. /\ b.del = o.del /\ b.gen = o.gen /\ b.recGen = o.recGen /\ b.failed
    BY DEF Object
  <2> HIDE DEF b
  <2>3. o.recGen <= b.recGen /\ Coherent(b)
    BY <2>1, <2>2, AbsentNoObject DEF Coherent, Object
  <2> QED BY <2>1, <2>2, <2>3 DEF b, Evolves
<1> QED BY <1>1, <1>2, <1>3, <1>4

\* A broker call leaves a copy that continues the one it was made with.
LEMMA CallShape ==
    ASSUME TypeOK, Coherent(local), Call
    PROVE  /\ pc \in {"provision", "deprovision"} /\ pc' = "write"
           /\ UNCHANGED <<api, watch, cached, fresh>>
           /\ pc = "provision" => deprovisioned' = deprovisioned
           /\ Evolves(local, local')
<1>1. /\ pc \in {"provision", "deprovision"} /\ pc' = "write"
      /\ UNCHANGED <<api, watch, cached, fresh>>
      /\ pc = "provision" => deprovisioned' = deprovisioned
  BY Zenon DEF Call, ProvisionOK, ProvisionAsync, ProvisionRejected, ProvisionAmbiguous,
         ProvisionError, DeprovisionOK, DeprovisionAsync, DeprovisionRejected,
         DeprovisionError, WriteThenReturn, CallFrame, storeVars
<1>2. local \in Object BY <1>1 DEF TypeOK
<1> SUFFICES Evolves(local, local') BY <1>1
<1> USE <1>2
<1>a. Evolves(local, local) BY EvolvesRefl
<1>3. CASE ProvisionOK
  BY Zenon, <1>3, FieldEdits, ClearAfter, ReadyAfter DEF ProvisionOK, WriteThenReturn
<1>4. CASE ProvisionAsync
  BY Zenon, <1>4, FieldEdits, ReadyAfter DEF ProvisionAsync, WriteThenReturn
<1>5. CASE ProvisionRejected
  BY Zenon, <1>5, FieldEdits, ClearAfter, ReadyAfter DEF ProvisionRejected, WriteThenReturn
<1>6. CASE ProvisionAmbiguous
  <2> DEFINE f == [local EXCEPT !.failed = TRUE]
             r == SetReady(f, "False")
  <2>1. Evolves(local, f) /\ f.failed BY Zenon, FieldEdits
  <2>2. local' = StartOrphanMitigation(r)
    BY <1>6 DEF ProvisionAmbiguous, WriteThenReturn
  <2> HIDE DEF f
  <2>3. f \in Object /\ Coherent(f) BY <2>1 DEF Evolves
  <2>4. Evolves(f, r) /\ r.failed BY <2>1, <2>3, SetReadyEvolves
  <2>5. Evolves(local, r) BY <2>1, <2>4, EvolvesTrans
  <2>6. Evolves(r, StartOrphanMitigation(r))
    BY <2>4, StartOrphanEvolves DEF Evolves
  <2> QED BY <2>2, <2>5, <2>6, EvolvesTrans
<1>7. CASE ProvisionError
  <2> DEFINE r == SetReady(local, "False")
  <2>1. \/ local' = r
        \/ local' = ClearCurrentOperation([r EXCEPT !.failed = TRUE])
    BY <1>7 DEF ProvisionError, WriteThenReturn
  <2>2. Evolves(local, r) BY <1>a, ReadyAfter
  <2> HIDE DEF r
  <2>3. Evolves(r, [r EXCEPT !.failed = TRUE]) BY Zenon, <2>2, FieldEdits DEF Evolves
  <2>4. Evolves(local, [r EXCEPT !.failed = TRUE]) BY <2>2, <2>3, EvolvesTrans
  <2> QED BY <2>1, <2>2, <2>4, ClearAfter
<1>8. CASE DeprovisionOK
  BY Zenon, <1>8, FieldEdits, ClearAfter, ReadyAfter DEF DeprovisionOK, WriteThenReturn
<1>9. CASE DeprovisionAsync
  BY Zenon, <1>9, FieldEdits, ReadyAfter DEF DeprovisionAsync, WriteThenReturn
<1>10. CASE DeprovisionRejected
  BY <1>10, <1>a, ReadyAfter, FailAfter, ClearAfter DEF DeprovisionRejected, WriteThenReturn
<1>11. CASE DeprovisionError
  BY <1>11, <1>a, ReadyAfter, FailAfter, ClearAfter DEF DeprovisionError, WriteThenReturn
<1> QED
  BY <1>3, <1>4, <1>5, <1>6, <1>7, <1>8, <1>9, <1>10, <1>11 DEF Call

\* A poll returns or leaves a copy that continues the one it was made with.
LEMMA PollShape ==
    ASSUME TypeOK, Coherent(local), Poll
    PROVE  /\ pc = "poll" /\ UNCHANGED <<api, watch, cached, deprovisioned>>
           /\ Returned \/ (pc' = "write" /\ fresh' = fresh /\ Evolves(local, local'))
<1>1. pc = "poll" /\ UNCHANGED <<api, watch, cached, deprovisioned>>
  BY DEF Poll, PollStops, PollInProgress, PollSucceeded, PollFailed, PollError,
         PollInvalid, PollFrame, PollReturn, CallFrame, storeVars, historyVars
<1>2. local \in Object BY <1>1 DEF TypeOK
<1> USE <1>2
<1> SUFFICES Returned \/ (pc' = "write" /\ fresh' = fresh /\ Evolves(local, local'))
  BY <1>1
<1>a. Evolves(local, local) BY EvolvesRefl
<1>b. ASSUME NEW r, PollReturn(r) PROVE Returned
  BY <1>b DEF PollReturn, Return, Returned
<1>c. ASSUME PollFrame, NEW b, NEW r, WriteThenReturn(b, r)
      PROVE  pc' = "write" /\ fresh' = fresh /\ local' = b
  BY <1>c DEF PollFrame, CallFrame, WriteThenReturn
<1>3. CASE PollStops
  BY <1>3, <1>c, StopPollingEvolves DEF PollStops
<1>4. CASE PollInProgress
  <2>1. Evolves(local, SetReady([local EXCEPT !.async = TRUE], "False"))
    BY Zenon, FieldEdits, ReadyAfter
  <2> QED BY <1>4, <1>b, <1>c, <2>1 DEF PollInProgress
<1>5. CASE PollSucceeded
  <2> DEFINE o == ClearCurrentOperation([local EXCEPT !.ext = local.inProg])
             g == [o EXCEPT !.fin = @ /\ local.orphan]
  <2>1. Evolves(local, o) BY Zenon, FieldEdits, ClearAfter
  <2>2. \/ WriteThenReturn(SetReady(g, "False"), "ok")
        \/ WriteThenReturn(SetReady(o, "True"), "ok")
    BY <1>5 DEF PollSucceeded
  <2> HIDE DEF o
  <2>3. o \in Object /\ Coherent(o) BY <2>1 DEF Evolves
  <2>4. g \in Object BY <2>3 DEF Object
  <2>5. Evolves(o, g) BY <2>3, <2>4, EditEvolves DEF Object
  <2> HIDE DEF g
  <2>6. Evolves(local, g) BY <2>1, <2>5, EvolvesTrans
  <2>7. Evolves(local, SetReady(g, "False")) /\ Evolves(local, SetReady(o, "True"))
    BY <2>1, <2>6, ReadyAfter
  <2> QED BY <1>5, <1>c, <2>2, <2>7 DEF PollSucceeded
<1>6. CASE PollFailed
  <2> DEFINE st == IF Deleting(local) THEN "Unknown" ELSE "False"
             o == SetReady(local, st)
  <2>1. st \in {"True", "False", "Unknown"} OBVIOUS
  <2>2. WriteThenReturn(ClearCurrentOperation(SetFailedUnlessOrphan(o)), "ok")
    BY <1>6 DEF PollFailed
  <2> HIDE DEF st
  <2>3. Evolves(local, ClearCurrentOperation(SetFailedUnlessOrphan(o)))
    BY <1>a, <2>1, ReadyAfter, FailAfter, ClearAfter
  <2> QED BY <1>6, <1>c, <2>2, <2>3 DEF PollFailed
<1>7. CASE PollError BY <1>7, <1>b DEF PollError
<1>8. CASE PollInvalid BY <1>8, <1>b DEF PollInvalid
<1> QED BY <1>3, <1>4, <1>5, <1>6, <1>7, <1>8 DEF Poll

\* A write that is accepted continues the stored version, and removes the
\* object only if it is under deletion and has lost its finalizer.
LEMMA CommitShape ==
    ASSUME TypeOK, VersionsInv, FreshInv, pc # "idle", fresh, Commit(local),
           cached' = cached
    PROVE  /\ VersionsInv' /\ (AllDoomed => AllDoomed')
           /\ api # Absent /\ Evolves(api, local)
           /\ api' = Absent \/ api' = local
           /\ local.fin \/ ~local.del => api' = local
           /\ watch' \in Seq(Object \cup {Absent}) /\ removed' \in Object \cup {Absent}
<1> DEFINE v == IF local.del /\ ~local.fin THEN Absent ELSE local
<1>1. /\ api' = v
      /\ watch' = Append(watch, v) \/ (v = api /\ watch' = watch)
      /\ removed' = local \/ removed' = removed
  BY DEF Commit
<1>2. api # Absent /\ api \in Object /\ Evolves(api, local) /\ local \in Object
  BY DEF FreshInv, TypeOK, Evolves
<1>3. (v = Absent \/ v = local) /\ (local.fin \/ ~local.del => v = local) OBVIOUS
<1> HIDE DEF v
<1>4. v \in Object \cup {Absent} BY <1>2, <1>3
<1>5. Coherent(v) BY <1>2, <1>3 DEF Coherent, Evolves
<1>6. Doomed(api) => Doomed(v) BY <1>2, <1>3 DEF Doomed, Evolves
<1>7. VersionsInv' /\ (AllDoomed => AllDoomed')
  BY <1>1, <1>4, <1>5, <1>6, NewVersion
<1>8. watch' \in Seq(Object \cup {Absent}) BY <1>1, <1>4 DEF TypeOK
<1>9. removed' \in Object \cup {Absent} BY <1>1, <1>2 DEF TypeOK
<1> QED BY <1>1, <1>2, <1>3, <1>7, <1>8, <1>9

\* The worker goes on after a write that was stored.
GoesOn ==
    /\ fresh /\ fresh' = fresh /\ api' = local /\ Evolves(local, local')
    /\ pc # "idle"
    /\ \/ pc = "refs" /\ ~local.del /\ pc' \in {"startProvision", "provision", "write"}
       \/ pc = "startProvision" /\ pc' = "provision"
       \/ pc = "startDeprovision" /\ pc' = "deprovision"

\* What a call of the API server does, whatever comes of it.
LEMMA WriteShape ==
    ASSUME TypeOK, VersionsInv, Coherent(local), FreshInv, StageInv, Write
    PROVE  /\ pc # "idle" /\ UNCHANGED <<cached, deprovisioned>>
           /\ \/ UNCHANGED <<api, watch, removed>>
              \/ fresh /\ Commit(local)
           /\ Returned \/ GoesOn
<1>1. /\ pc # "idle" /\ UNCHANGED <<cached, deprovisioned>>
      /\ \/ UNCHANGED <<api, watch, removed>>
         \/ fresh /\ Commit(local)
  BY DEF Write, WriteFails, UpdateReferences, RecordStartOfOperation, UpdateStatus,
         Refused, storeVars, queueVars
<1> SUFFICES Returned \/ GoesOn BY <1>1
<1>2. local \in Object BY <1>1 DEF TypeOK
<1>3. CASE WriteFails BY <1>3 DEF WriteFails, Return, Returned
<1>4. CASE UpdateStatus BY <1>4 DEF UpdateStatus, Return, Returned
<1>5. CASE UpdateReferences
  <2>1. pc = "refs" /\ fresh /\ fresh' = fresh /\ Commit(local) /\ cached' = cached
    BY <1>5 DEF UpdateReferences
  <2>2. ~local.del BY <2>1 DEF StageInv
  <2>3. api' = local BY <2>1, <2>2, CommitShape
  <2> DEFINE b == [local EXCEPT !.inProg = TRUE]
  <2>4. b \in Object BY Zenon, <1>2 DEF Object
  <2>5. /\ b.del = local.del /\ b.gen = local.gen /\ b.failed = local.failed
        /\ b.recGen = local.recGen /\ b.orphan = local.orphan
    BY <1>2 DEF Object
  <2>6. \/ local' = RecordStart(b, "Provision") /\ pc' = "startProvision"
        \/ local' = b /\ pc' = "provision"
        \/ local' = SetReady(local, "False") /\ pc' = "write"
    BY <1>5 DEF UpdateReferences, PrepareProvision, Continue, WriteThenReturn
  <2> HIDE DEF b
  <2>7. Evolves(local, b) BY <1>2, <2>4, <2>5, EditEvolves
  <2>8. Evolves(b, RecordStart(b, "Provision"))
    BY <2>7, RecordStartEvolves DEF Evolves
  <2>9. Evolves(local, RecordStart(b, "Provision")) BY <1>2, <2>7, <2>8, EvolvesTrans
  <2>10. Evolves(local, SetReady(local, "False")) BY <1>2, SetReadyEvolves
  <2> QED BY <2>1, <2>2, <2>3, <2>6, <2>7, <2>9, <2>10 DEF GoesOn
<1>6. CASE RecordStartOfOperation
  <2>1. /\ pc \in {"startProvision", "startDeprovision"}
        /\ fresh /\ fresh' = fresh /\ Commit(local) /\ cached' = cached /\ local' = local
        /\ pc' = IF pc = "startProvision" THEN "provision" ELSE "deprovision"
    BY <1>6 DEF RecordStartOfOperation, Refused, Continue
  <2>2. local.fin \/ ~local.del BY <2>1 DEF StageInv
  <2>3. api' = local BY <2>1, <2>2, CommitShape
  <2>4. Evolves(local, local') BY <1>2, <2>1, EvolvesRefl
  <2> QED BY <2>1, <2>3, <2>4 DEF GoesOn
<1> QED BY <1>3, <1>4, <1>5, <1>6 DEF Write

-----------------------------------------------------------------------------
(* The types of what is not an object.                                     *)

Scalars ==
    /\ after \in {"ok", "err", "poll"}
    /\ fresh \in BOOLEAN /\ queued \in BOOLEAN /\ delayed \in BOOLEAN
    /\ polling \in BOOLEAN /\ gaveUp \in BOOLEAN
    /\ failures \in 0..MaxRetries
    /\ broker \in [has : BOOLEAN, busy : {"none", "provisioning", "deprovisioning"},
                   last : {"succeeded", "failed"}]
    /\ faults \in 0..MaxFaults /\ crashes \in 0..MaxCrashes
    /\ deprovisioned \in BOOLEAN /\ rejected \in BOOLEAN

Queues == <<delayed, failures, polling, gaveUp>>

QueueTypes ==
    /\ delayed \in BOOLEAN /\ polling \in BOOLEAN /\ gaveUp \in BOOLEAN
    /\ failures \in 0..MaxRetries

\* A fault is counted up to the bound.
LEMMA FaultType ==
    ASSUME faults \in 0..MaxFaults, NEW kind, Fault(kind)
    PROVE  faults' \in 0..MaxFaults
<1>1. MaxFaults \in Nat BY Zenon, InstanceAssumption DEF InstanceAssumption
<1> QED BY <1>1 DEF Fault

\* A returning worker leaves well-typed queues.
LEMMA ReturnType ==
    ASSUME QueueTypes, NEW r, Return(r)
    PROVE  QueueTypes' /\ after' = "ok" /\ fresh' = FALSE /\ Returned
<1>1. MaxRetries \in Nat BY Zenon, InstanceAssumption DEF InstanceAssumption
<1>2. failures' \in 0..MaxRetries
  <2>1. (failures' = failures + 1 /\ failures < MaxRetries) \/ failures' = 0
    BY DEF Return
  <2> QED BY <1>1, <2>1 DEF QueueTypes
<1>3. delayed' \in BOOLEAN /\ polling' \in BOOLEAN /\ gaveUp' \in BOOLEAN
  BY ZenonT(30) DEF Return, QueueTypes
<1> QED BY <1>2, <1>3 DEF Return, Returned, QueueTypes

\* The beginning of a reconciliation keeps the types.
LEMMA ScalarsReconcile == ASSUME Scalars, Reconcile PROVE Scalars'
<1>1. Take BY DEF Reconcile, ReconcileNothing, DeleteBlocked, ClearFinalizer,
                  LookupFails, ClientFails, BeginPoll, BeginDeprovision, BeginProvision,
                  TakeInstance
<1>2. UNCHANGED <<broker, crashes, deprovisioned, rejected>> /\ queued' = FALSE
  BY <1>1 DEF Take, historyVars
<1>3. UNCHANGED faults \/ \E k \in {"creds", "lookup"} : Fault(k)
  BY DEF Reconcile, ReconcileNothing, DeleteBlocked, ClearFinalizer,
         LookupFails, ClientFails, BeginPoll, BeginDeprovision, BeginProvision
<1>4. faults' \in 0..MaxFaults BY <1>3, FaultType DEF Scalars
<1>5. \/ Return("ok") \/ Return("err")
      \/ /\ UNCHANGED Queues /\ fresh' \in BOOLEAN
         /\ UNCHANGED after \/ after' \in {"ok", "err"}
  BY Zenon DEF Reconcile, ReconcileNothing, DeleteBlocked, ClearFinalizer,
         LookupFails, ClientFails, BeginPoll, BeginDeprovision, BeginProvision, TakeInstance,
         PrepareProvision, Continue, WriteThenReturn, Queues
<1>6. QueueTypes' /\ fresh' \in BOOLEAN /\ after' \in {"ok", "err", "poll"}
  <2>1. CASE Return("ok") BY Zenon, <2>1, ReturnType DEF Scalars, QueueTypes
  <2>2. CASE Return("err") BY Zenon, <2>2, ReturnType DEF Scalars, QueueTypes
  <2> QED BY <1>5, <2>1, <2>2 DEF Scalars, QueueTypes, Queues
<1> QED BY Zenon, <1>2, <1>4, <1>6 DEF Scalars, QueueTypes

\* The calls of the API server keep the types.
LEMMA ScalarsWrite == ASSUME Scalars, Write PROVE Scalars'
<1>1. UNCHANGED <<queued, broker, crashes, deprovisioned, rejected>>
  BY DEF Write, WriteFails, UpdateReferences, RecordStartOfOperation, UpdateStatus,
         queueVars
<1>2. UNCHANGED faults \/ \E k \in {"api", "lookup"} : Fault(k)
  BY DEF Write, WriteFails, UpdateReferences, RecordStartOfOperation, UpdateStatus
<1>3. faults' \in 0..MaxFaults BY <1>2, FaultType DEF Scalars
<1>4. \/ Return("err") \/ Return(after)
      \/ /\ UNCHANGED Queues /\ UNCHANGED fresh
         /\ UNCHANGED after \/ after' = "err"
  BY DEF Write, WriteFails, UpdateReferences, RecordStartOfOperation, UpdateStatus,
         PrepareProvision, Continue, WriteThenReturn, Queues, queueVars
<1>5. QueueTypes' /\ fresh' \in BOOLEAN /\ after' \in {"ok", "err", "poll"}
  <2>1. CASE Return("err") BY Zenon, <2>1, ReturnType DEF Scalars, QueueTypes
  <2>2. CASE Return(after) BY Zenon, <2>2, ReturnType DEF Scalars, QueueTypes
  <2> QED BY <1>4, <2>1, <2>2 DEF Scalars, QueueTypes, Queues
<1> QED BY <1>1, <1>3, <1>5 DEF Scalars, QueueTypes

\* What the broker's record looks like after any of the calls.
Brokers == [has : BOOLEAN, busy : {"none", "provisioning", "deprovisioning"},
            last : {"succeeded", "failed"}]

\* The edits of the broker's record keep its type.
LEMMA BrokerEdits ==
    ASSUME NEW b \in Brokers
    PROVE  /\ \A h \in BOOLEAN : [b EXCEPT !.has = h] \in Brokers
           /\ b.has \in BOOLEAN
           /\ \A u \in {"none", "provisioning", "deprovisioning"} :
                 [b EXCEPT !.busy = u] \in Brokers
           /\ [b EXCEPT !.has = FALSE, !.busy = "none"] \in Brokers
           /\ [b EXCEPT !.busy = "none", !.last = "failed"] \in Brokers
           /\ [has |-> b.busy = "provisioning", busy |-> "none",
               last |-> "succeeded"] \in Brokers
  BY Zenon DEF Brokers

\* The calls of the broker keep the types.
LEMMA ScalarsCall == ASSUME Scalars, Call PROVE Scalars'
<1>1. UNCHANGED <<fresh, queued, delayed, polling, gaveUp, failures, crashes>>
  BY Zenon DEF Call, ProvisionOK, ProvisionAsync, ProvisionRejected, ProvisionAmbiguous,
         ProvisionError, DeprovisionOK, DeprovisionAsync, DeprovisionRejected,
         DeprovisionError, CallFrame, queueVars
<1>2. UNCHANGED faults \/ \E k \in {"broker", "expire"} : Fault(k)
  BY Zenon DEF Call, ProvisionOK, ProvisionAsync, ProvisionRejected, ProvisionAmbiguous,
         ProvisionError, DeprovisionOK, DeprovisionAsync, DeprovisionRejected,
         DeprovisionError
<1>3. faults' \in 0..MaxFaults BY <1>2, FaultType DEF Scalars
<1>4. after' \in {"ok", "err", "poll"}
  BY Zenon DEF Call, ProvisionOK, ProvisionAsync, ProvisionRejected, ProvisionAmbiguous,
         ProvisionError, DeprovisionOK, DeprovisionAsync, DeprovisionRejected,
         DeprovisionError, WriteThenReturn
<1>5. /\ deprovisioned' = deprovisioned \/ deprovisioned' = TRUE
      /\ rejected' = rejected \/ rejected' = TRUE
  BY Zenon DEF Call, ProvisionOK, ProvisionAsync, ProvisionRejected, ProvisionAmbiguous,
         ProvisionError, DeprovisionOK, DeprovisionAsync, DeprovisionRejected,
         DeprovisionError
<1>6. broker' \in Brokers
  <2>1. broker \in Brokers BY DEF Scalars, Brokers
  <2>2. ASSUME NEW h \in BOOLEAN, MaybeHas(h) PROVE broker' \in Brokers
    <3>1. PICK x \in {broker.has, h} : broker' = [broker EXCEPT !.has = x]
      BY <2>2 DEF MaybeHas
    <3>2. x \in BOOLEAN BY Zenon, <2>1, BrokerEdits
    <3> QED BY Zenon, <2>1, <3>1, <3>2, BrokerEdits
  <2>3. \/ broker' = [broker EXCEPT !.has = TRUE] \/ broker' = broker
        \/ broker' = [broker EXCEPT !.busy = "provisioning"]
        \/ broker' = [broker EXCEPT !.busy = "deprovisioning"]
        \/ broker' = [broker EXCEPT !.has = FALSE, !.busy = "none"]
        \/ MaybeHas(TRUE) \/ MaybeHas(FALSE)
    BY Zenon DEF Call, ProvisionOK, ProvisionAsync, ProvisionRejected, ProvisionAmbiguous,
           ProvisionError, DeprovisionOK, DeprovisionAsync, DeprovisionRejected,
           DeprovisionError
  <2> QED BY Zenon, <2>1, <2>2, <2>3, BrokerEdits
<1> QED BY Zenon, <1>1, <1>3, <1>4, <1>5, <1>6 DEF Scalars, Brokers

\* The polls keep the types.
LEMMA ScalarsPoll == ASSUME Scalars, Poll PROVE Scalars'
<1>1. UNCHANGED <<queued, broker, crashes, deprovisioned, rejected>>
  BY DEF Poll, PollStops, PollInProgress, PollSucceeded, PollFailed, PollError,
         PollInvalid, PollFrame, PollReturn, CallFrame, queueVars, historyVars
<1>2. UNCHANGED faults \/ \E k \in {"broker", "expire"} : Fault(k)
  BY DEF Poll, PollStops, PollInProgress, PollSucceeded, PollFailed, PollError,
         PollInvalid
<1>3. faults' \in 0..MaxFaults BY <1>2, FaultType DEF Scalars
<1>4. \/ Return("err") \/ Return("poll")
      \/ UNCHANGED Queues /\ UNCHANGED fresh /\ after' \in {"ok", "poll"}
  BY DEF Poll, PollStops, PollInProgress, PollSucceeded, PollFailed, PollError,
         PollInvalid, PollFrame, PollReturn, CallFrame, WriteThenReturn, Queues,
         queueVars
<1>5. QueueTypes' /\ fresh' \in BOOLEAN /\ after' \in {"ok", "err", "poll"}
  <2>1. CASE Return("err") BY Zenon, <2>1, ReturnType DEF Scalars, QueueTypes
  <2>2. CASE Return("poll") BY Zenon, <2>2, ReturnType DEF Scalars, QueueTypes
  <2> QED BY <1>4, <2>1, <2>2 DEF Scalars, QueueTypes, Queues
<1> QED BY <1>1, <1>3, <1>5 DEF Scalars, QueueTypes

\* The informer, the timers, the broker and the environment.
LEMMA ScalarsOther ==
    ASSUME Scalars,
           \/ InformerEvent \/ Resync \/ RetryDue \/ RequeueForPoll
           \/ BrokerFinish \/ Environment
    PROVE  Scalars'
<1>1. CASE InformerEvent
  <2>1. queued' \in BOOLEAN BY <1>1, Zenon DEF InformerEvent, Scalars
  <2> QED BY <1>1, <2>1 DEF InformerEvent, Scalars, workerVars, historyVars
<1>2. CASE Resync BY <1>2 DEF Resync, Scalars, workerVars, historyVars
<1>3. CASE RetryDue BY Zenon, <1>3 DEF RetryDue, Scalars, workerVars, historyVars
<1>4. CASE RequeueForPoll BY Zenon, <1>4 DEF RequeueForPoll, Scalars, workerVars, historyVars
<1>5. CASE BrokerFinish
  <2>1. broker \in Brokers BY DEF Scalars, Brokers
  <2>2. \/ broker' = [has |-> broker.busy = "provisioning", busy |-> "none",
                      last |-> "succeeded"]
        \/ broker' = [broker EXCEPT !.busy = "none", !.last = "failed"]
    BY <1>5 DEF BrokerFinish
  <2>3. broker' \in Brokers BY Zenon, <2>1, <2>2, BrokerEdits
  <2>4. UNCHANGED faults \/ Fault("broker") BY <1>5 DEF BrokerFinish
  <2>5. faults' \in 0..MaxFaults BY <2>4, FaultType DEF Scalars
  <2>6. UNCHANGED <<workerVars, queueVars, crashes, historyVars>>
    BY <1>5 DEF BrokerFinish
  <2> QED BY <2>3, <2>5, <2>6 DEF Scalars, Brokers, workerVars, queueVars, historyVars
<1>6. CASE UserDelete BY Zenon, <1>6 DEF UserDelete, Scalars, queueVars, historyVars
<1>7. CASE UserEdit
  <2>1. faults' \in 0..MaxFaults BY <1>7, FaultType DEF UserEdit, Scalars
  <2> QED BY Zenon, <1>7, <2>1 DEF UserEdit, Scalars, queueVars, historyVars
<1>8. CASE Crash
  <2>1. MaxCrashes \in Nat /\ MaxRetries \in Nat
    BY Zenon, InstanceAssumption DEF InstanceAssumption
  <2>2. crashes' \in 0..MaxCrashes BY <1>8, <2>1 DEF Crash, Scalars
  <2>3. failures' \in 0..MaxRetries BY <1>8, <2>1 DEF Crash
  <2> QED BY Zenon, <1>8, <2>2, <2>3 DEF Crash, Scalars, historyVars
<1> QED BY <1>1, <1>2, <1>3, <1>4, <1>5, <1>6, <1>7, <1>8 DEF Environment

-----------------------------------------------------------------------------
(* The induction.                                                          *)

\* What TypeOK says of the objects.
Objects ==
    /\ api \in Object \cup {Absent} /\ watch \in Seq(Object \cup {Absent})
    /\ cached \in Object \cup {Absent} /\ local \in Object \cup {Absent}
    /\ pc \in {"idle", "refs", "startProvision", "provision",
               "startDeprovision", "deprovision", "poll", "write"}
    /\ pc # "idle" => local # Absent
    /\ removed \in Object \cup {Absent}

\* TypeOK in two parts.
LEMMA TypeParts == TypeOK <=> Scalars /\ Objects
  BY DEF TypeOK, Scalars, Objects

\* What remains of IInv when the types are known.
Meaning ==
    /\ VersionsInv /\ Coherent(local) /\ FreshInv /\ StageInv
    /\ deprovisioned => AllDoomed

\* A worker that has returned holds nothing.
LEMMA ReturnedStep ==
    ASSUME VersionsInv', Returned, deprovisioned' => AllDoomed'
    PROVE  Meaning'
  BY DEF Meaning, Returned, Coherent, FreshInv, StageInv

\* A worker that takes a version: the copy is fresh exactly when the cache is up
\* to date, and a doomed copy means that all versions are doomed.
LEMMA TakenStep ==
    ASSUME IInv, pc = "idle", UNCHANGED <<api, watch, cached, deprovisioned, removed>>,
           Returned \/ TakesOver
    PROVE  Objects' /\ Meaning'
<1> USE AbsentNoObject
<1>1. VersionsInv' /\ (AllDoomed' <=> AllDoomed)
  BY DEF IInv, VersionsInv, VersionsCoherent, UpToDate, Ordered, AllDoomed
<1>2. deprovisioned' => AllDoomed' BY <1>1 DEF IInv
<1>3. CASE Returned
  BY <1>1, <1>2, <1>3, ReturnedStep DEF Returned, Objects, IInv, TypeOK
<1>4. CASE TakesOver
  <2>1. local' \in Object /\ Coherent(local') /\ cached # Absent
    BY <1>4 DEF TakesOver, Evolves
  <2>2. Objects' BY <1>4, <2>1 DEF TakesOver, Objects, IInv, TypeOK
  <2>3. FreshInv'
    <3>1. CASE watch = <<>>
      <4>1. api = cached BY <3>1 DEF IInv, VersionsInv, UpToDate
      <4> QED BY <1>4, <2>1, <4>1 DEF TakesOver, FreshInv
    <3> QED BY Zenon, <1>4, <3>1 DEF TakesOver, FreshInv
  <2>4. Doomed(cached) <=> AllDoomed
    BY <2>1 DEF IInv, VersionsInv, Ordered, AllDoomed
  <2>5. StageInv'
    <3>1. pc' \in {"refs", "startProvision"} => ~local'.del
      BY <1>4, <2>1 DEF TakesOver, Evolves, Doomed
    <3> QED BY <1>1, <1>4, <2>4, <3>1 DEF TakesOver, StageInv, IInv
  <2> QED BY <1>1, <1>2, <2>1, <2>2, <2>3, <2>5 DEF Meaning
<1> QED BY <1>3, <1>4

\* The beginning of a reconciliation.
LEMMA ReconcileStep ==
    ASSUME IInv, Reconcile PROVE Objects' /\ Meaning'
<1>1. /\ pc = "idle" /\ UNCHANGED <<api, watch, cached, deprovisioned>>
      /\ Returned \/ TakesOver
  BY TakeShape DEF IInv, VersionsInv
<1>2. removed' = removed
  BY DEF Reconcile, ReconcileNothing, DeleteBlocked, ClearFinalizer, LookupFails,
         ClientFails, BeginPoll, BeginDeprovision, BeginProvision, TakeInstance, Take, historyVars
<1> QED BY <1>1, <1>2, TakenStep

\* A call of the API server: only a fresh copy is stored.
LEMMA WriteStep ==
    ASSUME IInv, Write PROVE Objects' /\ Meaning'
<1> USE AbsentNoObject
<1>1. /\ pc # "idle" /\ UNCHANGED <<cached, deprovisioned>>
      /\ \/ UNCHANGED <<api, watch, removed>>
         \/ fresh /\ Commit(local)
      /\ Returned \/ GoesOn
  BY WriteShape DEF IInv
<1>2. local \in Object BY <1>1 DEF IInv, TypeOK
<1>3. /\ VersionsInv' /\ (AllDoomed => AllDoomed')
      /\ api' \in Object \cup {Absent} /\ watch' \in Seq(Object \cup {Absent})
      /\ removed' \in Object \cup {Absent}
  <2>1. CASE UNCHANGED <<api, watch, removed>>
    BY <1>1, <2>1 DEF IInv, TypeOK, VersionsInv, VersionsCoherent, UpToDate,
                      Ordered, AllDoomed
  <2>2. CASE fresh /\ Commit(local)
    BY <1>1, <1>2, <2>2, CommitShape DEF IInv
  <2> QED BY <1>1, <2>1, <2>2
<1>4. deprovisioned' => AllDoomed' BY <1>1, <1>3 DEF IInv
<1>5. CASE Returned
  BY <1>1, <1>3, <1>4, <1>5, ReturnedStep DEF Returned, Objects, IInv, TypeOK
<1>6. CASE GoesOn
  <2>1. local' \in Object /\ Coherent(local') BY <1>6 DEF GoesOn, Evolves
  <2>2. Objects' BY <1>1, <1>3, <1>6, <2>1 DEF GoesOn, Objects, IInv, TypeOK
  <2>3. FreshInv' BY <1>2, <1>6 DEF GoesOn, FreshInv
  <2>4. StageInv'
    <3>1. pc' = "startProvision" => ~local'.del
      BY <1>6 DEF GoesOn, Evolves
    <3>2. pc' = "deprovision" => AllDoomed'
      BY <1>3, <1>6 DEF GoesOn, IInv, StageInv
    <3>3. pc' \in {"startProvision", "provision"} => ~deprovisioned'
      BY <1>1, <1>6 DEF GoesOn, IInv, StageInv
    <3>4. pc' \notin {"refs", "startDeprovision"} BY <1>6 DEF GoesOn
    <3> QED BY <3>1, <3>2, <3>3, <3>4 DEF StageInv
  <2> QED BY <1>3, <1>4, <2>1, <2>2, <2>3, <2>4 DEF Meaning
<1> QED BY <1>1, <1>5, <1>6

\* A call of the broker: DeprovisionInstance when all versions are doomed.
LEMMA CallStep ==
    ASSUME IInv, Call PROVE Objects' /\ Meaning'
<1> USE AbsentNoObject
<1>1. /\ pc \in {"provision", "deprovision"} /\ pc' = "write"
      /\ UNCHANGED <<api, watch, cached, fresh>>
      /\ pc = "provision" => deprovisioned' = deprovisioned
      /\ Evolves(local, local')
  BY CallShape DEF IInv
<1>2. removed' = removed
  BY Zenon DEF Call, ProvisionOK, ProvisionAsync, ProvisionRejected, ProvisionAmbiguous,
         ProvisionError, DeprovisionOK, DeprovisionAsync, DeprovisionRejected,
         DeprovisionError, CallFrame
<1>3. local \in Object /\ local' \in Object /\ Coherent(local')
  BY <1>1 DEF IInv, TypeOK, Evolves
<1>4. Objects' BY <1>1, <1>2, <1>3 DEF Objects, IInv, TypeOK
<1>5. VersionsInv' /\ (AllDoomed' <=> AllDoomed)
  BY <1>1 DEF IInv, VersionsInv, VersionsCoherent, UpToDate, Ordered, AllDoomed
<1>6. deprovisioned' => AllDoomed'
  BY Zenon, <1>1, <1>5 DEF IInv, StageInv
<1>7. FreshInv'
  <2> SUFFICES ASSUME fresh PROVE api # Absent /\ Evolves(api, local')
    BY <1>1 DEF FreshInv
  <2>1. api \in Object /\ Evolves(api, local) BY <1>1 DEF IInv, TypeOK, FreshInv
  <2> QED BY <1>1, <2>1, EvolvesTrans
<1>8. StageInv' BY <1>1 DEF StageInv
<1> QED BY <1>3, <1>4, <1>5, <1>6, <1>7, <1>8 DEF Meaning

\* A poll.
LEMMA PollStep ==
    ASSUME IInv, Poll PROVE Objects' /\ Meaning'
<1> USE AbsentNoObject
<1>1. /\ pc = "poll" /\ UNCHANGED <<api, watch, cached, deprovisioned>>
      /\ Returned \/ (pc' = "write" /\ fresh' = fresh /\ Evolves(local, local'))
  BY PollShape DEF IInv
<1>2. removed' = removed
  BY DEF Poll, PollStops, PollInProgress, PollSucceeded, PollFailed, PollError,
         PollInvalid, PollFrame, PollReturn, CallFrame, historyVars
<1>3. VersionsInv' /\ (AllDoomed' <=> AllDoomed)
  BY <1>1 DEF IInv, VersionsInv, VersionsCoherent, UpToDate, Ordered, AllDoomed
<1>4. deprovisioned' => AllDoomed' BY <1>1, <1>3 DEF IInv
<1>5. CASE Returned
  BY <1>1, <1>2, <1>3, <1>4, <1>5, ReturnedStep DEF Returned, Objects, IInv, TypeOK
<1>6. CASE pc' = "write" /\ fresh' = fresh /\ Evolves(local, local')
  <2>1. local \in Object /\ local' \in Object /\ Coherent(local')
    BY <1>1, <1>6 DEF IInv, TypeOK, Evolves
  <2>2. Objects' BY <1>1, <1>2, <1>6, <2>1 DEF Objects, IInv, TypeOK
  <2>3. FreshInv'
    <3> SUFFICES ASSUME fresh PROVE api # Absent /\ Evolves(api, local')
      BY <1>1, <1>6 DEF FreshInv
    <3>1. api \in Object /\ Evolves(api, local) BY <1>1 DEF IInv, TypeOK, FreshInv
    <3> QED BY <1>1, <1>6, <3>1, EvolvesTrans
  <2>4. StageInv' BY <1>6 DEF StageInv
  <2> QED BY <1>3, <1>4, <2>1, <2>2, <2>3, <2>4 DEF Meaning
<1> QED BY <1>1, <1>5, <1>6

\* The user marks the object for deletion.
LEMMA UserDeleteStep ==
    ASSUME IInv, UserDelete PROVE Objects' /\ Meaning'
<1> USE AbsentNoObject
<1> DEFINE v == [api EXCEPT !.del = TRUE, !.gen = 2]
<1>1. /\ api' = v /\ watch' = Append(watch, v) /\ fresh' = FALSE /\ api # Absent
      /\ UNCHANGED <<cached, pc, local, deprovisioned, removed>>
  BY DEF UserDelete, historyVars
<1>2. api \in Object BY <1>1 DEF IInv, TypeOK
<1>3. v \in Object BY Zenon, <1>2 DEF Object
<1>4. v.del /\ v.gen = 2 /\ v.orphan = api.orphan /\ v.failed = api.failed
      /\ v.recGen = api.recGen /\ v.recGen \in {0, 1, 2}
  BY <1>2 DEF Object
<1> HIDE DEF v
<1>5. Coherent(v)
  <2>1. v.recGen <= v.gen BY <1>4
  <2> QED BY <1>1, <1>2, <1>4, <2>1 DEF Coherent, IInv, VersionsInv, VersionsCoherent
<1>6. Doomed(v) BY <1>4 DEF Doomed
<1>7. VersionsInv' /\ (AllDoomed => AllDoomed')
  BY <1>1, <1>3, <1>5, <1>6, NewVersion DEF IInv
<1>8. watch' \in Seq(Object \cup {Absent}) BY <1>1, <1>3 DEF IInv, TypeOK
<1>9. Objects' BY <1>1, <1>3, <1>8 DEF Objects, IInv, TypeOK
<1>10. FreshInv' BY <1>1 DEF FreshInv
<1>11. StageInv' BY <1>1, <1>7 DEF StageInv, IInv
<1>12. Coherent(local') /\ (deprovisioned' => AllDoomed') BY <1>1, <1>7 DEF IInv
<1> QED BY <1>7, <1>9, <1>10, <1>11, <1>12 DEF Meaning

\* The user edits labels: a new version, equal to the last.
LEMMA UserEditStep ==
    ASSUME IInv, UserEdit PROVE Objects' /\ Meaning'
<1>1. /\ api' = api /\ watch' = Append(watch, api) /\ fresh' = FALSE
      /\ UNCHANGED <<cached, pc, local, deprovisioned, removed>>
  BY DEF UserEdit, historyVars
<1>2. api \in Object \cup {Absent} /\ Coherent(api)
  BY DEF IInv, TypeOK, VersionsInv, VersionsCoherent
<1>3. VersionsInv' /\ (AllDoomed => AllDoomed')
  BY <1>1, <1>2, NewVersion DEF IInv
<1>4. watch' \in Seq(Object \cup {Absent}) BY <1>1, <1>2 DEF IInv, TypeOK
<1>5. Objects' BY <1>1, <1>4 DEF Objects, IInv, TypeOK
<1>6. FreshInv' BY <1>1 DEF FreshInv
<1>7. StageInv' BY <1>1, <1>3 DEF StageInv, IInv
<1>8. Coherent(local') /\ (deprovisioned' => AllDoomed') BY <1>1, <1>3 DEF IInv
<1> QED BY <1>3, <1>5, <1>6, <1>7, <1>8 DEF Meaning

\* A restart: versions that are all doomed stay so.
LEMMA CrashStep ==
    ASSUME IInv, Crash PROVE Objects' /\ Meaning'
<1>1. /\ api' = api /\ cached' = Absent /\ UNCHANGED <<deprovisioned, removed>>
      /\ watch' = IF api = Absent THEN <<>> ELSE <<api>>
      /\ Returned
  BY DEF Crash, Returned, historyVars
<1>2. VersionsInv' /\ (AllDoomed => AllDoomed') BY <1>1, CrashVersions DEF IInv
<1>3. watch' \in Seq(Object \cup {Absent})
  <2> DEFINE V == Object \cup {Absent}
  <2>1. api \in V BY DEF IInv, TypeOK
  <2> HIDE DEF V
  <2>2. <<>> \in Seq(V) /\ <<api>> \in Seq(V) BY <2>1
  <2> QED BY Zenon, <1>1, <2>2 DEF V
<1>4. Objects' BY <1>1, <1>3 DEF Objects, IInv, TypeOK, Returned
<1>5. deprovisioned' => AllDoomed' BY <1>1, <1>2 DEF IInv
<1> QED BY <1>1, <1>2, <1>4, <1>5, ReturnedStep

\* The informer catches up by one version.
LEMMA InformerStep ==
    ASSUME IInv, InformerEvent PROVE Objects' /\ Meaning'
<1>1. /\ watch # <<>> /\ cached' = Head(watch) /\ watch' = Tail(watch)
      /\ UNCHANGED <<api, pc, local, fresh, deprovisioned, removed>>
  BY DEF InformerEvent, workerVars, historyVars
<1>2. VersionsInv' /\ (AllDoomed => AllDoomed')
  BY <1>1, InformerVersions DEF IInv
<1>3. watch' \in Seq(Object \cup {Absent}) /\ cached' \in Object \cup {Absent}
  BY <1>1 DEF IInv, TypeOK
<1>4. Objects' BY <1>1, <1>3 DEF Objects, IInv, TypeOK
<1>5. FreshInv' BY <1>1 DEF FreshInv, IInv
<1>6. StageInv' BY <1>1, <1>2 DEF StageInv, IInv
<1>7. Coherent(local') /\ (deprovisioned' => AllDoomed') BY <1>1, <1>2 DEF IInv
<1> QED BY <1>2, <1>4, <1>5, <1>6, <1>7 DEF Meaning

\* The steps that touch neither the versions nor the worker.
LEMMA QuietStep ==
    ASSUME IInv,
           UNCHANGED <<api, watch, cached, pc, local, fresh, deprovisioned, removed>>
    PROVE  Objects' /\ Meaning'
<1>1. VersionsInv' /\ (AllDoomed' <=> AllDoomed)
  BY DEF IInv, VersionsInv, VersionsCoherent, UpToDate, Ordered, AllDoomed
<1>2. Objects' BY DEF Objects, IInv, TypeOK
<1>3. FreshInv' BY DEF FreshInv, IInv
<1>4. StageInv' BY <1>1 DEF StageInv, IInv
<1>5. Coherent(local') /\ (deprovisioned' => AllDoomed') BY <1>1 DEF IInv
<1> QED BY <1>1, <1>2, <1>3, <1>4, <1>5 DEF Meaning

\* A new instance satisfies the invariant.
LEMMA InitInv == Init => IInv
<1> SUFFICES ASSUME Init PROVE IInv OBVIOUS
<1> USE AbsentNoObject
<1>1. NewInstance \in Object BY DEF NewInstance, Object
<1>2. /\ ~NewInstance.failed /\ ~NewInstance.del /\ ~NewInstance.orphan
      /\ NewInstance.recGen = 0 /\ NewInstance.gen = 1
  BY DEF NewInstance
<1>3. /\ api = NewInstance /\ watch = <<NewInstance>> /\ cached = Absent
      /\ pc = "idle" /\ local = Absent /\ deprovisioned = FALSE
    BY DEF Init
<1>4. Coherent(NewInstance)
  <2>1. NewInstance.recGen <= NewInstance.gen BY <1>2
  <2> QED BY <1>2, <2>1 DEF Coherent
<1>5. watch # <<>> /\ Len(watch) = 1 /\ watch[1] = NewInstance BY <1>3
<1>6. \A i \in 1..1 : i = 1 OBVIOUS
<1>7. VersionsInv
  BY <1>3, <1>4, <1>5, <1>6 DEF VersionsInv, VersionsCoherent, UpToDate, Ordered,
                                Coherent
<1>8. Meaning BY <1>3, <1>7 DEF Meaning, Coherent, FreshInv, StageInv
<1>9. Objects
  <2>1. watch \in Seq(Object \cup {Absent}) BY <1>1, <1>3
  <2> QED BY <1>1, <1>3, <2>1 DEF Objects, Init
<1>10. Scalars
  <2>1. MaxFaults \in Nat /\ MaxCrashes \in Nat /\ MaxRetries \in Nat
    BY Zenon, InstanceAssumption DEF InstanceAssumption
  <2>2. failures \in 0..MaxRetries /\ faults \in 0..MaxFaults /\ crashes \in 0..MaxCrashes
    BY <2>1 DEF Init
  <2> QED BY Zenon, <2>2 DEF Scalars, Init
<1> QED BY <1>8, <1>9, <1>10, TypeParts DEF IInv, Meaning

\* Every step preserves the invariant.
LEMMA StepInv == IInv /\ [Next]_vars => IInv'
<1> SUFFICES ASSUME IInv, [Next]_vars PROVE IInv' OBVIOUS
<1>1. Scalars /\ TypeOK BY TypeParts DEF IInv
<1> SUFFICES Scalars' /\ Objects' /\ Meaning'
  <2>1. TypeOK' <=> Scalars' /\ Objects' BY DEF TypeOK, Scalars, Objects
  <2> QED BY <2>1 DEF IInv, Meaning
<1>2. CASE Reconcile BY <1>1, <1>2, ScalarsReconcile, ReconcileStep
<1>3. CASE Write BY <1>1, <1>3, ScalarsWrite, WriteStep
<1>4. CASE Call BY <1>1, <1>4, ScalarsCall, CallStep
<1>5. CASE Poll BY <1>1, <1>5, ScalarsPoll, PollStep
<1>6. CASE Environment
  BY <1>1, <1>6, ScalarsOther, UserDeleteStep, UserEditStep, CrashStep DEF Environment
<1>7. CASE InformerEvent BY <1>1, <1>7, ScalarsOther, InformerStep
<1>8. CASE Resync \/ RetryDue \/ RequeueForPoll \/ BrokerFinish
  <2>1. UNCHANGED <<api, watch, cached, pc, local, fresh, deprovisioned, removed>>
    BY <1>8 DEF Resync, RetryDue, RequeueForPoll, BrokerFinish, storeVars,
                workerVars, historyVars
  <2> QED BY <1>1, <1>8, <2>1, ScalarsOther, QuietStep
<1>9. CASE UNCHANGED vars
  <2>1. UNCHANGED <<api, watch, cached, pc, local, fresh, deprovisioned, removed>>
    BY <1>9 DEF vars, storeVars, workerVars, historyVars
  <2>2. Scalars'
    BY <1>1, <1>9 DEF Scalars, vars, workerVars, queueVars, historyVars
  <2> QED BY <2>1, <2>2, QuietStep
<1> QED
  BY <1>2, <1>3, <1>4, <1>5, <1>6, <1>7, <1>8, <1>9 DEF Next, Worker

\* The inductive invariant holds in every reachable state.
THEOREM InstanceInvariant == Spec => []IInv
  BY InitInv, StepInv, PTL DEF Spec

\* The variables have their types.
THEOREM TypeCorrect == Spec => []TypeOK
<1>1. IInv => TypeOK BY DEF IInv
<1> QED BY <1>1, InstanceInvariant, PTL

\* No ProvisionInstance after a DeprovisionInstance, from a stale cache, after
\* a crash or by the retry of an older reconciliation.
THEOREM ProvisionNeverFollowsDeprovision == Spec => []NoProvisionAfterDeprovision
<1>1. IInv => NoProvisionAfterDeprovision
  BY DEF IInv, StageInv, NoProvisionAfterDeprovision
<1> QED BY <1>1, InstanceInvariant, PTL

\* DeprovisionInstance is only called for an object that is deleted or has
\* failed at that moment, whatever the worker's cache said.
THEOREM HealthyIsNotDeprovisioned == Spec => []OnlyDoomedIsDeprovisioned
<1>1. IInv => OnlyDoomedIsDeprovisioned
  BY DEF IInv, StageInv, AllDoomed, Doomed, OnlyDoomedIsDeprovisioned
<1> QED BY <1>1, InstanceInvariant, PTL

\* No status or finalizer write, from whatever version it was computed, undoes
\* a deletion, a failure or a reconciled generation that is stored.
THEOREM WritesNeverRegress == Spec => StatusNeverRegresses
<1> DEFINE Kept == IF api = Absent THEN api' = Absent
                   ELSE api' # Absent =>
                          /\ api.del => api'.del
                          /\ api.failed => api'.failed
                          /\ api'.recGen >= api.recGen
<1>1. ASSUME IInv, [Next]_vars PROVE [Kept]_vars
  <2> USE AbsentNoObject
  <2>1. ASSUME api' = api PROVE Kept
    <3>1. api # Absent => api.recGen \in {0, 1, 2} BY <1>1 DEF IInv, TypeOK, Object
    <3>2. api # Absent => api.recGen >= api.recGen BY <3>1
    <3> QED BY <2>1, <3>2
  <2>2. CASE Write
    <3>1. /\ pc # "idle" /\ UNCHANGED cached
          /\ api' = api \/ (fresh /\ Commit(local))
      BY <1>1, <2>2, WriteShape DEF IInv
    <3>2. CASE fresh /\ Commit(local)
      <4>1. api # Absent /\ Evolves(api, local) /\ (api' = Absent \/ api' = local)
        BY <1>1, <3>1, <3>2, CommitShape DEF IInv
      <4>2. api \in Object BY <1>1, <4>1 DEF IInv, TypeOK
      <4>3. local.recGen >= api.recGen BY <4>1, <4>2 DEF Evolves, Object
      <4> QED BY <4>1, <4>3 DEF Evolves
    <3> QED BY <2>1, <3>1, <3>2
  <2>3. CASE UserDelete
    <3>1. api \in Object /\ api # Absent /\ api' = [api EXCEPT !.del = TRUE, !.gen = 2]
      BY <1>1, <2>3 DEF UserDelete, IInv, TypeOK
    <3>2. /\ api'.del /\ api'.failed = api.failed /\ api'.recGen = api.recGen
          /\ api.recGen \in {0, 1, 2}
      BY <3>1 DEF Object
    <3>3. api'.recGen >= api.recGen BY <3>2
    <3> QED BY <3>1, <3>2, <3>3
  <2>4. CASE Reconcile BY <1>1, <2>1, <2>4, TakeShape DEF IInv, VersionsInv
  <2>5. CASE Call BY <1>1, <2>1, <2>5, CallShape DEF IInv
  <2>6. CASE Poll BY <1>1, <2>1, <2>6, PollShape DEF IInv
  <2>7. CASE \/ InformerEvent \/ Resync \/ RetryDue \/ RequeueForPoll
             \/ BrokerFinish \/ UserEdit \/ Crash
    <3>1. api' = api
      BY <2>7 DEF InformerEvent, Resync, RetryDue, RequeueForPoll, BrokerFinish,
                  UserEdit, Crash, storeVars
    <3> QED BY <2>1, <3>1
  <2> QED
    BY <1>1, <2>2, <2>3, <2>4, <2>5, <2>6, <2>7 DEF Next, Worker, Environment
<1>2. Spec => [][Kept]_vars
  BY <1>1, InstanceInvariant, PTL DEF Spec
<1> QED BY <1>2 DEF StatusNeverRegresses
=============================================================================
