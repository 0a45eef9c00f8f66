--------------------- MODULE ServiceInstanceStatusProofs ---------------------
(***************************************************************************)
(* For every value of the constants: an instance shown as Ready is at the  *)
(* broker, an instance that is removed after it was recorded as            *)
(* provisioned is not, and an asynchronous operation is always polled      *)
(* again unless its key was dropped.                                       *)
(*                                                                         *)
(* The argument.  Call a version spent when it has failed, is being        *)
(* deprovisioned or has lost its finalizer.  No accepted write makes a     *)
(* spent version unspent, a spent version is never Ready (Sound), and      *)
(* DeprovisionInstance is only called, and the broker only deprovisions,   *)
(* when the stored version is spent (ReleaseInv).  So what the stored      *)
(* status, or a copy that may still be stored, says of the broker stays    *)
(* true (Honest): that a Ready instance is there, that an asynchronous     *)
(* operation that ended well has created or deleted it, and that what      *)
(* loses its finalizer is gone.  For the polling: every version from the   *)
(* cached one to the stored one asks for work while the worker holds a     *)
(* fresh copy or the stored one has an operation (AttentionInv), so that   *)
(* no reconciliation of a stale version ends without an error.             *)
(*                                                                         *)
(* From these invariants also: an instance implements ResourceLifecycle;   *)
(* and, where the API server validates statuses, no orphan mitigation is   *)
(* stored (ValidInv) and an instance whose deletion is recorded as         *)
(* reconciled stays for ever (StuckInv).                                   *)
(***************************************************************************)
EXTENDS ServiceInstanceProofs

\* More time than by default, for a slow machine.
USE SMTT(30), ZenonT(30)

\* The version can not become Ready any more.
Spent(o) == o = Absent \/ o.failed \/ o.op = "Deprovision" \/ (o.del /\ ~o.fin)

\* Facts that hold of every version and copy by itself.
Sound(o) ==
    /\ ~o.del => o.gen = 1 /\ o.fin
    /\ o.op = "Provision" => o.recGen = 0
    /\ o.op = "Deprovision" => o.del \/ o.orphan
    /\ o.async => o.ready # "True"
    /\ o.async /\ ~Deleting(o) => o.inProg /\ ~o.failed
    /\ o.ready = "True" => o.recGen # 0 /\ ~Spent(o)

Stored(o) == o # Absent => o.fin /\ Sound(o)

\* The versions a worker reads now or later.
Versions ==
    {api} \cup ({cached} \ {Absent}) \cup {watch[i] : i \in 1..Len(watch)}

StoredInv == \A o \in Versions : Stored(o)

\* Nothing unspent follows a spent version.
SpentInv == \A o \in Versions : Spent(o) => Spent(api)

\* What the worker knows of its copy at its control points.
CopyInv ==
    /\ pc # "idle" => Sound(local)
    /\ pc \in {"refs", "startProvision", "provision"} =>
         /\ ~local.async /\ ~local.del /\ ~local.orphan /\ ~local.failed
         /\ local.recGen = 0
    /\ pc \in {"startProvision", "provision"} => local.inProg /\ local.op = "Provision"
    /\ pc \in {"startDeprovision", "deprovision"} =>
         ~local.async /\ Deleting(local) /\ local.fin
    /\ pc = "startDeprovision" => local.op = "Deprovision"
    /\ pc = "poll" => local.async /\ local.fin /\ (fresh => local = api)
    /\ pc # "idle" /\ fresh /\ Spent(api) => Spent(local)

\* The broker is only asked to release, and only releases, what is spent.
ReleaseInv == pc = "deprovision" \/ broker.busy = "deprovisioning" => Spent(api)

\* The broker has nothing, and nothing will come.
Gone == ~broker.has /\ broker.busy # "provisioning" /\ deprovisioned

\* What the object says of the broker is true.
Honest(o) ==
    /\ o.ready = "True" => broker.has /\ o.ext
    /\ o.async /\ ~Deleting(o) =>
         \/ broker.busy = "provisioning"
         \/ broker.busy = "none" /\ (broker.last = "succeeded" => broker.has)
    /\ o.async /\ Deleting(o) =>
         /\ deprovisioned
         /\ \/ broker.busy = "deprovisioning"
            \/ broker.busy = "none" /\ (broker.last = "succeeded" => ~broker.has)
    /\ o.del /\ ~o.fin => o.failed \/ o.recGen = 0 \/ Gone

HonestInv ==
    /\ api # Absent => Honest(api)
    /\ pc # "idle" /\ fresh => Honest(local)
    /\ removed # Absent => removed.failed \/ removed.recGen = 0 \/ Gone

SInv == StoredInv /\ SpentInv /\ CopyInv /\ ReleaseInv /\ HonestInv

-----------------------------------------------------------------------------
\* A reconciliation of the version does something.
Pending(o) == o # Absent /\ (o.async \/ ToProvision(o) \/ (ToDelete(o) /\ o.fin))

AllPending == \A o \in Versions : Pending(o)

AttentionInv ==
    /\ pc # "idle" /\ fresh => AllPending
    /\ api # Absent => (api.async => AllPending)
    /\ pc = "write" /\ fresh /\ local.async => after # "ok"
    /\ PolledUnlessDropped

-----------------------------------------------------------------------------
(* The versions change by the stored one only.                             *)

\* A write or an edit appends the stored version, or changes nothing.
LEMMA AppendVersions ==
    ASSUME TypeOK, NEW v, api' = v, cached' = cached,
           watch' = Append(watch, v) \/ watch' = watch
    PROVE  Versions' \subseteq Versions \cup {api'}
<1>1. CASE watch' = watch BY <1>1 DEF Versions
<1>2. CASE watch' = Append(watch, v)
  <2> DEFINE n == Len(watch)
  <2>1. n \in Nat BY DEF TypeOK
  <2>2. /\ Len(watch') = n + 1 /\ watch'[n + 1] = v
        /\ \A i \in 1..n : watch'[i] = watch[i]
    BY <1>2 DEF TypeOK
  <2> HIDE DEF n
  <2>3. \A i \in 1..(n + 1) : i \in 1..n \/ i = n + 1 BY <2>1
  <2>4. \A i \in 1..Len(watch') : watch'[i] \in Versions \cup {v}
    BY <2>2, <2>3 DEF Versions, n
  <2> QED BY <2>4 DEF Versions
<1> QED BY <1>1, <1>2

\* The informer takes the oldest version.
LEMMA TakenVersions ==
    ASSUME TypeOK, InformerEvent PROVE Versions' \subseteq Versions
<1> DEFINE n == Len(watch)
<1>1. /\ watch # <<>> /\ cached' = Head(watch) /\ watch' = Tail(watch) /\ api' = api
  BY DEF InformerEvent
<1>2. /\ n \in Nat /\ n >= 1 /\ cached' = watch[1] /\ Len(watch') = n - 1
      /\ \A i \in 1..(n - 1) : watch'[i] = watch[i + 1]
  BY <1>1 DEF TypeOK
<1> HIDE DEF n
<1>3. 1 \in 1..n /\ \A i \in 1..(n - 1) : i + 1 \in 1..n BY <1>2
<1>4. \A i \in 1..Len(watch') : watch'[i] \in Versions BY <1>2, <1>3 DEF Versions, n
<1>5. cached' \in Versions BY <1>2, <1>3 DEF Versions, n
<1> QED BY <1>1, <1>4, <1>5 DEF Versions

\* A restart lists the stored object.
LEMMA ListedVersions == ASSUME Crash PROVE Versions' \subseteq Versions
<1>1. /\ api' = api /\ cached' = Absent
      /\ watch' = IF api = Absent THEN <<>> ELSE <<api>>
  BY DEF Crash
<1>2. \A i \in 1..Len(watch') : watch'[i] = api
  <2>1. CASE api = Absent BY <1>1, <2>1
  <2>2. CASE api # Absent
    <3>1. Len(watch') = 1 /\ watch'[1] = api BY <1>1, <2>2
    <3> QED BY <3>1
  <2> QED BY <2>1, <2>2
<1> QED BY <1>1, <1>2 DEF Versions

\* Every step adds at most the version it stores.
LEMMA VersionsStep ==
    ASSUME IInv, [Next]_vars PROVE Versions' \subseteq Versions \cup {api'}
<1>0. TypeOK BY DEF IInv
<1>1. CASE UNCHANGED <<api, watch, cached>> BY <1>1 DEF Versions
<1>2. CASE Write
  <2>1. cached' = cached /\ (UNCHANGED <<api, watch>> \/ Commit(local))
    BY <1>2, WriteShape DEF IInv
  <2>2. CASE Commit(local)
    <3>1. watch' = Append(watch, api') \/ watch' = watch BY <2>2 DEF Commit
    <3> QED BY <1>0, <2>1, <3>1, AppendVersions
  <2> QED BY <1>1, <2>1, <2>2
<1>3. CASE UserDelete \/ UserEdit
  <2>1. cached' = cached /\ watch' = Append(watch, api')
    BY <1>3 DEF UserDelete, UserEdit
  <2> QED BY <1>0, <2>1, AppendVersions
<1>4. CASE InformerEvent BY <1>0, <1>4, TakenVersions
<1>5. CASE Crash BY <1>5, ListedVersions
<1>6. CASE Reconcile BY <1>1, <1>6, TakeShape DEF IInv, VersionsInv
<1>7. CASE Call BY <1>1, <1>7, CallShape DEF IInv
<1>8. CASE Poll BY <1>1, <1>8, PollShape DEF IInv
<1>9. CASE Resync \/ RetryDue \/ RequeueForPoll \/ BrokerFinish \/ UNCHANGED vars
  BY <1>1, <1>9 DEF Resync, RetryDue, RequeueForPoll, BrokerFinish, storeVars, vars
<1> QED
  BY <1>2, <1>3, <1>4, <1>5, <1>6, <1>7, <1>8, <1>9 DEF Next, Worker, Environment

-----------------------------------------------------------------------------
(* What the status helpers write.                                          *)

Fields(o) ==
    <<o.del, o.fin, o.gen, o.op, o.async, o.orphan, o.inProg, o.ext, o.ready,
      o.failed, o.recGen>>

\* setServiceInstanceCondition(Ready).
LEMMA ReadyFields ==
    ASSUME NEW o \in Object, NEW st \in {"True", "False", "Unknown"}
    PROVE  /\ SetReady(o, st) \in Object
           /\ Fields(SetReady(o, st)) =
                <<o.del, o.fin, o.gen, o.op, o.async, o.orphan, o.inProg, o.ext, st,
                  o.failed, o.recGen>>
  BY DEF SetReady, Object, Fields

\* clearServiceInstanceCurrentOperation.
LEMMA ClearFields ==
    ASSUME NEW o \in Object
    PROVE  /\ ClearCurrentOperation(o) \in Object
           /\ Fields(ClearCurrentOperation(o)) =
                <<o.del, o.fin, o.gen, "none", FALSE, FALSE, FALSE, o.ext, o.ready,
                  o.failed, o.gen>>
  BY Zenon DEF ClearCurrentOperation, Object, Fields

\* The Failed condition is set, also for an orphan, which has it already.
LEMMA FailedFields ==
    ASSUME NEW o \in Object, Coherent(o)
    PROVE  /\ SetFailedUnlessOrphan(o) \in Object
           /\ Fields(SetFailedUnlessOrphan(o)) =
                <<o.del, o.fin, o.gen, o.op, o.async, o.orphan, o.inProg, o.ext,
                  o.ready, TRUE, o.recGen>>
<1>1. o.orphan => o.failed BY AbsentNoObject DEF Coherent
<1> QED BY Zenon, <1>1 DEF SetFailedUnlessOrphan, Object, Fields

\* setServiceInstanceStartOrphanMitigation.
LEMMA OrphanFields ==
    ASSUME NEW o \in Object
    PROVE  /\ StartOrphanMitigation(o) \in Object
           /\ Fields(StartOrphanMitigation(o)) =
                <<o.del, o.fin, o.gen, o.op, FALSE, TRUE, FALSE, o.ext, o.ready,
                  o.failed, o.recGen>>
  BY Zenon DEF StartOrphanMitigation, Object, Fields

\* recordStartOfServiceInstanceOperation.
LEMMA StartFields ==
    ASSUME NEW o \in Object, NEW op \in {"Provision", "Deprovision"}
    PROVE  /\ RecordStart(o, op) \in Object
           /\ Fields(RecordStart(o, op)) =
                <<o.del, o.fin, o.gen, op, o.async, o.orphan, o.inProg, o.ext, "False",
                  o.failed, o.recGen>>
<1> DEFINE b == [o EXCEPT !.op = op, !.started = TRUE]
<1>1. /\ b \in Object
      /\ Fields(b) = <<o.del, o.fin, o.gen, op, o.async, o.orphan, o.inProg, o.ext,
                       o.ready, o.failed, o.recGen>>
  BY Zenon DEF Object, Fields
<1>2. RecordStart(o, op) = SetReady(b, "False") BY DEF RecordStart
<1> HIDE DEF b
<1> QED BY <1>1, <1>2, ReadyFields DEF Fields

\* The single fields the actions set.
LEMMA EditFields ==
    ASSUME NEW o \in Object
    PROVE  /\ [o EXCEPT !.fin = FALSE] \in Object
           /\ Fields([o EXCEPT !.fin = FALSE]) =
                <<o.del, FALSE, o.gen, o.op, o.async, o.orphan, o.inProg, o.ext,
                  o.ready, o.failed, o.recGen>>
           /\ [o EXCEPT !.inProg = TRUE] \in Object
           /\ Fields([o EXCEPT !.inProg = TRUE]) =
                <<o.del, o.fin, o.gen, o.op, o.async, o.orphan, TRUE, o.ext,
                  o.ready, o.failed, o.recGen>>
           /\ [o EXCEPT !.async = TRUE] \in Object
           /\ Fields([o EXCEPT !.async = TRUE]) =
                <<o.del, o.fin, o.gen, o.op, TRUE, o.orphan, o.inProg, o.ext,
                  o.ready, o.failed, o.recGen>>
           /\ [o EXCEPT !.failed = TRUE] \in Object
           /\ Fields([o EXCEPT !.failed = TRUE]) =
                <<o.del, o.fin, o.gen, o.op, o.async, o.orphan, o.inProg, o.ext,
                  o.ready, TRUE, o.recGen>>
           /\ [o EXCEPT !.ext = o.inProg] \in Object
           /\ Fields([o EXCEPT !.ext = o.inProg]) =
                <<o.del, o.fin, o.gen, o.op, o.async, o.orphan, o.inProg, o.inProg,
                  o.ready, o.failed, o.recGen>>
<1>1. /\ [o EXCEPT !.fin = FALSE] \in Object
      /\ Fields([o EXCEPT !.fin = FALSE]) =
            <<o.del, FALSE, o.gen, o.op, o.async, o.orphan, o.inProg, o.ext,
              o.ready, o.failed, o.recGen>>
  BY Zenon DEF Object, Fields
<1>2. /\ [o EXCEPT !.inProg = TRUE] \in Object
      /\ Fields([o EXCEPT !.inProg = TRUE]) =
            <<o.del, o.fin, o.gen, o.op, o.async, o.orphan, TRUE, o.ext,
              o.ready, o.failed, o.recGen>>
  BY Zenon DEF Object, Fields
<1>3. /\ [o EXCEPT !.async = TRUE] \in Object
      /\ Fields([o EXCEPT !.async = TRUE]) =
            <<o.del, o.fin, o.gen, o.op, TRUE, o.orphan, o.inProg, o.ext,
              o.ready, o.failed, o.recGen>>
  BY Zenon DEF Object, Fields
<1>4. /\ [o EXCEPT !.failed = TRUE] \in Object
      /\ Fields([o EXCEPT !.failed = TRUE]) =
            <<o.del, o.fin, o.gen, o.op, o.async, o.orphan, o.inProg, o.ext,
              o.ready, TRUE, o.recGen>>
  BY Zenon DEF Object, Fields
<1>5. /\ [o EXCEPT !.ext = o.inProg] \in Object
      /\ Fields([o EXCEPT !.ext = o.inProg]) =
            <<o.del, o.fin, o.gen, o.op, o.async, o.orphan, o.inProg, o.inProg,
              o.ready, o.failed, o.recGen>>
  BY DEF Object, Fields
<1> QED BY Zenon, <1>1, <1>2, <1>3, <1>4, <1>5

\* The refs and started fields do not matter here.
LEMMA OtherFields ==
    ASSUME NEW o \in Object, NEW x \in BOOLEAN
    PROVE  /\ [o EXCEPT !.refs = x] \in Object
           /\ Fields([o EXCEPT !.refs = x]) = Fields(o)
           /\ [o EXCEPT !.started = x] \in Object
           /\ Fields([o EXCEPT !.started = x]) = Fields(o)
  BY DEF Object, Fields

-----------------------------------------------------------------------------
(* A reconciliation begins.                                                *)

\* The copy with which it goes on, compared with the cached version.
TakesSoundly ==
    /\ cached # Absent /\ fresh' = (watch = <<>>) /\ local' \in Object /\ pc' # "idle"
    /\ Sound(local') /\ Pending(cached)
    /\ Spent(cached) => Spent(local')
    /\ local'.ready = "True" => cached.ready = "True" /\ local'.ext = cached.ext
    /\ local'.async => cached.async /\ (Deleting(local') <=> Deleting(cached))
    /\ local'.del /\ ~local'.fin => local'.failed \/ local'.recGen = 0
    /\ pc' \in {"refs", "startProvision", "provision"} =>
         /\ ~local'.async /\ ~local'.del /\ ~local'.orphan /\ ~local'.failed
         /\ local'.recGen = 0
    /\ pc' \in {"startProvision", "provision"} => local'.inProg /\ local'.op = "Provision"
    /\ pc' \in {"startDeprovision", "deprovision"} =>
         ~local'.async /\ Deleting(local') /\ local'.fin
    /\ pc' = "startDeprovision" => local'.op = "Deprovision"
    /\ pc' = "deprovision" => Spent(cached)
    /\ pc' = "poll" => local'.async /\ local'.fin /\ local' = cached
    /\ pc' = "write" /\ local'.async => after' # "ok"

\* What is known of the version that a reconciliation reads.
LEMMA CachedFacts ==
    ASSUME IInv, SInv, cached # Absent
    PROVE  /\ cached \in Object /\ cached.fin /\ Sound(cached) /\ cached \in Versions
           /\ cached.orphan => cached.failed
           /\ cached.recGen <= cached.gen
  BY DEF IInv, TypeOK, VersionsInv, VersionsCoherent, Coherent, SInv, StoredInv,
         Stored, Versions

\* A reconciliation that only reports why it can not go on.
LEMMA ReportShape ==
    ASSUME IInv, SInv, TakeInstance, Pending(cached), NEW result,
           WriteThenReturn(SetReady(cached, "False"), result), cached.async => result # "ok"
    PROVE  TakesSoundly
<1>1. cached # Absent /\ fresh' = (watch = <<>>) BY DEF TakeInstance
<1>2. /\ cached \in Object /\ cached.fin /\ Sound(cached)
      /\ cached.orphan => cached.failed
  BY <1>1, CachedFacts
<1>3. local' = SetReady(cached, "False") /\ pc' = "write" /\ after' = result
  BY DEF WriteThenReturn
<1>4. local' \in Object /\ Fields(local') = <<cached.del, cached.fin, cached.gen,
        cached.op, cached.async, cached.orphan, cached.inProg, cached.ext, "False",
        cached.failed, cached.recGen>>
  BY Zenon, <1>2, <1>3, ReadyFields
<1>5. local' # Absent BY <1>4, AbsentNoObject
<1>6. Sound(local') BY <1>2, <1>4, <1>5 DEF Sound, Fields, Spent, Deleting
<1>7. local'.async => after' # "ok" BY <1>3, <1>4 DEF Fields
<1> QED
  BY Zenon, <1>1, <1>2, <1>3, <1>4, <1>5, <1>6, <1>7 DEF TakesSoundly, Fields, Spent, Deleting

\* It reports the credentials, or a failed lookup.
LEMMA ReportTaken ==
    ASSUME IInv, SInv, DeleteBlocked \/ LookupFails PROVE TakesSoundly
<1>1. CASE DeleteBlocked
  <2>1. TakeInstance /\ ToDelete(cached) /\ WriteThenReturn(SetReady(cached, "False"), "ok")
    BY <1>1 DEF DeleteBlocked
  <2>2. cached # Absent BY <2>1 DEF TakeInstance
  <2>3. Pending(cached) /\ ~cached.async BY <2>1, <2>2, CachedFacts DEF Pending, ToDelete
  <2> QED BY <2>1, <2>3, ReportShape
<1>2. CASE LookupFails
  <2>1. TakeInstance /\ NeedsBroker(cached) /\ WriteThenReturn(SetReady(cached, "False"), "err")
    BY <1>2 DEF LookupFails
  <2>2. cached # Absent BY <2>1 DEF TakeInstance
  <2>3. Pending(cached) BY <2>1, <2>2 DEF Pending, NeedsBroker
  <2> QED BY <2>1, <2>3, ReportShape
<1> QED BY <1>1, <1>2

\* The finalizer is cleared.
LEMMA ClearTaken == ASSUME IInv, SInv, ClearFinalizer PROVE TakesSoundly
<1>1. TakeInstance BY DEF ClearFinalizer
<1>2. cached # Absent /\ fresh' = (watch = <<>>) BY <1>1 DEF TakeInstance
<1>3. /\ cached \in Object /\ cached.fin /\ Sound(cached)
      /\ cached.orphan => cached.failed
  BY <1>2, CachedFacts
<1>4. /\ local' = [cached EXCEPT !.fin = FALSE] /\ pc' = "write"
      /\ ToDelete(cached) /\ NothingToDeprovision(cached)
  BY DEF ClearFinalizer, WriteThenReturn
<1>5. local' \in Object /\ Fields(local') = <<cached.del, FALSE, cached.gen,
        cached.op, cached.async, cached.orphan, cached.inProg, cached.ext, cached.ready,
        cached.failed, cached.recGen>>
  BY Zenon, <1>3, <1>4, EditFields
<1>6. local' # Absent BY <1>5, AbsentNoObject
<1>7. cached.del /\ ~cached.async /\ ~cached.orphan /\ (cached.failed \/ cached.recGen = 0)
  BY <1>4 DEF ToDelete, NothingToDeprovision
<1>8. cached.ready # "True" BY <1>3, <1>7 DEF Sound, Spent
<1>9. Sound(local') BY <1>3, <1>5, <1>6, <1>7, <1>8 DEF Sound, Fields, Spent, Deleting
<1>10. Pending(cached) BY <1>2, <1>3, <1>4 DEF Pending
<1> QED
  BY <1>2, <1>3, <1>4, <1>5, <1>6, <1>7, <1>8, <1>9, <1>10 DEF TakesSoundly, Fields, Spent, Deleting

\* A poll begins.
LEMMA PollTaken == ASSUME IInv, SInv, BeginPoll PROVE TakesSoundly
<1>1. TakeInstance BY DEF BeginPoll
<1>2. cached # Absent /\ fresh' = (watch = <<>>) BY <1>1 DEF TakeInstance
<1>3. cached \in Object /\ cached.fin /\ Sound(cached) BY <1>2, CachedFacts
<1>4. local' = cached /\ pc' = "poll" /\ cached.async BY DEF BeginPoll, Continue
<1>5. Pending(cached) BY <1>2, <1>4 DEF Pending
<1> QED BY <1>2, <1>3, <1>4, <1>5 DEF TakesSoundly

\* A deprovision begins, of an instance that has one recorded or is an orphan,
\* or after the start is recorded.
LEMMA DeprovisionTaken == ASSUME IInv, SInv, BeginDeprovision PROVE TakesSoundly
<1>1. TakeInstance BY DEF BeginDeprovision
<1>2. cached # Absent /\ fresh' = (watch = <<>>) BY <1>1 DEF TakeInstance
<1>3. /\ cached \in Object /\ cached.fin /\ Sound(cached)
      /\ cached.orphan => cached.failed
  BY <1>2, CachedFacts
<1>4. ToDelete(cached) /\ ~NothingToDeprovision(cached) BY DEF BeginDeprovision
<1>5. /\ ~cached.async /\ (cached.del \/ cached.orphan)
      /\ cached.orphan \/ (~cached.failed /\ cached.recGen # 0)
  BY <1>4 DEF ToDelete, NothingToDeprovision
<1>6. Pending(cached) BY <1>2, <1>3, <1>4 DEF Pending
<1> DEFINE x == cached.started \/ cached.orphan
           b == [cached EXCEPT !.started = x]
<1>7. x \in BOOLEAN OBVIOUS
<1>8. \/ b.op = "none" /\ local' = RecordStart(b, "Deprovision") /\ pc' = "startDeprovision"
      \/ b.op # "none" /\ local' = b /\ pc' = "deprovision"
  BY DEF BeginDeprovision, Continue
<1> HIDE DEF x
<1>9. b \in Object /\ Fields(b) = Fields(cached) BY Zenon, <1>3, <1>7, OtherFields
<1> HIDE DEF b
<1>10. CASE b.op = "none" /\ local' = RecordStart(b, "Deprovision") /\ pc' = "startDeprovision"
  <2>1. local' \in Object /\ Fields(local') = <<cached.del, cached.fin, cached.gen,
          "Deprovision", cached.async, cached.orphan, cached.inProg, cached.ext, "False",
          cached.failed, cached.recGen>>
    BY <1>9, <1>10, StartFields DEF Fields
  <2>2. local' # Absent BY <2>1, AbsentNoObject
  <2>3. Sound(local') BY <1>3, <1>5, <2>1, <2>2 DEF Sound, Fields, Spent, Deleting
  <2> QED
    BY Zenon, <1>2, <1>3, <1>5, <1>6, <1>10, <2>1, <2>2, <2>3 DEF TakesSoundly, Fields, Spent, Deleting
<1>11. CASE b.op # "none" /\ local' = b /\ pc' = "deprovision"
  <2>1. b # Absent BY <1>9, AbsentNoObject
  <2>2. cached.op # "none" BY <1>9, <1>11 DEF Fields
  <2>3. Deleting(cached) /\ Spent(cached)
    BY <1>3, <1>5, <2>2 DEF Sound, Deleting, Spent, Object
  <2>4. Sound(b) BY <1>3, <1>9, <2>1 DEF Sound, Fields, Spent, Deleting
  <2> QED
    BY Zenon, <1>2, <1>3, <1>5, <1>6, <1>9, <1>11, <2>1, <2>3, <2>4 DEF TakesSoundly, Fields, Spent, Deleting
<1> QED BY <1>8, <1>10, <1>11

\* What PrepareProvision needs of the version it is given, and how it goes on.
ToBeProvisioned(o) ==
    /\ o \in Object /\ Sound(o) /\ o.fin
    /\ ~o.async /\ ~o.del /\ ~o.orphan /\ ~o.failed /\ o.recGen = 0

\* The copy that PrepareProvision goes on with.
LEMMA PreparedCopy ==
    ASSUME NEW o, ToBeProvisioned(o), PrepareProvision(o)
    PROVE  /\ ToBeProvisioned(local') /\ local'.inProg /\ local'.op = "Provision"
           /\ local'.ready # "True" /\ ~Spent(o)
           /\ pc' \in {"startProvision", "provision"}
<1> DEFINE p == [o EXCEPT !.inProg = TRUE]
<1>1. p \in Object /\ Fields(p) = <<o.del, o.fin, o.gen, o.op, o.async, o.orphan, TRUE,
         o.ext, o.ready, o.failed, o.recGen>>
  BY Zenon, EditFields DEF ToBeProvisioned
<1>2. \/ o.op = "none" /\ local' = RecordStart(p, "Provision") /\ pc' = "startProvision"
      \/ o.op # "none" /\ local' = p /\ pc' = "provision"
  BY DEF PrepareProvision, Continue
<1> HIDE DEF p
<1>3. o.op \in {"none", "Provision"}
  BY DEF ToBeProvisioned, Sound, Object
<1>4. o.ready # "True" /\ ~Spent(o)
  BY <1>3, AbsentNoObject DEF ToBeProvisioned, Sound, Spent
<1>5. CASE o.op = "none" /\ local' = RecordStart(p, "Provision") /\ pc' = "startProvision"
  <2>1. local' \in Object /\ Fields(local') = <<o.del, o.fin, o.gen,
          "Provision", o.async, o.orphan, TRUE, o.ext, "False", o.failed, o.recGen>>
    <3>1. /\ RecordStart(p, "Provision") \in Object
          /\ Fields(RecordStart(p, "Provision")) =
               <<p.del, p.fin, p.gen, "Provision", p.async, p.orphan, p.inProg, p.ext,
                 "False", p.failed, p.recGen>>
      BY <1>1, StartFields
    <3>2. /\ p.del = o.del /\ p.fin = o.fin /\ p.gen = o.gen /\ p.async = o.async
          /\ p.orphan = o.orphan /\ p.inProg = TRUE /\ p.ext = o.ext
          /\ p.failed = o.failed /\ p.recGen = o.recGen
      BY <1>1 DEF Fields
    <3> QED BY Zenon, <1>5, <3>1, <3>2
  <2>2. local' # Absent BY <2>1, AbsentNoObject
  <2> QED BY Zenon, <1>4, <1>5, <2>1, <2>2 DEF ToBeProvisioned, Sound, Fields, Deleting, Spent
<1>6. CASE o.op # "none" /\ local' = p /\ pc' = "provision"
  <2>1. p # Absent BY <1>1, AbsentNoObject
  <2> QED BY Zenon, <1>1, <1>3, <1>4, <1>6, <2>1 DEF ToBeProvisioned, Sound, Fields, Deleting, Spent
<1> QED BY <1>2, <1>4, <1>5, <1>6

\* A provision begins.
LEMMA ProvisionTaken == ASSUME IInv, SInv, BeginProvision PROVE TakesSoundly
<1>1. TakeInstance BY DEF BeginProvision
<1>2. cached # Absent /\ fresh' = (watch = <<>>) BY <1>1 DEF TakeInstance
<1>3. /\ cached \in Object /\ cached.fin /\ Sound(cached)
      /\ cached.recGen <= cached.gen
  BY <1>2, CachedFacts
<1>4. ToProvision(cached) BY DEF BeginProvision
<1>5. cached.recGen = 0
  <2>1. cached.gen = 1 /\ cached.recGen # 1 BY <1>3, <1>4 DEF ToProvision, Sound
  <2> QED BY <1>3, <2>1 DEF Object
<1>6. ToBeProvisioned(cached) BY <1>3, <1>4, <1>5 DEF ToBeProvisioned, ToProvision
<1>7. Pending(cached) BY <1>2, <1>4 DEF Pending
<1>8. CASE PrepareProvision(cached)
  <2>1. /\ ToBeProvisioned(local') /\ local'.inProg /\ local'.op = "Provision"
        /\ local'.ready # "True" /\ ~Spent(cached)
        /\ pc' \in {"startProvision", "provision"}
    BY <1>6, <1>8, PreparedCopy
  <2> QED BY <1>2, <1>7, <2>1 DEF TakesSoundly, ToBeProvisioned
<1>9. CASE Continue("refs", [cached EXCEPT !.refs = TRUE])
  <2>1. /\ local' \in Object /\ Fields(local') = Fields(cached) /\ pc' = "refs"
    BY Zenon, <1>3, <1>9, OtherFields DEF Continue
  <2>2. local' # Absent BY <2>1, AbsentNoObject
  <2>3. Sound(local') BY <1>2, <1>3, <2>1, <2>2 DEF Sound, Fields, Spent, Deleting
  <2> QED
    BY <1>2, <1>6, <1>7, <2>1, <2>2, <2>3 DEF TakesSoundly, ToBeProvisioned, Fields, Spent, Deleting
<1> QED BY <1>8, <1>9 DEF BeginProvision

\* A reconciliation returns at once or goes on with a sound copy.
LEMMA TakenSoundly ==
    ASSUME IInv, SInv, Reconcile
    PROVE  /\ pc = "idle" /\ UNCHANGED <<api, watch, cached, broker, deprovisioned, removed>>
           /\ Returned \/ TakesSoundly
<1>1. pc = "idle" /\ UNCHANGED <<api, watch, cached, broker, deprovisioned, removed>>
  BY DEF Reconcile, ReconcileNothing, DeleteBlocked, ClearFinalizer, LookupFails,
         ClientFails, BeginPoll, BeginDeprovision, BeginProvision, TakeInstance, Take,
         storeVars, historyVars
<1>2. CASE ReconcileNothing \/ ClientFails
  BY <1>1, <1>2 DEF ReconcileNothing, ClientFails, Return, Returned
<1> QED
  BY <1>1, <1>2, ReportTaken, ClearTaken, PollTaken, DeprovisionTaken, ProvisionTaken
     DEF Reconcile

\* What a step must establish besides the versions.
StatusStep ==
    /\ Stored(api') /\ (Spent(api) => Spent(api'))
    /\ CopyInv' /\ ReleaseInv' /\ HonestInv'

\* A worker that takes a version preserves the invariant.
LEMMA TakenStatus ==
    ASSUME IInv, SInv, pc = "idle",
           UNCHANGED <<api, watch, cached, broker, deprovisioned, removed>>,
           Returned \/ TakesSoundly
    PROVE  StatusStep
<1>1. /\ pc = "idle" /\ UNCHANGED <<api, watch, cached, broker, deprovisioned, removed>>
      /\ Returned \/ TakesSoundly
  OBVIOUS
<1>2. Stored(api') /\ (Spent(api) => Spent(api'))
  BY <1>1 DEF SInv, StoredInv, Versions
<1>3. (api # Absent => Honest(api)') /\ (removed # Absent =>
         removed.failed \/ removed.recGen = 0 \/ Gone')
  BY <1>1 DEF SInv, HonestInv, Honest, Gone
<1>4. CASE Returned
  <2>1. CopyInv' BY <1>4 DEF Returned, CopyInv
  <2>2. ReleaseInv' BY <1>1, <1>4 DEF Returned, ReleaseInv, SInv
  <2>3. HonestInv' BY <1>1, <1>3, <1>4 DEF Returned, HonestInv
  <2> QED BY <1>2, <2>1, <2>2, <2>3 DEF StatusStep
<1>5. CASE TakesSoundly
  <2>1. fresh' => api = cached
    BY Zenon, <1>5 DEF TakesSoundly, IInv, VersionsInv, UpToDate
  <2>2. CopyInv' BY <1>1, <1>5, <2>1 DEF TakesSoundly, CopyInv
  <2>3. ReleaseInv'
    <3>1. cached \in Versions BY <1>5 DEF TakesSoundly, Versions
    <3>2. Spent(cached) => Spent(api) BY <3>1 DEF SInv, SpentInv
    <3> QED BY <1>1, <1>5, <3>2 DEF TakesSoundly, ReleaseInv, SInv
  <2>4. ASSUME fresh' PROVE Honest(local)'
    <3>1. Honest(cached)' BY <1>1, <1>3, <1>5, <2>1, <2>4 DEF TakesSoundly
    <3> QED BY <1>1, <1>5, <3>1 DEF TakesSoundly, Honest
  <2>5. HonestInv' BY <1>1, <1>3, <2>4 DEF HonestInv
  <2> QED BY <1>2, <2>2, <2>3, <2>5 DEF StatusStep
<1> QED BY <1>1, <1>4, <1>5

\* The beginning of a reconciliation preserves the invariant.
LEMMA ReconcileStatus == ASSUME IInv, SInv, Reconcile PROVE StatusStep
  BY TakenSoundly, TakenStatus

-----------------------------------------------------------------------------
(* A write.                                                                *)

\* An accepted write stores an honest version, or removes the object with its
\* finalizer.
LEMMA CommitStatus ==
    ASSUME IInv, SInv, pc # "idle", fresh, Commit(local),
           UNCHANGED <<broker, deprovisioned>>
    PROVE  /\ Stored(api') /\ (Spent(api) => Spent(api'))
           /\ api' # Absent => api' = local /\ Honest(api)'
           /\ removed' # Absent => removed'.failed \/ removed'.recGen = 0 \/ Gone'
           /\ local.fin => api' = local
<1>1. local \in Object /\ Sound(local) /\ Honest(local) /\ (Spent(api) => Spent(local))
  BY DEF IInv, TypeOK, SInv, CopyInv, HonestInv
<1>2. local # Absent BY <1>1, AbsentNoObject
<1>3. Gone' <=> Gone BY DEF Gone
<1>4. CASE local.del /\ ~local.fin
  <2>1. api' = Absent /\ removed' = local BY <1>4 DEF Commit
  <2>2. local.failed \/ local.recGen = 0 \/ Gone BY <1>1, <1>4 DEF Honest
  <2> QED BY <1>3, <1>4, <2>1, <2>2 DEF Stored, Spent
<1>5. CASE ~(local.del /\ ~local.fin)
  <2>1. api' = local /\ removed' = removed BY <1>2, <1>5 DEF Commit
  <2>2. local.fin BY <1>1, <1>5 DEF Sound
  <2>3. Honest(api)' BY <1>1, <2>1 DEF Honest, Gone
  <2>4. removed # Absent => removed.failed \/ removed.recGen = 0 \/ Gone
    BY DEF SInv, HonestInv
  <2> QED BY <1>1, <1>3, <2>1, <2>2, <2>3, <2>4 DEF Stored
<1> QED BY <1>4, <1>5

\* The calls of the API server preserve the invariant.
LEMMA WriteStatus == ASSUME IInv, SInv, Write PROVE StatusStep
<1>1. /\ pc # "idle" /\ UNCHANGED <<broker, deprovisioned>>
      /\ UNCHANGED <<api, removed>> \/ (fresh /\ Commit(local))
  <2>1. UNCHANGED broker
    BY DEF Write, WriteFails, UpdateReferences, RecordStartOfOperation, UpdateStatus
  <2> QED BY <2>1, WriteShape DEF IInv
<1>2. /\ Stored(api') /\ (Spent(api) => Spent(api'))
      /\ api' # Absent => Honest(api)'
      /\ removed' # Absent => removed'.failed \/ removed'.recGen = 0 \/ Gone'
  <2>1. CASE UNCHANGED <<api, removed>>
    BY <1>1, <2>1 DEF SInv, StoredInv, Versions, HonestInv, Honest, Gone
  <2> QED BY <1>1, <2>1, CommitStatus
<1>3. broker'.busy = "deprovisioning" => Spent(api') BY <1>1, <1>2 DEF SInv, ReleaseInv
<1>4. local \in Object /\ Sound(local) BY <1>1 DEF IInv, TypeOK, SInv, CopyInv
<1>5. CASE Returned
  BY <1>2, <1>3, <1>5 DEF Returned, StatusStep, CopyInv, ReleaseInv, HonestInv
<1>6. CASE UpdateReferences
  <2>1. /\ pc = "refs" /\ fresh /\ Commit(local) /\ fresh' = fresh
        /\ PrepareProvision(local) \/ WriteThenReturn(SetReady(local, "False"), "err")
    BY <1>6 DEF UpdateReferences
  <2>2. ToBeProvisioned(local)
    BY <1>4, <2>1 DEF ToBeProvisioned, SInv, CopyInv, Sound
  <2>3. api' = local BY <1>1, <2>1, <2>2, CommitStatus DEF ToBeProvisioned
  <2>4. CASE PrepareProvision(local)
    <3>1. /\ ToBeProvisioned(local') /\ local'.inProg /\ local'.op = "Provision"
          /\ local'.ready # "True" /\ ~Spent(local)
          /\ pc' \in {"startProvision", "provision"}
      BY <2>2, <2>4, PreparedCopy
    <3>2. CopyInv' BY <2>3, <3>1 DEF CopyInv, ToBeProvisioned
    <3>3. Honest(local)' BY <3>1 DEF Honest, ToBeProvisioned
    <3> QED BY <1>2, <1>3, <3>1, <3>2, <3>3 DEF StatusStep, ReleaseInv, HonestInv
  <2>5. CASE WriteThenReturn(SetReady(local, "False"), "err")
    <3>1. /\ pc' = "write" /\ local' \in Object
          /\ Fields(local') = <<local.del, local.fin, local.gen, local.op, local.async,
               local.orphan, local.inProg, local.ext, "False", local.failed, local.recGen>>
      BY <1>4, <2>5, ReadyFields DEF WriteThenReturn
    <3>2. local # Absent /\ local' # Absent BY <1>4, <3>1, AbsentNoObject
    <3>3. Sound(local') /\ (Spent(local) => Spent(local'))
      BY <1>4, <3>1, <3>2 DEF Sound, Fields, Spent, Deleting
    <3>4. CopyInv' BY <2>3, <3>1, <3>3 DEF CopyInv
    <3>5. Honest(local)' BY <2>2, <3>1 DEF Honest, ToBeProvisioned, Fields
    <3> QED BY <1>2, <1>3, <3>1, <3>4, <3>5 DEF StatusStep, ReleaseInv, HonestInv
  <2> QED BY <2>1, <2>4, <2>5
<1>7. CASE RecordStartOfOperation
  <2>1. /\ pc \in {"startProvision", "startDeprovision"}
        /\ fresh /\ fresh' = fresh /\ Commit(local) /\ local' = local
        /\ pc' = IF pc = "startProvision" THEN "provision" ELSE "deprovision"
    BY <1>7 DEF RecordStartOfOperation, Refused, Continue
  <2>2. local.fin BY <1>4, <2>1 DEF SInv, CopyInv, Sound
  <2>3. api' = local BY <1>1, <2>1, <2>2, CommitStatus
  <2>4. CopyInv' BY <1>4, <2>1, <2>2, <2>3 DEF SInv, CopyInv
  <2>5. Honest(local)' BY <1>1, <2>1 DEF SInv, HonestInv, Honest, Gone
  <2>6. pc' = "deprovision" => Spent(api') BY <2>1, <2>3 DEF SInv, CopyInv, Spent
  <2> QED BY <1>2, <1>3, <2>4, <2>5, <2>6 DEF StatusStep, ReleaseInv, HonestInv
<1>8. CASE WriteFails \/ UpdateStatus
  BY <1>5, <1>8 DEF WriteFails, UpdateStatus, Return, Returned
<1> QED BY <1>6, <1>7, <1>8 DEF Write

-----------------------------------------------------------------------------
(* A call of the broker.                                                   *)

\* The broker's record.
LEMMA BrokerFields ==
    ASSUME TypeOK, NEW h \in BOOLEAN, NEW b \in {"none", "provisioning", "deprovisioning"}
    PROVE  /\ LET r == [broker EXCEPT !.has = h]
              IN  r.has = h /\ r.busy = broker.busy /\ r.last = broker.last
           /\ LET r == [broker EXCEPT !.busy = b]
              IN  r.has = broker.has /\ r.busy = b /\ r.last = broker.last
           /\ LET r == [broker EXCEPT !.has = h, !.busy = b]
              IN  r.has = h /\ r.busy = b /\ r.last = broker.last
  BY DEF TypeOK

\* What a ProvisionInstance call leaves in the copy and at the broker.
ProvisionOutcome ==
    /\ local' \in Object /\ Sound(local') /\ local'.fin
    /\ broker.has => broker'.has
    /\ broker'.last = broker.last
    /\ \/ broker'.busy = broker.busy
       \/ broker'.busy = "provisioning" /\ broker.busy = "none" /\ ~broker.has
    /\ local'.ready = "True" => local'.ext /\ broker'.has /\ broker'.busy = "none"
    /\ local'.async => ~Deleting(local') /\ broker'.busy = "provisioning" /\ after' # "ok"

\* The copy with which ProvisionInstance is called.
LEMMA ProvisionCopy ==
    ASSUME IInv, SInv, pc = "provision"
    PROVE  /\ local \in Object /\ local.fin /\ local.gen = 1 /\ ~deprovisioned
           /\ ~local.async /\ ~local.del /\ ~local.orphan /\ ~local.failed
           /\ local.recGen = 0 /\ local.inProg /\ local.op = "Provision"
           /\ local.ready # "True" /\ ~Spent(local)
<1>1. local \in Object /\ ~deprovisioned BY DEF IInv, TypeOK, StageInv
<1>2. local # Absent BY <1>1, AbsentNoObject
<1> QED BY <1>1, <1>2 DEF SInv, CopyInv, Sound, Spent

\* ProvisionInstance succeeds: its outcome.
LEMMA ProvisionOKOutcome == ASSUME IInv, SInv, ProvisionOK PROVE ProvisionOutcome
<1>1. TypeOK /\ pc = "provision" BY DEF IInv, ProvisionOK
<1>2. /\ local \in Object /\ local.fin /\ local.gen = 1
      /\ ~local.del /\ ~local.failed /\ local.inProg
  BY <1>1, ProvisionCopy
<1> DEFINE e == [local EXCEPT !.ext = local.inProg]
           c == ClearCurrentOperation(e)
<1>3. local' = SetReady(c, "True") /\ broker' = [broker EXCEPT !.has = TRUE]
  BY DEF ProvisionOK, WriteThenReturn
<1>4. e \in Object /\ Fields(e) = <<local.del, local.fin, local.gen, local.op, local.async,
         local.orphan, local.inProg, local.inProg, local.ready, local.failed, local.recGen>>
  BY Zenon, <1>2, EditFields
<1> HIDE DEF e
<1>5. c \in Object /\ Fields(c) = <<e.del, e.fin, e.gen, "none", FALSE, FALSE, FALSE, e.ext,
         e.ready, e.failed, e.gen>>
  BY Zenon, <1>4, ClearFields
<1> HIDE DEF c
<1>6. local' \in Object /\ Fields(local') = <<c.del, c.fin, c.gen, c.op, c.async, c.orphan,
         c.inProg, c.ext, "True", c.failed, c.recGen>>
  BY <1>3, <1>5, ReadyFields
<1>7. local' # Absent BY <1>6, AbsentNoObject
<1>8. /\ ~local'.del /\ local'.fin /\ local'.gen = 1 /\ local'.op = "none" /\ ~local'.async
      /\ local'.ext /\ ~local'.failed /\ local'.recGen = 1
  BY <1>2, <1>4, <1>5, <1>6 DEF Fields
<1>9. Sound(local') BY <1>7, <1>8 DEF Sound, Spent
<1>10. broker'.has /\ broker'.busy = broker.busy /\ broker'.last = broker.last
  BY <1>1, <1>3, BrokerFields
<1>11. broker.busy = "none" BY DEF ProvisionOK
<1> QED BY <1>6, <1>8, <1>9, <1>10, <1>11 DEF ProvisionOutcome

\* The broker accepts the request: its outcome.
LEMMA ProvisionAsyncOutcome == ASSUME IInv, SInv, ProvisionAsync PROVE ProvisionOutcome
<1>1. TypeOK /\ pc = "provision" BY DEF IInv, ProvisionAsync
<1>2. /\ local \in Object /\ local.fin /\ local.gen = 1 /\ ~local.orphan
      /\ ~local.del /\ ~local.failed /\ local.inProg /\ local.op = "Provision"
      /\ local.recGen = 0
  BY <1>1, ProvisionCopy
<1> DEFINE e == [local EXCEPT !.async = TRUE]
<1>3. /\ local' = SetReady(e, "False") /\ after' = "poll"
      /\ broker' = [broker EXCEPT !.busy = "provisioning"]
  BY DEF ProvisionAsync, WriteThenReturn
<1>4. e \in Object /\ Fields(e) = <<local.del, local.fin, local.gen, local.op, TRUE,
         local.orphan, local.inProg, local.ext, local.ready, local.failed, local.recGen>>
  BY Zenon, <1>2, EditFields
<1> HIDE DEF e
<1>5. local' \in Object /\ Fields(local') = <<e.del, e.fin, e.gen, e.op, e.async, e.orphan,
         e.inProg, e.ext, "False", e.failed, e.recGen>>
  BY <1>3, <1>4, ReadyFields
<1>6. /\ ~local'.del /\ local'.fin /\ local'.gen = 1 /\ local'.op = "Provision"
      /\ ~local'.orphan /\ local'.inProg /\ ~local'.failed /\ local'.recGen = 0
      /\ local'.ready = "False"
  BY <1>2, <1>4, <1>5 DEF Fields
<1>7. Sound(local') BY <1>6 DEF Sound
<1>8. /\ broker'.has = broker.has /\ broker'.busy = "provisioning"
      /\ broker'.last = broker.last
  BY <1>1, <1>3, BrokerFields
<1>9. broker.busy = "provisioning" \/ (broker.busy = "none" /\ ~broker.has)
  BY DEF ProvisionAsync
<1> QED BY <1>3, <1>5, <1>6, <1>7, <1>8, <1>9 DEF ProvisionOutcome, Deleting

\* A copy that is not Ready, not under an operation of the broker's and not
\* deleted is a possible outcome of any failed ProvisionInstance call.
LEMMA FailureOutcome ==
    ASSUME IInv, SInv, pc = "provision", MaybeHas(TRUE) \/ UNCHANGED broker,
           local' \in Object, local'.fin, ~local'.del, local'.gen = 1, ~local'.async,
           local'.op = "Provision" => local'.recGen = 0, local'.op # "Deprovision",
           local'.ready # "True"
    PROVE  ProvisionOutcome
<1>1. Sound(local') BY DEF Sound
<1>2. TypeOK /\ broker.has \in BOOLEAN BY DEF IInv, TypeOK
<1>3. /\ broker.has => broker'.has
      /\ broker'.busy = broker.busy /\ broker'.last = broker.last
  <2>1. CASE UNCHANGED broker BY <2>1
  <2>2. CASE MaybeHas(TRUE)
    <3>1. PICK h \in {broker.has, TRUE} : broker' = [broker EXCEPT !.has = h]
      BY <2>2 DEF MaybeHas
    <3>2. h \in BOOLEAN BY Zenon, <1>2
    <3> QED BY Zenon, <1>2, <3>1, <3>2, BrokerFields
  <2> QED BY Zenon, <2>1, <2>2
<1> QED BY <1>1, <1>3 DEF ProvisionOutcome

\* ProvisionInstance fails: its outcomes.
LEMMA ProvisionFailedOutcome ==
    ASSUME IInv, SInv, ProvisionRejected \/ ProvisionAmbiguous \/ ProvisionError
    PROVE  ProvisionOutcome
<1>1. TypeOK /\ pc = "provision" /\ (MaybeHas(TRUE) \/ UNCHANGED broker)
  BY Zenon DEF IInv, ProvisionRejected, ProvisionAmbiguous, ProvisionError
<1>2. /\ local \in Object /\ local.fin /\ local.gen = 1 /\ ~local.async
      /\ ~local.del /\ local.op = "Provision" /\ local.recGen = 0
  BY <1>1, ProvisionCopy
<1> DEFINE f == [local EXCEPT !.failed = TRUE]
           r == SetReady(f, "False")
           s == SetReady(local, "False")
           g == [s EXCEPT !.failed = TRUE]
<1>3. local' \in {ClearCurrentOperation(r), StartOrphanMitigation(r), s, ClearCurrentOperation(g)}
  BY Zenon DEF ProvisionRejected, ProvisionAmbiguous, ProvisionError, WriteThenReturn
<1>4. f \in Object /\ Fields(f) = <<local.del, local.fin, local.gen, local.op, local.async,
         local.orphan, local.inProg, local.ext, local.ready, TRUE, local.recGen>>
  BY Zenon, <1>2, EditFields
<1> HIDE DEF f
<1>5. r \in Object /\ Fields(r) = <<f.del, f.fin, f.gen, f.op, f.async, f.orphan, f.inProg,
         f.ext, "False", f.failed, f.recGen>>
  BY <1>4, ReadyFields
<1>6. s \in Object /\ Fields(s) = <<local.del, local.fin, local.gen, local.op, local.async,
         local.orphan, local.inProg, local.ext, "False", local.failed, local.recGen>>
  BY Zenon, <1>2, ReadyFields
<1> HIDE DEF r, s
<1>7. g \in Object /\ Fields(g) = <<s.del, s.fin, s.gen, s.op, s.async, s.orphan, s.inProg,
         s.ext, s.ready, TRUE, s.recGen>>
  BY Zenon, <1>6, EditFields
<1> HIDE DEF g
<1>8. /\ ~r.del /\ r.fin /\ r.gen = 1 /\ r.op = "Provision" /\ r.ready = "False" /\ r.recGen = 0
      /\ ~s.del /\ s.fin /\ s.gen = 1 /\ s.op = "Provision" /\ s.ready = "False" /\ s.recGen = 0
      /\ ~s.async
      /\ ~g.del /\ g.fin /\ g.gen = 1 /\ g.op = "Provision" /\ g.ready = "False" /\ g.recGen = 0
  BY <1>2, <1>4, <1>5, <1>6, <1>7 DEF Fields
<1>9. CASE local' = s BY Zenon, <1>1, <1>6, <1>8, <1>9, FailureOutcome
<1>10. CASE local' = StartOrphanMitigation(r)
  <2>1. local' \in Object /\ Fields(local') = <<r.del, r.fin, r.gen, r.op, FALSE, TRUE, FALSE,
           r.ext, r.ready, r.failed, r.recGen>>
    BY Zenon, <1>5, <1>10, OrphanFields
  <2> QED BY Zenon, <1>1, <1>8, <2>1, FailureOutcome DEF Fields
<1>11. ASSUME NEW o \in {r, g}, local' = ClearCurrentOperation(o) PROVE ProvisionOutcome
  <2>1. local' \in Object /\ Fields(local') = <<o.del, o.fin, o.gen, "none", FALSE, FALSE,
           FALSE, o.ext, o.ready, o.failed, o.gen>>
    BY Zenon, <1>5, <1>7, <1>11, ClearFields
  <2> QED BY Zenon, <1>1, <1>8, <1>11, <2>1, FailureOutcome DEF Fields
<1> QED BY <1>3, <1>9, <1>10, <1>11

\* The frame of every call.
LEMMA CallUnchanged ==
    ASSUME Call
    PROVE  pc' = "write" /\ UNCHANGED <<api, fresh, removed>>
  BY Zenon DEF Call, ProvisionOK, ProvisionAsync, ProvisionRejected, ProvisionAmbiguous,
         ProvisionError, DeprovisionOK, DeprovisionAsync, DeprovisionRejected,
         DeprovisionError, WriteThenReturn, CallFrame, storeVars

\* A ProvisionInstance call has such an outcome.
LEMMA ProvisionCall == ASSUME IInv, SInv, Call, pc = "provision" PROVE ProvisionOutcome
<1>1. \/ ProvisionOK \/ ProvisionAsync \/ ProvisionRejected \/ ProvisionAmbiguous
      \/ ProvisionError
  BY DEF Call, DeprovisionOK, DeprovisionAsync, DeprovisionRejected, DeprovisionError
<1> QED BY <1>1, ProvisionOKOutcome, ProvisionAsyncOutcome, ProvisionFailedOutcome

\* A ProvisionInstance call preserves the invariant.
LEMMA ProvisionStatus == ASSUME IInv, SInv, Call, pc = "provision" PROVE StatusStep
<1>1. ProvisionOutcome BY ProvisionCall
<1>2. pc' = "write" /\ UNCHANGED <<api, fresh, removed>> BY CallUnchanged
<1>3. ~deprovisioned /\ ~Spent(local) BY ProvisionCopy
<1>4. deprovisioned' = deprovisioned BY CallShape DEF IInv
<1>5. Stored(api') /\ (Spent(api) => Spent(api'))
  BY <1>2 DEF SInv, StoredInv, Versions
<1>6. fresh => ~Spent(api) BY <1>3 DEF SInv, CopyInv
<1>7. CopyInv' BY <1>1, <1>2, <1>6 DEF CopyInv, ProvisionOutcome
<1>8. ReleaseInv' BY <1>1, <1>2 DEF SInv, ReleaseInv, ProvisionOutcome
<1>9. api # Absent => Honest(api)'
  <2> SUFFICES ASSUME api # Absent PROVE Honest(api)' OBVIOUS
  <2>1. Honest(api) /\ api.fin BY DEF SInv, HonestInv, StoredInv, Stored, Versions
  <2> QED BY <1>1, <1>2, <1>3, <2>1 DEF Honest, ProvisionOutcome, Gone
<1>10. Honest(local)' BY <1>1 DEF Honest, ProvisionOutcome
<1>11. removed # Absent => removed.failed \/ removed.recGen = 0
  BY <1>3 DEF SInv, HonestInv, Gone
<1> QED BY <1>2, <1>5, <1>7, <1>8, <1>9, <1>10, <1>11 DEF StatusStep, HonestInv

\* What a DeprovisionInstance call leaves in the copy and at the broker.
DeprovisionOutcome ==
    /\ local' \in Object /\ Sound(local') /\ Spent(local') /\ deprovisioned'
    /\ broker'.has => broker.has
    /\ broker'.last = broker.last
    /\ \/ broker'.busy = broker.busy
       \/ broker'.busy = "none" /\ ~broker'.has
       \/ broker'.busy = "deprovisioning"
    /\ broker'.busy = "provisioning" <=> broker.busy = "provisioning"
    /\ local'.async => Deleting(local') /\ broker'.busy = "deprovisioning" /\ after' # "ok"
    /\ local'.del /\ ~local'.fin => Gone'

\* The copy with which DeprovisionInstance is called.
LEMMA DeprovisionCopy ==
    ASSUME IInv, SInv, pc = "deprovision"
    PROVE  /\ local \in Object /\ local.fin /\ ~local.async /\ Deleting(local)
           /\ local.del \/ local.orphan
           /\ local.orphan => local.failed
           /\ ~local.del => local.gen = 1
           /\ local.op = "Provision" => local.recGen = 0
           /\ Coherent(local)
<1>1. local \in Object /\ Coherent(local) BY DEF IInv, TypeOK
<1>2. local.orphan => local.failed BY <1>1, AbsentNoObject DEF Coherent
<1> QED BY <1>1, <1>2 DEF SInv, CopyInv, Sound, Deleting

\* DeprovisionInstance succeeds: its outcome.
LEMMA DeprovisionOKOutcome == ASSUME IInv, SInv, DeprovisionOK PROVE DeprovisionOutcome
<1>1. TypeOK /\ pc = "deprovision" BY DEF IInv, DeprovisionOK
<1>2. /\ local \in Object /\ (local.del \/ local.orphan)
      /\ local.orphan => local.failed
      /\ ~local.del => local.gen = 1
  BY <1>1, DeprovisionCopy
<1> DEFINE x == ~local.del
           e == [local EXCEPT !.ext = FALSE, !.fin = x]
           c == ClearCurrentOperation(e)
<1>3. /\ local' = SetReady(c, "False") /\ deprovisioned'
      /\ broker' = [broker EXCEPT !.has = FALSE, !.busy = "none"]
  BY DEF DeprovisionOK, WriteThenReturn
<1>x. x \in BOOLEAN OBVIOUS
<1> HIDE DEF x
<1>4. /\ e \in Object /\ e.del = local.del /\ e.fin = x /\ e.gen = local.gen
      /\ e.failed = local.failed
  BY Zenon, <1>2, <1>x DEF Object
<1> HIDE DEF e
<1>5. c \in Object /\ Fields(c) = <<e.del, e.fin, e.gen, "none", FALSE, FALSE, FALSE, e.ext,
         e.ready, e.failed, e.gen>>
  BY Zenon, <1>4, ClearFields
<1> HIDE DEF c
<1>6. local' \in Object /\ Fields(local') = <<c.del, c.fin, c.gen, c.op, c.async, c.orphan,
         c.inProg, c.ext, "False", c.failed, c.recGen>>
  BY <1>3, <1>5, ReadyFields
<1>7. /\ local'.del = local.del /\ local'.fin = x /\ local'.gen = local.gen
      /\ local'.op = "none" /\ ~local'.async /\ local'.ready = "False"
      /\ local'.failed = local.failed
  BY <1>4, <1>5, <1>6 DEF Fields
<1>8. Sound(local') /\ Spent(local') BY Zenon, <1>2, <1>7 DEF Sound, Spent, x
<1>9. ~broker'.has /\ broker'.busy = "none" /\ broker'.last = broker.last
  BY <1>1, <1>3, BrokerFields
<1>10. Gone' BY <1>3, <1>9 DEF Gone
<1>11. broker.busy # "provisioning" BY DEF DeprovisionOK
<1> QED BY <1>3, <1>6, <1>7, <1>8, <1>9, <1>10, <1>11 DEF DeprovisionOutcome

\* The broker accepts the request: its outcome.
LEMMA DeprovisionAsyncOutcome == ASSUME IInv, SInv, DeprovisionAsync PROVE DeprovisionOutcome
<1>1. TypeOK /\ pc = "deprovision" BY DEF IInv, DeprovisionAsync
<1>2. /\ local \in Object /\ local.fin /\ Deleting(local)
      /\ local.del \/ local.orphan
      /\ local.orphan => local.failed
      /\ ~local.del => local.gen = 1
      /\ local.op = "Provision" => local.recGen = 0
  BY <1>1, DeprovisionCopy
<1> DEFINE e == [local EXCEPT !.async = TRUE]
<1>3. /\ local' = SetReady(e, "False") /\ after' = "poll" /\ deprovisioned'
      /\ broker' = [broker EXCEPT !.busy = "deprovisioning"]
  BY DEF DeprovisionAsync, WriteThenReturn
<1>4. e \in Object /\ Fields(e) = <<local.del, local.fin, local.gen, local.op, TRUE,
         local.orphan, local.inProg, local.ext, local.ready, local.failed, local.recGen>>
  BY Zenon, <1>2, EditFields
<1> HIDE DEF e
<1>5. local' \in Object /\ Fields(local') = <<e.del, e.fin, e.gen, e.op, e.async, e.orphan,
         e.inProg, e.ext, "False", e.failed, e.recGen>>
  BY <1>3, <1>4, ReadyFields
<1>6. /\ local'.del = local.del /\ local'.fin /\ local'.gen = local.gen
      /\ local'.op = local.op /\ local'.orphan = local.orphan
      /\ local'.failed = local.failed /\ local'.recGen = local.recGen
      /\ local'.ready = "False"
  BY <1>2, <1>4, <1>5 DEF Fields
<1>7. Deleting(local') BY <1>2, <1>6 DEF Deleting
<1>8. Sound(local') /\ Spent(local') BY <1>2, <1>6, <1>7 DEF Sound, Spent, Deleting
<1>9. /\ broker'.has = broker.has /\ broker'.busy = "deprovisioning"
      /\ broker'.last = broker.last
  BY <1>1, <1>3, BrokerFields
<1>10. broker.busy # "provisioning" BY DEF DeprovisionAsync
<1> QED BY <1>3, <1>5, <1>6, <1>7, <1>8, <1>9, <1>10 DEF DeprovisionOutcome

\* DeprovisionInstance fails: its outcomes.
LEMMA DeprovisionFailedOutcome ==
    ASSUME IInv, SInv, DeprovisionRejected \/ DeprovisionError
    PROVE  DeprovisionOutcome
<1>1. /\ TypeOK /\ pc = "deprovision" /\ deprovisioned'
      /\ (MaybeHas(FALSE) \/ UNCHANGED broker)
  BY Zenon DEF IInv, DeprovisionRejected, DeprovisionError
<1>2. /\ local \in Object /\ local.fin /\ ~local.async /\ Deleting(local)
      /\ local.del \/ local.orphan
      /\ local.orphan => local.failed
      /\ ~local.del => local.gen = 1
      /\ local.op = "Provision" => local.recGen = 0
      /\ Coherent(local)
  BY <1>1, DeprovisionCopy
<1>3. broker.has \in BOOLEAN BY <1>1 DEF TypeOK
<1>4. /\ broker'.has => broker.has
      /\ broker'.busy = broker.busy /\ broker'.last = broker.last
  <2>1. CASE UNCHANGED broker BY <2>1
  <2>2. CASE MaybeHas(FALSE)
    <3>1. PICK h \in {broker.has, FALSE} : broker' = [broker EXCEPT !.has = h]
      BY Zenon, <2>2 DEF MaybeHas
    <3>2. h \in BOOLEAN BY Zenon, <1>3
    <3> QED BY Zenon, <1>1, <3>1, <3>2, BrokerFields
  <2> QED BY Zenon, <1>1, <2>1, <2>2
<1> DEFINE s == SetReady(local, "Unknown")
           f == SetFailedUnlessOrphan(s)
<1>5. local' = s \/ local' = ClearCurrentOperation(f)
  BY Zenon DEF DeprovisionRejected, DeprovisionError, WriteThenReturn
<1>6. s \in Object /\ Fields(s) = <<local.del, local.fin, local.gen, local.op, local.async,
         local.orphan, local.inProg, local.ext, "Unknown", local.failed, local.recGen>>
  BY Zenon, <1>2, ReadyFields
<1>7. Coherent(s) BY <1>2, SetReadyEvolves DEF Evolves
<1> HIDE DEF s
<1>8. f \in Object /\ Fields(f) = <<s.del, s.fin, s.gen, s.op, s.async, s.orphan, s.inProg,
         s.ext, s.ready, TRUE, s.recGen>>
  BY Zenon, <1>6, <1>7, FailedFields
<1> HIDE DEF f
<1>9. CASE local' = s
  <2>1. /\ local'.del = local.del /\ local'.fin /\ local'.gen = local.gen
        /\ local'.op = local.op /\ local'.orphan = local.orphan /\ ~local'.async
        /\ local'.failed = local.failed /\ local'.recGen = local.recGen
        /\ local'.ready = "Unknown"
    BY Zenon, <1>2, <1>6, <1>9 DEF Fields
  <2>2. Sound(local') /\ Spent(local') BY <1>2, <2>1 DEF Sound, Spent, Deleting
  <2> QED BY <1>1, <1>4, <1>6, <1>9, <2>1, <2>2 DEF DeprovisionOutcome
<1>10. CASE local' = ClearCurrentOperation(f)
  <2>1. local' \in Object /\ Fields(local') = <<f.del, f.fin, f.gen, "none", FALSE, FALSE,
           FALSE, f.ext, f.ready, f.failed, f.gen>>
    BY Zenon, <1>8, <1>10, ClearFields
  <2>2. /\ local'.del = local.del /\ local'.fin /\ local'.gen = local.gen
        /\ local'.op = "none" /\ ~local'.async /\ local'.failed /\ local'.ready = "Unknown"
    BY <1>2, <1>6, <1>8, <2>1 DEF Fields
  <2>3. Sound(local') /\ Spent(local') BY <1>2, <2>2 DEF Sound, Spent
  <2> QED BY <1>1, <1>4, <2>1, <2>2, <2>3 DEF DeprovisionOutcome
<1> QED BY <1>5, <1>9, <1>10

\* A DeprovisionInstance call has such an outcome.
LEMMA DeprovisionCall == ASSUME IInv, SInv, Call, pc = "deprovision" PROVE DeprovisionOutcome
<1>1. DeprovisionOK \/ DeprovisionAsync \/ DeprovisionRejected \/ DeprovisionError
  BY DEF Call, ProvisionOK, ProvisionAsync, ProvisionRejected, ProvisionAmbiguous,
         ProvisionError
<1> QED BY <1>1, DeprovisionOKOutcome, DeprovisionAsyncOutcome, DeprovisionFailedOutcome

\* A DeprovisionInstance call preserves the invariant: the stored version is
\* spent, so it promises nothing.
LEMMA DeprovisionStatus == ASSUME IInv, SInv, Call, pc = "deprovision" PROVE StatusStep
<1>1. DeprovisionOutcome BY DeprovisionCall
<1>2. pc' = "write" /\ UNCHANGED <<api, fresh, removed>> BY CallUnchanged
<1>3. Spent(api) BY DEF SInv, ReleaseInv
<1>4. Stored(api') /\ (Spent(api) => Spent(api'))
  BY <1>2 DEF SInv, StoredInv, Versions
<1>5. CopyInv' BY <1>1, <1>2 DEF CopyInv, DeprovisionOutcome
<1>6. ReleaseInv' BY <1>2, <1>3 DEF ReleaseInv
<1>7. api # Absent => Honest(api)'
  <2> SUFFICES ASSUME api # Absent PROVE Honest(api)' OBVIOUS
  <2>1. Honest(api) /\ api.fin /\ Sound(api)
    BY DEF SInv, HonestInv, StoredInv, Stored, Versions
  <2>2. api.ready # "True" /\ (api.async => Deleting(api))
    BY <1>3, <2>1 DEF Sound, Spent, Deleting
  <2> QED BY <1>1, <1>2, <2>1, <2>2 DEF Honest, DeprovisionOutcome
<1>8. Honest(local)'
  <2>1. local'.ready # "True" BY <1>1 DEF DeprovisionOutcome, Sound
  <2> QED BY <1>1, <2>1 DEF Honest, DeprovisionOutcome
<1>9. Gone => Gone' BY <1>1 DEF Gone, DeprovisionOutcome
<1>10. removed # Absent => removed.failed \/ removed.recGen = 0 \/ Gone'
  BY <1>9 DEF SInv, HonestInv
<1> QED BY <1>2, <1>4, <1>5, <1>6, <1>7, <1>8, <1>10 DEF StatusStep, HonestInv

-----------------------------------------------------------------------------
(* A poll.                                                                 *)

\* What a poll that ends in a write leaves in the copy.
PollOutcome ==
    /\ local' \in Object /\ Sound(local')
    /\ Spent(local) => Spent(local')
    /\ local'.ready = "True" =>
         /\ ~Deleting(local) /\ local'.ext
         /\ broker.busy = "none" /\ broker.last = "succeeded"
    /\ local'.async => (Deleting(local') <=> Deleting(local)) /\ after' # "ok"
    /\ local.fin /\ ~local'.fin =>
         /\ Deleting(local)
         /\ broker.busy = "none" /\ broker.last = "succeeded"

\* The copy with which an operation is polled.
LEMMA PollCopy ==
    ASSUME IInv, SInv, pc = "poll"
    PROVE  /\ local \in Object /\ local # Absent /\ local.async /\ Sound(local)
           /\ local.orphan => local.failed
           /\ Coherent(local) /\ local.ready # "True" /\ local.fin
<1>1. local \in Object /\ Coherent(local) BY DEF IInv, TypeOK
<1>2. local # Absent BY <1>1, AbsentNoObject
<1>3. local.async /\ local.fin /\ Sound(local) BY DEF SInv, CopyInv
<1> QED BY <1>1, <1>2, <1>3 DEF Coherent, Sound

\* Polling stops: its outcome.
LEMMA PollStopsOutcome == ASSUME IInv, SInv, PollStops PROVE PollOutcome
<1>1. pc = "poll" /\ local' = StopPolling(local)
  BY DEF PollStops, PollFrame, WriteThenReturn
<1>2. /\ local \in Object /\ local # Absent /\ Sound(local)
      /\ Coherent(local) /\ local.ready # "True"
  BY <1>1, PollCopy
<1> DEFINE f == SetFailedUnlessOrphan(local)
<1>3. local' = IF Deleting(local) THEN ClearCurrentOperation(f) ELSE StartOrphanMitigation(f)
  BY <1>1 DEF StopPolling
<1>4. f \in Object /\ Fields(f) = <<local.del, local.fin, local.gen, local.op, local.async,
         local.orphan, local.inProg, local.ext, local.ready, TRUE, local.recGen>>
  BY Zenon, <1>2, FailedFields
<1> HIDE DEF f
<1>5. CASE Deleting(local)
  <2>1. local' \in Object /\ Fields(local') = <<f.del, f.fin, f.gen, "none", FALSE, FALSE,
           FALSE, f.ext, f.ready, f.failed, f.gen>>
    BY Zenon, <1>3, <1>4, <1>5, ClearFields
  <2>2. /\ local'.del = local.del /\ local'.fin = local.fin /\ local'.gen = local.gen
        /\ local'.op = "none" /\ ~local'.async /\ local'.failed /\ local'.ready = local.ready
    BY <1>4, <2>1 DEF Fields
  <2>3. Sound(local') /\ Spent(local') BY <1>2, <2>2 DEF Sound, Spent
  <2> QED BY <1>2, <2>1, <2>2, <2>3 DEF PollOutcome
<1>6. CASE ~Deleting(local)
  <2>1. local' \in Object /\ Fields(local') = <<f.del, f.fin, f.gen, f.op, FALSE, TRUE,
           FALSE, f.ext, f.ready, f.failed, f.recGen>>
    BY Zenon, <1>3, <1>4, <1>6, OrphanFields
  <2>2. /\ local'.del = local.del /\ local'.fin = local.fin /\ local'.gen = local.gen
        /\ local'.op = local.op /\ ~local'.async /\ local'.failed /\ local'.ready = local.ready
        /\ local'.orphan /\ local'.recGen = local.recGen
    BY <1>4, <2>1 DEF Fields
  <2>3. Sound(local') /\ Spent(local') BY <1>2, <2>2 DEF Sound, Spent
  <2> QED BY <1>2, <2>1, <2>2, <2>3 DEF PollOutcome
<1> QED BY <1>5, <1>6

\* The operation goes on: the outcome.
LEMMA PollInProgressOutcome ==
    ASSUME IInv, SInv, pc = "poll",
           WriteThenReturn(SetReady([local EXCEPT !.async = TRUE], "False"), "poll")
    PROVE  PollOutcome
<1>1. /\ local \in Object /\ local # Absent /\ Sound(local) /\ local.async BY PollCopy
<1> DEFINE e == [local EXCEPT !.async = TRUE]
<1>2. local' = SetReady(e, "False") /\ after' = "poll" BY DEF WriteThenReturn
<1>3. e \in Object /\ Fields(e) = <<local.del, local.fin, local.gen, local.op, TRUE,
         local.orphan, local.inProg, local.ext, local.ready, local.failed, local.recGen>>
  BY Zenon, <1>1, EditFields
<1> HIDE DEF e
<1>4. local' \in Object /\ Fields(local') = <<e.del, e.fin, e.gen, e.op, e.async, e.orphan,
         e.inProg, e.ext, "False", e.failed, e.recGen>>
  BY <1>2, <1>3, ReadyFields
<1>5. /\ local'.del = local.del /\ local'.fin = local.fin /\ local'.gen = local.gen
      /\ local'.op = local.op /\ local'.orphan = local.orphan
      /\ local'.inProg = local.inProg /\ local'.failed = local.failed
      /\ local'.recGen = local.recGen /\ local'.ready = "False"
  BY <1>3, <1>4 DEF Fields
<1>6. Sound(local') /\ (Spent(local) => Spent(local'))
  BY <1>1, <1>5 DEF Sound, Spent, Deleting
<1> QED BY <1>2, <1>4, <1>5, <1>6 DEF PollOutcome, Deleting

\* The operation has succeeded: the outcome.
LEMMA PollSucceededOutcome == ASSUME IInv, SInv, PollSucceeded PROVE PollOutcome
<1>1. pc = "poll" /\ broker.busy = "none" /\ broker.last = "succeeded"
  BY DEF PollSucceeded, PollFrame
<1>2. /\ local \in Object /\ local # Absent /\ local.async /\ local.fin /\ Sound(local)
      /\ local.orphan => local.failed
  BY <1>1, PollCopy
<1> DEFINE e == [local EXCEPT !.ext = local.inProg]
           c == ClearCurrentOperation(e)
           x == c.fin /\ local.orphan
           g == [c EXCEPT !.fin = x]
<1>3. local' = IF Deleting(local) THEN SetReady(g, "False") ELSE SetReady(c, "True")
  BY DEF PollSucceeded, WriteThenReturn
<1>4. e \in Object /\ Fields(e) = <<local.del, local.fin, local.gen, local.op, local.async,
         local.orphan, local.inProg, local.inProg, local.ready, local.failed, local.recGen>>
  BY Zenon, <1>2, EditFields
<1> HIDE DEF e
<1>5. c \in Object /\ Fields(c) = <<e.del, e.fin, e.gen, "none", FALSE, FALSE, FALSE, e.ext,
         e.ready, e.failed, e.gen>>
  BY Zenon, <1>4, ClearFields
<1> HIDE DEF c
<1>6. /\ c.del = local.del /\ c.fin = local.fin /\ c.gen = local.gen /\ c.op = "none"
      /\ ~c.async /\ c.ext = local.inProg /\ c.failed = local.failed /\ c.recGen = local.gen
  BY <1>4, <1>5 DEF Fields
<1>7. CASE Deleting(local)
  <2>1. x \in BOOLEAN OBVIOUS
  <2>2. x <=> (local.fin /\ local.orphan) BY <1>6
  <2> HIDE DEF x
  <2>3. /\ g \in Object /\ g.del = c.del /\ g.fin = x /\ g.gen = c.gen /\ g.op = c.op
        /\ g.async = c.async /\ g.failed = c.failed
    BY <1>5, <2>1 DEF Object
  <2> HIDE DEF g
  <2>4. local' \in Object /\ Fields(local') = <<g.del, g.fin, g.gen, g.op, g.async, g.orphan,
           g.inProg, g.ext, "False", g.failed, g.recGen>>
    BY <1>3, <1>7, <2>3, ReadyFields
  <2>5. /\ local'.del = local.del /\ local'.fin = x /\ local'.gen = local.gen
        /\ local'.op = "none" /\ ~local'.async /\ local'.failed = local.failed
        /\ local'.ready = "False"
    BY <1>6, <2>3, <2>4 DEF Fields
  <2>6. local.orphan \/ local.del BY <1>2, <1>7 DEF Sound, Deleting
  <2>7. Sound(local') BY <1>2, <2>2, <2>5, <2>6 DEF Sound
  <2>8. Spent(local') BY <1>2, <2>2, <2>5, <2>6 DEF Spent
  <2> QED BY <1>1, <1>7, <2>4, <2>5, <2>7, <2>8 DEF PollOutcome
<1>8. CASE ~Deleting(local)
  <2>1. local' \in Object /\ Fields(local') = <<c.del, c.fin, c.gen, c.op, c.async, c.orphan,
           c.inProg, c.ext, "True", c.failed, c.recGen>>
    BY <1>3, <1>5, <1>8, ReadyFields
  <2>2. /\ local'.del = local.del /\ local'.fin = local.fin /\ local'.gen = local.gen
        /\ local'.op = "none" /\ ~local'.async /\ local'.ext = local.inProg
        /\ local'.failed = local.failed /\ local'.recGen = local.gen
    BY <1>6, <2>1 DEF Fields
  <2>3. local.inProg /\ ~local.failed BY <1>2, <1>8 DEF Sound
  <2>4. local.gen # 0 BY <1>2 DEF Object
  <2>5. ~Spent(local) /\ ~Spent(local')
    BY <1>2, <1>8, <2>1, <2>2, <2>3, AbsentNoObject DEF Spent, Deleting
  <2>6. Sound(local') BY <1>2, <2>2, <2>4, <2>5 DEF Sound
  <2> QED BY <1>1, <1>8, <2>1, <2>2, <2>3, <2>5, <2>6 DEF PollOutcome
<1> QED BY <1>7, <1>8

\* The operation has failed: the outcome.
LEMMA PollFailedOutcome == ASSUME IInv, SInv, PollFailed PROVE PollOutcome
<1>1. pc = "poll" BY DEF PollFailed, PollFrame
<1>2. /\ local \in Object /\ local # Absent /\ local.fin /\ Sound(local) /\ Coherent(local)
  BY <1>1, PollCopy
<1> DEFINE st == IF Deleting(local) THEN "Unknown" ELSE "False"
           s == SetReady(local, st)
           f == SetFailedUnlessOrphan(s)
<1>3. local' = ClearCurrentOperation(f) BY DEF PollFailed, WriteThenReturn
<1>4. st \in {"True", "False", "Unknown"} /\ st # "True" OBVIOUS
<1> HIDE DEF st
<1>5. s \in Object /\ Fields(s) = <<local.del, local.fin, local.gen, local.op, local.async,
         local.orphan, local.inProg, local.ext, st, local.failed, local.recGen>>
  BY Zenon, <1>2, <1>4, ReadyFields
<1>6. Coherent(s) BY <1>2, <1>4, SetReadyEvolves DEF Evolves
<1> HIDE DEF s
<1>7. f \in Object /\ Fields(f) = <<s.del, s.fin, s.gen, s.op, s.async, s.orphan, s.inProg,
         s.ext, s.ready, TRUE, s.recGen>>
  BY Zenon, <1>5, <1>6, FailedFields
<1> HIDE DEF f
<1>8. local' \in Object /\ Fields(local') = <<f.del, f.fin, f.gen, "none", FALSE, FALSE,
         FALSE, f.ext, f.ready, f.failed, f.gen>>
  BY Zenon, <1>3, <1>7, ClearFields
<1>9. /\ local'.del = local.del /\ local'.fin = local.fin /\ local'.gen = local.gen
      /\ local'.op = "none" /\ ~local'.async /\ local'.failed /\ local'.ready # "True"
  BY <1>4, <1>5, <1>7, <1>8 DEF Fields
<1>10. Sound(local') /\ Spent(local') BY <1>2, <1>9 DEF Sound, Spent
<1> QED BY <1>2, <1>8, <1>9, <1>10 DEF PollOutcome

\* A poll returns, to be continued or with an error, or writes its outcome.
LEMMA PollCases ==
    ASSUME IInv, SInv, Poll
    PROVE  /\ pc = "poll" /\ UNCHANGED <<api, broker, deprovisioned, removed>>
           /\ \/ Return("poll") \/ Return("err")
              \/ pc' = "write" /\ fresh' = fresh /\ PollOutcome
<1>1. pc = "poll" /\ UNCHANGED <<api, broker, deprovisioned, removed>>
  BY DEF Poll, PollStops, PollInProgress, PollSucceeded, PollFailed, PollError,
         PollInvalid, PollFrame, PollReturn, CallFrame, storeVars, historyVars
<1>2. ASSUME PollFrame, NEW b, NEW r, WriteThenReturn(b, r)
      PROVE  pc' = "write" /\ fresh' = fresh
  BY <1>2 DEF PollFrame, CallFrame, WriteThenReturn
<1>3. CASE PollStops BY <1>1, <1>2, <1>3, PollStopsOutcome DEF PollStops
<1>4. CASE PollInProgress
  BY <1>1, <1>2, <1>4, PollInProgressOutcome DEF PollInProgress, PollReturn
<1>5. CASE PollSucceeded
  <2>1. pc' = "write" /\ fresh' = fresh
    BY <1>5 DEF PollSucceeded, PollFrame, CallFrame, WriteThenReturn
  <2> QED BY <1>1, <1>5, <2>1, PollSucceededOutcome
<1>6. CASE PollFailed
  <2>1. pc' = "write" /\ fresh' = fresh
    BY <1>6 DEF PollFailed, PollFrame, CallFrame, WriteThenReturn
  <2> QED BY <1>1, <1>6, <2>1, PollFailedOutcome
<1>7. CASE PollError \/ PollInvalid BY <1>1, <1>7 DEF PollError, PollInvalid, PollReturn
<1> QED BY <1>3, <1>4, <1>5, <1>6, <1>7 DEF Poll

\* A poll preserves the invariant: the status it writes follows from what the
\* broker's finished operation did.
LEMMA PollStatus == ASSUME IInv, SInv, Poll PROVE StatusStep
<1>1. /\ pc = "poll" /\ UNCHANGED <<api, broker, deprovisioned, removed>>
      /\ \/ Return("poll") \/ Return("err")
         \/ pc' = "write" /\ fresh' = fresh /\ PollOutcome
  BY PollCases
<1>2. Stored(api') /\ (Spent(api) => Spent(api'))
  BY <1>1 DEF SInv, StoredInv, Versions
<1>3. (api # Absent => Honest(api)') /\ (removed # Absent =>
         removed.failed \/ removed.recGen = 0 \/ Gone')
  BY <1>1 DEF SInv, HonestInv, Honest, Gone
<1>4. broker'.busy = "deprovisioning" => Spent(api') BY <1>1 DEF SInv, ReleaseInv
<1>5. CASE Return("poll") \/ Return("err")
  <2>1. pc' = "idle" BY <1>5 DEF Return
  <2> QED BY <1>1, <1>2, <1>3, <1>4, <2>1 DEF StatusStep, CopyInv, ReleaseInv, HonestInv
<1>6. CASE pc' = "write" /\ fresh' = fresh /\ PollOutcome
  <2>1. CopyInv' BY <1>1, <1>6 DEF SInv, CopyInv, PollOutcome
  <2>2. ASSUME fresh PROVE Honest(local)'
    <3>1. Honest(local) /\ local.async /\ local.fin
      BY <1>1, <2>2, PollCopy DEF SInv, HonestInv
    <3> QED BY <1>1, <1>6, <3>1 DEF Honest, PollOutcome, Gone
  <2> QED BY <1>1, <1>2, <1>3, <1>4, <1>6, <2>1, <2>2 DEF StatusStep, ReleaseInv, HonestInv
<1> QED BY <1>1, <1>5, <1>6

-----------------------------------------------------------------------------
(* The other steps, and the induction.                                     *)

\* The broker ends its operation: what is honest stays honest, since a
\* deprovision ends only when the stored version is spent.
LEMMA FinishStatus == ASSUME IInv, SInv, BrokerFinish PROVE StatusStep
<1>1. /\ broker.busy # "none"
      /\ UNCHANGED <<api, pc, local, fresh, deprovisioned, removed>>
  BY DEF BrokerFinish, storeVars, workerVars, historyVars
<1>2. /\ broker.busy \in {"provisioning", "deprovisioning"}
      /\ broker'.busy = "none"
      /\ \/ broker'.last = "succeeded" /\ broker'.has = (broker.busy = "provisioning")
         \/ broker'.last = "failed" /\ broker'.has = broker.has
  <2>1. /\ broker \in [has : BOOLEAN, busy : {"none", "provisioning", "deprovisioning"},
                      last : {"succeeded", "failed"}]
        /\ broker.busy \in {"provisioning", "deprovisioning"}
    BY <1>1 DEF IInv, TypeOK
  <2>2. CASE broker' = [has |-> broker.busy = "provisioning", busy |-> "none",
                        last |-> "succeeded"]
    BY <2>1, <2>2, Zenon
  <2>3. CASE broker' = [broker EXCEPT !.busy = "none", !.last = "failed"]
    BY <2>1, <2>3
  <2> QED BY <2>2, <2>3 DEF BrokerFinish
<1>3. Stored(api') /\ (Spent(api) => Spent(api'))
  BY <1>1 DEF SInv, StoredInv, Versions
<1>4. CopyInv' BY <1>1 DEF SInv, CopyInv
<1>5. ReleaseInv' BY <1>1, <1>2 DEF SInv, ReleaseInv
<1>6. Gone => Gone' BY Zenon, <1>1, <1>2 DEF Gone
<1>7. ASSUME NEW o, Honest(o), broker.busy = "deprovisioning" => o.ready # "True"
      PROVE  /\ o.ready = "True" => broker'.has /\ o.ext
             /\ o.async /\ ~Deleting(o) => (broker'.last = "succeeded" => broker'.has)
             /\ o.async /\ Deleting(o) =>
                  deprovisioned' /\ (broker'.last = "succeeded" => ~broker'.has)
             /\ o.del /\ ~o.fin => o.failed \/ o.recGen = 0 \/ Gone'
  BY Zenon, <1>1, <1>2, <1>6, <1>7 DEF Honest
<1>8. api # Absent => Honest(api)'
  <2> SUFFICES ASSUME api # Absent PROVE Honest(api)' OBVIOUS
  <2>1. Honest(api) /\ Sound(api)
    BY DEF SInv, HonestInv, StoredInv, Stored, Versions
  <2>2. broker.busy = "deprovisioning" => api.ready # "True"
    BY <2>1 DEF SInv, ReleaseInv, Sound
  <2> QED BY Zenon, <1>1, <1>2, <1>7, <2>1, <2>2 DEF Honest
<1>9. pc # "idle" /\ fresh => Honest(local)'
  <2> SUFFICES ASSUME pc # "idle", fresh PROVE Honest(local)' OBVIOUS
  <2>1. Honest(local) /\ Sound(local) /\ (Spent(api) => Spent(local))
    BY DEF SInv, HonestInv, CopyInv
  <2>2. broker.busy = "deprovisioning" => local.ready # "True"
    BY <2>1 DEF SInv, ReleaseInv, Sound
  <2> QED BY Zenon, <1>1, <1>2, <1>7, <2>1, <2>2 DEF Honest
<1>10. removed # Absent => removed.failed \/ removed.recGen = 0 \/ Gone'
  BY <1>6 DEF SInv, HonestInv
<1> QED BY <1>1, <1>3, <1>4, <1>5, <1>8, <1>9, <1>10 DEF StatusStep, HonestInv

\* The user deletes the object: its status says what it said.
LEMMA UserDeleteStatus == ASSUME IInv, SInv, UserDelete PROVE StatusStep
<1> DEFINE v == [api EXCEPT !.del = TRUE, !.gen = 2]
<1>1. /\ api' = v /\ api # Absent /\ fresh' = FALSE
      /\ UNCHANGED <<pc, local, broker, deprovisioned, removed>>
  BY DEF UserDelete, historyVars
<1>2. api \in Object /\ api.fin /\ Sound(api) /\ Honest(api)
  BY <1>1 DEF IInv, TypeOK, SInv, StoredInv, Stored, Versions, HonestInv
<1>3. /\ v \in Object
      /\ Fields(v) = <<TRUE, api.fin, 2, api.op, api.async, api.orphan, api.inProg, api.ext,
                       api.ready, api.failed, api.recGen>>
  BY Zenon, <1>2 DEF Object, Fields
<1> HIDE DEF v
<1>4. v # Absent BY <1>3, AbsentNoObject
<1>5. /\ v.fin /\ v.op = api.op /\ v.async = api.async /\ v.orphan = api.orphan
      /\ v.inProg = api.inProg /\ v.ext = api.ext /\ v.ready = api.ready
      /\ v.failed = api.failed /\ v.recGen = api.recGen /\ v.del
  BY <1>2, <1>3 DEF Fields
<1>6. (Spent(v) <=> Spent(api)) /\ (Deleting(v) <=> Deleting(api))
  BY <1>1, <1>2, <1>4, <1>5 DEF Spent, Deleting
<1>7. Sound(v) BY <1>2, <1>5, <1>6 DEF Sound
<1>8. Stored(api') /\ (Spent(api) => Spent(api')) BY <1>1, <1>5, <1>6, <1>7 DEF Stored
<1>9. CopyInv' BY <1>1 DEF SInv, CopyInv
<1>10. ReleaseInv' BY <1>1, <1>8 DEF SInv, ReleaseInv
<1>11. Honest(api)' BY <1>1, <1>2, <1>5, <1>6 DEF Honest
<1>12. HonestInv' BY <1>1, <1>11 DEF SInv, HonestInv, Gone
<1> QED BY <1>8, <1>9, <1>10, <1>12 DEF StatusStep

\* The steps that leave object, copy and broker alone.
LEMMA QuietStatus ==
    ASSUME SInv, UNCHANGED <<api, broker, deprovisioned, removed>>,
           \/ pc' = "idle"
           \/ UNCHANGED <<pc, local>> /\ (fresh' = fresh \/ fresh' = FALSE)
    PROVE  StatusStep
<1>1. Stored(api') /\ (Spent(api) => Spent(api')) BY DEF SInv, StoredInv, Versions
<1>2. CopyInv' BY DEF SInv, CopyInv
<1>3. ReleaseInv' BY DEF SInv, ReleaseInv
<1>4. (api # Absent => Honest(api)') /\ (removed # Absent =>
         removed.failed \/ removed.recGen = 0 \/ Gone')
  BY DEF SInv, HonestInv, Honest, Gone
<1>5. pc' # "idle" /\ fresh' => Honest(local)' BY Zenon DEF SInv, HonestInv, Honest, Gone
<1> QED BY <1>1, <1>2, <1>3, <1>4, <1>5 DEF StatusStep, HonestInv

\* A new instance satisfies the invariant.
LEMMA InitStatus == Init => SInv
<1> SUFFICES ASSUME Init PROVE SInv OBVIOUS
<1>1. /\ api = NewInstance /\ watch = <<NewInstance>> /\ cached = Absent /\ pc = "idle"
      /\ removed = Absent /\ broker.busy = "none"
  BY DEF Init
<1>2. Len(watch) = 1 /\ watch[1] = NewInstance BY <1>1
<1>3. \A o \in Versions : o = NewInstance BY <1>1, <1>2 DEF Versions
<1>4. Stored(NewInstance) BY DEF Stored, Sound, Spent, NewInstance
<1>5. Honest(NewInstance) BY DEF Honest, NewInstance
<1> QED
  BY <1>1, <1>3, <1>4, <1>5 DEF SInv, StoredInv, SpentInv, CopyInv, ReleaseInv, HonestInv

\* Every step preserves the parts of the invariant.
LEMMA NextStatus == ASSUME IInv, SInv, [Next]_vars PROVE StatusStep
<1>1. CASE Call
  <2>1. pc \in {"provision", "deprovision"} BY <1>1, CallShape DEF IInv
  <2> QED BY <1>1, <2>1, ProvisionStatus, DeprovisionStatus
<1>2. CASE \/ InformerEvent \/ Resync \/ RetryDue \/ RequeueForPoll \/ UserEdit
           \/ Crash \/ UNCHANGED vars
  <2>1. /\ UNCHANGED <<api, broker, deprovisioned, removed>>
        /\ \/ pc' = "idle"
           \/ UNCHANGED <<pc, local>> /\ (fresh' = fresh \/ fresh' = FALSE)
    BY <1>2 DEF InformerEvent, Resync, RetryDue, RequeueForPoll, UserEdit, Crash,
                vars, storeVars, workerVars, historyVars
  <2> QED BY Zenon, <2>1, QuietStatus
<1> QED
  BY <1>1, <1>2, ReconcileStatus, WriteStatus, PollStatus, FinishStatus,
     UserDeleteStatus DEF Next, Worker, Environment

\* Every step preserves the invariant.
LEMMA StepStatus == IInv /\ SInv /\ [Next]_vars => SInv'
<1> SUFFICES ASSUME IInv, SInv, [Next]_vars PROVE SInv' OBVIOUS
<1>1. StatusStep BY NextStatus
<1>2. Versions' \subseteq Versions \cup {api'} BY VersionsStep
<1>3. StoredInv' BY <1>1, <1>2 DEF StatusStep, SInv, StoredInv
<1>4. SpentInv' BY <1>1, <1>2 DEF StatusStep, SInv, SpentInv
<1> QED BY <1>1, <1>3, <1>4 DEF StatusStep, SInv

\* The second inductive invariant holds in every reachable state.
THEOREM StatusInvariant == Spec => []SInv
  BY InitStatus, StepStatus, InstanceInvariant, PTL DEF Spec

\* An instance shown as Ready exists at the broker, with its properties,
\* whatever was retried, lost or polled on the way.
THEOREM ReadyIsProvisioned == Spec => []ReadyMeansProvisioned
<1>1. SInv => ReadyMeansProvisioned
  BY DEF SInv, HonestInv, Honest, ReadyMeansProvisioned
<1> QED BY <1>1, StatusInvariant, PTL

\* A removed instance is not at the broker, unless its failure was recorded or
\* it had never been recorded as provisioned.
THEOREM RemovedIsReleased == Spec => []RemovedMeansReleased
<1>1. SInv => RemovedMeansReleased
  BY DEF SInv, HonestInv, Gone, RemovedMeansReleased
<1> QED BY <1>1, StatusInvariant, PTL

-----------------------------------------------------------------------------
(* An asynchronous operation is polled.                                    *)

\* A step that stores nothing that needs no reconciliation keeps the versions
\* pending.
LEMMA PendingKept ==
    ASSUME IInv, [Next]_vars, AllPending, Pending(api') PROVE AllPending'
<1>1. Versions' \subseteq Versions \cup {api'} BY VersionsStep
<1> QED BY <1>1 DEF AllPending, Pending

\* The object that is stored is pending when all versions are.
LEMMA StoredPending == ASSUME AllPending PROVE Pending(api)
  BY DEF AllPending, Versions

\* A reconciliation that returns an error is repeated, or given up.
LEMMA ErrorScheduled == ASSUME TypeOK, Return("err") PROVE delayed' \/ gaveUp'
  BY Zenon DEF Return, TypeOK

\* A reconciliation that asks to be continued is polled.
LEMMA PollScheduled == ASSUME Return("poll") PROVE polling'
  BY Zenon DEF Return

\* The beginning of a reconciliation does not lose an asynchronous operation:
\* no version of it is one that needs nothing.
LEMMA ReconcileAttention ==
    ASSUME IInv, SInv, AttentionInv, Reconcile PROVE AttentionInv'
<1>1. /\ UNCHANGED <<api, watch, cached>> /\ (Returned \/ TakesSoundly)
  BY TakenSoundly
<1>2. AllPending' <=> AllPending BY <1>1 DEF AllPending, Pending, Versions
<1>3. (api # Absent => (api.async => AllPending))'
  BY <1>1, <1>2 DEF AttentionInv
<1>4. CASE TakesSoundly
  <2>1. ASSUME fresh' PROVE AllPending
    <3>1. watch = <<>> /\ api = cached /\ Pending(cached)
      BY Zenon, <1>4, <2>1 DEF TakesSoundly, IInv, VersionsInv, UpToDate
    <3>2. Len(watch) = 0 BY <3>1
    <3> QED BY <3>1, <3>2 DEF AllPending, Versions
  <2>2. PolledUnlessDropped' BY <1>4 DEF TakesSoundly, PolledUnlessDropped, Scheduled
  <2> QED BY <1>2, <1>3, <1>4, <2>1, <2>2 DEF TakesSoundly, AttentionInv
<1>5. CASE ReconcileNothing
  <2>1. pc' = "idle" BY <1>5 DEF ReconcileNothing, Return
  <2>2. ASSUME api' # Absent, api'.async PROVE cached' = Absent
    <3>1. AllPending BY <1>1, <2>2 DEF AttentionInv
    <3>2. cached # Absent => Pending(cached) BY <3>1 DEF AllPending, Versions
    <3> QED BY <1>1, <1>5, <3>2 DEF ReconcileNothing, Pending
  <2> QED BY <1>3, <2>1, <2>2 DEF AttentionInv, PolledUnlessDropped, Scheduled
<1>6. CASE ClientFails
  <2>1. pc' = "idle" BY <1>6 DEF ClientFails, Return
  <2>2. delayed' \/ gaveUp' BY <1>6, ErrorScheduled DEF ClientFails, IInv
  <2> QED BY <1>3, <2>1, <2>2 DEF AttentionInv, PolledUnlessDropped, Scheduled
<1> QED
  BY <1>4, <1>5, <1>6, ReportTaken, ClearTaken, PollTaken, DeprovisionTaken, ProvisionTaken
     DEF Reconcile

\* A write that stores an asynchronous operation is followed by a poll.
LEMMA WriteAttention ==
    ASSUME IInv, SInv, AttentionInv, Write PROVE AttentionInv'
<1>0. [Next]_vars BY DEF Next, Worker
<1>1. /\ pc # "idle" /\ UNCHANGED <<broker, deprovisioned>>
      /\ UNCHANGED <<api, watch, removed>> \/ (fresh /\ Commit(local))
  <2>1. UNCHANGED broker
    BY DEF Write, WriteFails, UpdateReferences, RecordStartOfOperation, UpdateStatus
  <2> QED BY <2>1, WriteShape DEF IInv
<1>2. local \in Object /\ Sound(local) BY <1>1 DEF IInv, TypeOK, SInv, CopyInv
<1>3. fresh /\ Commit(local) =>
        (api' # Absent => api' = local) /\ (local.fin => api' = local)
  BY <1>1, CommitStatus
<1>4. api' # Absent => (api'.async => AllPending')
  <2> SUFFICES ASSUME api' # Absent, api'.async PROVE AllPending' OBVIOUS
  <2>1. AllPending
    BY <1>1 DEF AttentionInv
  <2>2. Pending(api') BY DEF Pending
  <2> QED BY <1>0, <2>1, <2>2, PendingKept
<1>5. CASE UpdateReferences \/ RecordStartOfOperation
  <2>1. /\ fresh /\ Commit(local) /\ pc' # "idle"
        /\ pc \in {"refs", "startProvision", "startDeprovision"}
        /\ pc' = "write" => after' = "err"
    BY <1>5 DEF UpdateReferences, RecordStartOfOperation, PrepareProvision, Continue,
                WriteThenReturn, Refused
  <2>2. local.fin BY <1>2, <2>1 DEF SInv, CopyInv, Sound
  <2>3. api' = local /\ local # Absent BY <1>2, <1>3, <2>1, <2>2, AbsentNoObject
  <2>4. Pending(local)
    BY <1>2, <2>1, <2>2, <2>3
       DEF SInv, CopyInv, Sound, Pending, ToProvision, ToDelete, Deleting
  <2>5. AllPending BY <1>1, <2>1 DEF AttentionInv
  <2>6. AllPending' BY <1>0, <2>3, <2>4, <2>5, PendingKept
  <2> QED BY <2>1, <2>6 DEF AttentionInv, PolledUnlessDropped, Scheduled
<1>6. CASE WriteFails
  <2>1. pc' = "idle" BY <1>6 DEF WriteFails, Return
  <2>2. delayed' \/ gaveUp' BY <1>6, ErrorScheduled DEF WriteFails, IInv
  <2> QED BY <1>4, <2>1, <2>2 DEF AttentionInv, PolledUnlessDropped, Scheduled
<1>7. CASE UpdateStatus
  <2>1. pc = "write" /\ fresh /\ Commit(local) /\ Return(after)
    BY <1>7 DEF UpdateStatus, Refused
  <2>2. pc' = "idle" BY <2>1 DEF Return
  <2>3. ASSUME api' # Absent, api'.async PROVE Scheduled' \/ gaveUp'
    <3>1. local.async BY <1>3, <2>1, <2>3
    <3>2. after \in {"err", "poll"} BY <2>1, <3>1 DEF AttentionInv, IInv, TypeOK
    <3>3. delayed' \/ gaveUp' \/ polling'
      BY <2>1, <3>2, ErrorScheduled, PollScheduled DEF IInv
    <3> QED BY <3>3 DEF Scheduled
  <2> QED BY <1>4, <2>2, <2>3 DEF AttentionInv, PolledUnlessDropped
<1> QED BY <1>5, <1>6, <1>7 DEF Write

\* A call of the broker that starts an operation is written to be polled.
LEMMA CallAttention ==
    ASSUME IInv, SInv, AttentionInv, Call PROVE AttentionInv'
<1>1. pc' = "write" /\ fresh' = fresh /\ UNCHANGED <<api, watch, cached>> /\ pc # "idle"
  BY CallShape DEF IInv
<1>2. AllPending' <=> AllPending BY <1>1 DEF AllPending, Pending, Versions
<1>3. local'.async => after' # "ok"
  BY Zenon, ProvisionOKOutcome, ProvisionAsyncOutcome, ProvisionFailedOutcome,
     DeprovisionOKOutcome, DeprovisionAsyncOutcome, DeprovisionFailedOutcome
     DEF Call, ProvisionOutcome, DeprovisionOutcome
<1> QED BY <1>1, <1>2, <1>3 DEF AttentionInv, PolledUnlessDropped, Scheduled

\* A poll that does not end the operation is followed by another one.
LEMMA PollAttention ==
    ASSUME IInv, SInv, AttentionInv, Poll PROVE AttentionInv'
<1>1. UNCHANGED <<api, watch, cached>> /\ pc = "poll"
  BY PollCases DEF Poll, PollStops, PollInProgress, PollSucceeded, PollFailed, PollError,
     PollInvalid, PollFrame, PollReturn, CallFrame, storeVars
<1>2. AllPending' <=> AllPending BY <1>1 DEF AllPending, Pending, Versions
<1>3. CASE Return("poll") \/ Return("err")
  <2>1. pc' = "idle" BY <1>3 DEF Return
  <2>2. delayed' \/ gaveUp' \/ polling' BY <1>3, ErrorScheduled, PollScheduled DEF IInv
  <2> QED BY <1>1, <1>2, <2>1, <2>2 DEF AttentionInv, PolledUnlessDropped, Scheduled
<1>4. CASE pc' = "write" /\ fresh' = fresh /\ PollOutcome
  BY <1>1, <1>2, <1>4 DEF AttentionInv, PolledUnlessDropped, Scheduled, PollOutcome
<1> QED BY <1>3, <1>4, PollCases

\* The user changes the object, or marks it as deleted: the copy is outdated.
LEMMA UserAttention ==
    ASSUME IInv, SInv, AttentionInv, UserDelete \/ UserEdit PROVE AttentionInv'
<1>0. [Next]_vars BY DEF Next, Environment
<1>1. /\ fresh' = FALSE /\ UNCHANGED <<cached, pc, queued, delayed, polling, gaveUp>>
      /\ api # Absent /\ api \in Object
  BY DEF UserDelete, UserEdit, queueVars, IInv, TypeOK
<1>2. api' # Absent /\ api'.async = api.async
  <2>1. CASE UserEdit BY <1>1, <2>1 DEF UserEdit
  <2>2. CASE UserDelete
    <3>1. api' \in Object /\ api'.async = api.async BY Zenon, <1>1, <2>2 DEF UserDelete, Object
    <3> QED BY <3>1, AbsentNoObject
  <2> QED BY <2>1, <2>2
<1>3. api'.async => AllPending'
  <2> SUFFICES ASSUME api'.async PROVE AllPending' OBVIOUS
  <2>1. AllPending BY <1>1, <1>2 DEF AttentionInv
  <2>2. Pending(api') BY <1>2 DEF Pending
  <2> QED BY <1>0, <2>1, <2>2, PendingKept
<1> QED BY <1>1, <1>2, <1>3 DEF AttentionInv, PolledUnlessDropped, Scheduled

\* Events, restarts, timers and the broker: the object does not change.
LEMMA QuietAttention ==
    ASSUME IInv, AttentionInv,
           \/ InformerEvent \/ Crash \/ Resync \/ RetryDue \/ RequeueForPoll
           \/ BrokerFinish \/ UNCHANGED vars
    PROVE  AttentionInv'
<1>0. [Next]_vars BY DEF Next, Environment
<1>1. /\ api' = api
      /\ pc' = "idle" \/ UNCHANGED <<pc, local, fresh, after>>
  BY DEF InformerEvent, Crash, Resync, RetryDue, RequeueForPoll, BrokerFinish, vars,
         storeVars, workerVars
<1>2. AllPending => AllPending' BY <1>0, <1>1, PendingKept, StoredPending
<1>3. PolledUnlessDropped'
  <2> SUFFICES ASSUME api # Absent, ~gaveUp', api.async PROVE Scheduled'
    BY <1>1 DEF PolledUnlessDropped
  <2>1. Scheduled /\ AllPending
    <3>1. ~gaveUp
      BY DEF InformerEvent, Crash, Resync, RetryDue, RequeueForPoll, BrokerFinish, vars,
             queueVars
    <3> QED BY <3>1 DEF AttentionInv, PolledUnlessDropped
  <2>2. CASE InformerEvent
    <3>1. /\ cached' = Head(watch)
          /\ queued' = (queued \/ (Head(watch) # Absent /\
                                   (cached = Absent \/ ~Head(watch).async)))
          /\ UNCHANGED <<delayed, polling, pc>>
      BY <2>2 DEF InformerEvent, workerVars
    <3>2. queued \/ (Head(watch) # Absent /\ cached = Absent) => queued'
      BY <3>1, Zenon
    <3>3. CASE cached = Absent BY <3>1, <3>2, <3>3 DEF Scheduled
    <3>4. CASE queued \/ delayed \/ polling \/ pc # "idle"
      BY <3>1, <3>2, <3>4 DEF Scheduled
    <3> QED BY <2>1, <3>3, <3>4 DEF Scheduled
  <2>3. CASE Crash BY <2>3 DEF Crash, Scheduled
  <2>4. CASE Resync \/ RetryDue \/ RequeueForPoll
    BY <2>4 DEF Resync, RetryDue, RequeueForPoll, Scheduled
  <2>5. CASE BrokerFinish \/ UNCHANGED vars
    BY <2>1, <2>5 DEF BrokerFinish, vars, queueVars, workerVars, Scheduled
  <2> QED BY <2>2, <2>3, <2>4, <2>5
<1> QED BY <1>1, <1>2, <1>3 DEF AttentionInv

\* Every step preserves the attention an operation gets.
LEMMA StepAttention == IInv /\ SInv /\ AttentionInv /\ [Next]_vars => AttentionInv'
<1> SUFFICES ASSUME IInv, SInv, AttentionInv, [Next]_vars PROVE AttentionInv' OBVIOUS
<1> QED
  BY ReconcileAttention, WriteAttention, CallAttention, PollAttention, UserAttention,
     QuietAttention DEF Next, Worker, Environment

\* A new instance has no asynchronous operation.
LEMMA InitAttention == Init => AttentionInv
<1> SUFFICES ASSUME Init PROVE AttentionInv  OBVIOUS
<1>1. api = NewInstance /\ pc = "idle"  BY DEF Init
<1>2. ~NewInstance.async  BY DEF NewInstance
<1> QED  BY Zenon, <1>1, <1>2 DEF AttentionInv, PolledUnlessDropped

\* As long as the controller has not dropped the key after too many failures, an
\* asynchronous operation is going to be polled: a lost answer, a stale cache, a
\* deletion or a restart does not make the controller forget it.
THEOREM OperationIsPolled == Spec => []PolledUnlessDropped
<1>1. AttentionInv => PolledUnlessDropped BY DEF AttentionInv
<1> QED
  BY <1>1, InitAttention, StepAttention, StatusInvariant, InstanceInvariant, PTL DEF Spec

-----------------------------------------------------------------------------
(* The life cycle seen from outside.                                       *)

\* The broker's operation fits what was asked of it and what is shown.
OperationInv ==
    /\ broker.busy = "deprovisioning" => deprovisioned
    /\ api # Absent /\ broker.busy = "provisioning" => api.ready # "True"
    /\ pc # "idle" /\ fresh /\ broker.busy = "provisioning" => local.ready # "True"

\* A write does not touch the broker.
LEMMA WriteCopy ==
    ASSUME IInv, SInv, Write
    PROVE  /\ pc # "idle" /\ UNCHANGED <<broker, deprovisioned>>
           /\ \/ UNCHANGED <<api, removed>>
              \/ fresh /\ Commit(local) /\ (api' # Absent => api' = local)
           /\ \/ pc' = "idle"
              \/ fresh /\ (local'.ready = "True" => local.ready = "True")
<1>1. /\ pc # "idle" /\ UNCHANGED <<broker, deprovisioned>>
      /\ UNCHANGED <<api, removed>> \/ (fresh /\ Commit(local))
  <2>1. UNCHANGED broker
    BY DEF Write, WriteFails, UpdateReferences, RecordStartOfOperation, UpdateStatus
  <2> QED BY <2>1, WriteShape DEF IInv
<1>2. local \in Object /\ Sound(local) BY <1>1 DEF IInv, TypeOK, SInv, CopyInv
<1>3. CASE UpdateReferences
  <2>1. /\ pc = "refs" /\ fresh
        /\ PrepareProvision(local) \/ WriteThenReturn(SetReady(local, "False"), "err")
    BY <1>3 DEF UpdateReferences
  <2>2. ToBeProvisioned(local)
    BY <1>2, <2>1 DEF ToBeProvisioned, SInv, CopyInv, Sound
  <2>3. PrepareProvision(local) => local'.ready # "True" BY <2>2, PreparedCopy
  <2>4. WriteThenReturn(SetReady(local, "False"), "err") => local'.ready = "False"
    BY <1>2, ReadyFields DEF WriteThenReturn, Fields
  <2> QED BY <1>1, <2>1, <2>3, <2>4, CommitStatus
<1>4. CASE RecordStartOfOperation
  BY <1>1, <1>4, CommitStatus DEF RecordStartOfOperation, Refused, Continue
<1>5. CASE WriteFails \/ UpdateStatus
  BY <1>1, <1>5, CommitStatus DEF WriteFails, UpdateStatus, Return
<1> QED BY <1>3, <1>4, <1>5 DEF Write

\* Every step preserves the invariant of the broker's operation.
LEMMA StepOperation ==
    ASSUME IInv, SInv, OperationInv, [Next]_vars PROVE OperationInv'
<1>1. CASE Reconcile
  <2>1. /\ UNCHANGED <<api, watch, cached, broker, deprovisioned>>
        /\ Returned \/ TakesSoundly
    BY <1>1, TakenSoundly
  <2>2. CASE Returned BY <2>1, <2>2 DEF Returned, OperationInv
  <2>3. CASE TakesSoundly
    <3>1. fresh' => api = cached /\ cached # Absent
      BY Zenon, <2>3 DEF TakesSoundly, IInv, VersionsInv, UpToDate
    <3> QED BY <2>1, <2>3, <3>1 DEF TakesSoundly, OperationInv
  <2> QED BY <2>1, <2>2, <2>3
<1>2. CASE Write
  <2>1. /\ pc # "idle" /\ UNCHANGED <<broker, deprovisioned>>
        /\ api' = api \/ (fresh /\ (api' # Absent => api' = local))
        /\ pc' = "idle" \/ (fresh /\ (local'.ready = "True" => local.ready = "True"))
    BY <1>2, WriteCopy
  <2> QED BY <2>1 DEF OperationInv
<1>3. CASE Call
  <2>1. UNCHANGED <<api, fresh>> /\ pc \in {"provision", "deprovision"}
    BY <1>3, CallUnchanged, CallShape DEF IInv
  <2>2. api # Absent => (api.ready = "True" => broker.has)
    BY DEF SInv, HonestInv, Honest
  <2>3. CASE pc = "provision"
    <3>1. ProvisionOutcome BY <1>3, <2>3, ProvisionCall
    <3>2. deprovisioned' = deprovisioned BY <1>3, <2>3, CallShape DEF IInv
    <3> QED BY Zenon, <2>1, <2>2, <3>1, <3>2 DEF ProvisionOutcome, OperationInv
  <2>4. CASE pc = "deprovision"
    <3>1. DeprovisionOutcome BY <1>3, <2>4, DeprovisionCall
    <3>2. local'.ready # "True" BY <3>1 DEF DeprovisionOutcome, Sound
    <3> QED BY <2>1, <3>1, <3>2 DEF DeprovisionOutcome, OperationInv
  <2> QED BY <2>1, <2>3, <2>4
<1>4. CASE Poll
  <2>1. /\ pc = "poll" /\ UNCHANGED <<api, broker, deprovisioned>>
        /\ pc' = "idle" \/ (fresh' = fresh /\ PollOutcome)
    BY Zenon, <1>4, PollCases DEF Return
  <2> QED BY <2>1 DEF OperationInv, PollOutcome
<1>5. CASE BrokerFinish
  <2>1. broker'.busy = "none"
    <3>1. CASE broker' = [has |-> broker.busy = "provisioning", busy |-> "none",
                          last |-> "succeeded"]
      BY <3>1, Zenon
    <3>2. CASE broker' = [broker EXCEPT !.busy = "none", !.last = "failed"]
      BY <3>2 DEF IInv, TypeOK
    <3> QED BY <1>5, <3>1, <3>2 DEF BrokerFinish
  <2> QED BY <2>1 DEF OperationInv
<1>6. CASE UserDelete
  <2>1. /\ fresh' = FALSE /\ UNCHANGED <<broker, deprovisioned>> /\ api # Absent
        /\ api' = [api EXCEPT !.del = TRUE, !.gen = 2]
    BY <1>6 DEF UserDelete, historyVars
  <2>2. api'.ready = api.ready BY <2>1 DEF IInv, TypeOK, Object
  <2> QED BY <2>1, <2>2 DEF OperationInv
<1>7. CASE \/ InformerEvent \/ Resync \/ RetryDue \/ RequeueForPoll \/ UserEdit
           \/ Crash \/ UNCHANGED vars
  <2>1. /\ UNCHANGED <<api, broker, deprovisioned>>
        /\ \/ pc' = "idle"
           \/ UNCHANGED <<pc, local>> /\ (fresh' = fresh \/ fresh' = FALSE)
    BY <1>7 DEF InformerEvent, Resync, RetryDue, RequeueForPoll, UserEdit, Crash,
                vars, storeVars, workerVars, historyVars
  <2> QED BY <2>1 DEF OperationInv
<1> QED
  BY <1>1, <1>2, <1>3, <1>4, <1>5, <1>6, <1>7 DEF Next, Worker, Environment

\* An object about which the worker has a fresh copy does not show Ready,
\* unless it is deleted or has failed: it would have nothing to reconcile.
LEMMA FreshIsNotReady ==
    ASSUME IInv, SInv, AttentionInv, pc # "idle", fresh
    PROVE  api # Absent /\ (Doomed(api) \/ api.ready # "True")
<1>1. api # Absent /\ api \in Object BY DEF IInv, TypeOK, FreshInv
<1>2. Pending(api) BY StoredPending DEF AttentionInv
<1>3. Sound(api) BY <1>1 DEF SInv, StoredInv, Stored, Versions
<1>4. Coherent(api) BY DEF IInv, VersionsInv, VersionsCoherent
<1>5. CASE ToProvision(api)
  <2>1. api.gen = 1 /\ api.recGen # 1 /\ api.recGen <= 1
    BY <1>1, <1>3, <1>4, <1>5 DEF ToProvision, Sound, Coherent
  <2>2. api.recGen \in {0, 1, 2} BY <1>1 DEF Object
  <2>3. api.recGen = 0 BY <2>1, <2>2
  <2> QED BY <1>1, <1>3, <2>3 DEF Sound
<1>6. CASE ToDelete(api) BY <1>1, <1>4, <1>6 DEF ToDelete, Coherent, Doomed
<1> QED BY <1>1, <1>2, <1>3, <1>5, <1>6 DEF Pending, Sound

\* What is shown of an object that is stored.
LEMMA ShownStored ==
    ASSUME api # Absent
    PROVE  /\ Shown = "doomed" <=> Doomed(api)
           /\ Shown = "ready" <=> ~Doomed(api) /\ api.ready = "True"
           /\ Shown \in {"doomed", "ready", "pending"}
  BY DEF Shown, Doomed

\* The same after a step.
LEMMA ShownStoredNext ==
    ASSUME api' # Absent
    PROVE  /\ Shown' = "doomed" <=> Doomed(api')
           /\ Shown' = "ready" <=> ~Doomed(api') /\ api'.ready = "True"
           /\ Shown' \in {"doomed", "ready", "pending"}
  BY DEF Shown, Doomed

\* A write shows Ready what the broker has, dooms the object, or removes a
\* doomed one after its release; anything else it stores is not seen.
LEMMA WriteLifecycle ==
    ASSUME IInv, SInv, AttentionInv, OperationInv, Write
    PROVE  Lifecycle!Next \/ UNCHANGED Lifecycle!vars
<1>1. /\ pc # "idle" /\ UNCHANGED <<broker, deprovisioned>>
      /\ UNCHANGED <<api, removed>> \/ (fresh /\ Commit(local))
      /\ cached' = cached
  BY WriteCopy, WriteShape DEF IInv
<1>2. Held' = Held BY <1>1 DEF Held
<1>3. CASE UNCHANGED <<api, removed>>
  <2>1. Shown' = Shown BY <1>3 DEF Shown
  <2> QED BY <1>1, <1>2, <2>1 DEF Lifecycle!vars
<1>4. CASE fresh /\ Commit(local)
  <2>1. api # Absent /\ (Doomed(api) \/ api.ready # "True")
    BY <1>1, <1>4, FreshIsNotReady
  <2>2. /\ Evolves(api, local) /\ (local.fin \/ ~local.del => api' = local)
        /\ api' = Absent \/ api' = local
    BY <1>1, <1>4, CommitShape DEF IInv
  <2>3. Honest(local) /\ local \in Object
    BY <1>1, <1>4 DEF IInv, TypeOK, SInv, HonestInv
  <2>4. local # Absent BY <2>3, AbsentNoObject
  <2>5. CASE local.del /\ ~local.fin
    <3>1. api' = Absent /\ removed' = local BY <1>4, <2>5 DEF Commit
    <3>2. Shown = "doomed" BY <2>1, <2>2, <2>5, ShownStored DEF Evolves, Doomed
    <3>3. CASE local.failed \/ local.recGen = 0
      <4>1. Shown' = "abandoned" BY <3>1, <3>3 DEF Shown
      <4> QED BY <1>1, <1>2, <3>2, <4>1 DEF Lifecycle!Abandon, Lifecycle!Next
    <3>4. CASE ~(local.failed \/ local.recGen = 0)
      <4>1. Shown' = "removed" BY <3>1, <3>4 DEF Shown
      <4>2. Held = "no" /\ deprovisioned BY <2>3, <2>5, <3>4 DEF Honest, Gone, Held
      <4> QED BY <1>1, <1>2, <3>2, <4>1, <4>2 DEF Lifecycle!Remove, Lifecycle!Next
    <3> QED BY <3>3, <3>4
  <2>6. CASE ~(local.del /\ ~local.fin)
    <3>1. api' = local /\ api' # Absent BY <2>2, <2>4, <2>6
    <3>2. Doomed(api) => Doomed(api') BY <2>1, <2>2, <3>1 DEF Evolves, Doomed
    <3>3. api'.ready = "True" => Held = "yes"
      BY <1>1, <1>4, <2>3, <3>1 DEF Honest, OperationInv, Held
    <3>4. CASE Shown' = Shown BY <1>1, <1>2, <3>4 DEF Lifecycle!vars
    <3>5. CASE Shown' = "doomed" /\ Shown' # Shown
      <4>1. Shown \in {"pending", "ready"} BY <2>1, <3>5, ShownStored
      <4> QED BY <1>1, <1>2, <3>5, <4>1 DEF Lifecycle!Doom, Lifecycle!Next
    <3>6. CASE Shown' = "ready" /\ Shown' # Shown
      <4>1. Shown = "pending" /\ Held = "yes"
        BY <2>1, <3>1, <3>2, <3>3, <3>6, ShownStored, ShownStoredNext
      <4> QED BY <1>1, <1>2, <3>6, <4>1 DEF Lifecycle!ShowReady, Lifecycle!Next
    <3> QED BY <2>1, <3>1, <3>2, <3>4, <3>5, <3>6, ShownStored, ShownStoredNext
  <2> QED BY <2>5, <2>6
<1> QED BY <1>1, <1>3, <1>4

\* A ProvisionInstance call, whatever comes of it, happens before any release.
LEMMA ProvisionLifecycle ==
    ASSUME IInv, SInv, Call, pc = "provision"
    PROVE  Lifecycle!Next \/ UNCHANGED Lifecycle!vars
<1>1. ProvisionOutcome /\ ~deprovisioned BY ProvisionCall, ProvisionCopy
<1>2. UNCHANGED <<api, removed>> BY CallUnchanged
<1>3. deprovisioned' = deprovisioned BY CallShape DEF IInv
<1>4. Shown' = Shown BY <1>2 DEF Shown
<1>5. Held' = Held \/ (Held = "no" /\ Held' \in {"coming", "yes"})
  BY <1>1 DEF ProvisionOutcome, Held
<1> QED BY <1>1, <1>3, <1>4, <1>5 DEF Lifecycle!Acquire, Lifecycle!Next, Lifecycle!vars

\* Once the broker was asked to release, the object is doomed or gone.
LEMMA ReleasedIsDoomed ==
    ASSUME IInv, deprovisioned \/ pc = "deprovision"
    PROVE  Shown \notin {"pending", "ready"}
<1>1. Doomed(api) BY DEF IInv, StageInv, AllDoomed
<1>2. CASE api = Absent BY <1>2 DEF Shown
<1>3. CASE api # Absent BY <1>1, <1>3, ShownStored
<1> QED BY <1>2, <1>3

\* A DeprovisionInstance call releases the instance of a doomed object.
LEMMA DeprovisionLifecycle ==
    ASSUME IInv, SInv, Call, pc = "deprovision"
    PROVE  Lifecycle!Next
<1>1. DeprovisionOutcome BY DeprovisionCall
<1>2. UNCHANGED <<api, removed>> BY CallUnchanged
<1>3. Shown' = Shown /\ Shown \notin {"pending", "ready"}
  BY <1>2, ReleasedIsDoomed DEF Shown
<1>4. Held' = Held \/ (Held = "yes" /\ Held' = "no") BY <1>1 DEF DeprovisionOutcome, Held
<1>5. deprovisioned' = TRUE
  BY Zenon DEF Call, ProvisionOK, ProvisionAsync, ProvisionRejected, ProvisionAmbiguous,
         ProvisionError, DeprovisionOK, DeprovisionAsync, DeprovisionRejected,
         DeprovisionError
<1> QED BY <1>3, <1>4, <1>5 DEF Lifecycle!Release, Lifecycle!Next

\* The broker's operation ends: what was coming has come or not, or the
\* release that was asked for has happened or not.
LEMMA FinishLifecycle ==
    ASSUME IInv, SInv, OperationInv, BrokerFinish PROVE Lifecycle!Next
<1>1. UNCHANGED <<api, removed, deprovisioned>>
  BY DEF BrokerFinish, storeVars, historyVars
<1>2. Shown' = Shown BY <1>1 DEF Shown
<1>3. /\ broker \in [has : BOOLEAN, busy : {"none", "provisioning", "deprovisioning"},
                    last : {"succeeded", "failed"}]
      /\ broker.busy \in {"provisioning", "deprovisioning"}
  BY DEF BrokerFinish, IInv, TypeOK
<1>4. /\ broker'.busy = "none"
      /\ broker'.has = (broker.busy = "provisioning") \/ broker'.has = broker.has
  <2>1. CASE broker' = [has |-> broker.busy = "provisioning", busy |-> "none",
                        last |-> "succeeded"]
    BY <2>1, Zenon
  <2>2. CASE broker' = [broker EXCEPT !.busy = "none", !.last = "failed"]
    BY <1>3, <2>2
  <2> QED BY <2>1, <2>2 DEF BrokerFinish
<1>5. CASE broker.busy = "provisioning"
  <2>1. Held = "coming" /\ Held' \in {"no", "yes"} BY <1>4, <1>5 DEF Held
  <2> QED BY <1>1, <1>2, <2>1 DEF Lifecycle!Finish, Lifecycle!Next
<1>6. CASE broker.busy = "deprovisioning"
  <2>1. deprovisioned /\ deprovisioned \in BOOLEAN BY <1>6 DEF OperationInv, IInv, TypeOK
  <2>2. Shown \notin {"pending", "ready"} BY <2>1, ReleasedIsDoomed
  <2>3. Held' = Held \/ (Held = "yes" /\ Held' = "no") BY Zenon, <1>4, <1>6 DEF Held
  <2>4. deprovisioned' = TRUE BY <1>1, <2>1
  <2> QED BY <1>2, <2>2, <2>3, <2>4 DEF Lifecycle!Release, Lifecycle!Next
<1> QED BY <1>3, <1>5, <1>6

\* The user's deletion dooms the object, unless it had failed.
LEMMA DeleteLifecycle ==
    ASSUME IInv, UserDelete PROVE Lifecycle!Next \/ UNCHANGED Lifecycle!vars
<1>1. /\ api # Absent /\ api' = [api EXCEPT !.del = TRUE, !.gen = 2]
      /\ UNCHANGED <<broker, deprovisioned>>
  BY DEF UserDelete, historyVars
<1>2. api' \in Object /\ api'.del BY Zenon, <1>1 DEF IInv, TypeOK, Object
<1>3. Shown' = "doomed" BY <1>2, AbsentNoObject, ShownStoredNext DEF Doomed
<1>4. Shown \in {"doomed", "ready", "pending"} BY <1>1, ShownStored
<1>5. Held' = Held BY <1>1 DEF Held
<1> QED BY <1>1, <1>3, <1>4, <1>5 DEF Lifecycle!Doom, Lifecycle!Next, Lifecycle!vars

\* Every step of the instance is one of the life cycle's or is not seen.
LEMMA StepLifecycle ==
    ASSUME IInv, SInv, AttentionInv, OperationInv, [Next]_vars
    PROVE  [Lifecycle!Next]_Lifecycle!vars
<1> SUFFICES Lifecycle!Next \/ UNCHANGED Lifecycle!vars OBVIOUS
<1>1. ASSUME UNCHANGED <<api, removed, broker, deprovisioned>>
      PROVE  UNCHANGED Lifecycle!vars
  <2>1. Shown' = Shown /\ Held' = Held BY <1>1 DEF Shown, Held
  <2> QED BY <1>1, <2>1 DEF Lifecycle!vars
<1>2. CASE Reconcile BY <1>1, <1>2, TakenSoundly
<1>3. CASE Poll BY <1>1, <1>3, PollCases
<1>4. CASE Call
  <2>1. pc \in {"provision", "deprovision"} BY <1>4, CallShape DEF IInv
  <2> QED BY <1>4, <2>1, ProvisionLifecycle, DeprovisionLifecycle
<1>5. CASE \/ InformerEvent \/ Resync \/ RetryDue \/ RequeueForPoll \/ UserEdit
           \/ Crash \/ UNCHANGED vars
  <2>1. UNCHANGED <<api, removed, broker, deprovisioned>>
    BY <1>5 DEF InformerEvent, Resync, RetryDue, RequeueForPoll, UserEdit, Crash,
                vars, storeVars, historyVars
  <2> QED BY <1>1, <2>1
<1> QED
  BY <1>2, <1>3, <1>4, <1>5, WriteLifecycle, FinishLifecycle, DeleteLifecycle
     DEF Next, Worker, Environment

\* A new instance is the initial state of the life cycle.
LEMMA InitLifecycle == Init => Lifecycle!Init /\ OperationInv
<1> SUFFICES ASSUME Init PROVE Lifecycle!Init /\ OperationInv OBVIOUS
<1>1. /\ api = NewInstance /\ pc = "idle" /\ deprovisioned = FALSE
      /\ broker = [has |-> FALSE, busy |-> "none", last |-> "succeeded"]
  BY DEF Init
<1>2. NewInstance \in Object BY DEF NewInstance, Object
<1>3. api # Absent BY <1>1, <1>2, AbsentNoObject
<1>4. ~Doomed(api) /\ api.ready # "True" BY <1>1, <1>3 DEF NewInstance, Doomed
<1>5. Shown = "pending" BY <1>3, <1>4, ShownStored
<1>6. Held = "no" BY <1>1 DEF Held
<1> QED BY <1>1, <1>5, <1>6 DEF Lifecycle!Init, OperationInv

\* Seen from outside, the reconciler with its queues, caches, retries and
\* restarts goes through the life cycle that ResourceLifecycle promises.
THEOREM InstanceImplementsLifecycle == Spec => ImplementsLifecycle
<1>1. OperationInv /\ IInv /\ SInv /\ [Next]_vars => OperationInv' BY StepOperation
<1>2. Spec => []OperationInv
  BY <1>1, InitLifecycle, StatusInvariant, InstanceInvariant, PTL DEF Spec
<1>3. Spec => []AttentionInv
  BY InitAttention, StepAttention, StatusInvariant, InstanceInvariant, PTL DEF Spec
<1>4. IInv /\ SInv /\ AttentionInv /\ OperationInv /\ [Next]_vars
        => [Lifecycle!Next]_Lifecycle!vars
  BY StepLifecycle
<1> QED
  BY <1>2, <1>3, <1>4, InitLifecycle, StatusInvariant, InstanceInvariant, PTL
     DEF Spec, ImplementsLifecycle, Lifecycle!Spec

-----------------------------------------------------------------------------
(* With the validation of the status.                                      *)

\* What is stored is valid, and a copy that starts orphan mitigation is not.
ValidInv ==
    StatusValidation =>
      /\ \A o \in Versions : o # Absent => ValidStatus(o) /\ ~o.orphan
      /\ pc \in {"refs", "poll"} => ValidStatus(local)
      /\ pc # "idle" /\ local.orphan => pc = "write" /\ ~ValidStatus(local)

\* Only two helpers write the mark of orphan mitigation, and the one that sets
\* it clears the start time.
LEMMA OrphanMarks ==
    ASSUME NEW o \in Object, NEW st \in {"True", "False", "Unknown"}
    PROVE  /\ SetReady(o, st).orphan = o.orphan /\ SetReady(o, st).op = o.op
           /\ SetFailedUnlessOrphan(o).orphan = o.orphan
           /\ SetFailedUnlessOrphan(o).op = o.op
           /\ ClearCurrentOperation(o).orphan = FALSE
           /\ StartOrphanMitigation(o).op = o.op
           /\ StartOrphanMitigation(o).started = FALSE
  BY DEF SetReady, SetFailedUnlessOrphan, ClearCurrentOperation, StartOrphanMitigation,
         Object

\* A call of the broker marks only a copy that is not valid.
LEMMA CallMarks ==
    ASSUME IInv, SInv, Call, ~local.orphan
    PROVE  local'.orphan => ~ValidStatus(local')
<1>1. local \in Object /\ pc \in {"provision", "deprovision"}
  BY CallShape DEF IInv, TypeOK
<1>2. CASE ProvisionAmbiguous
  <2> DEFINE f == [local EXCEPT !.failed = TRUE]
             r == SetReady(f, "False")
  <2>1. pc = "provision" /\ local' = StartOrphanMitigation(r)
    BY <1>2 DEF ProvisionAmbiguous, WriteThenReturn
  <2>2. local.op = "Provision" BY <2>1, ProvisionCopy
  <2>3. f \in Object /\ f.op = local.op BY Zenon, <1>1 DEF Object
  <2> HIDE DEF f
  <2>4. r \in Object /\ r.op = f.op BY Zenon, <2>3, ReadyFields, OrphanMarks
  <2> HIDE DEF r
  <2>5. local'.op = "Provision" /\ ~local'.started BY Zenon, <2>1, <2>2, <2>3, <2>4, OrphanMarks
  <2> QED BY <2>5 DEF ValidStatus
<1>3. CASE ~ProvisionAmbiguous
  <2> DEFINE e == [local EXCEPT !.ext = local.inProg]
             a == [local EXCEPT !.async = TRUE]
             f == [local EXCEPT !.failed = TRUE]
             d == [local EXCEPT !.ext = FALSE, !.fin = ~local.del]
             s == SetReady(local, "False")
             u == SetReady(local, "Unknown")
             g == [s EXCEPT !.failed = TRUE]
  <2>1. /\ e \in Object /\ a \in Object /\ f \in Object /\ d \in Object
        /\ ~a.orphan
    BY Zenon, <1>1 DEF Object
  <2>2. /\ s \in Object /\ u \in Object /\ ~s.orphan
        /\ IInv => Coherent(u)
    BY Zenon, <1>1, ReadyFields, OrphanMarks, SetReadyEvolves DEF IInv, Evolves
  <2>3. g \in Object BY Zenon, <2>2 DEF Object
  <2>4. local' \in {SetReady(ClearCurrentOperation(e), "True"), SetReady(a, "False"),
            ClearCurrentOperation(SetReady(f, "False")), s, ClearCurrentOperation(g),
            SetReady(ClearCurrentOperation(d), "False"),
            ClearCurrentOperation(SetFailedUnlessOrphan(u)), u}
    BY Zenon, <1>3 DEF Call, ProvisionOK, ProvisionAsync, ProvisionRejected, ProvisionError,
                DeprovisionOK, DeprovisionAsync, DeprovisionRejected, DeprovisionError,
                WriteThenReturn
  <2> HIDE DEF e, a, f, d, s, g
  <2>5. ~u.orphan BY Zenon, <1>1, OrphanMarks
  <2> HIDE DEF u
  <2>6. /\ ClearCurrentOperation(e) \in Object /\ ClearCurrentOperation(d) \in Object
        /\ SetReady(f, "False") \in Object /\ SetFailedUnlessOrphan(u) \in Object
    BY Zenon, <2>1, <2>2, ClearFields, ReadyFields, FailedFields
  <2>7. /\ ~ClearCurrentOperation(e).orphan /\ ~ClearCurrentOperation(d).orphan
        /\ ~ClearCurrentOperation(SetReady(f, "False")).orphan
        /\ ~ClearCurrentOperation(g).orphan
        /\ ~ClearCurrentOperation(SetFailedUnlessOrphan(u)).orphan
    BY Zenon, <2>1, <2>3, <2>6, OrphanMarks
  <2>8. /\ ~SetReady(ClearCurrentOperation(e), "True").orphan
        /\ ~SetReady(ClearCurrentOperation(d), "False").orphan
        /\ ~SetReady(a, "False").orphan
    BY Zenon, <2>1, <2>6, <2>7, OrphanMarks
  <2> QED BY <2>2, <2>4, <2>5, <2>7, <2>8
<1> QED BY <1>2, <1>3

\* So does a poll.
LEMMA PollMarks ==
    ASSUME IInv, SInv, Poll, ~local.orphan, local.op # "none", pc' # "idle"
    PROVE  local'.orphan => ~ValidStatus(local')
<1>1. pc = "poll" BY PollCases
<1>2. local \in Object /\ Coherent(local) BY <1>1, PollCopy
<1> DEFINE f == SetFailedUnlessOrphan(local)
           a == [local EXCEPT !.async = TRUE]
           e == [local EXCEPT !.ext = local.inProg]
           o == ClearCurrentOperation(e)
           d == [o EXCEPT !.fin = @ /\ local.orphan]
           r == SetReady(local, IF Deleting(local) THEN "Unknown" ELSE "False")
<1>3. local' \in {ClearCurrentOperation(f), StartOrphanMitigation(f), SetReady(a, "False"),
                  SetReady(d, "False"), SetReady(o, "True"),
                  ClearCurrentOperation(SetFailedUnlessOrphan(r))}
  BY DEF Poll, PollStops, StopPolling, PollInProgress, PollSucceeded, PollFailed,
         PollError, PollInvalid, PollReturn, Return, WriteThenReturn
<1>4. f \in Object /\ f.op = local.op BY Zenon, <1>2, FailedFields, OrphanMarks
<1>5. a \in Object /\ ~a.orphan /\ e \in Object BY Zenon, <1>2 DEF Object
<1>6. r \in Object /\ Coherent(r) BY Zenon, <1>2, ReadyFields, SetReadyEvolves DEF Evolves
<1> HIDE DEF f, a, e, r
<1>7. o \in Object /\ ~o.orphan BY Zenon, <1>5, ClearFields, OrphanMarks
<1> HIDE DEF o
<1>8. d \in Object /\ ~d.orphan BY <1>2, <1>7 DEF Object
<1> HIDE DEF d
<1>9. SetFailedUnlessOrphan(r) \in Object BY Zenon, <1>6, FailedFields
<1>10. CASE local' = StartOrphanMitigation(f)
  <2>1. local'.op # "none" /\ ~local'.started BY Zenon, <1>4, <1>10, OrphanMarks
  <2> QED BY <2>1 DEF ValidStatus
<1>11. CASE local' # StartOrphanMitigation(f)
  <2>1. /\ ~ClearCurrentOperation(f).orphan
        /\ ~ClearCurrentOperation(SetFailedUnlessOrphan(r)).orphan
    BY Zenon, <1>4, <1>9, OrphanMarks
  <2>2. /\ ~SetReady(a, "False").orphan /\ ~SetReady(d, "False").orphan
        /\ ~SetReady(o, "True").orphan
    BY Zenon, <1>5, <1>7, <1>8, OrphanMarks
  <2> QED BY <1>3, <1>11, <2>1, <2>2
<1> QED BY <1>10, <1>11

\* What a reconciliation goes on with keeps the mark of the cached version.
LEMMA TakenMarks ==
    ASSUME IInv, SInv, Reconcile, pc' # "idle"
    PROVE  /\ cached \in Object /\ cached # Absent /\ local'.orphan = cached.orphan
           /\ pc' = "refs" => local' = [cached EXCEPT !.refs = TRUE]
<1>1. cached # Absent
  BY DEF Reconcile, ReconcileNothing, DeleteBlocked, ClearFinalizer, LookupFails,
         ClientFails, BeginPoll, BeginDeprovision, BeginProvision, TakeInstance, Return
<1>2. cached \in Object BY <1>1, CachedFacts
<1> DEFINE r == [cached EXCEPT !.refs = TRUE]
           p == [cached EXCEPT !.inProg = TRUE]
           d == [cached EXCEPT !.started = @ \/ cached.orphan]
           c == [cached EXCEPT !.fin = FALSE]
<1>3. /\ local' \in {SetReady(cached, "False"), c, cached, RecordStart(d, "Deprovision"), d,
                     RecordStart(p, "Provision"), p, r}
      /\ pc' = "refs" => local' = r
  BY DEF Reconcile, ReconcileNothing, DeleteBlocked, ClearFinalizer, LookupFails,
         ClientFails, BeginPoll, BeginDeprovision, BeginProvision, PrepareProvision,
         Return, WriteThenReturn, Continue
<1>4. /\ r.orphan = cached.orphan /\ p.orphan = cached.orphan /\ p \in Object
      /\ d.orphan = cached.orphan /\ d \in Object /\ c.orphan = cached.orphan
  BY Zenon, <1>2 DEF Object
<1> HIDE DEF r, p, d, c
<1>5. /\ RecordStart(p, "Provision").orphan = p.orphan
      /\ RecordStart(d, "Deprovision").orphan = d.orphan
      /\ SetReady(cached, "False").orphan = cached.orphan
  BY Zenon, <1>2, <1>4, StartFields, ReadyFields DEF Fields
<1> QED BY Zenon, <1>1, <1>2, <1>3, <1>4, <1>5 DEF r

\* What a write stores is valid and has no mark.
LEMMA WriteMarks ==
    ASSUME IInv, SInv, ValidInv, StatusValidation, Write
    PROVE  /\ pc # "idle"
           /\ \/ api' = api
              \/ ValidStatus(local) /\ ~local.orphan /\ fresh /\ Commit(local)
           /\ \/ pc' = "idle"
              \/ pc' \notin {"refs", "poll"} /\ ~local'.orphan
<1>1. /\ pc # "idle"
      /\ \/ api' = api
         \/ fresh /\ Commit(local) /\ (pc = "refs" \/ ValidStatus(local))
  BY DEF Write, WriteFails, UpdateReferences, RecordStartOfOperation, UpdateStatus,
         Refused, storeVars
<1>2. local \in Object BY <1>1 DEF IInv, TypeOK
<1>3. pc = "refs" => ValidStatus(local) BY DEF ValidInv
<1>4. ValidStatus(local) => ~local.orphan BY <1>1 DEF ValidInv
<1>5. pc \in {"refs", "startProvision", "startDeprovision"} => ~local.orphan BY DEF ValidInv
<1>6. CASE UpdateReferences
  <2>1. pc = "refs" BY <1>6 DEF UpdateReferences
  <2>2. CASE PrepareProvision(local)
    <3>1. ToBeProvisioned(local)
      BY <1>2, <2>1 DEF ToBeProvisioned, SInv, CopyInv, Sound
    <3>2. ToBeProvisioned(local') /\ pc' \in {"startProvision", "provision"}
      BY <2>2, <3>1, PreparedCopy
    <3> QED BY <1>1, <1>3, <1>4, <3>2 DEF ToBeProvisioned
  <2>3. CASE WriteThenReturn(SetReady(local, "False"), "err")
    <3>1. pc' = "write" /\ ~local'.orphan
      BY Zenon, <1>2, <1>5, <2>1, <2>3, OrphanMarks DEF WriteThenReturn
    <3> QED BY <1>1, <1>3, <1>4, <3>1
  <2> QED BY <1>6, <2>2, <2>3 DEF UpdateReferences
<1>7. CASE RecordStartOfOperation
  <2>1. /\ pc \in {"startProvision", "startDeprovision"} /\ local' = local
        /\ pc' \in {"provision", "deprovision"}
    BY <1>7 DEF RecordStartOfOperation, Continue
  <2> QED BY <1>1, <1>3, <1>4, <1>5, <2>1
<1>8. CASE WriteFails \/ UpdateStatus
  <2>1. pc' = "idle" BY <1>8 DEF WriteFails, UpdateStatus, Return
  <2> QED BY <1>1, <1>3, <1>4, <2>1
<1> QED BY <1>6, <1>7, <1>8 DEF Write

\* A deletion keeps the status valid.
LEMMA DeletedIsValid ==
    ASSUME NEW o \in Object, ValidStatus(o)
    PROVE  LET d == [o EXCEPT !.del = TRUE, !.gen = 2]
           IN  ValidStatus(d) /\ d.orphan = o.orphan
<1> DEFINE d == [o EXCEPT !.del = TRUE, !.gen = 2]
<1>1. /\ d.op = o.op /\ d.started = o.started /\ d.async = o.async /\ d.gen = 2
      /\ d.ready = o.ready /\ d.inProg = o.inProg /\ d.recGen = o.recGen
      /\ d.orphan = o.orphan
  BY DEF Object
<1>2. o.recGen \in {0, 1, 2} /\ o.gen \in {1, 2} BY DEF Object
<1> HIDE DEF d
<1>3. d.recGen = d.gen => o.recGen = o.gen BY <1>1, <1>2 DEF ValidStatus
<1>4. d.recGen <= d.gen BY <1>1, <1>2
<1>5. ValidStatus(d) BY <1>1, <1>3, <1>4 DEF ValidStatus
<1> QED BY <1>1, <1>5 DEF d

\* Every step keeps that invariant.
LEMMA StepValid == ASSUME IInv, SInv, ValidInv, [Next]_vars PROVE ValidInv'
<1> SUFFICES ASSUME StatusValidation PROVE ValidInv' BY DEF ValidInv
<1> DEFINE Fine(o) == o # Absent => ValidStatus(o) /\ ~o.orphan
           CopyFine == /\ pc \in {"refs", "poll"} => ValidStatus(local)
                       /\ pc # "idle" /\ local.orphan => pc = "write" /\ ~ValidStatus(local)
<1>1. (\A o \in Versions : Fine(o)) /\ Fine(api) /\ CopyFine BY DEF ValidInv, Versions
<1>2. ASSUME Fine(api'), CopyFine' PROVE ValidInv'
  <2>1. \A o \in Versions' : Fine(o) BY <1>1, <1>2, VersionsStep
  <2> QED BY <1>2, <2>1 DEF ValidInv
<1>3. CASE Reconcile
  <2>1. api' = api BY <1>3, TakenSoundly
  <2>2. CASE pc' = "idle" BY <1>1, <1>2, <2>1, <2>2
  <2>3. CASE pc' # "idle"
    <3>1. /\ cached \in Object /\ cached # Absent /\ local'.orphan = cached.orphan
          /\ pc' = "refs" => local' = [cached EXCEPT !.refs = TRUE]
      BY <1>3, <2>3, TakenMarks
    <3>2. ValidStatus(cached) /\ ~cached.orphan BY <1>1, <3>1 DEF Versions
    <3>3. ValidStatus([cached EXCEPT !.refs = TRUE])
      BY <3>1, <3>2 DEF ValidStatus, Object
    <3>4. pc' = "poll" => local' = cached BY <1>3, <2>3, TakenSoundly DEF Returned, TakesSoundly
    <3> QED BY Zenon, <1>1, <1>2, <2>1, <3>1, <3>2, <3>3, <3>4
  <2> QED BY <2>2, <2>3
<1>4. CASE Write
  <2>1. Fine(api')
    <3>1. CASE api' = api BY <1>1, <3>1
    <3>2. CASE ValidStatus(local) /\ ~local.orphan /\ fresh /\ Commit(local)
      <4>1. api' = Absent \/ api' = local BY <3>2 DEF Commit
      <4> QED BY <3>2, <4>1
    <3> QED BY <1>4, <3>1, <3>2, WriteMarks
  <2>2. CopyFine' BY <1>4, WriteMarks
  <2> QED BY <1>2, <2>1, <2>2
<1>5. CASE Call
  <2>1. api' = api /\ pc' = "write" BY <1>5, CallUnchanged
  <2>2. pc \in {"provision", "deprovision"} BY <1>5, CallShape DEF IInv
  <2>3. ~local.orphan BY <1>1, <2>2
  <2>4. local'.orphan => ~ValidStatus(local') BY <1>5, <2>3, CallMarks
  <2> QED BY <1>1, <1>2, <2>1, <2>4
<1>6. CASE Poll
  <2>1. pc = "poll" /\ api' = api /\ (pc' = "idle" \/ pc' = "write")
    BY Zenon, <1>6, PollCases DEF Return
  <2>2. ~local.orphan BY <1>1, <2>1
  <2>3. CASE pc' = "idle" BY <1>1, <1>2, <2>1, <2>3
  <2>4. CASE pc' = "write"
    <3>1. local.op # "none" BY <1>1, <2>1, PollCopy DEF ValidStatus
    <3>2. local'.orphan => ~ValidStatus(local') BY <1>6, <2>2, <2>4, <3>1, PollMarks
    <3> QED BY <1>1, <1>2, <2>1, <2>4, <3>2
  <2> QED BY <2>1, <2>3, <2>4
<1>7. CASE UserDelete
  <2>1. /\ api # Absent /\ api' = [api EXCEPT !.del = TRUE, !.gen = 2]
        /\ UNCHANGED <<pc, local>>
    BY <1>7 DEF UserDelete
  <2>2. api \in Object BY <2>1 DEF IInv, TypeOK
  <2>3. Fine(api') BY Zenon, <1>1, <2>1, <2>2, DeletedIsValid
  <2>4. CopyFine' BY <1>1, <2>1
  <2> QED BY <1>2, <2>3, <2>4
<1>8. CASE \/ InformerEvent \/ Resync \/ RetryDue \/ RequeueForPoll \/ UserEdit
           \/ Crash \/ BrokerFinish \/ UNCHANGED vars
  <2>1. api' = api /\ (pc' = "idle" \/ UNCHANGED <<pc, local>>)
    BY <1>8 DEF InformerEvent, Resync, RetryDue, RequeueForPoll, UserEdit, Crash,
                BrokerFinish, vars, storeVars, workerVars
  <2>2. CopyFine' BY <1>1, <2>1
  <2> QED BY <1>1, <1>2, <2>1, <2>2
<1> QED
  BY <1>3, <1>4, <1>5, <1>6, <1>7, <1>8 DEF Next, Worker, Environment

\* A fresh copy of a stuck deletion only reports something, or is refused.
StuckInv ==
    StatusValidation /\ StuckDeletion /\ pc # "idle" /\ fresh =>
      \/ pc = "write" /\ local.fin /\ ~local.failed
      \/ pc = "startDeprovision" /\ ~ValidStatus(local)

\* What is known of a stuck deletion.
LEMMA StuckFields ==
    ASSUME NEW o \in Object, o.del, o.recGen = 2, o.recGen <= o.gen
    PROVE  o.gen = 2 /\ (ValidStatus(o) => o.op = "none" /\ ~o.async)
<1>1. o.gen = 2 BY DEF Object
<1> QED BY <1>1 DEF ValidStatus

\* A reconciliation of one.
LEMMA StuckTaken ==
    ASSUME IInv, SInv, ValidInv, StatusValidation, StuckDeletion, Reconcile,
           pc' # "idle", fresh'
    PROVE  \/ pc' = "write" /\ local'.fin /\ ~local'.failed
           \/ pc' = "startDeprovision" /\ ~ValidStatus(local')
<1>1. cached # Absent /\ fresh' = (watch = <<>>)
  BY Zenon, TakenSoundly DEF Returned, TakesSoundly
<1>2. cached = api BY Zenon, <1>1 DEF IInv, VersionsInv, UpToDate
<1>3. /\ cached \in Object /\ cached.fin /\ cached.recGen <= cached.gen
      /\ cached.del /\ cached.recGen = 2 /\ ~cached.failed
      /\ ValidStatus(cached) /\ ~cached.orphan
  BY <1>1, <1>2, CachedFacts DEF StuckDeletion, ValidInv
<1>4. cached.gen = 2 /\ cached.op = "none" /\ ~cached.async BY <1>3, StuckFields
<1>5. CASE DeleteBlocked \/ LookupFails
  <2>1. pc' = "write" /\ local' = SetReady(cached, "False")
    BY <1>5 DEF DeleteBlocked, LookupFails, WriteThenReturn
  <2> QED BY <1>3, <2>1, ReadyFields DEF Fields
<1>6. CASE BeginDeprovision
  <2> DEFINE d == [cached EXCEPT !.started = @ \/ cached.orphan]
  <2>1. d \in Object /\ Fields(d) = Fields(cached)
    BY Zenon, <1>3 DEF Object, Fields
  <2>2. d.op = "none" /\ d.recGen = 2 /\ d.gen = 2 BY <1>3, <1>4, <2>1 DEF Fields
  <2>3. pc' = "startDeprovision" /\ local' = RecordStart(d, "Deprovision")
    BY <1>6, <2>2 DEF BeginDeprovision, Continue
  <2> HIDE DEF d
  <2>4. local'.op = "Deprovision" /\ local'.recGen = 2 /\ local'.gen = 2
    BY Zenon, <2>1, <2>2, <2>3, StartFields DEF Fields
  <2> QED BY <2>3, <2>4 DEF ValidStatus
<1>7. ~ClearFinalizer /\ ~BeginPoll /\ ~BeginProvision
  BY <1>3, <1>4 DEF ClearFinalizer, BeginPoll, BeginProvision, NothingToDeprovision,
                    ToProvision
<1>8. ~ReconcileNothing /\ ~ClientFails BY DEF ReconcileNothing, ClientFails, Return
<1> QED BY <1>5, <1>6, <1>7, <1>8 DEF Reconcile

\* A write of one: it stays what it is.
LEMMA StuckWrite ==
    ASSUME IInv, SInv, ValidInv, StuckInv, StatusValidation, Write
    PROVE  /\ StuckDeletion => StuckDeletion'
           /\ pc' # "idle" /\ fresh' => ~StuckDeletion'
<1>1. /\ pc # "idle" /\ cached' = cached
      /\ api' = api \/ (ValidStatus(local) /\ fresh /\ Commit(local))
  BY WriteMarks, WriteShape DEF IInv
<1>2. ASSUME ValidStatus(local), fresh, Commit(local), StuckDeletion PROVE StuckDeletion'
  <2>1. pc = "write" /\ local.fin /\ ~local.failed BY <1>1, <1>2 DEF StuckInv
  <2>2. Evolves(api, local) /\ api' = local /\ local \in Object /\ api \in Object
    BY Zenon, <1>1, <1>2, <2>1, CommitShape DEF IInv, TypeOK
  <2>3. local.recGen = 2 /\ local.del BY <1>2, <2>2 DEF Evolves, StuckDeletion, Object
  <2>4. local # Absent BY <2>2, AbsentNoObject
  <2> QED BY <2>1, <2>2, <2>3, <2>4 DEF StuckDeletion
<1>3. ASSUME pc' # "idle", fresh', StuckDeletion' PROVE FALSE
  <2>1. ValidStatus(local) /\ fresh /\ Commit(local)
    <3>1. pc' # "idle" => fresh /\ Commit(local) /\ (pc = "refs" \/ ValidStatus(local))
      BY DEF Write, WriteFails, UpdateReferences, RecordStartOfOperation, UpdateStatus,
             Return, Refused
    <3> QED BY <1>3, <3>1 DEF ValidInv
  <2>2. pc \in {"refs", "startProvision", "startDeprovision"}
    BY Zenon, <1>3 DEF Write, WriteFails, UpdateReferences, RecordStartOfOperation, UpdateStatus,
                Return
  <2>3. local \in Object /\ local # Absent /\ local.recGen <= local.gen
    BY <1>1, AbsentNoObject DEF IInv, TypeOK, Coherent
  <2>4. api' = local BY <1>3, <2>1 DEF Commit, StuckDeletion
  <2>5. local.del /\ local.recGen = 2 BY <1>3, <2>4 DEF StuckDeletion
  <2>6. local.op = "none" BY <2>1, <2>3, <2>5, StuckFields
  <2> QED BY <2>2, <2>5, <2>6 DEF SInv, CopyInv
<1>4. api' = api => (StuckDeletion => StuckDeletion') BY DEF StuckDeletion
<1> QED BY <1>1, <1>2, <1>3, <1>4

\* Every step keeps a stuck deletion, and what is known of its copies.
LEMMA StepStuck ==
    ASSUME IInv, SInv, ValidInv, StuckInv, [Next]_vars
    PROVE  StuckInv' /\ (StatusValidation /\ StuckDeletion => StuckDeletion')
<1> SUFFICES ASSUME StatusValidation
             PROVE  StuckInv' /\ (StuckDeletion => StuckDeletion')
  BY DEF StuckInv
<1>1. ASSUME api' = api PROVE StuckDeletion' <=> StuckDeletion
  BY <1>1 DEF StuckDeletion
<1>2. CASE Reconcile
  <2>1. api' = api BY <1>2, TakenSoundly
  <2> QED BY <1>1, <1>2, <2>1, StuckTaken DEF StuckInv
<1>3. CASE Write BY <1>3, StuckWrite DEF StuckInv
<1>4. CASE Call
  <2>1. api' = api /\ fresh' = fresh BY <1>4, CallUnchanged
  <2>2. pc \in {"provision", "deprovision"} BY <1>4, CallShape DEF IInv
  <2> QED BY <1>1, <2>1, <2>2 DEF StuckInv
<1>5. CASE Poll
  <2>1. pc = "poll" /\ api' = api /\ (pc' = "idle" \/ fresh' = fresh)
    BY Zenon, <1>5, PollCases DEF Return
  <2> QED BY <1>1, <2>1 DEF StuckInv
<1>6. CASE UserDelete
  <2>1. ~api.del /\ fresh' = FALSE BY <1>6 DEF UserDelete
  <2> QED BY <2>1 DEF StuckInv, StuckDeletion
<1>7. CASE \/ InformerEvent \/ Resync \/ RetryDue \/ RequeueForPoll \/ UserEdit
           \/ Crash \/ BrokerFinish \/ UNCHANGED vars
  <2>1. /\ api' = api
        /\ \/ pc' = "idle" \/ fresh' = FALSE
           \/ UNCHANGED <<pc, local, fresh>>
    BY <1>7 DEF InformerEvent, Resync, RetryDue, RequeueForPoll, UserEdit, Crash,
                BrokerFinish, vars, storeVars, workerVars
  <2> QED BY <1>1, <2>1 DEF StuckInv
<1> QED BY <1>2, <1>3, <1>4, <1>5, <1>6, <1>7 DEF Next, Worker, Environment

\* A new instance has a valid status.
LEMMA InitValid == Init => ValidInv /\ StuckInv
<1> SUFFICES ASSUME Init PROVE ValidInv /\ StuckInv OBVIOUS
<1>1. /\ api = NewInstance /\ watch = <<NewInstance>> /\ cached = Absent /\ pc = "idle"
  BY DEF Init
<1>2. Len(watch) = 1 /\ watch[1] = NewInstance BY <1>1
<1>3. \A o \in Versions : o = NewInstance BY <1>1, <1>2 DEF Versions
<1>4. ValidStatus(NewInstance) /\ ~NewInstance.orphan
  <2>1. /\ NewInstance.op = "none" /\ NewInstance.gen = 1 /\ NewInstance.recGen = 0
        /\ ~NewInstance.started /\ ~NewInstance.async /\ ~NewInstance.inProg /\ ~NewInstance.orphan
    BY Zenon DEF NewInstance
  <2> QED BY <2>1 DEF ValidStatus
<1> QED BY <1>1, <1>3, <1>4 DEF ValidInv, StuckInv

\* Where the status is validated, no orphan mitigation is ever stored, whatever
\* the broker answers and however often the call is repeated.
THEOREM NoMitigationIsStored == Spec => []MitigationNeverStored
<1>1. ValidInv => MitigationNeverStored BY DEF ValidInv, MitigationNeverStored, Versions
<1>2. IInv /\ SInv /\ ValidInv /\ [Next]_vars => ValidInv' BY StepValid
<1> QED BY <1>1, <1>2, InitValid, StatusInvariant, InstanceInvariant, PTL DEF Spec

\* Where the status is validated, an instance whose deletion is recorded as
\* reconciled is never removed.
THEOREM StuckDeletionStays == Spec => StuckForGood
<1>1. IInv /\ SInv /\ ValidInv /\ [Next]_vars => ValidInv' BY StepValid
<1>2. IInv /\ SInv /\ ValidInv /\ StuckInv /\ [Next]_vars
        => StuckInv' /\ [StatusValidation /\ StuckDeletion => StuckDeletion']_vars
  BY StepStuck
<1> QED
  BY <1>1, <1>2, InitValid, StatusInvariant, InstanceInvariant, PTL
     DEF Spec, StuckForGood
=============================================================================
