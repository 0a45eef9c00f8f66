--------------------------- MODULE WorkQueueProofs ---------------------------
(***************************************************************************)
(* For every set of keys and of workers and every retry limit: the types,  *)
(* mutual exclusion of reconcilers, the exactness of the queue, and that   *)
(* the queue implements the abstract scheduler.                            *)
(*                                                                         *)
(* Mutual exclusion is not inductive by itself: Get hands out the head of  *)
(* the queue, so one must know that no queued key is being processed, and  *)
(* that every busy worker's key is.  QInv says that, index by index.       *)
(***************************************************************************)
EXTENDS WorkQueue, TLAPS

\* Every busy worker holds a key that is marked as being processed, and no
\* two busy workers hold the same one.
HoldInv ==
    /\ \A w \in Workers : Busy(w) => key[w] \in processing
    /\ \A v, w \in Workers : Busy(v) /\ Busy(w) /\ key[v] = key[w] => v = w

\* The three halves of QueueIsPendingWork, over the indices of the queue.
QueuedIsPending == \A i \in 1..Len(queue) : queue[i] \in dirty \ processing
PendingIsQueued == \A k \in dirty \ processing : \E i \in 1..Len(queue) : queue[i] = k
QueuedOnce == \A i, j \in 1..Len(queue) : queue[i] = queue[j] => i = j

IndexInv == QueuedIsPending /\ PendingIsQueued /\ QueuedOnce

QInv == TypeOK /\ HoldInv /\ IndexInv

-----------------------------------------------------------------------------
(* Facts about the queue's own operations.                                 *)

\* Appending a key that is not queued keeps the elements distinct and adds
\* exactly that key.
LEMMA AppendFacts ==
    ASSUME NEW S, NEW q \in Seq(S), NEW k \in S
    PROVE  /\ Append(q, k) \in Seq(S)
           /\ Len(Append(q, k)) = Len(q) + 1
           /\ Append(q, k)[Len(q) + 1] = k
           /\ \A i \in 1..Len(q) : Append(q, k)[i] = q[i]
  OBVIOUS

\* Taking the head leaves the other elements, one place earlier.
LEMMA TailFacts ==
    ASSUME NEW S, NEW q \in Seq(S), q # <<>>
    PROVE  /\ Head(q) \in S /\ Head(q) = q[1] /\ Len(q) >= 1
           /\ Tail(q) \in Seq(S)
           /\ Len(Tail(q)) = Len(q) - 1
           /\ \A i \in 1..Len(q) - 1 : Tail(q)[i] = q[i + 1]
  OBVIOUS

\* Add keeps the three components of the queue well typed.
LEMMA QueueAddTypes ==
    ASSUME TypeOK, NEW k \in Keys, QueueAdd(k)
    PROVE  /\ queue' \in Seq(Keys)
           /\ dirty' \in SUBSET Keys
           /\ processing' \in SUBSET Keys
<1>1. queue' \in Seq(Keys)
  <2>1. queue' = queue \/ queue' = Append(queue, k) BY DEF QueueAdd, queueVars
  <2> QED BY <2>1 DEF TypeOK
<1>2. dirty' \in SUBSET Keys
  <2>1. dirty' = dirty \/ dirty' = dirty \cup {k} BY DEF QueueAdd, queueVars
  <2> QED BY <2>1 DEF TypeOK
<1>3. processing' \in SUBSET Keys BY DEF QueueAdd, TypeOK, queueVars
<1> QED BY <1>1, <1>2, <1>3

\* Type correctness of every step.
LEMMA TypeStep == ASSUME TypeOK, HoldInv, [Next]_vars PROVE TypeOK'
<1> USE QueueAssumption DEF TypeOK, queueVars
<1>1. ASSUME NEW k \in Keys, Add(k) PROVE TypeOK'
  BY <1>1, QueueAddTypes DEF Add
<1>2. ASSUME NEW k \in Keys, DelayElapsed(k) PROVE TypeOK'
  BY <1>2, QueueAddTypes DEF DelayElapsed
<1>3. ASSUME NEW w \in Workers, Get(w) PROVE TypeOK'
  BY <1>3 DEF Get
<1>4. ASSUME NEW w \in Workers, Quit(w) PROVE TypeOK'
  BY <1>4 DEF Quit
<1>5. ASSUME NEW w \in Workers, ReconcileOK(w) PROVE TypeOK'
  BY <1>5 DEF ReconcileOK, Forget
<1>6. ASSUME NEW w \in Workers, ReconcileRetry(w) PROVE TypeOK'
  <2>1. key[w] \in Keys BY <1>6 DEF ReconcileRetry, HoldInv, Busy
  <2> QED BY <1>6, <2>1 DEF ReconcileRetry, AddRateLimited
<1>7. ASSUME NEW w \in Workers, ReconcileDrop(w) PROVE TypeOK'
  BY Zenon, <1>7 DEF ReconcileDrop, Forget
<1>8. ASSUME NEW w \in Workers, Done(w) PROVE TypeOK'
  <2>1. key[w] \in Keys BY <1>8 DEF Done, HoldInv, Busy
  <2> QED BY <1>8, <2>1 DEF Done, QueueDone
<1>9. CASE ShutDown BY <1>9 DEF ShutDown
<1>10. CASE UNCHANGED vars BY <1>10 DEF vars
<1> QED
  BY <1>1, <1>2, <1>3, <1>4, <1>5, <1>6, <1>7, <1>8, <1>9, <1>10
  DEF Next, Worker

-----------------------------------------------------------------------------
(* Preservation of HoldInv.                                                *)

\* Every step keeps HoldInv.
LEMMA HoldStep == ASSUME QInv, [Next]_vars PROVE HoldInv'
<1> USE QInv DEF QInv, TypeOK, HoldInv, Busy, queueVars
<1>1. ASSUME NEW k \in Keys, Add(k) PROVE HoldInv'
  BY <1>1 DEF Add, QueueAdd
<1>2. ASSUME NEW k \in Keys, DelayElapsed(k) PROVE HoldInv'
  BY <1>2 DEF DelayElapsed, QueueAdd
<1>3. ASSUME NEW w \in Workers, Get(w) PROVE HoldInv'
  <2>1. Head(queue) \notin processing
    BY <1>3 DEF Get, IndexInv, QueuedIsPending
  <2>2. \A v \in Workers : Busy(v)' => v = w \/ Busy(v)
    BY <1>3 DEF Get
  <2>3. \A v \in Workers : v # w => key'[v] = key[v]
    BY <1>3 DEF Get
  <2>4. key'[w] = Head(queue) /\ processing' = processing \cup {Head(queue)}
    BY <1>3 DEF Get
  <2> QED BY <2>1, <2>2, <2>3, <2>4
<1>4. ASSUME NEW w \in Workers, Quit(w) PROVE HoldInv'
  BY <1>4 DEF Quit
<1>5. ASSUME NEW w \in Workers, ReconcileOK(w) PROVE HoldInv'
  BY <1>5 DEF ReconcileOK
<1>6. ASSUME NEW w \in Workers, ReconcileRetry(w) PROVE HoldInv'
  BY <1>6 DEF ReconcileRetry
<1>7. ASSUME NEW w \in Workers, ReconcileDrop(w) PROVE HoldInv'
  BY <1>7 DEF ReconcileDrop
<1>8. ASSUME NEW w \in Workers, Done(w) PROVE HoldInv'
  <2>1. processing' = processing \ {key[w]}
    BY <1>8 DEF Done, QueueDone
  <2>2. \A v \in Workers : Busy(v)' => v # w /\ Busy(v) /\ key'[v] = key[v]
    BY <1>8 DEF Done
  <2>3. Busy(w) BY <1>8 DEF Done
  <2> QED BY <2>1, <2>2, <2>3
<1>9. CASE ShutDown BY <1>9 DEF ShutDown
<1>10. CASE UNCHANGED vars BY <1>10 DEF vars
<1> QED
  BY <1>1, <1>2, <1>3, <1>4, <1>5, <1>6, <1>7, <1>8, <1>9, <1>10
  DEF Next, Worker

-----------------------------------------------------------------------------
(* Preservation of IndexInv.                                               *)

\* Appending a pending key that is not queued yet keeps the queue exact:
\* the common part of Add and Done.
LEMMA AppendIndex ==
    ASSUME TypeOK, IndexInv, NEW k \in Keys, k \notin dirty \ processing,
           queue' = Append(queue, k),
           dirty' \ processing' = (dirty \ processing) \cup {k}
    PROVE  IndexInv'
<1> DEFINE q == Append(queue, k)
<1>1. /\ Len(q) = Len(queue) + 1 /\ q[Len(queue) + 1] = k
      /\ \A i \in 1..Len(queue) : q[i] = queue[i]
      /\ Len(queue) \in Nat
  BY AppendFacts DEF TypeOK
<1>2. \A i \in 1..Len(q) : i = Len(queue) + 1 \/ i \in 1..Len(queue)
  BY <1>1
<1>3. queue' = q OBVIOUS
<1> HIDE DEF q
<1>4. QueuedIsPending'
  BY <1>1, <1>2, <1>3 DEF QueuedIsPending, IndexInv
<1>5. PendingIsQueued'
  <2> SUFFICES ASSUME NEW x \in dirty' \ processing'
               PROVE  \E i \in 1..Len(q) : q[i] = x
    BY <1>3 DEF PendingIsQueued
  <2>1. CASE x = k BY <2>1, <1>1
  <2>2. CASE x \in dirty \ processing
    <3>1. PICK i \in 1..Len(queue) : queue[i] = x
      BY <2>2 DEF PendingIsQueued, IndexInv
    <3>2. i \in 1..Len(q) /\ q[i] = x BY <3>1, <1>1
    <3> QED BY <3>2
  <2> QED BY <2>1, <2>2
<1>6. QueuedOnce'
  <2>1. \A i \in 1..Len(queue) : q[i] # k
    BY <1>1 DEF QueuedIsPending, IndexInv
  <2> QED BY <2>1, <1>1, <1>2, <1>3 DEF QueuedOnce, IndexInv
<1> QED BY <1>4, <1>5, <1>6 DEF IndexInv

\* Add appends a key that is not in the queue.
LEMMA QueueAddIndex == ASSUME QInv, NEW k \in Keys, QueueAdd(k) PROVE IndexInv'
<1> USE QInv DEF QInv
<1>1. CASE UNCHANGED queueVars
  BY <1>1 DEF queueVars, IndexInv, QueuedIsPending, PendingIsQueued, QueuedOnce
<1>2. CASE /\ k \notin dirty /\ k \in processing /\ processing' = processing
           /\ dirty' = dirty \cup {k} /\ queue' = queue
  <2>1. dirty' \ processing' = dirty \ processing BY <1>2
  <2> QED
    BY <1>2, <2>1 DEF IndexInv, QueuedIsPending, PendingIsQueued, QueuedOnce
<1>3. CASE /\ k \notin dirty /\ k \notin processing /\ processing' = processing
           /\ dirty' = dirty \cup {k} /\ queue' = Append(queue, k)
  BY <1>3, AppendIndex
<1> QED BY <1>1, <1>2, <1>3 DEF QueueAdd

\* Get takes the first key and shifts the others.
LEMMA GetIndex == ASSUME QInv, NEW w \in Workers, Get(w) PROVE IndexInv'
<1> USE QInv DEF QInv, TypeOK, IndexInv
<1>1. /\ Head(queue) = queue[1] /\ Len(queue) \in Nat /\ Len(queue) >= 1
      /\ Len(Tail(queue)) = Len(queue) - 1
      /\ \A i \in 1..Len(queue) - 1 : Tail(queue)[i] = queue[i + 1]
  BY TailFacts DEF Get
<1> DEFINE q == Tail(queue)
<1>2. /\ queue' = q /\ dirty' = dirty \ {queue[1]}
      /\ processing' = processing \cup {queue[1]}
  BY <1>1 DEF Get
<1>3. \A i \in 1..Len(q) : /\ i \in 1..Len(queue) - 1 /\ i + 1 \in 1..Len(queue)
                            /\ q[i] = queue[i + 1] /\ i + 1 # 1
  BY <1>1
<1>4. \A i \in 1..Len(queue) : i # 1 => i - 1 \in 1..Len(q) /\ q[i - 1] = queue[i]
  BY <1>1
<1>5. 1 \in 1..Len(queue) BY <1>1
<1> HIDE DEF q
<1>6. QueuedIsPending'
  BY <1>2, <1>3, <1>5 DEF QueuedIsPending, QueuedOnce
<1>7. PendingIsQueued'
  <2> SUFFICES ASSUME NEW x \in dirty' \ processing'
               PROVE  \E i \in 1..Len(q) : q[i] = x
    BY <1>2 DEF PendingIsQueued
  <2>1. PICK i \in 1..Len(queue) : queue[i] = x
    BY <1>2 DEF PendingIsQueued
  <2>2. i # 1 BY <2>1, <1>2
  <2> QED BY Zenon, <2>1, <2>2, <1>4
<1>8. QueuedOnce'
  <2> SUFFICES ASSUME NEW i \in 1..Len(q), NEW j \in 1..Len(q), q[i] = q[j]
               PROVE  i = j
    BY <1>2 DEF QueuedOnce
  <2>1. i + 1 = j + 1 BY Zenon, <1>3 DEF QueuedOnce
  <2> QED BY <2>1
<1> QED BY <1>6, <1>7, <1>8

\* Done appends a key that was being processed, so was not in the queue.
LEMMA DoneIndex == ASSUME QInv, NEW w \in Workers, Done(w) PROVE IndexInv'
<1> USE QInv DEF QInv
<1>1. key[w] \in processing /\ key[w] \in Keys
  BY DEF Done, HoldInv, Busy, TypeOK
<1>2. processing' = processing \ {key[w]} /\ dirty' = dirty
  BY DEF Done, QueueDone
<1>3. CASE key[w] \in dirty
  <2>1. queue' = Append(queue, key[w]) BY <1>3 DEF Done, QueueDone
  <2>2. dirty' \ processing' = (dirty \ processing) \cup {key[w]} BY <1>2, <1>3
  <2> QED BY <1>1, <2>1, <2>2, AppendIndex
<1>4. CASE key[w] \notin dirty
  <2>1. queue' = queue BY <1>4 DEF Done, QueueDone
  <2>2. dirty' \ processing' = dirty \ processing BY <1>2, <1>4
  <2> QED
    BY <2>1, <2>2 DEF IndexInv, QueuedIsPending, PendingIsQueued, QueuedOnce
<1> QED BY <1>3, <1>4

\* Every step keeps IndexInv.
LEMMA IndexStep == ASSUME QInv, [Next]_vars PROVE IndexInv'
<1>1. ASSUME UNCHANGED queueVars PROVE IndexInv'
  BY <1>1, QInv
  DEF QInv, queueVars, IndexInv, QueuedIsPending, PendingIsQueued, QueuedOnce
<1>2. ASSUME NEW k \in Keys, Add(k) PROVE IndexInv'
  BY <1>2, QInv, QueueAddIndex DEF Add
<1>3. ASSUME NEW k \in Keys, DelayElapsed(k) PROVE IndexInv'
  BY <1>3, QInv, QueueAddIndex DEF DelayElapsed
<1>4. ASSUME NEW w \in Workers, Worker(w), ~Get(w), ~Done(w)
      PROVE  UNCHANGED queueVars
  BY <1>4 DEF Worker, Quit, ReconcileOK, ReconcileRetry, ReconcileDrop
<1>5. ShutDown \/ UNCHANGED vars => UNCHANGED queueVars
  BY DEF ShutDown, vars, queueVars
<1>6. ASSUME NEW w \in Workers, Worker(w) PROVE IndexInv'
  BY <1>1, <1>4, <1>6, QInv, GetIndex, DoneIndex
<1> QED BY <1>1, <1>2, <1>3, <1>5, <1>6 DEF Next

-----------------------------------------------------------------------------
(* The theorems.                                                           *)

\* QInv is an invariant: the strengthening the others follow from.
THEOREM QueueInvariant == Spec => []QInv
<1>1. Init => QInv
  <2> SUFFICES ASSUME Init PROVE QInv OBVIOUS
  <2>1. TypeOK
    <3>1. queue \in Seq(Keys) BY DEF Init
    <3>2. failures \in [Keys -> Nat] BY DEF Init
    <3>3. /\ pc \in [Workers -> {"get", "reconcile", "done", "exited"}]
          /\ key \in [Workers -> Keys \cup {NoKey}]
      BY DEF Init
    <3> QED BY Zenon, <3>1, <3>2, <3>3 DEF Init, TypeOK
  <2>2. HoldInv BY DEF Init, HoldInv, Busy
  <2>3. Len(queue) = 0 BY DEF Init
  <2>4. IndexInv
    BY <2>3 DEF Init, IndexInv, QueuedIsPending, PendingIsQueued, QueuedOnce
  <2> QED BY <2>1, <2>2, <2>4 DEF QInv
<1>2. QInv /\ [Next]_vars => QInv'
  BY TypeStep, HoldStep, IndexStep DEF QInv
<1> QED BY <1>1, <1>2, PTL DEF Spec

\* The queue's variables keep their types.
THEOREM TypeCorrect == Spec => []TypeOK
<1>1. QInv => TypeOK BY DEF QInv
<1> QED BY <1>1, QueueInvariant, PTL

\* No two workers ever run the reconciler on the same key, for any number
\* of keys and workers.
THEOREM MutualExclusion == Spec => []NoConcurrentReconcile
<1>1. QInv => NoConcurrentReconcile
  BY DEF QInv, HoldInv, Busy, NoConcurrentReconcile
<1> QED BY <1>1, QueueInvariant, PTL

\* The queue never loses, invents or repeats a key.
THEOREM QueueExact == Spec => []QueueIsPendingWork
<1>1. QInv => QueueIsPendingWork
  <2> SUFFICES ASSUME QInv PROVE QueueIsPendingWork OBVIOUS
  <2>1. DOMAIN queue = 1..Len(queue) BY DEF QInv, TypeOK
  <2>2. {queue[i] : i \in DOMAIN queue} \subseteq dirty \ processing
    BY <2>1 DEF QInv, IndexInv, QueuedIsPending
  <2>3. dirty \ processing \subseteq {queue[i] : i \in DOMAIN queue}
    <3> SUFFICES ASSUME NEW k \in dirty \ processing
                 PROVE  k \in {queue[i] : i \in DOMAIN queue}
      OBVIOUS
    <3>1. PICK i \in 1..Len(queue) : queue[i] = k
      BY DEF QInv, IndexInv, PendingIsQueued
    <3> QED BY <3>1, <2>1
  <2>4. \A i, j \in DOMAIN queue : queue[i] = queue[j] => i = j
    BY <2>1 DEF QInv, IndexInv, QueuedOnce
  <2> QED BY <2>2, <2>3, <2>4 DEF QueueIsPendingWork
<1> QED BY <1>1, QueueInvariant, PTL

\* The failure count of a key is bounded, and a key that has failed is always
\* on its way to a retry.
THEOREM RetriesExact == Spec => []FailedKeyIsRetried
<1>1. Init => FailedKeyIsRetried
  <2> SUFFICES ASSUME Init PROVE FailedKeyIsRetried OBVIOUS
  <2>1. MaxRetries \in Nat BY QueueAssumption DEF QueueAssumption
  <2>2. 0 <= MaxRetries /\ ~(0 > 0) BY <2>1
  <2>3. \A k \in Keys : failures[k] = 0 BY Zenon DEF Init
  <2> QED BY Zenon, <2>2, <2>3 DEF FailedKeyIsRetried
<1>2. QInv /\ FailedKeyIsRetried /\ [Next]_vars => FailedKeyIsRetried'
  <2> SUFFICES ASSUME QInv, FailedKeyIsRetried, [Next]_vars
               PROVE  FailedKeyIsRetried'
    OBVIOUS
  <2> USE QueueAssumption DEF QueueAssumption, QInv, TypeOK, FailedKeyIsRetried, queueVars
  <2>1. ASSUME NEW k \in Keys, Add(k) PROVE FailedKeyIsRetried'
    <3>1. dirty \subseteq dirty' BY <2>1 DEF Add, QueueAdd
    <3> QED BY <2>1, <3>1 DEF Add
  <2>2. ASSUME NEW k \in Keys, DelayElapsed(k) PROVE FailedKeyIsRetried'
    <3>1. dirty \subseteq dirty' /\ k \in dirty'
      BY <2>2 DEF DelayElapsed, QueueAdd
    <3> QED BY <2>2, <3>1 DEF DelayElapsed
  <2>3. ASSUME NEW w \in Workers, Get(w) PROVE FailedKeyIsRetried'
    <3> SUFFICES ASSUME NEW k \in Keys, failures[k] > 0, ForgetAfterSuccess, ~shuttingDown,
                        k \notin waiting' \cup dirty'
                 PROVE  \E v \in Workers : pc'[v] = "reconcile" /\ key'[v] = k
      BY <2>3 DEF Get
    <3>1. CASE k = Head(queue) BY <2>3, <3>1 DEF Get
    <3>2. CASE k # Head(queue)
      <4>1. PICK v \in Workers : pc[v] = "reconcile" /\ key[v] = k
        BY <2>3, <3>2 DEF Get
      <4> QED BY <2>3, <4>1 DEF Get
    <3> QED BY <3>1, <3>2
  <2>4. ASSUME NEW w \in Workers, Quit(w) PROVE FailedKeyIsRetried'
    BY <2>4 DEF Quit
  <2>5. ASSUME NEW w \in Workers, pc[w] = "reconcile",
               pc' = [pc EXCEPT ![w] = "done"], key' = key, dirty' = dirty,
               shuttingDown' = shuttingDown, waiting \subseteq waiting',
               \A k \in Keys : k # key[w] => failures'[k] = failures[k],
               \/ failures'[key[w]] = 0
               \/ /\ failures'[key[w]] <= MaxRetries
                  /\ shuttingDown \/ ~ForgetAfterSuccess \/ key[w] \in waiting'
        PROVE  FailedKeyIsRetried'
    BY <2>5
  <2>6. ASSUME NEW w \in Workers, ReconcileOK(w) PROVE FailedKeyIsRetried'
    <3>1. key[w] \in Keys BY <2>6 DEF ReconcileOK, HoldInv, Busy
    <3>2. CASE ForgetAfterSuccess
      BY <2>6, <3>1, <3>2, <2>5 DEF ReconcileOK, Forget
    <3>3. CASE ~ForgetAfterSuccess
      BY <2>6, <3>1, <3>3 DEF ReconcileOK
    <3> QED BY <3>2, <3>3
  <2>7. ASSUME NEW w \in Workers, ReconcileRetry(w) PROVE FailedKeyIsRetried'
    <3>1. key[w] \in Keys BY <2>7 DEF ReconcileRetry, HoldInv, Busy
    <3>2. failures'[key[w]] <= MaxRetries
      BY <2>7, <3>1 DEF ReconcileRetry, AddRateLimited
    <3> QED BY <2>7, <3>1, <3>2, <2>5 DEF ReconcileRetry, AddRateLimited
  <2>8. ASSUME NEW w \in Workers, ReconcileDrop(w) PROVE FailedKeyIsRetried'
    <3>1. key[w] \in Keys BY <2>8 DEF ReconcileDrop, HoldInv, Busy
    <3> QED BY <2>8, <3>1, <2>5 DEF ReconcileDrop, Forget
  <2>9. ASSUME NEW w \in Workers, Done(w) PROVE FailedKeyIsRetried'
    BY <2>9 DEF Done, QueueDone
  <2>10. CASE ShutDown BY <2>10 DEF ShutDown
  <2>11. CASE UNCHANGED vars BY <2>11 DEF vars
  <2> QED
    BY <2>1, <2>2, <2>3, <2>4, <2>6, <2>7, <2>8, <2>9, <2>10, <2>11
    DEF Next, Worker
<1> QED BY <1>1, <1>2, QueueInvariant, PTL DEF Spec

\* The queue with its delays, retries, workers and shutdown implements the
\* two bits per key that the modules of the reconcilers use in its place.
THEOREM Refinement == Spec => ImplementsScheduler
<1>1. Init => Scheduler!Init BY DEF Init, Scheduler!Init
<1>2. QInv /\ [Next]_vars => [Scheduler!Next]_Scheduler!vars
  <2> SUFFICES ASSUME QInv, [Next]_vars
               PROVE  Scheduler!Next \/ UNCHANGED Scheduler!vars
    BY DEF Scheduler!vars
  <2> USE DEF Scheduler!Next, Scheduler!vars, queueVars
  <2>1. ASSUME NEW k \in Keys, QueueAdd(k)
        PROVE  Scheduler!Mark(k) \/ UNCHANGED Scheduler!vars
    BY <2>1 DEF QueueAdd, Scheduler!Mark
  <2>2. ASSUME NEW w \in Workers, Get(w)
        PROVE  Scheduler!Next
    <3>1. Head(queue) \in dirty \ processing /\ Head(queue) \in Keys
      BY <2>2 DEF Get, QInv, TypeOK, IndexInv, QueuedIsPending
    <3>2. Scheduler!Start(Head(queue)) BY <2>2, <3>1 DEF Get, Scheduler!Start
    <3> QED BY <3>1, <3>2
  <2>3. ASSUME NEW w \in Workers, Done(w) PROVE Scheduler!Next
    <3>1. key[w] \in processing /\ key[w] \in Keys
      BY <2>3 DEF Done, QInv, TypeOK, HoldInv, Busy
    <3>2. Scheduler!Finish(key[w])
      BY <2>3, <3>1 DEF Done, QueueDone, Scheduler!Finish
    <3> QED BY <3>1, <3>2
  <2>4. ASSUME NEW w \in Workers, Worker(w), ~Get(w), ~Done(w)
        PROVE  UNCHANGED Scheduler!vars
    BY <2>4 DEF Worker, Quit, ReconcileOK, ReconcileRetry, ReconcileDrop
  <2>5. ShutDown \/ UNCHANGED vars => UNCHANGED Scheduler!vars
    BY DEF ShutDown, vars
  <2> QED BY <2>1, <2>2, <2>3, <2>4, <2>5 DEF Next, Add, DelayElapsed
<1> QED BY <1>1, <1>2, QueueInvariant, PTL DEF Spec, ImplementsScheduler, Scheduler!Spec
=============================================================================
