------------------------------ MODULE WorkQueue ------------------------------
(***************************************************************************)
(* One work queue of the controller with the workers that drain it:        *)
(*   - the queue proper, client-go util/workqueue/queue.go;                *)
(*   - the delaying queue and the failure counting rate limiter above it   *)
(*     (delaying_queue.go, rate_limitting_queue.go,                        *)
(*     default_rate_limiters.go); delays are abstracted to "some time      *)
(*     later", and the heap of delayed items to the set of their keys      *)
(*     (insert keeps one entry per item);                                  *)
(*   - worker and Run of pkg/controller/controller.go.                     *)
(* Each method of the queue runs under its lock, so it is one step.        *)
(***************************************************************************)
EXTENDS Naturals, Sequences

CONSTANTS Keys,        \* namespace/name keys of the objects
          Workers,     \* worker goroutines (--concurrent-syncs)
          MaxRetries,  \* maxRetries of controller.go
          ForgetAfterSuccess, \* worker's parameter, FALSE for the poller
          NoKey        \* what an idle worker holds

ASSUME QueueAssumption ==
    /\ MaxRetries \in Nat
    /\ ForgetAfterSuccess \in BOOLEAN
    /\ NoKey \notin Keys

VARIABLES queue,        \* keys in the order they will be worked on
          dirty,        \* keys that need to be processed
          processing,   \* keys being processed
          shuttingDown,
          waiting,      \* keys whose delay has not elapsed
          failures,     \* requeues of each key since the last Forget
          pc, key       \* each worker's control point and key

queueVars == <<queue, dirty, processing>>
vars == <<queue, dirty, processing, shuttingDown, waiting, failures, pc, key>>

Init ==
    /\ queue = <<>> /\ dirty = {} /\ processing = {}
    /\ shuttingDown = FALSE
    /\ waiting = {} /\ failures = [k \in Keys |-> 0]
    /\ pc = [w \in Workers |-> "get"] /\ key = [w \in Workers |-> NoKey]

-----------------------------------------------------------------------------
(* The queue's methods.                                                    *)

\* Variant of QueueAdd that does not look at the processing set.
QueueAdd_WhileProcessing(k) ==
    IF shuttingDown \/ k \in dirty
    THEN UNCHANGED queueVars
    ELSE dirty' = dirty \cup {k} /\ queue' = Append(queue, k) /\ UNCHANGED processing

\* Add: absorbed while shutting down or already dirty; a key that is being
\* processed is only marked, Done will queue it.
QueueAdd(k) ==
    IF shuttingDown \/ k \in dirty
    THEN UNCHANGED queueVars
    ELSE /\ dirty' = dirty \cup {k}
         /\ queue' = IF k \in processing THEN queue ELSE Append(queue, k)
         /\ UNCHANGED processing

\* Variant of QueueDone that does not put a dirty key back.
QueueDone_LosesDirty(k) == processing' = processing \ {k} /\ UNCHANGED <<queue, dirty>>

\* Done: a key that became dirty while it was processed goes back.
QueueDone(k) ==
    /\ processing' = processing \ {k}
    /\ queue' = IF k \in dirty THEN Append(queue, k) ELSE queue
    /\ UNCHANGED dirty

\* AddRateLimited: counts the failure, then delays the key (AddAfter drops
\* it when the queue is shutting down).
AddRateLimited(k) ==
    /\ failures' = [failures EXCEPT ![k] = @ + 1]
    /\ waiting' = IF shuttingDown THEN waiting ELSE waiting \cup {k}

\* Variant of Forget that takes back one failure only.
Forget_One(k) == failures' = [failures EXCEPT ![k] = @ - 1]

Forget(k) == failures' = [failures EXCEPT ![k] = 0]

-----------------------------------------------------------------------------
(* Clients, the delaying loop and Run.                                     *)

\* An informer's event handler enqueues a key.
Add(k) == QueueAdd(k) /\ UNCHANGED <<shuttingDown, waiting, failures, pc, key>>

\* waitingLoop: the delay of k is over.
DelayElapsed(k) ==
    /\ k \in waiting /\ ~shuttingDown
    /\ waiting' = waiting \ {k}
    /\ QueueAdd(k)
    /\ UNCHANGED <<shuttingDown, failures, pc, key>>

\* Run stops: the stop channel is closed and the queue is shut down.
ShutDown ==
    /\ ~shuttingDown /\ shuttingDown' = TRUE
    /\ UNCHANGED <<queueVars, waiting, failures, pc, key>>

-----------------------------------------------------------------------------
(* The worker loop.                                                        *)

\* Variant of Get that leaves the key dirty.
Get_KeepsDirty(w) ==
    /\ pc[w] = "get" /\ queue # <<>>
    /\ key' = [key EXCEPT ![w] = Head(queue)]
    /\ pc' = [pc EXCEPT ![w] = "reconcile"]
    /\ queue' = Tail(queue)
    /\ processing' = processing \cup {Head(queue)}
    /\ UNCHANGED <<dirty, shuttingDown, waiting, failures>>

Get(w) ==
    /\ pc[w] = "get" /\ queue # <<>>
    /\ key' = [key EXCEPT ![w] = Head(queue)]
    /\ pc' = [pc EXCEPT ![w] = "reconcile"]
    /\ queue' = Tail(queue)
    /\ processing' = processing \cup {Head(queue)}
    /\ dirty' = dirty \ {Head(queue)}
    /\ UNCHANGED <<shuttingDown, waiting, failures>>

\* Variant of Quit that waits for the delayed keys.
Quit_AfterDelays(w) ==
    /\ pc[w] = "get" /\ queue = <<>> /\ shuttingDown /\ waiting = {}
    /\ pc' = [pc EXCEPT ![w] = "exited"]
    /\ UNCHANGED <<queueVars, shuttingDown, waiting, failures, key>>

Quit(w) ==
    /\ pc[w] = "get" /\ queue = <<>> /\ shuttingDown
    /\ pc' = [pc EXCEPT ![w] = "exited"]
    /\ UNCHANGED <<queueVars, shuttingDown, waiting, failures, key>>

\* The reconciler returned nil.
ReconcileOK(w) ==
    /\ pc[w] = "reconcile" /\ pc' = [pc EXCEPT ![w] = "done"]
    /\ IF ForgetAfterSuccess THEN Forget(key[w]) ELSE UNCHANGED failures
    /\ UNCHANGED <<queueVars, shuttingDown, waiting, key>>

\* The reconciler returned an error and the key is requeued with a delay.
ReconcileRetry(w) ==
    /\ pc[w] = "reconcile" /\ pc' = [pc EXCEPT ![w] = "done"]
    /\ failures[key[w]] < MaxRetries
    /\ AddRateLimited(key[w])
    /\ UNCHANGED <<queueVars, shuttingDown, key>>

\* Variant of ReconcileDrop that does not forget the failures.
ReconcileDrop_KeepsCount(w) ==
    /\ pc[w] = "reconcile" /\ pc' = [pc EXCEPT ![w] = "done"]
    /\ ~(failures[key[w]] < MaxRetries)
    /\ UNCHANGED <<queueVars, shuttingDown, waiting, failures, key>>

\* The reconciler returned an error once too often: the key is dropped.
ReconcileDrop(w) ==
    /\ pc[w] = "reconcile" /\ pc' = [pc EXCEPT ![w] = "done"]
    /\ ~(failures[key[w]] < MaxRetries)
    /\ Forget(key[w])
    /\ UNCHANGED <<queueVars, shuttingDown, waiting, key>>

\* The deferred queue.Done(key).
Done(w) ==
    /\ pc[w] = "done"
    /\ QueueDone(key[w])
    /\ pc' = [pc EXCEPT ![w] = "get"] /\ key' = [key EXCEPT ![w] = NoKey]
    /\ UNCHANGED <<shuttingDown, waiting, failures>>

Worker(w) ==
    \/ Get(w) \/ Quit(w)
    \/ ReconcileOK(w) \/ ReconcileRetry(w) \/ ReconcileDrop(w)
    \/ Done(w)

Next ==
    \/ \E k \in Keys : Add(k) \/ DelayElapsed(k)
    \/ \E w \in Workers : Worker(w)
    \/ ShutDown

Spec == Init /\ [][Next]_vars

\* Every goroutine keeps running: workers whose reconcilers return, and the
\* delaying loop.  Nothing is assumed of clients or of ShutDown.
Fairness ==
    /\ \A w \in Workers : WF_vars(Worker(w))
    /\ \A k \in Keys : WF_vars(DelayElapsed(k))

FairSpec == Spec /\ Fairness

-----------------------------------------------------------------------------
\* The types of the variables; an idle worker may hold no key.
TypeOK ==
    /\ queue \in Seq(Keys)
    /\ dirty \in SUBSET Keys /\ processing \in SUBSET Keys
    /\ shuttingDown \in BOOLEAN
    /\ waiting \in SUBSET Keys /\ failures \in [Keys -> Nat]
    /\ pc \in [Workers -> {"get", "reconcile", "done", "exited"}]
    /\ key \in [Workers -> Keys \cup {NoKey}]

Busy(w) == pc[w] \in {"reconcile", "done"}

\* The comment of worker: "It enforces that the reconciler is never invoked
\* concurrently with the same key", however adds, retries and completions
\* interleave.
NoConcurrentReconcile ==
    \A v, w \in Workers :
        pc[v] = "reconcile" /\ pc[w] = "reconcile" /\ key[v] = key[w] => v = w

\* The queue holds exactly the work that may start: every dirty key that is
\* not being processed is queued, once, and nothing else is.  It says both
\* that no key is lost and what the comment on Type.queue asks for.
QueueIsPendingWork ==
    /\ {queue[i] : i \in DOMAIN queue} = dirty \ processing
    /\ \A i, j \in DOMAIN queue : queue[i] = queue[j] => i = j

\* The failure count is exact (where successes are forgotten): it never
\* exceeds maxRetries, and while it is positive the key is waiting for its
\* retry, pending, or being reconciled again.  A failed key is neither lost
\* nor does it keep a count that would drop it early next time.
FailedKeyIsRetried ==
    \A k \in Keys :
        /\ failures[k] <= MaxRetries
        /\ failures[k] > 0 /\ ForgetAfterSuccess /\ ~shuttingDown =>
              \/ k \in waiting \cup dirty
              \/ \E w \in Workers : pc[w] = "reconcile" /\ key[w] = k

\* Every key handed to the queue is reconciled afterwards: a key that is
\* dirty is later taken by a worker, even when it was added while being
\* processed or just before the shutdown.
EveryAddIsReconciled ==
    \A k \in Keys :
        k \in dirty ~> \E w \in Workers : pc[w] = "reconcile" /\ key[w] = k

\* Run returns: after ShutDown the workers drain the queue and all exit, so
\* that waitGroup.Wait() is not waited on for ever.
ShutDownCompletes == shuttingDown ~> \A w \in Workers : pc[w] = "exited"

\* The queue and its workers implement the abstract scheduler of keys.
Scheduler == INSTANCE KeyScheduler WITH pending <- dirty, running <- processing
ImplementsScheduler == Scheduler!Spec
=============================================================================
