---------------------------- MODULE KeyScheduler ----------------------------
(***************************************************************************)
(* What a reconciler may rely on when its keys come from a work queue: a   *)
(* key marked as needing work stays marked until a reconciliation of it    *)
(* starts, and a key is never reconciled twice at the same time.  The      *)
(* queue of WorkQueue implements this, and the object modules use it as    *)
(* two bits per key.                                                       *)
(***************************************************************************)
CONSTANT Keys

VARIABLES pending,  \* keys that need a reconciliation
          running   \* keys being reconciled

vars == <<pending, running>>

Init == pending = {} /\ running = {}

\* A client asks for key k; asking again is absorbed.
Mark(k) ==
    /\ pending' = pending \cup {k}
    /\ UNCHANGED running

\* A reconciliation of k starts; a request made from now on is a new one.
Start(k) ==
    /\ k \in pending \ running
    /\ pending' = pending \ {k}
    /\ running' = running \cup {k}

Finish(k) ==
    /\ k \in running
    /\ running' = running \ {k}
    /\ UNCHANGED pending

Next == \E k \in Keys : Mark(k) \/ Start(k) \/ Finish(k)

Spec == Init /\ [][Next]_vars
=============================================================================
