------------------------- MODULE ResourceLifecycle -------------------------
(***************************************************************************)
(* What a reconciler promises about the thing at a broker that an object   *)
(* of the catalog stands for: the instance of a ServiceInstance, the       *)
(* binding of a ServiceInstanceCredential.  `shown' is what a user of the  *)
(* API sees of the object, `held' what the broker has.  ServiceInstance    *)
(* and ServiceInstanceCredential implement this, with all their queues,    *)
(* caches, retries and restarts.                                           *)
(***************************************************************************)
CONSTANT MayAbandon  \* an object may go away and leave its thing behind

VARIABLES shown,    \* "pending", "ready", "doomed", "removed", "abandoned"
          held,     \* by the broker: "no", "coming", "yes"
          released  \* the release has begun

vars == <<shown, held, released>>

Init == shown = "pending" /\ held = "no" /\ released = FALSE

\* A request to make the thing takes effect, now or later: never after the
\* release has begun.
Acquire ==
    /\ ~released /\ held = "no" /\ held' \in {"coming", "yes"}
    /\ UNCHANGED <<shown, released>>

\* What the broker was making is finished, or fails.
Finish ==
    /\ held = "coming" /\ held' \in {"no", "yes"}
    /\ UNCHANGED <<shown, released>>

\* The object becomes Ready when the broker has the thing.
ShowReady ==
    /\ shown = "pending" /\ held = "yes" /\ shown' = "ready"
    /\ UNCHANGED <<held, released>>

\* The object is deleted, or fails for good.  A Ready object stays Ready
\* until then.
Doom ==
    /\ shown \in {"pending", "ready"} /\ shown' = "doomed"
    /\ UNCHANGED <<held, released>>

\* The thing is released, in one or more calls: never that of a living object.
Release ==
    /\ shown \notin {"pending", "ready"} /\ released' = TRUE
    /\ held' = held \/ (held = "yes" /\ held' = "no")
    /\ UNCHANGED shown

\* The object goes away after its thing.
Remove ==
    /\ shown = "doomed" /\ released /\ held = "no" /\ shown' = "removed"
    /\ UNCHANGED <<held, released>>

\* The object goes away and nobody has looked after its thing.
Abandon ==
    /\ MayAbandon /\ shown = "doomed" /\ shown' = "abandoned"
    /\ UNCHANGED <<held, released>>

Next ==
    \/ Acquire \/ Finish \/ ShowReady \/ Doom \/ Release \/ Remove \/ Abandon

Spec == Init /\ [][Next]_vars
=============================================================================
