----------------------------- MODULE MCWorkQueue -----------------------------
(* WorkQueue on small sets of keys and workers.  (No symmetry: the run     *)
(* checks liveness, for which TLC's symmetry reduction is not sound.)      *)
EXTENDS WorkQueue
=============================================================================
