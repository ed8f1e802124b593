--------------------------- MODULE MC_SelfUpdate ---------------------------
(* SelfUpdate with a good release and one that does not run.                *)
EXTENDS SelfUpdate
============================================================================
