------------------------------ MODULE MCLifecycle ------------------------------
(***************************************************************************)
(* Two requests of any kinds.  Drain 2, API 2 and shutdown 5 ticks, in the *)
(* order of the default 5, 10 and 20 seconds.                              *)
(***************************************************************************)
EXTENDS Lifecycle

MCRequests == {"r1", "r2"}
MCKinds == {[r \in MCRequests |-> IF r = "r1" THEN "plain" ELSE k] : k \in {"plain", "stream", "exec"}}
=============================================================================
