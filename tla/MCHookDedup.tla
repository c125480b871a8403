----------------------------- MODULE MCHookDedup -----------------------------
(***************************************************************************)
(* HookDedup for TLC: two processes and two keys, so that a sweep also      *)
(* meets the claim of another key.  No symmetry: the run checks liveness.   *)
(***************************************************************************)
EXTENDS HookDedup

TwoProcs == {"p1", "p2"}
TwoKeys  == {"k1", "k2"}
=============================================================================
