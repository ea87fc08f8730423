---------------------------- MODULE MCDerivedState ----------------------------
(***************************************************************************)
(* A small instance of DerivedState: two processes, a tokenizer every      *)
(* connection has and one that must be loaded, two streams.                *)
(***************************************************************************)
EXTENDS DerivedState, TLC

CONSTANTS t1, t2

KindsOfStreams == (t1 :> {"user", "tool_result"}) @@ (t2 :> {"user"})

Interchangeable == Permutations(Processes)
=============================================================================
