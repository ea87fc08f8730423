------------------------------- MODULE MCIngest -------------------------------
(***************************************************************************)
(* Small instances of Ingest.                                              *)
(***************************************************************************)
EXTENDS Ingest, TLC

CONSTANTS f1, f2, a1, a2

\* Both files are of the first agent.
OneAgent  == (f1 :> a1) @@ (f2 :> a1)
OneFile   == (f1 :> a1)

\* What a request may leave out: nothing, or one of the files.
Nobody == {{}}
MaySkip == {{}, {f2}}

\* One version that is rejected, one that is left out.
Rejected == {<<f1, 1>>}
LeftOut == {<<f2, 1>>}

Interchangeable == Permutations(Processes)
=============================================================================
