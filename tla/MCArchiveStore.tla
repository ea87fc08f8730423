---------------------------- MODULE MCArchiveStore ----------------------------
(***************************************************************************)
(* A small instance of ArchiveStore: two connections, a parent that comes  *)
(* after or before its children, a session that moves to another parent,   *)
(* is captured again under the same locator and stops naming another, a    *)
(* batch that writes a session twice.                                      *)
(***************************************************************************)
EXTENDS ArchiveStore, TLC

CONSTANTS a, b, c, l1, l2, o1, o2, t1, t2, f1, f2

Parse(id, parent, print, stream, sources) ==
  [id |-> id, parent |-> parent, print |-> print, stream |-> stream, sources |-> sources]

RootA  == Parse(a, None, f1, t1, {<<l1, o1>>, <<l2, o1>>})
MovedA == Parse(a, b, f2, t2, {<<l2, o2>>})
ChildB == Parse(b, a, f1, t1, {<<l2, o1>>})
ChildC == Parse(c, a, f1, t1, {<<l1, o2>>})
MovedC == Parse(c, b, f2, t2, {})

MixedBatches ==
  {<<RootA>>, <<MovedA>>, <<MovedC>>, <<ChildC, ChildB, RootA>>, <<RootA, MovedA>>}

Interchangeable == Permutations(Connections)
=============================================================================
