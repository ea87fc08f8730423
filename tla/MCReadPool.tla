------------------------------ MODULE MCReadPool -------------------------------
(***************************************************************************)
(* Small instances of ReadPool.                                            *)
(***************************************************************************)
EXTENDS ReadPool, TLC
=============================================================================
