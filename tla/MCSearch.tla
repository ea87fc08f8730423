------------------------------- MODULE MCSearch -------------------------------
(***************************************************************************)
(* Small instances of Search.                                              *)
(***************************************************************************)
EXTENDS Search
=============================================================================
