---------------------------- MODULE MCCodexLineage ----------------------------
(***************************************************************************)
(* Small instances of CodexLineage.                                        *)
(***************************************************************************)
EXTENDS CodexLineage
=============================================================================
