-------------------------------- MODULE MCWatch --------------------------------
(***************************************************************************)
(* Small instances of Watch.                                               *)
(***************************************************************************)
EXTENDS Watch, TLC

CONSTANTS a1, a2

BothWatched == {a1, a2}
OnlyFirst   == {a1}
=============================================================================
