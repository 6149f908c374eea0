--------------------------- MODULE MCRouterHistory ---------------------------
(***************************************************************************)
(* Instances of RouterHistory for TLC.                                     *)
(***************************************************************************)
EXTENDS RouterHistory

CONSTANTS p1, p2

MCTwo == <<p1, p2>>
=============================================================================
