--------------------------- MODULE MCDeleteFlags ---------------------------
(***************************************************************************)
(* DeleteFlags with a grace period the command refuses and one it takes,   *)
(* and a cascade policy that does not exist.                               *)
(***************************************************************************)
EXTENDS DeleteFlags

MCGraces   == {-2, 30}
MCCascades == {"orphan", "later"}

=============================================================================
