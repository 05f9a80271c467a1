------------------------------ MODULE MCDelete ------------------------------
(***************************************************************************)
(* Delete on selections of up to three objects, of which there are two     *)
(* that can be deleted, so one of them may be selected twice, and one of a *)
(* kind that has no target.                                                *)
(***************************************************************************)
EXTENDS Delete

CONSTANTS a, b

MCObjects ==
  {[kind |-> "Pod", name |-> a], [kind |-> "Pod", name |-> b], [kind |-> "Job", name |-> a]}

OneOfEachKind == {[kind |-> k, name |-> a] : k \in Kinds}

=============================================================================
