------------------------------ MODULE Workbench ------------------------------
(***************************************************************************)
(* What the REPL promises about numeric selection, whatever its commands:  *)
(* the user works in a scope (a cluster and perhaps a namespace), is       *)
(* offered objects of that scope, and chooses among those on offer.        *)
(* Moving to a scope, even the same one, withdraws both the offer and the  *)
(* choice.  A new offer leaves the choice alone: the choice was made among *)
(* an earlier offer of the same scope.                                     *)
(***************************************************************************)
CONSTANTS
  Scopes,     (* where one can work *)
  Objects,    (* what can be chosen *)
  Reach(_)    (* the objects of a scope *)

VARIABLES scope, offered, chosen

wvars == <<scope, offered, chosen>>

WInit ==
  /\ scope \in Scopes
  /\ offered = {}
  /\ chosen = {}

Move ==
  /\ scope' \in Scopes
  /\ offered' = {}
  /\ chosen' = {}

Offer ==
  /\ offered' \in SUBSET (Reach(scope) \cap Objects)
  /\ UNCHANGED <<scope, chosen>>

Choose ==
  /\ chosen' \in SUBSET offered
  /\ UNCHANGED <<scope, offered>>

WNext == Move \/ Offer \/ Choose

WSpec == WInit /\ [][WNext]_wvars

=============================================================================
