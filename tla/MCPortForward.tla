---------------------------- MODULE MCPortForward ----------------------------
(***************************************************************************)
(* PortForward with two sessions, so that one can end while the other is   *)
(* started or stopped, and writes that fill the retained output exactly    *)
(* and overflow it.                                                        *)
(***************************************************************************)
EXTENDS PortForward

CONSTANT lost

=============================================================================
