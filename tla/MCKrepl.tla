------------------------------ MODULE MCKrepl ------------------------------
(***************************************************************************)
(* Sessions of interactive commands, with two execs, and sessions of       *)
(* changes to a kubeconfig with up to two contexts.                        *)
(***************************************************************************)
EXTENDS Krepl

MCSessions == {{"exec", "logs"}, {"edit", "logs"}, {"kubeconfig"}}

=============================================================================
