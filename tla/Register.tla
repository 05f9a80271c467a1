------------------------------ MODULE Register ------------------------------
(***************************************************************************)
(* What the REPL promises about its port-forwards, whatever becomes of the *)
(* connections: a forwarder that is alive is either the one being started  *)
(* or listed under an index, where the user can see and stop it, and an    *)
(* index once given out is never given to another forwarder.               *)
(***************************************************************************)
EXTENDS Sequences

CONSTANTS Ids, None

VARIABLES
  starting,   (* the forwarder the running command waits for, or None *)
  alive,      (* the forwarders that hold a connection or try to get one *)
  listed      (* the forwarders by index *)

rvars == <<starting, alive, listed>>

RInit ==
  /\ starting = None
  /\ alive = {}
  /\ listed = <<>>

Begin(id) ==
  /\ starting = None
  /\ id \notin alive
  /\ starting' = id
  /\ alive' = alive \cup {id}
  /\ UNCHANGED listed

(* The forwarder is ready: it gets the next index. *)
Keep ==
  /\ starting # None
  /\ listed' = Append(listed, starting)
  /\ starting' = None
  /\ UNCHANGED alive

(* The start has failed: nothing of it may be left behind. *)
GiveUp ==
  /\ starting \notin alive
  /\ starting' = None
  /\ UNCHANGED <<alive, listed>>

End(id) ==
  /\ alive' = alive \ {id}
  /\ UNCHANGED <<starting, listed>>

(* The process is gone, and every forwarder with it. *)
Shutdown ==
  /\ alive' = {}
  /\ starting' = None
  /\ UNCHANGED listed

RNext ==
  \/ \E id \in Ids : Begin(id) \/ End(id)
  \/ Keep
  \/ GiveUp
  \/ Shutdown

RSpec == RInit /\ [][RNext]_rvars

-----------------------------------------------------------------------------
(* What the steps add up to: every forwarder alive is within reach.        *)
WithinReach == alive \subseteq {starting} \cup {listed[i] : i \in DOMAIN listed}

=============================================================================
