------------------------------ MODULE Session ------------------------------
(***************************************************************************)
(* The record a port-forward leaves in the REPL (portforward.Session): its *)
(* status, the error it ended with, whether its stop channel is closed and *)
(* how much of its output is retained.  The REPL and the forwarder's       *)
(* goroutine share it; every operation but the closing of the channel runs *)
(* under the session's mutex, so each operator here is one atomic step.    *)
(***************************************************************************)
EXTENDS Naturals

CONSTANTS
  Errors,          (* what ForwardPorts may fail with *)
  NoError,         (* Go's nil *)
  maxOutputBytes   (* bytes of output a session retains *)

ASSUME SessionAssumption ==
  /\ NoError \notin Errors
  /\ maxOutputBytes \in Nat

Statuses == {"Starting", "Running", "Stopped", "Exited"}

Sessions ==
  [status : Statuses, exitErr : Errors \cup {NoError}, stopClosed : BOOLEAN,
   output : 0..maxOutputBytes]

NewSession ==
  [status |-> "Starting", exitErr |-> NoError, stopClosed |-> FALSE, output |-> 0]

(* Slip: the status is set without looking at the old one. *)
MarkRunning_Blindly(s) == [s EXCEPT !.status = "Running"]

MarkRunning(s) ==
  IF s.status = "Starting" THEN [s EXCEPT !.status = "Running"] ELSE s

(* Slips: a stop is forgotten; the error of an earlier end is kept. *)
MarkExited_AfterStop(s, err) ==
  IF err = NoError
    THEN [s EXCEPT !.status = "Stopped", !.exitErr = NoError]
    ELSE [s EXCEPT !.status = "Exited", !.exitErr = err]

MarkExited(s, err) ==
  IF s.status = "Stopped" THEN s
  ELSE IF err = NoError
    THEN [s EXCEPT !.status = "Stopped", !.exitErr = NoError]
    ELSE [s EXCEPT !.status = "Exited", !.exitErr = err]

MarkStopped_KeepsError(s) == [s EXCEPT !.status = "Stopped"]

(* The two halves of Stop: stopOnce closes the channel, then the lock is   *)
(* taken and the status set.                                               *)
CloseStop(s)   == [s EXCEPT !.stopClosed = TRUE]
MarkStopped(s) == [s EXCEPT !.status = "Stopped", !.exitErr = NoError]

(* AppendOutput of n bytes: only the tail is retained. *)
AppendOutput_Unbounded(s, n) == [s EXCEPT !.output = s.output + n]

AppendOutput(s, n) ==
  [s EXCEPT !.output =
     IF s.output + n > maxOutputBytes THEN maxOutputBytes ELSE s.output + n]

=============================================================================
