-------------------------------- MODULE Logs --------------------------------
(***************************************************************************)
(* logs: a stream of the pod's log is printed until it ends, until its     *)
(* deadline or, with --follow, until Ctrl-C; or it is collected in a file  *)
(* that is opened in an editor and not read back.                          *)
(***************************************************************************)
EXTENDS Terminal

VARIABLE logsMode    (* "print", "follow" or "editor"; "none" between commands *)

LogsPCs == {"logs.get", "logs.copy", "logs.suspend", "logs.editor", "logs.resume"}

LogsInit == logsMode = "none"

(* Pods are selected, in a context, and the flags go together. *)
StartLogs ==
  /\ pc = "prompt"
  /\ logsMode' \in {"print", "follow", "editor"}
  /\ Goto("logs.get")

(* One pod of the selection: no client, no log, or a stream of it. *)
GetLogs ==
  /\ pc = "logs.get"
  /\ Goto("logs.copy") \/ Goto("dispatched")
  /\ UNCHANGED logsMode

(* The stream ends, or fails, or its 30 seconds are over; without --follow *)
(* and without an editor there may be a next pod.                          *)
CopyEnds ==
  /\ pc = "logs.copy"
  /\ \/ Goto("dispatched")
     \/ logsMode = "print" /\ Goto("logs.get")
     \/ logsMode = "editor" /\ Goto("logs.suspend")
  /\ UNCHANGED logsMode

(* Ctrl-C, which a stream with --follow is subscribed to. *)
InterruptFollow ==
  /\ pc \in {"logs.get", "logs.copy"}
  /\ logsMode = "follow"
  /\ Goto("dispatched")
  /\ UNCHANGED logsMode

LogsSuspend ==
  /\ SuspendTerminal("logs.suspend", "logs.editor")
  /\ UNCHANGED logsMode

LogsEditor ==
  /\ pc = "logs.editor"
  /\ Goto("logs.resume")
  /\ UNCHANGED logsMode

LogsResume ==
  /\ ResumeTerminal("logs.resume", "dispatched")
  /\ UNCHANGED logsMode

=============================================================================
