------------------------------ MODULE Terminal ------------------------------
(***************************************************************************)
(* Who owns the terminal: Run's loop, which reads lines with a readline    *)
(* instance, the hooks with which a command takes the terminal over from   *)
(* it, and the rebuilding of readline that such a command asks for.  Each  *)
(* command works in phases of its own and ends in "dispatched".            *)
(***************************************************************************)
EXTENDS Naturals, Sequences

VARIABLES
  pc,        (* where the REPL's goroutine is *)
  rl,        (* Run's readline instance: "ready"; "used" when a command has *)
             (* had the terminal since it was built; "closed"; "nil" *)
  hooks,     (* the instance the terminal hooks act on: "this" or "old" *)
  tty,       (* the line mode outside of readline: "cooked" or "raw" *)
  reset,     (* Env.resetTerminal *)
  trouble    (* history: the calls on the terminal that have failed *)

termVars == <<pc, rl, hooks, tty, reset, trouble>>

LoopPCs == {"prompt", "dispatched", "closing", "rebuilding"}

(* Run has returned, or its deferred Close has panicked on a nil instance; *)
(* or the process was killed.                                              *)
EndPCs == {"ended", "panicked", "killed"}

(* newReadlineInstance at the start of Run. *)
TermInit ==
  /\ pc = "prompt"
  /\ rl = "ready"
  /\ hooks = "this"
  /\ tty = "cooked"
  /\ reset = FALSE
  /\ trouble = {}

Goto(next) == pc' = next /\ UNCHANGED <<rl, hooks, tty, reset, trouble>>

(* The prompt is left for good: end of input, an error of readline, quit.  *)
LeaveLoop == pc = "prompt" /\ Goto("ended")

(* The flag is consumed, whatever comes of the rebuilding. *)
ConsumeTerminalReset ==
  /\ pc = "dispatched"
  /\ pc' = IF reset THEN "closing" ELSE "prompt"
  /\ reset' = FALSE
  /\ UNCHANGED <<rl, hooks, tty, trouble>>

CloseReadline ==
  /\ pc = "closing"
  /\ \/ pc' = "rebuilding" /\ rl' = "closed"
     \/ pc' = "ended" /\ UNCHANGED rl
  /\ UNCHANGED <<hooks, tty, reset, trouble>>

(* Slip: the hooks are set once, by Run. *)
NewReadlineInstance_KeepsHooks ==
  /\ pc = "rebuilding"
  /\ \/ pc' = "prompt" /\ rl' = "ready" /\ hooks' = "old"
     \/ pc' = "panicked" /\ rl' = "nil" /\ UNCHANGED hooks
  /\ UNCHANGED <<tty, reset, trouble>>

(* On an error rl is nil, Run returns, and its deferred Close panics. *)
NewReadlineInstance ==
  /\ pc = "rebuilding"
  /\ \/ pc' = "prompt" /\ rl' = "ready" /\ hooks' = "this"
     \/ pc' = "panicked" /\ rl' = "nil" /\ hooks' = "old"
  /\ UNCHANGED <<tty, reset, trouble>>

-----------------------------------------------------------------------------
(* The hook leaves readline's raw mode, which may fail. *)
SuspendTerminal(from, next) ==
  /\ pc = from
  /\ \/ pc' = next /\ rl' = "used" /\ UNCHANGED trouble
     \/ pc' = "dispatched" /\ trouble' = trouble \cup {"suspend"} /\ UNCHANGED rl
  /\ UNCHANGED <<hooks, tty, reset>>

(* The hook that Run sets never fails; each caller then calls              *)
(* RequestTerminalReset, on every path that comes here.                    *)
ResumeTerminal(from, next) ==
  /\ pc = from
  /\ pc' = next
  /\ reset' = TRUE
  /\ UNCHANGED <<rl, hooks, tty, trouble>>

=============================================================================
