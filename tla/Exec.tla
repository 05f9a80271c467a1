-------------------------------- MODULE Exec --------------------------------
(***************************************************************************)
(* exec: while the stream to the container runs, a goroutine, the pump,    *)
(* reads a terminal device of its own and feeds it to the stream through   *)
(* an io.Pipe, and a goroutine of client-go, the copier, takes the input   *)
(* from there, or from os.Stdin when exec is not on a terminal.  The pump  *)
(* and the copier of one exec may outlive it.                              *)
(***************************************************************************)
EXTENDS Terminal

CONSTANT MaxExecs   (* bound: how often exec is run *)

ASSUME ExecAssumption == MaxExecs \in Nat \ {0}

Execs == 1..MaxExecs

VARIABLES
  runs,      (* how many execs were started; the latest is the current one *)
  mode,      (* its options: the set of "tty", "stdin", "terminal" that hold *)
  pump,      (* for each exec, where its pump is *)
  closed,    (* for each, what is closed of "stopCh", "src" and "writer" *)
  copier     (* for each, where its copier is and what it reads *)

execVars == <<runs, mode, pump, closed, copier>>

ExecPCs == {"exec.prepare", "exec.suspend", "exec.raw", "exec.stream",
            "exec.stop", "exec.wait", "exec.restore", "exec.resume"}

PumpStates == {"none", "starting", "checking", "reading", "writing",
               "sleeping", "failing", "stopping", "done"}

NoCopier == [state |-> "none", from |-> "none"]
Copiers  == {NoCopier} \cup
            [state : {"reading", "sending", "done"}, from : {"pipe", "stdin"}]

interactive == mode \cap {"tty", "stdin"} # {}
rawTTY      == mode = {"tty", "stdin", "terminal"}

ExecInit ==
  /\ runs = 0
  /\ mode = {}
  /\ pump = [i \in Execs |-> "none"]
  /\ closed = [i \in Execs |-> {}]
  /\ copier = [i \in Execs |-> NoCopier]

(* The command has a single pod selected, in a context. *)
StartExec ==
  /\ pc = "prompt"
  /\ runs < MaxExecs
  /\ runs' = runs + 1
  /\ mode' \in SUBSET {"tty", "stdin", "terminal"}
  /\ Goto("exec.prepare")
  /\ UNCHANGED <<pump, closed, copier>>

(* An early return: a refusal, or no client or terminal device.  Else the  *)
(* pump starts, if exec is to be interactive on a terminal.                *)
PrepareInput ==
  /\ pc = "exec.prepare"
  /\ \/ Goto("dispatched") /\ UNCHANGED execVars
     \/ /\ Goto(IF interactive THEN "exec.suspend" ELSE "exec.stream")
        /\ pump' = IF rawTTY THEN [pump EXCEPT ![runs] = "starting"] ELSE pump
        /\ UNCHANGED <<runs, mode, closed, copier>>

(* When this fails exec returns, and nobody stops the pump. *)
ExecSuspend ==
  /\ SuspendTerminal("exec.suspend", IF rawTTY THEN "exec.raw" ELSE "exec.stream")
  /\ UNCHANGED execVars

(* When this fails the REPL has the terminal back and the pump goes on. *)
MakeRaw ==
  /\ pc = "exec.raw"
  /\ \/ pc' = "exec.stream" /\ tty' = "raw" /\ UNCHANGED trouble
     \/ pc' = "dispatched" /\ trouble' = trouble \cup {"raw"} /\ UNCHANGED tty
  /\ UNCHANGED <<rl, hooks, reset, execVars>>

(* The stream takes its input, if it is given one.  It does not wait for   *)
(* the copier when it ends.                                                *)
StreamStarts ==
  /\ pc = "exec.stream"
  /\ copier[runs] = NoCopier
  /\ "stdin" \in mode
  /\ copier' = [copier EXCEPT ![runs] =
       [state |-> "reading", from |-> IF rawTTY THEN "pipe" ELSE "stdin"]]
  /\ UNCHANGED <<termVars, runs, mode, pump, closed>>

(* The remote command ends, or the connection: with an error, or without. *)
StreamEnds ==
  /\ pc = "exec.stream"
  /\ Goto("exec.stop")
  /\ UNCHANGED execVars

(* Slip: the pump is not waited for. *)
CloseInput_NoWait ==
  /\ pc = "exec.stop"
  /\ IF rawTTY
       THEN /\ Goto("exec.restore")
            /\ closed' = [closed EXCEPT ![runs] = {"stopCh", "src", "writer"}]
       ELSE /\ Goto(IF interactive THEN "exec.resume" ELSE "dispatched")
            /\ UNCHANGED closed
  /\ UNCHANGED <<runs, mode, pump, copier>>

(* closeInput: stop, which runs once and does not block, and then the wait *)
(* for the pump; nothing when there is no pump, though the copier may be   *)
(* reading os.Stdin.                                                       *)
CloseInput ==
  /\ pc = "exec.stop"
  /\ IF rawTTY
       THEN /\ Goto("exec.wait")
            /\ closed' = [closed EXCEPT ![runs] = {"stopCh", "src", "writer"}]
       ELSE /\ Goto(IF interactive THEN "exec.resume" ELSE "dispatched")
            /\ UNCHANGED closed
  /\ UNCHANGED <<runs, mode, pump, copier>>

PumpDone ==
  /\ pc = "exec.wait"
  /\ pump[runs] = "done"
  /\ Goto("exec.restore")
  /\ UNCHANGED execVars

(* When this fails exec returns and asks for no reset. *)
RestoreTerminal ==
  /\ pc = "exec.restore"
  /\ \/ pc' = "exec.resume" /\ tty' = "cooked" /\ UNCHANGED trouble
     \/ pc' = "dispatched" /\ trouble' = trouble \cup {"restore"} /\ UNCHANGED tty
  /\ UNCHANGED <<rl, hooks, reset, execVars>>

ExecResume ==
  /\ ResumeTerminal("exec.resume", "dispatched")
  /\ UNCHANGED execVars

-----------------------------------------------------------------------------
PumpGoes(i, state) == pump' = [pump EXCEPT ![i] = state]

SetNonblock(i) ==
  /\ pump[i] = "starting"
  /\ \E state \in {"checking", "failing"} : PumpGoes(i, state)
  /\ UNCHANGED <<closed, copier>>

CheckStop(i) ==
  /\ pump[i] = "checking"
  /\ PumpGoes(i, IF "stopCh" \in closed[i] THEN "stopping" ELSE "reading")
  /\ UNCHANGED <<closed, copier>>

(* Slip: the read waits for a key. *)
ReadTTY_Blocks(i) ==
  /\ pump[i] = "reading"
  /\ "src" \notin closed[i]
  /\ PumpGoes(i, "writing")
  /\ UNCHANGED <<closed, copier>>

(* Input; nothing to read; the end of it; an error; or src is closed, which *)
(* is an error of its own.                                                 *)
ReadTTY(i) ==
  /\ pump[i] = "reading"
  /\ IF "src" \in closed[i]
       THEN PumpGoes(i, "failing")
       ELSE \E state \in {"writing", "sleeping", "stopping", "failing"} :
              PumpGoes(i, state)
  /\ UNCHANGED <<closed, copier>>

Wake(i) ==
  /\ pump[i] = "sleeping"
  /\ PumpGoes(i, "checking")
  /\ UNCHANGED <<closed, copier>>

(* The pipe has no buffer: a write waits for a reader, or for the end. *)
Transfer(i) ==
  /\ pump[i] = "writing"
  /\ copier[i] = [state |-> "reading", from |-> "pipe"]
  /\ PumpGoes(i, "checking")
  /\ copier' = [copier EXCEPT ![i].state = "sending"]
  /\ UNCHANGED closed

WriteFails(i) ==
  /\ pump[i] = "writing"
  /\ "writer" \in closed[i]
  /\ PumpGoes(i, "stopping")
  /\ UNCHANGED <<closed, copier>>

(* CloseWithError: the stream's input ends with the error. *)
PumpFails(i) ==
  /\ pump[i] = "failing"
  /\ PumpGoes(i, "stopping")
  /\ closed' = [closed EXCEPT ![i] = @ \cup {"writer"}]
  /\ UNCHANGED copier

PumpStops(i) ==
  /\ pump[i] = "stopping"
  /\ PumpGoes(i, "done")
  /\ closed' = [closed EXCEPT ![i] = {"stopCh", "src", "writer"}]
  /\ UNCHANGED copier

Pump(i) ==
  /\ \/ SetNonblock(i) \/ CheckStop(i) \/ ReadTTY(i) \/ Wake(i)
     \/ Transfer(i) \/ WriteFails(i) \/ PumpFails(i) \/ PumpStops(i)
  /\ UNCHANGED <<termVars, runs, mode>>

-----------------------------------------------------------------------------
(* A copier that has sent goes on only while there is a stream to send on. *)
CopierSent(i) ==
  /\ copier[i].state = "sending"
  /\ \/ pc = "exec.stream" /\ i = runs /\ copier' = [copier EXCEPT ![i].state = "reading"]
     \/ copier' = [copier EXCEPT ![i].state = "done"]
  /\ UNCHANGED <<termVars, runs, mode, pump, closed>>

CopierSeesEnd(i) ==
  /\ copier[i] = [state |-> "reading", from |-> "pipe"]
  /\ "writer" \in closed[i]
  /\ copier' = [copier EXCEPT ![i].state = "done"]
  /\ UNCHANGED <<termVars, runs, mode, pump, closed>>

(* It takes what is typed next, whatever krepl is doing by then. *)
CopierReadsStdin(i) ==
  /\ copier[i] = [state |-> "reading", from |-> "stdin"]
  /\ \E state \in {"sending", "done"} : copier' = [copier EXCEPT ![i].state = state]
  /\ UNCHANGED <<termVars, runs, mode, pump, closed>>

Copier(i) == CopierSent(i) \/ CopierSeesEnd(i)

(* What exec does by itself; only the stream ends when it likes. *)
ExecGoesOn ==
  \/ PrepareInput \/ ExecSuspend \/ MakeRaw
  \/ CloseInput \/ PumpDone \/ RestoreTerminal \/ ExecResume

=============================================================================
