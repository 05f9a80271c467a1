---------------------------- MODULE PortForward ----------------------------
(***************************************************************************)
(* Port-forwards: the REPL's goroutine, which runs port-forward,           *)
(* port-forwards stop, quit and the end of input one after another, and    *)
(* one goroutine per forwarder, which runs ForwardPorts and reports how it *)
(* ended.  They share the session, the ready and stop channels and errCh.  *)
(*                                                                         *)
(* ForwardPorts belongs to client-go.  It dials, listens, closes the ready *)
(* channel, then serves until the stop channel is closed (it returns nil)  *)
(* or the connection is lost; before it is ready it heeds no stop.         *)
(***************************************************************************)
EXTENDS Session, Sequences

CONSTANTS
  MaxSessions,   (* bound on the sessions of one run *)
  WriteSizes     (* sizes of the writes a forwarder makes *)

ASSUME PortForwardAssumption ==
  /\ MaxSessions \in Nat
  /\ WriteSizes \subseteq Nat

Ids == 1..MaxSessions

VARIABLES
  sessions,      (* id -> its session *)
  forwarder,     (* id -> where its goroutine is *)
  result,        (* id -> what ForwardPorts returned *)
  readyCh,       (* id -> is the ready channel closed? *)
  errCh,         (* id -> what the channel holds: at most one result *)
  portForwards,  (* Env.portForwards, by ids *)
  pc,            (* where the REPL is *)
  current,       (* the session the running command is about, or 0 *)
  toStop,        (* the sessions the command still has to stop *)
  quitting       (* is that command quit? *)

mainVars == <<portForwards, pc, current, toStop, quitting>>
vars == <<sessions, forwarder, result, readyCh, errCh, mainVars>>

ForwarderStates ==
  {"unused", "dialing", "serving", "returned", "recorded", "done"}

PCs == {"reading", "waiting", "confirming", "closing", "marking", "exited"}

-----------------------------------------------------------------------------
Init ==
  /\ sessions = [id \in Ids |-> NewSession]
  /\ forwarder = [id \in Ids |-> "unused"]
  /\ result = [id \in Ids |-> NoError]
  /\ readyCh = [id \in Ids |-> FALSE]
  /\ errCh = [id \in Ids |-> <<>>]
  /\ portForwards = <<>>
  /\ pc = "reading"
  /\ current = 0
  /\ toStop = <<>>
  /\ quitting = FALSE

(* The process is alive, and so are its goroutines. *)
Alive == pc # "exited"

-----------------------------------------------------------------------------
(* The goroutine of one forwarder. *)
Ready(id) ==
  /\ Alive
  /\ forwarder[id] = "dialing"
  /\ forwarder' = [forwarder EXCEPT ![id] = "serving"]
  /\ readyCh' = [readyCh EXCEPT ![id] = TRUE]
  /\ UNCHANGED <<sessions, result, errCh, mainVars>>

(* ForwardPorts returns err. *)
Return(id, err) ==
  /\ forwarder' = [forwarder EXCEPT ![id] = "returned"]
  /\ result' = [result EXCEPT ![id] = err]
  /\ UNCHANGED <<sessions, readyCh, errCh, mainVars>>

(* No connection, or no port to listen on; the caller allows for nil too. *)
FailToStart(id) ==
  /\ Alive
  /\ forwarder[id] = "dialing"
  /\ \E err \in Errors \cup {NoError} : Return(id, err)

LoseConnection(id) ==
  /\ Alive
  /\ forwarder[id] = "serving"
  /\ \E err \in Errors : Return(id, err)

SeeStop(id) ==
  /\ Alive
  /\ forwarder[id] = "serving"
  /\ sessions[id].stopClosed
  /\ Return(id, NoError)

(* The forwarder, or a connection it has handed to, writes some output. *)
Write(id) ==
  /\ Alive
  /\ forwarder[id] # "unused"
  /\ \E n \in WriteSizes :
       sessions' = [sessions EXCEPT ![id] = AppendOutput(sessions[id], n)]
  /\ UNCHANGED <<forwarder, result, readyCh, errCh, mainVars>>

RecordExit(id) ==
  /\ Alive
  /\ forwarder[id] = "returned"
  /\ sessions' = [sessions EXCEPT ![id] = MarkExited(sessions[id], result[id])]
  /\ forwarder' = [forwarder EXCEPT ![id] = "recorded"]
  /\ UNCHANGED <<result, readyCh, errCh, mainVars>>

(* Slips: errCh has no buffer, so a send waits for its receiver; only a    *)
(* failure is sent.                                                        *)
SendResult_Unbuffered(id) ==
  /\ Alive
  /\ forwarder[id] = "recorded"
  /\ pc = "waiting" /\ current = id
  /\ errCh' = [errCh EXCEPT ![id] = Append(errCh[id], result[id])]
  /\ forwarder' = [forwarder EXCEPT ![id] = "done"]
  /\ UNCHANGED <<sessions, result, readyCh, mainVars>>

SendResult_FailuresOnly(id) ==
  /\ Alive
  /\ forwarder[id] = "recorded"
  /\ errCh' = IF result[id] = NoError THEN errCh
              ELSE [errCh EXCEPT ![id] = Append(errCh[id], result[id])]
  /\ forwarder' = [forwarder EXCEPT ![id] = "done"]
  /\ UNCHANGED <<sessions, result, readyCh, mainVars>>

(* errCh has room for one result, so the goroutine never waits here. *)
SendResult(id) ==
  /\ Alive
  /\ forwarder[id] = "recorded"
  /\ Len(errCh[id]) < 1
  /\ errCh' = [errCh EXCEPT ![id] = Append(errCh[id], result[id])]
  /\ forwarder' = [forwarder EXCEPT ![id] = "done"]
  /\ UNCHANGED <<sessions, result, readyCh, mainVars>>

Forwarder(id) ==
  \/ Ready(id) \/ FailToStart(id) \/ LoseConnection(id) \/ SeeStop(id)
  \/ Write(id) \/ RecordExit(id) \/ SendResult(id)

-----------------------------------------------------------------------------
(* port-forward, once a pod is selected and the ports are well formed: the *)
(* goroutine is started and the REPL waits at the select.                  *)
StartForward(id) ==
  /\ pc = "reading"
  /\ forwarder[id] = "unused"
  /\ \A other \in Ids : other < id => forwarder[other] # "unused"
  /\ sessions' = [sessions EXCEPT ![id] = NewSession]
  /\ forwarder' = [forwarder EXCEPT ![id] = "dialing"]
  /\ pc' = "waiting"
  /\ current' = id
  /\ UNCHANGED <<result, readyCh, errCh, portForwards, toStop, quitting>>

BackToReading == pc' = "reading" /\ current' = 0

(* Slip: sessions that are over make room for the new one. *)
ReceiveReady_PrunesEnded ==
  /\ pc = "waiting"
  /\ readyCh[current]
  /\ sessions' = [sessions EXCEPT ![current] = MarkRunning(sessions[current])]
  /\ portForwards' =
       Append(SelectSeq(portForwards,
                        LAMBDA id : sessions[id].status \in {"Starting", "Running"}),
              current)
  /\ BackToReading
  /\ UNCHANGED <<forwarder, result, readyCh, errCh, toStop, quitting>>

(* The select finds the ready channel closed: MarkRunning, AddPortForward. *)
ReceiveReady ==
  /\ pc = "waiting"
  /\ readyCh[current]
  /\ sessions' = [sessions EXCEPT ![current] = MarkRunning(sessions[current])]
  /\ portForwards' = Append(portForwards, current)
  /\ BackToReading
  /\ UNCHANGED <<forwarder, result, readyCh, errCh, toStop, quitting>>

(* Slip: the command stops waiting before the forwarder has ended. *)
ReceiveError_OrTimeout ==
  /\ pc = "waiting"
  /\ errCh' = [errCh EXCEPT ![current] = <<>>]
  /\ BackToReading
  /\ UNCHANGED <<sessions, forwarder, result, readyCh, portForwards, toStop, quitting>>

(* The select finds a result in errCh: the session is dropped.  Both       *)
(* branches may be open, and the select then takes either.                 *)
ReceiveError ==
  /\ pc = "waiting"
  /\ errCh[current] # <<>>
  /\ errCh' = [errCh EXCEPT ![current] = Tail(errCh[current])]
  /\ BackToReading
  /\ UNCHANGED <<sessions, forwarder, result, readyCh, portForwards, toStop, quitting>>

-----------------------------------------------------------------------------
(* port-forwards stop <index> asks for a confirmation. *)
AskToStop(i) ==
  /\ pc = "reading"
  /\ i \in DOMAIN portForwards
  /\ pc' = "confirming"
  /\ current' = portForwards[i]
  /\ toStop' = <<portForwards[i]>>
  /\ UNCHANGED <<sessions, forwarder, result, readyCh, errCh, portForwards, quitting>>

AnswerYes ==
  /\ pc = "confirming"
  /\ pc' = "closing"
  /\ UNCHANGED <<sessions, forwarder, result, readyCh, errCh, portForwards,
                 current, toStop, quitting>>

(* Any other answer, none, or a read error. *)
AnswerNo ==
  /\ pc = "confirming"
  /\ toStop' = <<>>
  /\ BackToReading
  /\ UNCHANGED <<sessions, forwarder, result, readyCh, errCh, portForwards, quitting>>

(* quit: StopAllPortForwards. *)
QuitCmd ==
  /\ pc = "reading"
  /\ quitting' = TRUE
  /\ toStop' = portForwards
  /\ pc' = IF portForwards = <<>> THEN "exited" ELSE "closing"
  /\ UNCHANGED <<sessions, forwarder, result, readyCh, errCh, portForwards, current>>

(* Stop of the first session of toStop: the channel, then the status. *)
CloseStopChannel ==
  /\ pc = "closing"
  /\ sessions' = [sessions EXCEPT ![Head(toStop)] = CloseStop(sessions[Head(toStop)])]
  /\ pc' = "marking"
  /\ UNCHANGED <<forwarder, result, readyCh, errCh, portForwards, current, toStop, quitting>>

(* Slip: quit stops a session and is done. *)
MarkSessionStopped_OnlyFirst ==
  /\ pc = "marking"
  /\ sessions' = [sessions EXCEPT ![Head(toStop)] = MarkStopped(sessions[Head(toStop)])]
  /\ toStop' = <<>>
  /\ current' = 0
  /\ pc' = IF quitting THEN "exited" ELSE "reading"
  /\ UNCHANGED <<forwarder, result, readyCh, errCh, portForwards, quitting>>

(* After the last session the command returns; after quit the loop of Run  *)
(* ends and with it the process.                                           *)
MarkSessionStopped ==
  /\ pc = "marking"
  /\ sessions' = [sessions EXCEPT ![Head(toStop)] = MarkStopped(sessions[Head(toStop)])]
  /\ toStop' = Tail(toStop)
  /\ current' = 0
  /\ pc' = IF toStop' # <<>> THEN "closing"
           ELSE IF quitting THEN "exited" ELSE "reading"
  /\ UNCHANGED <<forwarder, result, readyCh, errCh, portForwards, quitting>>

(* Ctrl-D, or a failure of readline, ends Run at once. *)
EndOfInput ==
  /\ pc = "reading"
  /\ pc' = "exited"
  /\ UNCHANGED <<sessions, forwarder, result, readyCh, errCh, portForwards,
                 current, toStop, quitting>>

(* Ctrl-C while no line is being read is the default SIGINT. *)
Interrupted ==
  /\ pc \in {"waiting", "confirming"}
  /\ pc' = "exited"
  /\ UNCHANGED <<sessions, forwarder, result, readyCh, errCh, portForwards,
                 current, toStop, quitting>>

Main ==
  \/ \E id \in Ids : StartForward(id)
  \/ ReceiveReady \/ ReceiveError
  \/ \E i \in DOMAIN portForwards : AskToStop(i)
  \/ AnswerYes \/ AnswerNo \/ QuitCmd
  \/ CloseStopChannel \/ MarkSessionStopped
  \/ EndOfInput \/ Interrupted

Next == Main \/ \E id \in Ids : Forwarder(id)

Spec == Init /\ [][Next]_vars

(* The Go scheduler runs every goroutine that can run; a dial is assumed   *)
(* to end.  Nothing obliges the user to type or a connection to break.     *)
ForwarderFairness(id) ==
  /\ WF_vars(Ready(id) \/ FailToStart(id))
  /\ WF_vars(SeeStop(id))
  /\ WF_vars(RecordExit(id))
  /\ WF_vars(SendResult(id))

MainFairness ==
  /\ WF_vars(ReceiveReady \/ ReceiveError)
  /\ WF_vars(CloseStopChannel)
  /\ WF_vars(MarkSessionStopped)

FairSpec == Spec /\ MainFairness /\ \A id \in Ids : ForwarderFairness(id)

-----------------------------------------------------------------------------
(* Type invariant of the goroutines and of what they share. *)
TypeOK ==
  /\ sessions \in [Ids -> Sessions]
  /\ forwarder \in [Ids -> ForwarderStates]
  /\ result \in [Ids -> Errors \cup {NoError}]
  /\ readyCh \in [Ids -> BOOLEAN]
  /\ errCh \in [Ids -> Seq(Errors \cup {NoError})]
  /\ portForwards \in Seq(Ids)
  /\ pc \in PCs
  /\ current \in Ids \cup {0}
  /\ toStop \in Seq(Ids)
  /\ quitting \in BOOLEAN

(* Once a forwarder's end is recorded, the session never shows as active:  *)
(* the REPL may learn only afterwards that the forwarder had been ready,   *)
(* and must not mark it Running then.                                      *)
RecordedEndIsShown ==
  \A id \in Ids :
    forwarder[id] \in {"recorded", "done"} =>
      sessions[id].status \in {"Stopped", "Exited"}

(* An error is shown with the status Exited, and with no other.            *)
StatusAndErrorAgree ==
  \A id \in Ids :
    sessions[id].status = "Exited" <=> sessions[id].exitErr # NoError

(* Stopped is final: whatever the forwarder reports while it winds down, a *)
(* session that was stopped is not shown as failed or as running again.    *)
StoppedIsFinal ==
  [][\A id \in Ids :
       sessions[id].status = "Stopped" => sessions'[id].status = "Stopped"]_vars

(* An index keeps naming the session it named when it was listed.          *)
IndicesAreStable ==
  [][\A i \in DOMAIN portForwards :
       i \in DOMAIN portForwards' /\ portForwards'[i] = portForwards[i]]_vars

(* When quit has ended the REPL, every listed session has been told to     *)
(* stop and shows as stopped, also those that ended on their own while     *)
(* quit was stopping the others.                                           *)
QuitStopsEverySession ==
  pc = "exited" /\ quitting =>
    \A i \in DOMAIN portForwards :
      /\ sessions[portForwards[i]].stopClosed
      /\ sessions[portForwards[i]].status = "Stopped"

(* A forwarder told to stop ends, and so does its goroutine: it does not   *)
(* wait for ever to deliver a result that nobody receives.                 *)
StoppedForwardersEnd ==
  \A id \in Ids : sessions[id].stopClosed ~> forwarder[id] = "done" \/ ~Alive

(* port-forward gives the prompt back, however the start ends.             *)
PortForwardReturns == pc = "waiting" ~> pc # "waiting"

(* help quit: "Any active managed port-forward sessions are stopped before *)
(* the process terminates."                                                *)
SessionsStoppedBeforeExit ==
  pc = "exited" =>
    \A i \in DOMAIN portForwards :
      sessions[portForwards[i]].status \notin {"Starting", "Running"}

-----------------------------------------------------------------------------
(* PortForward implements Register. *)
AliveForwarders ==
  IF Alive THEN {id \in Ids : forwarder[id] \in {"dialing", "serving"}} ELSE {}

Reg == INSTANCE Register WITH
  None     <- 0,
  starting <- IF pc = "waiting" THEN current ELSE 0,
  alive    <- AliveForwarders,
  listed   <- portForwards

(* No forwarder is left running out of the user's reach: one that is alive *)
(* is being waited for or is listed, also when it became ready and failed  *)
(* at once and the select could take either branch.                        *)
ImplementsRegister == Reg!RSpec

=============================================================================
