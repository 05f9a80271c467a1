-------------------------- MODULE PortForwardProofs --------------------------
(***************************************************************************)
(* PortForward for any number of sessions and any errors: its safety       *)
(* properties, by one inductive invariant, and that it implements          *)
(* Register.  The two liveness properties are model-checked, under         *)
(* fairness; what is proved of them is that no one waits for what cannot   *)
(* come, and that goroutines only move on.                                 *)
(***************************************************************************)
EXTENDS PortForward, TLAPS

-----------------------------------------------------------------------------
(* The session operations yield sessions, and what they do to the status,  *)
(* the error and the stop channel.                                         *)
LEMMA SessionOps ==
  ASSUME NEW s \in Sessions
  PROVE  /\ NewSession \in Sessions
         /\ MarkRunning(s) \in Sessions
         /\ CloseStop(s) \in Sessions /\ CloseStop(s).stopClosed
         /\ CloseStop(s).status = s.status /\ CloseStop(s).exitErr = s.exitErr
         /\ MarkStopped(s) \in Sessions
         /\ MarkStopped(s).status = "Stopped" /\ MarkStopped(s).exitErr = NoError
         /\ MarkStopped(s).stopClosed = s.stopClosed
         /\ MarkRunning(s).exitErr = s.exitErr
         /\ MarkRunning(s).stopClosed = s.stopClosed
         /\ MarkRunning(s).status = IF s.status = "Starting" THEN "Running" ELSE s.status
<1>1. NewSession \in Sessions
  BY SessionAssumption DEF Sessions, Statuses, NewSession
<1>2. /\ MarkRunning(s) \in Sessions
      /\ MarkRunning(s).exitErr = s.exitErr
      /\ MarkRunning(s).stopClosed = s.stopClosed
      /\ MarkRunning(s).status = IF s.status = "Starting" THEN "Running" ELSE s.status
  BY DEF Sessions, Statuses, MarkRunning
<1>3. /\ CloseStop(s) \in Sessions /\ CloseStop(s).stopClosed
      /\ CloseStop(s).status = s.status /\ CloseStop(s).exitErr = s.exitErr
  BY DEF Sessions, CloseStop
<1>4. /\ MarkStopped(s) \in Sessions
      /\ MarkStopped(s).status = "Stopped" /\ MarkStopped(s).exitErr = NoError
      /\ MarkStopped(s).stopClosed = s.stopClosed
  BY DEF Sessions, Statuses, MarkStopped
<1> QED BY <1>1, <1>2, <1>3, <1>4

LEMMA AppendOutputKeeps ==
  ASSUME NEW s \in Sessions, NEW n \in Nat
  PROVE  /\ AppendOutput(s, n) \in Sessions
         /\ AppendOutput(s, n).status = s.status
         /\ AppendOutput(s, n).exitErr = s.exitErr
         /\ AppendOutput(s, n).stopClosed = s.stopClosed
<1> DEFINE kept == IF s.output + n > maxOutputBytes THEN maxOutputBytes ELSE s.output + n
<1>1. kept \in 0..maxOutputBytes
  BY SessionAssumption DEF Sessions
<1> HIDE DEF kept
<1>2. AppendOutput(s, n) = [s EXCEPT !.output = kept]
  BY DEF AppendOutput, kept
<1> QED BY <1>1, <1>2 DEF Sessions

LEMMA MarkExitedEnds ==
  ASSUME NEW s \in Sessions, NEW err \in Errors \cup {NoError},
         s.status = "Exited" <=> s.exitErr # NoError
  PROVE  /\ MarkExited(s, err) \in Sessions
         /\ MarkExited(s, err).status \in {"Stopped", "Exited"}
         /\ s.status = "Stopped" => MarkExited(s, err).status = "Stopped"
         /\ MarkExited(s, err).stopClosed = s.stopClosed
         /\ MarkExited(s, err).status = "Exited" <=> MarkExited(s, err).exitErr # NoError
BY SessionAssumption DEF Sessions, Statuses, MarkExited

-----------------------------------------------------------------------------
(* A session nobody has started is as new. *)
UnusedIsNew ==
  \A id \in Ids : forwarder[id] = "unused" => sessions[id] = NewSession

(* A result is in errCh only when the goroutine has ended. *)
ResultMeansDone ==
  \A id \in Ids : errCh[id] # <<>> => forwarder[id] = "done"

(* The commands are about sessions that were started. *)
CommandsHaveSessions ==
  /\ pc = "waiting" => current \in Ids /\ forwarder[current] # "unused"
  /\ \A i \in DOMAIN portForwards : forwarder[portForwards[i]] # "unused"
  /\ \A i \in DOMAIN toStop : forwarder[toStop[i]] # "unused"
  /\ pc \in {"confirming", "closing", "marking"} => toStop # <<>>
  /\ pc = "marking" => sessions[Head(toStop)].stopClosed
  /\ pc \in {"reading", "waiting", "confirming"} => ~quitting

StoppedByUser(id) == sessions[id].stopClosed /\ sessions[id].status = "Stopped"

(* How far quit has come with its loop. *)
QuitProgress ==
  /\ pc = "exited" /\ quitting => toStop = <<>>
  /\ quitting =>
       \A i \in DOMAIN portForwards :
         \/ StoppedByUser(portForwards[i])
         \/ \E k \in DOMAIN toStop : toStop[k] = portForwards[i]

(* The inductive invariant. *)
IInv ==
  /\ TypeOK
  /\ RecordedEndIsShown
  /\ StatusAndErrorAgree
  /\ UnusedIsNew
  /\ ResultMeansDone
  /\ CommandsHaveSessions
  /\ QuitProgress

LEMMA QuitInvariant == IInv => QuitStopsEverySession
BY DEF IInv, QuitProgress, QuitStopsEverySession, StoppedByUser

LEMMA InitEstablishes == Init => IInv
<1> SUFFICES ASSUME Init PROVE IInv
  OBVIOUS
<1>1. NewSession \in Sessions
  BY SessionAssumption DEF NewSession, Sessions, Statuses
<1>2. TypeOK
  <2>1. /\ portForwards \in Seq(Ids) /\ toStop \in Seq(Ids)
        /\ errCh \in [Ids -> Seq(Errors \cup {NoError})]
    BY DEF Init
  <2> QED BY <1>1, <2>1 DEF Init, TypeOK, ForwarderStates, PCs
<1>3. RecordedEndIsShown /\ StatusAndErrorAgree /\ UnusedIsNew /\ ResultMeansDone
  BY DEF Init, RecordedEndIsShown, StatusAndErrorAgree, UnusedIsNew, ResultMeansDone,
         NewSession
<1>4. CommandsHaveSessions /\ QuitProgress
  BY DEF Init, CommandsHaveSessions, QuitProgress
<1> QED BY <1>2, <1>3, <1>4 DEF IInv

-----------------------------------------------------------------------------
(* A step that changes one session, keeps its stop channel closed if it    *)
(* was, and Stopped if it was: the commands in progress are not disturbed. *)
LEMMA CommandsUndisturbed ==
  ASSUME IInv, NEW id \in Ids, NEW s \in Sessions,
         forwarder[id] # "unused",
         sessions[id].stopClosed => s.stopClosed,
         sessions[id].status = "Stopped" => s.status = "Stopped",
         sessions' = [sessions EXCEPT ![id] = s],
         NEW st \in ForwarderStates \ {"unused"},
         forwarder' = [forwarder EXCEPT ![id] = st],
         UNCHANGED mainVars
  PROVE  CommandsHaveSessions' /\ QuitProgress'
<1>1. /\ sessions \in [Ids -> Sessions] /\ forwarder \in [Ids -> ForwarderStates]
      /\ portForwards \in Seq(Ids) /\ toStop \in Seq(Ids)
  BY DEF IInv, TypeOK
<1>2. \A other \in Ids :
        /\ forwarder[other] # "unused" => forwarder'[other] # "unused"
        /\ sessions[other].stopClosed => sessions'[other].stopClosed
        /\ sessions[other].status = "Stopped" => sessions'[other].status = "Stopped"
  BY <1>1
<1>3. /\ \A i \in DOMAIN portForwards : portForwards[i] \in Ids
      /\ \A i \in DOMAIN toStop : toStop[i] \in Ids
      /\ toStop # <<>> => Head(toStop) \in Ids
  BY <1>1
<1>4. UNCHANGED <<portForwards, pc, current, toStop, quitting>>
  BY DEF mainVars
<1>5. CommandsHaveSessions'
  BY <1>2, <1>3, <1>4 DEF IInv, CommandsHaveSessions
<1>6. QuitProgress'
  BY <1>2, <1>3, <1>4 DEF IInv, QuitProgress, StoppedByUser
<1> QED BY <1>5, <1>6

LEMMA ReturnStep ==
  ASSUME IInv, NEW id \in Ids, forwarder[id] \in {"dialing", "serving"},
         NEW err \in Errors \cup {NoError}, Return(id, err)
  PROVE  IInv'
<1>1. /\ forwarder' = [forwarder EXCEPT ![id] = "returned"]
      /\ result' = [result EXCEPT ![id] = err]
      /\ UNCHANGED <<sessions, readyCh, errCh, mainVars>>
  BY DEF Return
<1>2. TypeOK'
  BY <1>1 DEF IInv, TypeOK, ForwarderStates, mainVars
<1>3. RecordedEndIsShown' /\ StatusAndErrorAgree' /\ UnusedIsNew' /\ ResultMeansDone'
  BY <1>1 DEF IInv, TypeOK, RecordedEndIsShown, StatusAndErrorAgree, UnusedIsNew,
              ResultMeansDone
<1>4. CommandsHaveSessions' /\ QuitProgress'
  <2>1. sessions' = [sessions EXCEPT ![id] = sessions[id]] /\ sessions[id] \in Sessions
    BY <1>1 DEF IInv, TypeOK
  <2>2. "returned" \in ForwarderStates \ {"unused"}
    BY DEF ForwarderStates
  <2> QED BY <1>1, <2>1, <2>2, CommandsUndisturbed
<1> QED BY <1>2, <1>3, <1>4 DEF IInv

LEMMA ForwarderStep ==
  ASSUME IInv, NEW id \in Ids, Forwarder(id)
  PROVE  IInv'
<1>0. /\ sessions \in [Ids -> Sessions] /\ forwarder \in [Ids -> ForwarderStates]
      /\ sessions[id] \in Sessions /\ result[id] \in Errors \cup {NoError}
  BY DEF IInv, TypeOK
<1>1. CASE Ready(id)
  <2>1. TypeOK'
    BY <1>1 DEF Ready, IInv, TypeOK, ForwarderStates, mainVars
  <2>2. RecordedEndIsShown' /\ StatusAndErrorAgree' /\ UnusedIsNew' /\ ResultMeansDone'
    BY <1>0, <1>1 DEF Ready, IInv, RecordedEndIsShown, StatusAndErrorAgree, UnusedIsNew,
                ResultMeansDone
  <2>3. sessions' = [sessions EXCEPT ![id] = sessions[id]]
    BY <1>0, <1>1 DEF Ready
  <2>4. "serving" \in ForwarderStates \ {"unused"}
    BY DEF ForwarderStates
  <2>5. CommandsHaveSessions' /\ QuitProgress'
    BY <1>0, <1>1, <2>3, <2>4, CommandsUndisturbed DEF Ready
  <2> QED BY <2>1, <2>2, <2>5 DEF IInv
<1>2. CASE FailToStart(id)
  BY <1>2, ReturnStep DEF FailToStart
<1>3. CASE LoseConnection(id)
  BY <1>3, ReturnStep DEF LoseConnection
<1>4. CASE SeeStop(id)
  BY <1>4, ReturnStep DEF SeeStop
<1>5. CASE Write(id)
  <2>1. PICK n \in WriteSizes : sessions' = [sessions EXCEPT ![id] = AppendOutput(sessions[id], n)]
    BY <1>5 DEF Write
  <2>2. n \in Nat
    BY PortForwardAssumption
  <2> DEFINE s == AppendOutput(sessions[id], n)
  <2>3. /\ s \in Sessions
        /\ s.status = sessions[id].status /\ s.exitErr = sessions[id].exitErr
        /\ s.stopClosed = sessions[id].stopClosed
    BY <1>0, <2>2, AppendOutputKeeps
  <2>4. sessions' = [sessions EXCEPT ![id] = s]
    BY <2>1
  <2> HIDE DEF s
  <2>5. forwarder[id] # "unused" /\ UNCHANGED <<forwarder, result, readyCh, errCh, mainVars>>
    BY <1>5 DEF Write
  <2>6. TypeOK'
    BY <2>3, <2>4, <2>5 DEF IInv, TypeOK, mainVars
  <2>7. RecordedEndIsShown' /\ StatusAndErrorAgree' /\ UnusedIsNew' /\ ResultMeansDone'
    BY <1>0, <2>3, <2>4, <2>5 DEF IInv, RecordedEndIsShown, StatusAndErrorAgree, UnusedIsNew,
                            ResultMeansDone
  <2>8. forwarder' = [forwarder EXCEPT ![id] = forwarder[id]]
    BY <1>0, <2>5
  <2>9. CommandsHaveSessions' /\ QuitProgress'
    BY <1>0, <2>3, <2>4, <2>5, <2>8, CommandsUndisturbed
  <2> QED BY <2>6, <2>7, <2>9 DEF IInv
<1>6. CASE RecordExit(id)
  <2> DEFINE s == MarkExited(sessions[id], result[id])
  <2>1. /\ s \in Sessions
        /\ s.status \in {"Stopped", "Exited"}
        /\ sessions[id].status = "Stopped" => s.status = "Stopped"
        /\ s.stopClosed = sessions[id].stopClosed
        /\ s.status = "Exited" <=> s.exitErr # NoError
    BY <1>0, MarkExitedEnds DEF IInv, StatusAndErrorAgree
  <2>2. /\ sessions' = [sessions EXCEPT ![id] = s]
        /\ forwarder' = [forwarder EXCEPT ![id] = "recorded"]
        /\ forwarder[id] = "returned"
        /\ UNCHANGED <<result, readyCh, errCh, mainVars>>
    BY <1>6 DEF RecordExit
  <2> HIDE DEF s
  <2>3. TypeOK'
    BY <2>1, <2>2 DEF IInv, TypeOK, ForwarderStates, mainVars
  <2>4. RecordedEndIsShown' /\ StatusAndErrorAgree' /\ UnusedIsNew' /\ ResultMeansDone'
    BY <1>0, <2>1, <2>2 DEF IInv, RecordedEndIsShown, StatusAndErrorAgree, UnusedIsNew,
                      ResultMeansDone
  <2>5. "recorded" \in ForwarderStates \ {"unused"}
    BY DEF ForwarderStates
  <2>6. CommandsHaveSessions' /\ QuitProgress'
    BY <2>1, <2>2, <2>5, CommandsUndisturbed
  <2> QED BY <2>3, <2>4, <2>6 DEF IInv
<1>7. CASE SendResult(id)
  <2>1. /\ errCh' = [errCh EXCEPT ![id] = Append(errCh[id], result[id])]
        /\ forwarder' = [forwarder EXCEPT ![id] = "done"]
        /\ forwarder[id] = "recorded"
        /\ UNCHANGED <<sessions, result, readyCh, mainVars>>
    BY <1>7 DEF SendResult
  <2>2. TypeOK'
    <3>1. Append(errCh[id], result[id]) \in Seq(Errors \cup {NoError})
      BY <1>0 DEF IInv, TypeOK
    <3> QED BY <2>1, <3>1 DEF IInv, TypeOK, ForwarderStates, mainVars
  <2>3. RecordedEndIsShown' /\ StatusAndErrorAgree' /\ UnusedIsNew'
    BY <1>0, <2>1 DEF IInv, RecordedEndIsShown, StatusAndErrorAgree, UnusedIsNew
  <2>4. ResultMeansDone'
    BY <1>0, <2>1 DEF IInv, TypeOK, ResultMeansDone
  <2>5. sessions' = [sessions EXCEPT ![id] = sessions[id]]
    BY <1>0, <2>1
  <2>6. "done" \in ForwarderStates \ {"unused"}
    BY DEF ForwarderStates
  <2>7. CommandsHaveSessions' /\ QuitProgress'
    BY <1>0, <2>1, <2>5, <2>6, CommandsUndisturbed
  <2> QED BY <2>2, <2>3, <2>4, <2>7 DEF IInv
<1> QED BY <1>1, <1>2, <1>3, <1>4, <1>5, <1>6, <1>7 DEF Forwarder

-----------------------------------------------------------------------------
LEMMA StartStep ==
  ASSUME IInv, NEW id \in Ids, StartForward(id)
  PROVE  IInv'
<1>1. /\ forwarder[id] = "unused"
      /\ sessions' = [sessions EXCEPT ![id] = NewSession]
      /\ forwarder' = [forwarder EXCEPT ![id] = "dialing"]
      /\ pc = "reading" /\ pc' = "waiting"
      /\ current' = id
      /\ UNCHANGED <<result, readyCh, errCh, portForwards, toStop, quitting>>
  BY DEF StartForward
<1>2. sessions \in [Ids -> Sessions] /\ forwarder \in [Ids -> ForwarderStates]
  BY DEF IInv, TypeOK
<1>3. sessions' = sessions
  BY <1>1, <1>2 DEF IInv, UnusedIsNew
<1>4. TypeOK'
  BY <1>1, <1>3 DEF IInv, TypeOK, ForwarderStates, PCs
<1>5. RecordedEndIsShown' /\ StatusAndErrorAgree' /\ UnusedIsNew' /\ ResultMeansDone'
  BY <1>1, <1>2, <1>3 DEF IInv, RecordedEndIsShown, StatusAndErrorAgree, UnusedIsNew,
                         ResultMeansDone
<1>6. CommandsHaveSessions'
  <2>1. portForwards \in Seq(Ids) /\ toStop \in Seq(Ids)
    BY DEF IInv, TypeOK
  <2>2. /\ \A i \in DOMAIN portForwards : portForwards[i] \in Ids
        /\ \A i \in DOMAIN toStop : toStop[i] \in Ids
    BY <2>1
  <2> QED BY <1>1, <1>2, <2>2 DEF IInv, CommandsHaveSessions
<1>7. QuitProgress'
  BY <1>1 DEF IInv, QuitProgress, CommandsHaveSessions
<1> QED BY <1>4, <1>5, <1>6, <1>7 DEF IInv

LEMMA SelectReadyStep ==
  ASSUME IInv, ReceiveReady
  PROVE  IInv'
<1> DEFINE s == MarkRunning(sessions[current])
<1>1. current \in Ids /\ forwarder[current] # "unused" /\ pc = "waiting" /\ ~quitting
  BY DEF IInv, CommandsHaveSessions, ReceiveReady
<1>2. /\ sessions \in [Ids -> Sessions] /\ forwarder \in [Ids -> ForwarderStates]
      /\ portForwards \in Seq(Ids) /\ toStop \in Seq(Ids)
  BY DEF IInv, TypeOK
<1>3. /\ s \in Sessions
      /\ s.exitErr = sessions[current].exitErr
      /\ s.status = IF sessions[current].status = "Starting" THEN "Running"
                    ELSE sessions[current].status
  BY <1>1, <1>2, SessionOps
<1>4. /\ sessions' = [sessions EXCEPT ![current] = s]
      /\ portForwards' = Append(portForwards, current)
      /\ pc' = "reading" /\ current' = 0
      /\ UNCHANGED <<forwarder, result, readyCh, errCh, toStop, quitting>>
  BY DEF ReceiveReady, BackToReading
<1> HIDE DEF s
<1>5. portForwards' \in Seq(Ids)
  BY <1>1, <1>2, <1>4
<1>6. TypeOK'
  BY <1>3, <1>4, <1>5 DEF IInv, TypeOK, PCs
<1>7. RecordedEndIsShown' /\ StatusAndErrorAgree' /\ UnusedIsNew' /\ ResultMeansDone'
  BY <1>1, <1>2, <1>3, <1>4 DEF IInv, RecordedEndIsShown, StatusAndErrorAgree,
                               UnusedIsNew, ResultMeansDone
<1>8. CommandsHaveSessions'
  <2>1. \A i \in DOMAIN portForwards' :
          portForwards'[i] = current \/ (i \in DOMAIN portForwards /\ portForwards'[i] = portForwards[i])
    BY <1>1, <1>2, <1>4
  <2> QED BY <1>1, <1>4, <2>1 DEF IInv, CommandsHaveSessions
<1>9. QuitProgress'
  BY <1>1, <1>4 DEF QuitProgress
<1> QED BY <1>6, <1>7, <1>8, <1>9 DEF IInv

LEMMA SelectErrorStep ==
  ASSUME IInv, ReceiveError
  PROVE  IInv'
<1>1. current \in Ids /\ pc = "waiting" /\ ~quitting /\ errCh[current] # <<>>
  BY DEF IInv, CommandsHaveSessions, ReceiveError
<1>2. /\ errCh' = [errCh EXCEPT ![current] = Tail(errCh[current])]
      /\ pc' = "reading" /\ current' = 0
      /\ UNCHANGED <<sessions, forwarder, result, readyCh, portForwards, toStop, quitting>>
  BY DEF ReceiveError, BackToReading
<1>3. Tail(errCh[current]) \in Seq(Errors \cup {NoError})
  BY <1>1 DEF IInv, TypeOK
<1>4. TypeOK'
  BY <1>2, <1>3 DEF IInv, TypeOK, PCs
<1>5. RecordedEndIsShown' /\ StatusAndErrorAgree' /\ UnusedIsNew' /\ ResultMeansDone'
  BY <1>1, <1>2 DEF IInv, TypeOK, RecordedEndIsShown, StatusAndErrorAgree, UnusedIsNew,
                   ResultMeansDone
<1>6. CommandsHaveSessions' /\ QuitProgress'
  BY <1>1, <1>2 DEF IInv, CommandsHaveSessions, QuitProgress
<1> QED BY <1>4, <1>5, <1>6 DEF IInv

(* Steps of the REPL between its commands and its prompts. *)
LEMMA ControlStep ==
  ASSUME IInv,
         UNCHANGED <<sessions, forwarder, result, readyCh, errCh, portForwards>>,
         \/ \E i \in DOMAIN portForwards : AskToStop(i)
         \/ AnswerYes \/ AnswerNo \/ QuitCmd \/ EndOfInput \/ Interrupted
  PROVE  IInv'
<1>1. RecordedEndIsShown' /\ StatusAndErrorAgree' /\ UnusedIsNew' /\ ResultMeansDone'
  BY DEF IInv, RecordedEndIsShown, StatusAndErrorAgree, UnusedIsNew, ResultMeansDone
<1>2. portForwards \in Seq(Ids) /\ toStop \in Seq(Ids) /\ current \in Ids \cup {0}
  BY DEF IInv, TypeOK
<1>3. CASE \E i \in DOMAIN portForwards : AskToStop(i)
  <2>1. PICK i \in DOMAIN portForwards : AskToStop(i)
    BY <1>3
  <2>2. /\ pc = "reading" /\ pc' = "confirming" /\ quitting' = quitting
        /\ current' = portForwards[i] /\ toStop' = <<portForwards[i]>>
    BY <2>1 DEF AskToStop
  <2>3. portForwards[i] \in Ids
    BY <1>2
  <2>4. toStop' \in Seq(Ids) /\ toStop' # <<>> /\ \A k \in DOMAIN toStop' : toStop'[k] = portForwards[i]
    BY <2>2, <2>3
  <2>5. TypeOK'
    BY <2>2, <2>3, <2>4 DEF IInv, TypeOK, PCs
  <2>6. CommandsHaveSessions' /\ QuitProgress'
    BY <2>2, <2>4 DEF IInv, CommandsHaveSessions, QuitProgress
  <2> QED BY <1>1, <2>5, <2>6 DEF IInv
<1>4. CASE AnswerYes
  BY <1>1, <1>4 DEF AnswerYes, IInv, TypeOK, PCs, CommandsHaveSessions, QuitProgress
<1>5. CASE AnswerNo
  <2>1. toStop' = <<>> /\ toStop' \in Seq(Ids) /\ pc = "confirming" /\ pc' = "reading"
        /\ current' = 0 /\ quitting' = quitting
    BY <1>5 DEF AnswerNo, BackToReading
  <2> QED BY <1>1, <2>1 DEF IInv, TypeOK, PCs, CommandsHaveSessions, QuitProgress
<1>6. CASE QuitCmd
  <2>1. /\ quitting' = TRUE /\ toStop' = portForwards /\ current' = current
        /\ pc' = IF portForwards = <<>> THEN "exited" ELSE "closing"
    BY <1>6 DEF QuitCmd
  <2>2. TypeOK'
    BY <2>1 DEF IInv, TypeOK, PCs
  <2>3. CommandsHaveSessions'
    BY <2>1 DEF IInv, CommandsHaveSessions
  <2>4. QuitProgress'
    BY <2>1 DEF QuitProgress
  <2> QED BY <1>1, <2>2, <2>3, <2>4 DEF IInv
<1>7. CASE EndOfInput \/ Interrupted
  BY <1>1, <1>7 DEF EndOfInput, Interrupted, IInv, TypeOK, PCs, CommandsHaveSessions,
                    QuitProgress
<1> QED BY <1>3, <1>4, <1>5, <1>6, <1>7

(* The two halves of Stop, on the first session of toStop. *)
LEMMA StopTarget ==
  ASSUME IInv, pc \in {"closing", "marking"}
  PROVE  /\ Head(toStop) \in Ids /\ forwarder[Head(toStop)] # "unused"
         /\ toStop # <<>> /\ Head(toStop) = toStop[1] /\ 1 \in DOMAIN toStop
         /\ sessions[Head(toStop)] \in Sessions
<1>1. toStop \in Seq(Ids) /\ toStop # <<>>
  BY DEF IInv, TypeOK, CommandsHaveSessions
<1>2. Head(toStop) \in Ids /\ Head(toStop) = toStop[1] /\ 1 \in DOMAIN toStop
  BY <1>1
<1> QED BY <1>1, <1>2 DEF IInv, TypeOK, CommandsHaveSessions

LEMMA CloseStep ==
  ASSUME IInv, CloseStopChannel
  PROVE  IInv'
<1> DEFINE id == Head(toStop)
           s  == CloseStop(sessions[id])
<1>1. id \in Ids /\ forwarder[id] # "unused" /\ toStop # <<>> /\ sessions[id] \in Sessions
  BY StopTarget DEF CloseStopChannel
<1>2. /\ s \in Sessions /\ s.stopClosed
      /\ s.status = sessions[id].status /\ s.exitErr = sessions[id].exitErr
  BY <1>1, SessionOps
<1>3. /\ sessions' = [sessions EXCEPT ![id] = s]
      /\ pc = "closing" /\ pc' = "marking"
      /\ UNCHANGED <<forwarder, result, readyCh, errCh, portForwards, current, toStop, quitting>>
  BY DEF CloseStopChannel
<1>4. sessions \in [Ids -> Sessions] /\ portForwards \in Seq(Ids)
  BY DEF IInv, TypeOK
<1> HIDE DEF s, id
<1>5. TypeOK'
  BY <1>2, <1>3 DEF IInv, TypeOK, PCs
<1>6. RecordedEndIsShown' /\ StatusAndErrorAgree' /\ UnusedIsNew' /\ ResultMeansDone'
  BY <1>1, <1>2, <1>3, <1>4 DEF IInv, RecordedEndIsShown, StatusAndErrorAgree, UnusedIsNew,
                               ResultMeansDone
<1>7. CommandsHaveSessions'
  <2>1. sessions'[Head(toStop)].stopClosed
    BY <1>1, <1>2, <1>3, <1>4 DEF id
  <2> QED BY <1>1, <1>3, <2>1 DEF IInv, CommandsHaveSessions
<1>8. QuitProgress'
  <2>1. \A other \in Ids : StoppedByUser(other) => StoppedByUser(other)'
    BY <1>1, <1>2, <1>3, <1>4 DEF StoppedByUser
  <2>2. \A i \in DOMAIN portForwards : portForwards[i] \in Ids
    BY <1>4
  <2> QED BY <1>3, <2>1, <2>2 DEF IInv, QuitProgress, StoppedByUser
<1> QED BY <1>5, <1>6, <1>7, <1>8 DEF IInv

LEMMA MarkStep ==
  ASSUME IInv, MarkSessionStopped
  PROVE  IInv'
<1> DEFINE id == Head(toStop)
           s  == MarkStopped(sessions[id])
<1>1. /\ id \in Ids /\ forwarder[id] # "unused" /\ toStop # <<>>
      /\ sessions[id] \in Sessions /\ id = toStop[1]
  BY StopTarget DEF MarkSessionStopped
<1>2. /\ s \in Sessions /\ s.status = "Stopped" /\ s.exitErr = NoError
      /\ s.stopClosed = sessions[id].stopClosed
  BY <1>1, SessionOps
<1>3. /\ sessions' = [sessions EXCEPT ![id] = s]
      /\ pc = "marking"
      /\ toStop' = Tail(toStop)
      /\ current' = 0
      /\ UNCHANGED <<forwarder, result, readyCh, errCh, portForwards, quitting>>
  BY DEF MarkSessionStopped
<1>4. /\ sessions \in [Ids -> Sessions] /\ portForwards \in Seq(Ids) /\ toStop \in Seq(Ids)
      /\ Len(toStop) \in Nat \ {0}
  BY <1>1 DEF IInv, TypeOK
<1>5. sessions[id].stopClosed
  BY <1>3 DEF IInv, CommandsHaveSessions
<1>6. /\ toStop' \in Seq(Ids)
      /\ Len(toStop') = Len(toStop) - 1
      /\ \A k \in DOMAIN toStop' : k + 1 \in DOMAIN toStop /\ toStop'[k] = toStop[k + 1]
  BY <1>1, <1>3, <1>4
<1>7. /\ toStop' # <<>> => pc' = "closing"
      /\ toStop' = <<>> => pc' = IF quitting THEN "exited" ELSE "reading"
  BY DEF MarkSessionStopped
<1> HIDE DEF s, id
<1>8. pc' \in {"closing", "exited", "reading"}
  BY <1>7
<1>9. TypeOK'
  BY <1>2, <1>3, <1>6, <1>8 DEF IInv, TypeOK, PCs
<1>10. RecordedEndIsShown' /\ StatusAndErrorAgree' /\ UnusedIsNew' /\ ResultMeansDone'
  BY <1>1, <1>2, <1>3, <1>4 DEF IInv, RecordedEndIsShown, StatusAndErrorAgree, UnusedIsNew,
                               ResultMeansDone
<1>11. CommandsHaveSessions'
  BY <1>3, <1>6, <1>7 DEF IInv, CommandsHaveSessions
<1>12. QuitProgress'
  <2>1. sessions'[id].stopClosed /\ sessions'[id].status = "Stopped"
    BY <1>1, <1>2, <1>3, <1>4, <1>5
  <2>2. \A other \in Ids : StoppedByUser(other) => StoppedByUser(other)'
    BY <1>1, <1>2, <1>3, <1>4 DEF StoppedByUser
  <2>3. ASSUME quitting, NEW i \in DOMAIN portForwards
        PROVE  \/ StoppedByUser(portForwards[i])'
               \/ \E k \in DOMAIN toStop' : toStop'[k] = portForwards[i]
    <3>1. portForwards[i] \in Ids
      BY <1>4
    <3>2. CASE StoppedByUser(portForwards[i])
      BY <1>3, <2>2, <3>1, <3>2 DEF StoppedByUser
    <3>3. ASSUME NEW k \in DOMAIN toStop, toStop[k] = portForwards[i], k # 1
          PROVE  \E j \in DOMAIN toStop' : toStop'[j] = portForwards[i]
      <4>1. k - 1 \in DOMAIN toStop' /\ toStop'[k - 1] = toStop[k]
        BY <1>1, <1>3, <1>4, <1>6, <3>3
      <4> QED BY <3>3, <4>1
    <3>4. toStop[1] = portForwards[i] => StoppedByUser(portForwards[i])'
      BY <1>1, <1>3, <2>1 DEF StoppedByUser
    <3> QED BY <2>3, <3>2, <3>3, <3>4 DEF IInv, QuitProgress
  <2>4. pc' = "exited" /\ quitting' => toStop' = <<>>
    BY <1>7
  <2> QED BY <1>3, <2>3, <2>4 DEF QuitProgress, StoppedByUser
<1> QED BY <1>9, <1>10, <1>11, <1>12 DEF IInv

-----------------------------------------------------------------------------
LEMMA StepPreserves == IInv /\ [Next]_vars => IInv'
<1> SUFFICES ASSUME IInv, [Next]_vars PROVE IInv'
  OBVIOUS
<1>1. ASSUME NEW id \in Ids, Forwarder(id) PROVE IInv'
  BY <1>1, ForwarderStep
<1>2. ASSUME NEW id \in Ids, StartForward(id) PROVE IInv'
  BY <1>2, StartStep
<1>3. CASE ReceiveReady
  BY <1>3, SelectReadyStep
<1>4. CASE ReceiveError
  BY <1>4, SelectErrorStep
<1>5. CASE \/ \E i \in DOMAIN portForwards : AskToStop(i)
           \/ AnswerYes \/ AnswerNo \/ QuitCmd \/ EndOfInput \/ Interrupted
  <2>1. UNCHANGED <<sessions, forwarder, result, readyCh, errCh, portForwards>>
    BY <1>5 DEF AskToStop, AnswerYes, AnswerNo, QuitCmd, EndOfInput, Interrupted
  <2> QED BY <1>5, <2>1, ControlStep
<1>6. CASE CloseStopChannel
  BY <1>6, CloseStep
<1>7. CASE MarkSessionStopped
  BY <1>7, MarkStep
<1>8. CASE UNCHANGED vars
  BY <1>8 DEF vars, mainVars, IInv, TypeOK, RecordedEndIsShown, StatusAndErrorAgree,
              UnusedIsNew, ResultMeansDone, CommandsHaveSessions, QuitProgress,
              StoppedByUser
<1> QED BY <1>1, <1>2, <1>3, <1>4, <1>5, <1>6, <1>7, <1>8 DEF Next, Main

(* The invariant holds in every reachable state. *)
THEOREM Invariant == Spec => []IInv
BY InitEstablishes, StepPreserves, PTL DEF Spec

(* The goroutines' state keeps its type; in particular the retained output *)
(* of a session never exceeds its bound.                                   *)
THEOREM TypeCorrect == Spec => []TypeOK
<1>1. IInv => TypeOK
  BY DEF IInv
<1> QED BY <1>1, Invariant, PTL

(* A session whose end is recorded shows as over. *)
THEOREM EndsAreShown == Spec => []RecordedEndIsShown
<1>1. IInv => RecordedEndIsShown
  BY DEF IInv
<1> QED BY <1>1, Invariant, PTL

(* A session shows an error exactly when it is Exited, in whichever order  *)
(* its end and a stop arrive.                                              *)
THEOREM ErrorsMeanFailure == Spec => []StatusAndErrorAgree
<1>1. IInv => StatusAndErrorAgree
  BY DEF IInv
<1> QED BY <1>1, Invariant, PTL

(* When quit ends the REPL it has stopped every listed session. *)
THEOREM QuitStopsAll == Spec => []QuitStopsEverySession
BY QuitInvariant, Invariant, PTL

-----------------------------------------------------------------------------
(* What one step does to the list and to the statuses. *)
LEMMA StatusStep ==
  ASSUME IInv, [Next]_vars, NEW id \in Ids, sessions[id].status = "Stopped"
  PROVE  sessions'[id].status = "Stopped"
<1>1. sessions \in [Ids -> Sessions] /\ result \in [Ids -> Errors \cup {NoError}]
  BY DEF IInv, TypeOK
<1>2. forwarder[id] # "unused"
  BY DEF IInv, UnusedIsNew, NewSession
<1>3. ASSUME NEW other \in Ids, NEW s, sessions' = [sessions EXCEPT ![other] = s],
             other = id => s.status = "Stopped"
      PROVE  sessions'[id].status = "Stopped"
  BY <1>1, <1>3
<1>4. CASE UNCHANGED sessions
  BY <1>4
<1>5. ASSUME NEW other \in Ids, Write(other) PROVE sessions'[id].status = "Stopped"
  <2>1. PICK n \in WriteSizes :
          sessions' = [sessions EXCEPT ![other] = AppendOutput(sessions[other], n)]
    BY <1>5 DEF Write
  <2>2. AppendOutput(sessions[other], n).status = sessions[other].status
    BY <1>1, PortForwardAssumption, AppendOutputKeeps
  <2> QED BY <1>3, <2>1, <2>2
<1>6. ASSUME NEW other \in Ids, RecordExit(other) PROVE sessions'[id].status = "Stopped"
  BY <1>3, <1>6 DEF RecordExit, MarkExited
<1>7. ASSUME NEW other \in Ids, StartForward(other) PROVE sessions'[id].status = "Stopped"
  BY <1>2, <1>3, <1>7 DEF StartForward
<1>8. CASE ReceiveReady
  <2>1. current \in Ids
    BY <1>8 DEF ReceiveReady, IInv, CommandsHaveSessions
  <2> QED BY <1>3, <1>8, <2>1 DEF ReceiveReady, MarkRunning
<1>9. CASE CloseStopChannel
  <2>1. Head(toStop) \in Ids /\ sessions[Head(toStop)] \in Sessions
    BY <1>9, StopTarget DEF CloseStopChannel
  <2> QED BY <1>3, <1>9, <2>1, SessionOps DEF CloseStopChannel
<1>10. CASE MarkSessionStopped
  <2>1. Head(toStop) \in Ids /\ sessions[Head(toStop)] \in Sessions
    BY <1>10, StopTarget DEF MarkSessionStopped
  <2> QED BY <1>3, <1>10, <2>1, SessionOps DEF MarkSessionStopped
<1> QED BY <1>4, <1>5, <1>6, <1>7, <1>8, <1>9, <1>10
        DEF Next, Main, Forwarder, Ready, FailToStart, LoseConnection, SeeStop, SendResult,
            Return, ReceiveError, AskToStop, AnswerYes, AnswerNo, QuitCmd, EndOfInput,
            Interrupted, vars

(* A stopped session shows as stopped for good. *)
THEOREM StopsAreFinal == Spec => StoppedIsFinal
<1>1. IInv /\ [Next]_vars =>
        [\A id \in Ids :
           sessions[id].status = "Stopped" => sessions'[id].status = "Stopped"]_vars
  BY StatusStep
<1> QED BY <1>1, Invariant, PTL DEF Spec, StoppedIsFinal

LEMMA ListStep ==
  ASSUME IInv, [Next]_vars
  PROVE  portForwards' = portForwards \/ ReceiveReady
BY DEF Next, Main, Forwarder, Ready, FailToStart, LoseConnection, SeeStop, Write, RecordExit,
       SendResult, Return, StartForward, ReceiveError, AskToStop, AnswerYes, AnswerNo,
       QuitCmd, CloseStopChannel, MarkSessionStopped, EndOfInput, Interrupted, vars, mainVars

(* The list of sessions only grows at its end. *)
THEOREM IndicesKeepTheirMeaning == Spec => IndicesAreStable
<1>1. ASSUME IInv, [Next]_vars, NEW i \in DOMAIN portForwards
      PROVE  i \in DOMAIN portForwards' /\ portForwards'[i] = portForwards[i]
  <2>1. CASE portForwards' = portForwards
    BY <2>1
  <2>2. CASE ReceiveReady
    <3>1. portForwards' = Append(portForwards, current) /\ portForwards \in Seq(Ids)
      BY <1>1, <2>2 DEF ReceiveReady, IInv, TypeOK
    <3>2. current \in Ids
      BY <1>1, <2>2 DEF ReceiveReady, IInv, CommandsHaveSessions
    <3> QED BY <3>1, <3>2
  <2> QED BY <1>1, <2>1, <2>2, ListStep
<1>2. IInv /\ [Next]_vars =>
        [\A i \in DOMAIN portForwards :
           i \in DOMAIN portForwards' /\ portForwards'[i] = portForwards[i]]_vars
  BY <1>1
<1> QED BY <1>2, Invariant, PTL DEF Spec, IndicesAreStable

-----------------------------------------------------------------------------
(* Each step of PortForward is a step of Register or leaves its variables  *)
(* alone.                                                                  *)
LEMMA RegisterInit == Init => Reg!RInit
BY DEF Init, Reg!RInit, AliveForwarders

LEMMA RegisterEnd ==
  ASSUME TypeOK, NEW id \in Ids, Alive, NEW st \in {"returned", "recorded", "done"},
         forwarder' = [forwarder EXCEPT ![id] = st], UNCHANGED mainVars
  PROVE  Reg!End(id)
<1>1. AliveForwarders' = AliveForwarders \ {id}
  BY DEF TypeOK, AliveForwarders, Alive, mainVars
<1> QED BY <1>1 DEF Reg!End, mainVars

(* Steps that do not concern the register. *)
LEMMA RegisterStutter ==
  ASSUME TypeOK, UNCHANGED portForwards,
         \A id \in Ids : forwarder'[id] \in {"dialing", "serving"}
                          <=> forwarder[id] \in {"dialing", "serving"},
         Alive <=> Alive',
         (pc # "waiting" /\ pc' # "waiting") \/ UNCHANGED mainVars
  PROVE  UNCHANGED Reg!rvars
<1>1. AliveForwarders' = AliveForwarders
  BY DEF AliveForwarders
<1> QED BY <1>1 DEF Reg!rvars, mainVars

LEMMA RegisterShutdown ==
  ASSUME pc' = "exited", UNCHANGED portForwards
  PROVE  Reg!Shutdown
BY DEF Reg!Shutdown, AliveForwarders, Alive

LEMMA RegisterStep == IInv /\ [Next]_vars => [Reg!RNext]_(Reg!rvars)
<1> SUFFICES ASSUME IInv, [Next]_vars PROVE [Reg!RNext]_(Reg!rvars)
  OBVIOUS
<1>1. TypeOK
  BY DEF IInv
<1>2. ASSUME NEW id \in Ids, FailToStart(id) \/ LoseConnection(id) \/ SeeStop(id)
                              \/ RecordExit(id) \/ SendResult(id)
      PROVE  Reg!End(id)
  BY <1>1, <1>2, RegisterEnd
     DEF FailToStart, LoseConnection, SeeStop, RecordExit, SendResult, Return
<1>3. ASSUME NEW id \in Ids, Ready(id) \/ Write(id) PROVE UNCHANGED Reg!rvars
  <2>1. \A other \in Ids : forwarder'[other] \in {"dialing", "serving"}
                          <=> forwarder[other] \in {"dialing", "serving"}
    BY <1>1, <1>3 DEF Ready, Write, TypeOK
  <2>2. UNCHANGED mainVars
    BY <1>3 DEF Ready, Write
  <2>3. UNCHANGED portForwards /\ (Alive <=> Alive')
    BY <2>2 DEF mainVars, Alive
  <2> QED BY <1>1, <2>1, <2>2, <2>3, RegisterStutter
<1>4. ASSUME NEW id \in Ids, StartForward(id) PROVE Reg!Begin(id)
  <2>1. /\ forwarder' = [forwarder EXCEPT ![id] = "dialing"] /\ forwarder[id] = "unused"
        /\ pc = "reading" /\ pc' = "waiting" /\ current' = id /\ UNCHANGED portForwards
    BY <1>4 DEF StartForward
  <2>2. id \notin AliveForwarders /\ AliveForwarders' = AliveForwarders \cup {id}
    BY <1>1, <2>1 DEF AliveForwarders, Alive, TypeOK
  <2> QED BY <2>1, <2>2 DEF Reg!Begin
<1>5. CASE ReceiveReady
  <2>1. /\ pc = "waiting" /\ pc' = "reading" /\ UNCHANGED forwarder
        /\ portForwards' = Append(portForwards, current)
    BY <1>5 DEF ReceiveReady, BackToReading
  <2>2. current \in Ids /\ current # 0
    BY <2>1, PortForwardAssumption DEF IInv, CommandsHaveSessions, Ids
  <2>3. AliveForwarders' = AliveForwarders
    BY <2>1 DEF AliveForwarders, Alive
  <2> QED BY <2>1, <2>2, <2>3 DEF Reg!RNext, Reg!Keep
<1>6. CASE ReceiveError
  <2>1. /\ pc = "waiting" /\ pc' = "reading" /\ UNCHANGED <<forwarder, portForwards>>
        /\ errCh[current] # <<>>
    BY <1>6 DEF ReceiveError, BackToReading
  <2>2. forwarder[current] = "done"
    BY <2>1 DEF IInv, CommandsHaveSessions, ResultMeansDone
  <2>3. AliveForwarders' = AliveForwarders /\ current \notin AliveForwarders
    BY <2>1, <2>2 DEF AliveForwarders, Alive
  <2> QED BY <2>1, <2>3 DEF Reg!RNext, Reg!GiveUp
<1>7. CASE pc' = "exited" /\ UNCHANGED portForwards
  BY <1>7, RegisterShutdown DEF Reg!RNext
<1>8. CASE /\ \/ \E i \in DOMAIN portForwards : AskToStop(i)
              \/ AnswerYes \/ AnswerNo \/ QuitCmd
              \/ CloseStopChannel \/ MarkSessionStopped
           /\ pc' # "exited"
  <2>1. pc # "waiting" /\ pc # "exited" /\ UNCHANGED <<forwarder, portForwards>>
    BY <1>8 DEF AskToStop, AnswerYes, AnswerNo, QuitCmd, CloseStopChannel,
                MarkSessionStopped
  <2>2. pc' # "waiting"
    <3>1. CASE MarkSessionStopped
      BY <3>1 DEF MarkSessionStopped
    <3> QED BY <1>8, <3>1 DEF AskToStop, AnswerYes, AnswerNo, QuitCmd, CloseStopChannel,
                             BackToReading
  <2> QED BY <1>1, <1>8, <2>1, <2>2, RegisterStutter DEF Alive
<1>9. CASE UNCHANGED vars
  <2>1. UNCHANGED <<forwarder, portForwards, pc, mainVars>>
    BY <1>9 DEF vars, mainVars
  <2> QED BY <1>1, <2>1, RegisterStutter DEF Alive
<1>10. CASE EndOfInput \/ Interrupted
  BY <1>7, <1>10 DEF EndOfInput, Interrupted
<1>11. CASE \/ \E i \in DOMAIN portForwards : AskToStop(i)
            \/ AnswerYes \/ AnswerNo \/ QuitCmd
            \/ CloseStopChannel \/ MarkSessionStopped
  <2>1. UNCHANGED portForwards
    BY <1>11 DEF AskToStop, AnswerYes, AnswerNo, QuitCmd, CloseStopChannel,
                MarkSessionStopped
  <2> QED BY <1>7, <1>8, <1>11, <2>1
<1> QED BY <1>2, <1>3, <1>4, <1>5, <1>6, <1>9, <1>10, <1>11
        DEF Next, Main, Forwarder, Reg!RNext

(* Every forwarder alive is the one being waited for or is listed.         *)
THEOREM PortForwardImplementsRegister == Spec => ImplementsRegister
BY RegisterInit, RegisterStep, Invariant, PTL DEF Spec, ImplementsRegister, Reg!RSpec

(* So whatever the forwarders do, one that holds a connection is listed    *)
(* under an index that stops it, or is the one port-forward waits for.     *)
THEOREM ForwardersAreWithinReach == Spec => []Reg!WithinReach
<1>1. Reg!RInit => Reg!WithinReach
  BY DEF Reg!RInit, Reg!WithinReach
<1>2. ASSUME Reg!WithinReach, [Reg!RNext]_(Reg!rvars), TypeOK
      PROVE  Reg!WithinReach'
  <2> DEFINE starting == IF pc = "waiting" THEN current ELSE 0
             Listed   == {portForwards[i] : i \in DOMAIN portForwards}
  <2>1. AliveForwarders \subseteq {starting} \cup Listed
    BY <1>2 DEF Reg!WithinReach
  <2>2. SUFFICES AliveForwarders' \subseteq {starting'} \cup Listed'
    BY DEF Reg!WithinReach
  <2>3. ASSUME NEW id \in Ids, Reg!Begin(id)
        PROVE  AliveForwarders' \subseteq {starting'} \cup Listed'
    BY <2>1, <2>3, PortForwardAssumption DEF Reg!Begin, AliveForwarders, Ids
  <2>4. ASSUME NEW id \in Ids, Reg!End(id)
        PROVE  AliveForwarders' \subseteq {starting'} \cup Listed'
    BY <2>1, <2>4 DEF Reg!End
  <2>5. CASE Reg!Keep
    <3>1. /\ portForwards' = Append(portForwards, starting) /\ portForwards \in Seq(Ids)
          /\ starting \in Ids /\ AliveForwarders' = AliveForwarders
      BY <1>2, <2>5 DEF Reg!Keep, TypeOK
    <3> HIDE DEF starting
    <3>2. \A i \in DOMAIN portForwards :
            i \in DOMAIN portForwards' /\ portForwards'[i] = portForwards[i]
      BY <3>1
    <3>3. Len(portForwards) + 1 \in DOMAIN portForwards'
          /\ portForwards'[Len(portForwards) + 1] = starting
      BY <3>1
    <3> QED BY <2>1, <3>1, <3>2, <3>3
  <2>6. CASE Reg!GiveUp
    BY <2>1, <2>6 DEF Reg!GiveUp
  <2>7. CASE Reg!Shutdown
    BY <2>7 DEF Reg!Shutdown
  <2>8. CASE UNCHANGED Reg!rvars
    BY <2>1, <2>8 DEF Reg!rvars
  <2> QED BY <1>2, <2>3, <2>4, <2>5, <2>6, <2>7, <2>8 DEF Reg!RNext
<1>3. IInv => TypeOK
  BY DEF IInv
<1> QED BY <1>1, <1>2, <1>3, Invariant, PortForwardImplementsRegister, PTL
        DEF ImplementsRegister, Reg!RSpec

-----------------------------------------------------------------------------
(* Nobody waits for what cannot come.  A forwarder that is about to send   *)
(* finds room in its channel, whoever has stopped listening; and while     *)
(* port-forward waits at its select, its forwarder is still on its way     *)
(* there or has given it an answer (portforwards.go:112-130).              *)
Serving == \A id \in Ids : forwarder[id] = "serving" => readyCh[id]

SelectIsAnswered ==
  /\ \A id \in Ids : forwarder[id] = "recorded" => errCh[id] = <<>>
  /\ pc = "waiting" =>
       \/ forwarder[current] \in {"dialing", "returned", "recorded"}
       \/ readyCh[current]
       \/ errCh[current] # <<>>

(* A forwarder's goroutine never goes back, its end is its last step, and  *)
(* a stop channel stays closed.                                            *)
Stage(state) ==
  IF state = "unused" THEN 0
  ELSE IF state = "dialing" THEN 1
  ELSE IF state = "serving" THEN 2
  ELSE IF state = "returned" THEN 3
  ELSE IF state = "recorded" THEN 4
  ELSE 5

ForwardersOnlyMoveOn ==
  [][\A id \in Ids :
       /\ forwarder'[id] = forwarder[id] \/ Stage(forwarder'[id]) > Stage(forwarder[id])
       /\ forwarder[id] # "unused" /\ sessions[id].stopClosed => sessions'[id].stopClosed]_vars

(* What a step of a forwarder does to its goroutine and its channels. *)
LEMMA ForwarderMoves ==
  ASSUME TypeOK, NEW id \in Ids, Forwarder(id)
  PROVE  /\ UNCHANGED mainVars
         /\ \A other \in Ids \ {id} :
              /\ forwarder'[other] = forwarder[other] /\ readyCh'[other] = readyCh[other]
              /\ errCh'[other] = errCh[other] /\ sessions'[other] = sessions[other]
         /\ \/ /\ UNCHANGED <<forwarder, readyCh, errCh>> /\ forwarder[id] # "unused"
            \/ /\ forwarder[id] = "dialing" /\ forwarder'[id] = "serving"
               /\ readyCh'[id] /\ UNCHANGED errCh
            \/ /\ forwarder[id] \in {"dialing", "serving"} /\ forwarder'[id] = "returned"
               /\ UNCHANGED <<readyCh, errCh>>
            \/ /\ forwarder[id] = "returned" /\ forwarder'[id] = "recorded"
               /\ UNCHANGED <<readyCh, errCh>>
            \/ /\ forwarder[id] = "recorded" /\ forwarder'[id] = "done"
               /\ UNCHANGED readyCh /\ errCh'[id] # <<>>
<1>1. /\ forwarder \in [Ids -> ForwarderStates] /\ readyCh \in [Ids -> BOOLEAN]
      /\ errCh \in [Ids -> Seq(Errors \cup {NoError})] /\ sessions \in [Ids -> Sessions]
      /\ result \in [Ids -> Errors \cup {NoError}]
  BY DEF TypeOK
<1>2. UNCHANGED mainVars
  BY DEF Forwarder, Ready, FailToStart, LoseConnection, SeeStop, Write, RecordExit, SendResult,
         Return
<1>3. CASE Ready(id)
  BY <1>1, <1>2, <1>3 DEF Ready
<1>4. CASE FailToStart(id) \/ LoseConnection(id) \/ SeeStop(id)
  <2>1. /\ forwarder[id] \in {"dialing", "serving"}
        /\ forwarder' = [forwarder EXCEPT ![id] = "returned"]
        /\ UNCHANGED <<sessions, readyCh, errCh>>
    BY <1>4 DEF FailToStart, LoseConnection, SeeStop, Return
  <2> QED BY <1>1, <1>2, <2>1
<1>5. CASE Write(id)
  <2>1. /\ forwarder[id] # "unused" /\ UNCHANGED <<forwarder, readyCh, errCh>>
        /\ \E s : sessions' = [sessions EXCEPT ![id] = s]
    BY <1>5 DEF Write
  <2> QED BY <1>1, <1>2, <2>1
<1>6. CASE RecordExit(id)
  <2>1. /\ forwarder[id] = "returned"
        /\ forwarder' = [forwarder EXCEPT ![id] = "recorded"]
        /\ UNCHANGED <<readyCh, errCh>>
        /\ \E s : sessions' = [sessions EXCEPT ![id] = s]
    BY <1>6 DEF RecordExit
  <2> QED BY <1>1, <1>2, <2>1
<1>7. CASE SendResult(id)
  <2>1. Append(errCh[id], result[id]) # <<>>
    <3>1. errCh[id] \in Seq(Errors \cup {NoError}) /\ result[id] \in Errors \cup {NoError}
      BY <1>1
    <3>2. Len(Append(errCh[id], result[id])) = Len(errCh[id]) + 1 /\ Len(errCh[id]) \in Nat
      BY <3>1
    <3>3. Len(<<>>) = 0
      OBVIOUS
    <3> QED BY <3>2, <3>3
  <2> QED BY <1>1, <1>2, <1>7, <2>1 DEF SendResult
<1> QED BY <1>3, <1>4, <1>5, <1>6, <1>7 DEF Forwarder

LEMMA AnswerStep ==
  IInv /\ Serving /\ SelectIsAnswered /\ [Next]_vars => Serving' /\ SelectIsAnswered'
<1> SUFFICES ASSUME IInv, Serving, SelectIsAnswered, [Next]_vars
             PROVE  Serving' /\ SelectIsAnswered'
  OBVIOUS
<1>1. /\ TypeOK /\ ResultMeansDone
      /\ forwarder \in [Ids -> ForwarderStates] /\ errCh \in [Ids -> Seq(Errors \cup {NoError})]
      /\ pc = "waiting" => current \in Ids
  BY DEF IInv, TypeOK, CommandsHaveSessions
<1>2. ASSUME NEW id \in Ids, Forwarder(id) PROVE Serving' /\ SelectIsAnswered'
  <2>1. UNCHANGED <<pc, current>>
    BY <1>1, <1>2, ForwarderMoves DEF mainVars
  <2>2. Serving'
    BY <1>1, <1>2, ForwarderMoves DEF Serving
  <2>3. \A other \in Ids : forwarder'[other] = "recorded" => errCh'[other] = <<>>
    BY <1>1, <1>2, ForwarderMoves DEF SelectIsAnswered, ResultMeansDone
  <2>4. ASSUME pc = "waiting"
        PROVE  \/ forwarder'[current] \in {"dialing", "returned", "recorded"}
               \/ readyCh'[current]
               \/ errCh'[current] # <<>>
    <3>1. CASE current # id
      BY <1>1, <1>2, <2>4, <3>1, ForwarderMoves DEF SelectIsAnswered
    <3>2. CASE current = id
      BY <1>1, <1>2, <2>4, <3>2, ForwarderMoves DEF SelectIsAnswered
    <3> QED BY <3>1, <3>2
  <2> QED BY <2>1, <2>2, <2>3, <2>4 DEF SelectIsAnswered
<1>3. ASSUME NEW id \in Ids, StartForward(id) PROVE Serving' /\ SelectIsAnswered'
  <2>1. /\ forwarder[id] = "unused" /\ UNCHANGED <<readyCh, errCh>> /\ current' = id
        /\ forwarder' = [forwarder EXCEPT ![id] = "dialing"]
    BY <1>3 DEF StartForward
  <2>2. forwarder'[id] = "dialing" /\ \A other \in Ids \ {id} : forwarder'[other] = forwarder[other]
    BY <1>1, <2>1
  <2> QED BY <2>1, <2>2 DEF Serving, SelectIsAnswered
<1>4. CASE ReceiveReady
  BY <1>4 DEF ReceiveReady, BackToReading, Serving, SelectIsAnswered
<1>5. CASE ReceiveError
  <2>1. /\ pc = "waiting" /\ pc' = "reading" /\ UNCHANGED <<forwarder, readyCh>>
        /\ errCh' = [errCh EXCEPT ![current] = Tail(errCh[current])]
        /\ errCh[current] # <<>>
    BY <1>5 DEF ReceiveError, BackToReading
  <2>2. forwarder[current] = "done"
    BY <1>1, <2>1 DEF ResultMeansDone
  <2>3. \A id \in Ids \ {current} : errCh'[id] = errCh[id]
    BY <1>1, <2>1
  <2> QED BY <2>1, <2>2, <2>3 DEF Serving, SelectIsAnswered
<1>6. CASE \/ \E i \in DOMAIN portForwards : AskToStop(i)
           \/ AnswerYes \/ AnswerNo \/ QuitCmd \/ EndOfInput \/ Interrupted
           \/ CloseStopChannel \/ MarkSessionStopped
  <2>1. UNCHANGED <<forwarder, readyCh, errCh>> /\ pc' # "waiting"
    BY <1>6 DEF AskToStop, AnswerYes, AnswerNo, QuitCmd, EndOfInput, Interrupted,
                CloseStopChannel, MarkSessionStopped, BackToReading
  <2> QED BY <2>1 DEF Serving, SelectIsAnswered
<1>7. CASE UNCHANGED vars
  BY <1>7 DEF vars, mainVars, Serving, SelectIsAnswered
<1> QED BY <1>2, <1>3, <1>4, <1>5, <1>6, <1>7 DEF Next, Main

(* A stop channel is closed for good, whoever acts on the session. *)
LEMMA StopsStayClosed ==
  ASSUME IInv, Next, NEW id \in Ids, forwarder[id] # "unused", sessions[id].stopClosed
  PROVE  sessions'[id].stopClosed
<1>1. /\ TypeOK /\ sessions \in [Ids -> Sessions] /\ StatusAndErrorAgree
      /\ result \in [Ids -> Errors \cup {NoError}] /\ toStop \in Seq(Ids)
      /\ pc = "waiting" => current \in Ids
  BY DEF IInv, TypeOK, CommandsHaveSessions
<1>2. ASSUME NEW other \in Ids, NEW s, sessions' = [sessions EXCEPT ![other] = s],
             other = id => s.stopClosed
      PROVE  sessions'[id].stopClosed
  BY <1>1, <1>2
<1>3. CASE \E other \in Ids : StartForward(other)
  BY <1>1, <1>3 DEF StartForward
<1>4. CASE ReceiveReady
  <2>1. current = id => MarkRunning(sessions[current]).stopClosed
    BY <1>1, SessionOps
  <2> QED BY <1>1, <1>2, <1>4, <2>1 DEF ReceiveReady
<1>5. CASE CloseStopChannel \/ MarkSessionStopped
  <2>1. Head(toStop) \in Ids
    BY <1>5, StopTarget DEF CloseStopChannel, MarkSessionStopped
  <2>2. /\ CloseStop(sessions[Head(toStop)]).stopClosed
        /\ MarkStopped(sessions[Head(toStop)]).stopClosed = sessions[Head(toStop)].stopClosed
    BY <1>1, <2>1, SessionOps
  <2>3. \E s : /\ sessions' = [sessions EXCEPT ![Head(toStop)] = s]
               /\ Head(toStop) = id => s.stopClosed
    BY <1>5, <2>2 DEF CloseStopChannel, MarkSessionStopped
  <2> QED BY <1>2, <2>1, <2>3
<1>6. ASSUME NEW other \in Ids, Write(other) PROVE sessions'[id].stopClosed
  <2>1. PICK n \in WriteSizes :
          sessions' = [sessions EXCEPT ![other] = AppendOutput(sessions[other], n)]
    BY <1>6 DEF Write
  <2>2. AppendOutput(sessions[other], n).stopClosed = sessions[other].stopClosed
    BY <1>1, PortForwardAssumption, AppendOutputKeeps
  <2> QED BY <1>2, <2>1, <2>2
<1>7. ASSUME NEW other \in Ids, RecordExit(other) PROVE sessions'[id].stopClosed
  <2>1. sessions[other] \in Sessions /\ result[other] \in Errors \cup {NoError}
    BY <1>1
  <2>2. sessions[other].status = "Exited" <=> sessions[other].exitErr # NoError
    BY <1>1 DEF StatusAndErrorAgree
  <2>3. MarkExited(sessions[other], result[other]).stopClosed = sessions[other].stopClosed
    BY <2>1, <2>2, MarkExitedEnds
  <2> QED BY <1>2, <1>7, <2>3 DEF RecordExit
<1>8. CASE UNCHANGED sessions
  BY <1>8
<1> QED BY <1>3, <1>4, <1>5, <1>6, <1>7, <1>8
        DEF Next, Main, Forwarder, ReceiveError, AskToStop, AnswerYes, AnswerNo, QuitCmd,
            EndOfInput, Interrupted, Ready, FailToStart, LoseConnection, SeeStop, SendResult,
            Return

(* So neither port-forward nor a forwarder waits for ever: the select gets *)
(* an answer from a forwarder that goes on, a stopped one has its channel  *)
(* closed until it sees that, and from there three steps end it.           *)
THEOREM NoneWaitsInVain == Spec => []SelectIsAnswered /\ ForwardersOnlyMoveOn
<1>1. Init => Serving /\ SelectIsAnswered
  BY DEF Init, Serving, SelectIsAnswered
<1>2. ASSUME IInv, Next, NEW id \in Ids
      PROVE  forwarder'[id] = forwarder[id] \/ Stage(forwarder'[id]) > Stage(forwarder[id])
  <2>1. TypeOK /\ forwarder \in [Ids -> ForwarderStates]
    BY <1>2 DEF IInv, TypeOK
  <2>2. ASSUME NEW other \in Ids, Forwarder(other)
        PROVE  forwarder'[id] = forwarder[id] \/ Stage(forwarder'[id]) > Stage(forwarder[id])
    BY <2>1, <2>2, ForwarderMoves DEF Stage
  <2>3. ASSUME NEW other \in Ids, StartForward(other)
        PROVE  forwarder'[id] = forwarder[id] \/ Stage(forwarder'[id]) > Stage(forwarder[id])
    BY <2>1, <2>3 DEF StartForward, Stage
  <2>4. CASE UNCHANGED forwarder
    BY <2>4
  <2> QED BY <1>2, <2>2, <2>3, <2>4
          DEF Next, Main, ReceiveReady, ReceiveError, AskToStop, AnswerYes, AnswerNo, QuitCmd,
              CloseStopChannel, MarkSessionStopped, EndOfInput, Interrupted
<1>3. IInv /\ [Next]_vars =>
        [\A id \in Ids :
           /\ forwarder'[id] = forwarder[id] \/ Stage(forwarder'[id]) > Stage(forwarder[id])
           /\ forwarder[id] # "unused" /\ sessions[id].stopClosed =>
                sessions'[id].stopClosed]_vars
  BY <1>2, StopsStayClosed
<1>4. Spec => [](IInv /\ Serving /\ SelectIsAnswered)
  <2>1. Init => IInv /\ Serving /\ SelectIsAnswered
    BY <1>1, InitEstablishes
  <2>2. (IInv /\ Serving /\ SelectIsAnswered) /\ [Next]_vars =>
          (IInv /\ Serving /\ SelectIsAnswered)'
    BY StepPreserves, AnswerStep
  <2> QED BY <2>1, <2>2, PTL DEF Spec
<1> QED BY <1>3, <1>4, PTL DEF Spec, ForwardersOnlyMoveOn

=============================================================================
