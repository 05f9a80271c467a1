-------------------------------- MODULE Krepl --------------------------------
(***************************************************************************)
(* One krepl after another on a terminal: the loop that reads commands,    *)
(* and the commands that hand the terminal over or edit the kubeconfig,    *)
(* with what goes on beside them: the goroutines of exec, the API server,  *)
(* other clients, other processes.  krepl may be killed at any moment and  *)
(* be started again.                                                       *)
(***************************************************************************)
EXTENDS Exec, Edit, Logs, KubeconfigEdit

CONSTANT Sessions    (* bound: each a set of commands one session may use *)

Commands == {"exec", "edit", "logs", "kubeconfig"}

ASSUME KreplAssumption == Sessions \subseteq SUBSET Commands

VARIABLE session     (* the commands used *)

vars == <<termVars, execVars, editVars, logsMode, kubeVars, session>>

Alive == pc \notin EndPCs

(* What no command of the session looks at stays as it is. *)
Init ==
  /\ session \in Sessions
  /\ TermInit /\ ExecInit /\ EditInit /\ LogsInit /\ KubeInit
  /\ "kubeconfig" \notin session => file = Empty
  /\ "edit" \notin session => object.text = CHOOSE text \in Texts : TRUE

Start ==
  \/ "exec" \in session /\ StartExec /\ UNCHANGED <<editVars, logsMode, kubeVars>>
  \/ "edit" \in session /\ StartEdit /\ UNCHANGED <<execVars, logsMode, kubeVars>>
  \/ "logs" \in session /\ StartLogs /\ UNCHANGED <<execVars, editVars, kubeVars>>
  \/ /\ "kubeconfig" \in session
     /\ \E op \in Ops : StartChange(op)
     /\ UNCHANGED <<execVars, editVars, logsMode>>

ExecMoves ==
  /\ \/ ExecGoesOn \/ StreamStarts \/ StreamEnds
     \/ \E i \in Execs : Pump(i) \/ Copier(i) \/ CopierReadsStdin(i)
  /\ UNCHANGED <<editVars, logsMode, kubeVars>>

EditMoves ==
  /\ \/ EditGoesOn \/ RunEditor \/ ServerUpdates
     \/ "edit" \in session /\ OthersUpdate
  /\ UNCHANGED <<execVars, logsMode, kubeVars>>

LogsMove ==
  /\ \/ GetLogs \/ CopyEnds \/ InterruptFollow
     \/ LogsSuspend \/ LogsEditor \/ LogsResume
  /\ UNCHANGED <<execVars, editVars, kubeVars>>

KubeMoves ==
  /\ KubeGoesOn \/ ("kubeconfig" \in session /\ OthersEdit)
  /\ UNCHANGED <<execVars, editVars, logsMode>>

(* Dispatch has returned, and the command's locals with it.  An update     *)
(* that is still under way is any client's update from then on.            *)
Returned ==
  /\ ConsumeTerminalReset
  /\ mode' = {} /\ edit' = NoEdit /\ logsMode' = "none" /\ change' = NoChange
  /\ UNCHANGED <<runs, pump, closed, copier, object, present, file, lock, memory, edits>>

Loop ==
  \/ Returned
  \/ /\ CloseReadline \/ NewReadlineInstance \/ LeaveLoop
     /\ UNCHANGED <<execVars, editVars, logsMode, kubeVars>>

(* What a process holds is gone with it. *)
ProcessIsNew ==
  /\ rl' = "ready" /\ hooks' = "this" /\ tty' = "cooked" /\ reset' = FALSE
  /\ trouble' = {}
  /\ runs' = 0 /\ mode' = {}
  /\ pump' = [i \in Execs |-> "none"]
  /\ closed' = [i \in Execs |-> {}]
  /\ copier' = [i \in Execs |-> NoCopier]
  /\ edit' = NoEdit /\ logsMode' = "none" /\ change' = NoChange
  /\ UNCHANGED <<object, present>>

(* Killed: by a signal, or by a crash. *)
Dies ==
  /\ Alive
  /\ pc' = "killed"
  /\ ProcessIsNew
  /\ KubeDies
  /\ UNCHANGED <<memory, edits>>

(* krepl is started anew, on a terminal the shell has put in order. *)
Restart ==
  /\ ~Alive
  /\ pc' = "prompt"
  /\ ProcessIsNew
  /\ memory' = file
  /\ UNCHANGED <<file, lock, edits>>

Next ==
  /\ UNCHANGED session
  /\ \/ /\ Alive
        /\ Start \/ ExecMoves \/ EditMoves \/ LogsMove \/ KubeMoves \/ Loop
     \/ Dies
     \/ Restart

Spec == Init /\ [][Next]_vars

(* krepl runs on by itself: its own goroutine, the pump, and the copier    *)
(* when it has sent or when its pipe is closed.  Nothing is assumed of the *)
(* stream, the user, the editor and the server.                            *)
FairSpec ==
  /\ Spec
  /\ WF_vars(Alive /\ ExecGoesOn /\ UNCHANGED <<editVars, logsMode, kubeVars, session>>)
  /\ \A i \in Execs :
       /\ WF_vars(Alive /\ Pump(i) /\ UNCHANGED <<editVars, logsMode, kubeVars, session>>)
       /\ WF_vars(Alive /\ Copier(i) /\ UNCHANGED <<editVars, logsMode, kubeVars, session>>)

-----------------------------------------------------------------------------
(* Type invariant of the whole. *)
TypeOK ==
  /\ pc \in LoopPCs \cup EndPCs \cup ExecPCs \cup EditPCs \cup LogsPCs \cup KubePCs
  /\ rl \in {"ready", "used", "closed", "nil"}
  /\ hooks \in {"this", "old"} /\ tty \in {"cooked", "raw"} /\ reset \in BOOLEAN
  /\ trouble \subseteq {"suspend", "raw", "restore"}
  /\ runs \in 0..MaxExecs /\ mode \subseteq {"tty", "stdin", "terminal"}
  /\ pump \in [Execs -> PumpStates]
  /\ closed \in [Execs -> SUBSET {"stopCh", "src", "writer"}]
  /\ copier \in [Execs -> Copiers]
  /\ object \in [text : Texts, version : 1..MaxVersion] /\ present \in BOOLEAN
  /\ edit \in Edits
  /\ logsMode \in {"none", "print", "follow", "editor"}
  /\ file \in Configs /\ memory \in Configs /\ lock \in {"nobody", "krepl", "ghost"}
  /\ change \in Changes /\ edits \in 0..MaxEdits /\ session \in Sessions

(* When exec has handed the terminal back, its pump no longer reads it: as *)
(* the test of exec puts it, the dedicated terminal is closed before the   *)
(* resume.  The code has two ways around that, a pump started before       *)
(* SuspendTerminal or MakeRaw fails, and the copier on os.Stdin of an exec *)
(* that is not on a terminal; there are no others.                         *)
TerminalIsReleased ==
  pc \in {"exec.restore", "exec.resume", "prompt"} =>
    \A i \in Execs :
      /\ pump[i] \notin {"none", "done"} => trouble \cap {"suspend", "raw"} # {}
      /\ copier[i].state \in {"reading", "sending"} =>
           copier[i].from = "stdin" \/ "writer" \in closed[i]

(* A prompt is shown by a readline that nobody has used the terminal of    *)
(* since it was built, on a terminal in its usual mode, and with hooks     *)
(* that act on this readline and no other; save after a failed MakeRaw or  *)
(* Restore, where exec returns without asking for a new one.               *)
PromptIsFresh ==
  pc = "prompt" =>
    /\ hooks = "this"
    /\ ~reset
    /\ rl = "ready" \/ trouble \cap {"raw", "restore"} # {}
    /\ tty = "cooked" \/ "restore" \in trouble

(* Once the stream has ended exec returns, whatever its pump is doing at   *)
(* the moment, and a copier on its pipe ends with it.                      *)
ExecEnds ==
  /\ pc = "exec.stop" ~> pc \notin ExecPCs
  /\ \A i \in Execs :
       "writer" \in closed[i] ~> (copier[i].state \in {"none", "done"} \/ ~Alive)

(* An update that carries a version replaces exactly the document the user *)
(* was shown, though others write in between.                              *)
SeenBeforeOverwritten ==
  edit.update = "applied" /\ edit.sent.version # NoVersion =>
    edit.overwrote = edit.fetched.version

(* "Updated" is said when the server has taken what the user saved;        *)
(* nothing is sent by an edit that is said to be cancelled or whose editor *)
(* failed.                                                                 *)
EditSaysWhatItDid ==
  /\ edit.said = "updated" => edit.update = "applied" /\ edit.sent = edit.saved
  /\ edit.said = "cancelled" \/ ~edit.editorOk => edit.update = "none"

(* A change of the kubeconfig that succeeds and that no other process has  *)
(* come in between has just the effect on the file that Env gives it in    *)
(* one step; memory agrees with the file about what was changed; and no    *)
(* lock outlives the write.                                                *)
UndisturbedChangeIsExact ==
  /\ change.outcome = "done" /\ ~change.disturbed =>
       /\ file = Changed(change.before, change.op)
       /\ change.op.op = "context" => memory.current = file.current
       /\ change.op.op # "context" /\ HasContext(memory, change.op.name) =>
            /\ HasContext(file, change.op.name)
            /\ memory.contexts[change.op.name] = file.contexts[change.op.name]
  /\ lock = "krepl" => pc = "kube.write"

=============================================================================
