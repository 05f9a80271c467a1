---------------------------- MODULE KreplProofs ----------------------------
(***************************************************************************)
(* krepl on its terminal, for any number of execs, any documents and any   *)
(* kubeconfig: the type invariant and the safety properties, by one        *)
(* inductive invariant with a part for each command.  That exec ends is    *)
(* model-checked, under fairness; what is proved of it is that the pump it *)
(* waits for has all closed, and then five more steps at most.             *)
(***************************************************************************)
EXTENDS Krepl, KubeconfigProofs, TLAPS

-----------------------------------------------------------------------------
(* The loop and the terminal.  A command has the terminal in HandedOver;   *)
(* "raw" and "restore" in trouble are the scars PromptIsFresh allows for.  *)
Scarred == trouble \cap {"raw", "restore"} # {}

HandedOver ==
  \/ pc \in {"exec.raw", "exec.wait", "exec.restore", "exec.resume",
             "edit.editor", "edit.resume", "logs.editor", "logs.resume"}
  \/ pc \in {"exec.stream", "exec.stop"} /\ interactive

Raw ==
  \/ pc \in {"exec.wait", "exec.restore"}
  \/ pc \in {"exec.stream", "exec.stop"} /\ rawTTY

AfterResume == {"dispatched", "edit.read", "edit.compare", "edit.apply", "edit.wait"}

TermOK ==
  /\ hooks = "old" => pc = "panicked"
  /\ reset => pc \in AfterResume
  /\ rl # "ready" =>
       Scarred \/ reset \/ HandedOver \/ pc \in {"closing", "rebuilding"} \cup EndPCs
  /\ tty = "raw" => "restore" \in trouble \/ Raw

(* The goroutines of exec: only the current one's may be at work, save for *)
(* those the code forgets.                                                 *)
PumpOK ==
  \A i \in Execs : pump[i] \notin {"none", "done"} =>
    \/ trouble \cap {"suspend", "raw"} # {}
    \/ /\ i = runs /\ rawTTY
       /\ pc \in {"exec.suspend", "exec.raw", "exec.stream", "exec.stop", "exec.wait"}

CopierOK ==
  \A i \in Execs : copier[i].state \in {"reading", "sending"} =>
    \/ copier[i].from = "stdin"
    \/ "writer" \in closed[i]
    \/ i = runs /\ rawTTY /\ pc \in {"exec.stream", "exec.stop"}

ExecOK ==
  /\ pc = "exec.suspend" => interactive
  /\ pc \in {"exec.raw", "exec.wait", "exec.restore"} => rawTTY
  /\ PumpOK
  /\ CopierOK

(* Of which version and from where the documents of an edit are, by phase. *)
EditOK ==
  /\ pc \notin EditPCs \cup {"dispatched"} => edit = NoEdit
  /\ pc = "edit.get" => edit = NoEdit
  /\ pc \in EditPCs => edit.said = "nothing"
  /\ pc \in EditPCs \ {"edit.wait"} => edit.update = "none"
  /\ edit.opened.version \in {NoVersion, edit.fetched.version}
  /\ edit.opened \in {edit.fetched, edit.saved}
  /\ pc \in {"edit.suspend", "edit.editor"} => edit.opened = edit.fetched
  /\ edit.update # "none" => edit.sent.version \in {NoVersion, edit.fetched.version}
  /\ pc \in {"edit.compare", "edit.apply", "edit.wait"} => edit.editorOk
  /\ pc = "edit.apply" => edit.opened = edit.saved /\ edit.opened.text # "notYAML"
  /\ edit.update = "underway" => edit.sent.text # "notYAML"
  /\ pc = "edit.wait" => edit.sent = edit.saved
  /\ SeenBeforeOverwritten
  /\ EditSaysWhatItDid

(* What a change of the kubeconfig has in hand, by phase. *)
KubeOK ==
  /\ lock = "krepl" <=> pc = "kube.write"
  /\ pc \in KubePCs => change.op \in Ops
  /\ pc # "dispatched" => change.outcome = "none"
  /\ pc \in {"kube.lock", "kube.write", "kube.memory"} =>
       /\ HasContext(change.before, change.op.name)
       /\ change.copy = Changed(change.before, change.op)
  /\ pc = "kube.memory" /\ ~change.disturbed => file = change.copy
  /\ UndisturbedChangeIsExact

(* The inductive invariant. *)
IInv ==
  /\ TypeOK
  /\ TermOK
  /\ ExecOK
  /\ EditOK
  /\ KubeOK

(* The parts of the type invariant, and the control points. *)
PCs == LoopPCs \cup EndPCs \cup ExecPCs \cup EditPCs \cup LogsPCs \cup KubePCs

TermType ==
  /\ pc \in PCs
  /\ rl \in {"ready", "used", "closed", "nil"}
  /\ hooks \in {"this", "old"} /\ tty \in {"cooked", "raw"} /\ reset \in BOOLEAN
  /\ trouble \subseteq {"suspend", "raw", "restore"}

ExecType ==
  /\ runs \in 0..MaxExecs /\ mode \subseteq {"tty", "stdin", "terminal"}
  /\ pump \in [Execs -> PumpStates]
  /\ closed \in [Execs -> SUBSET {"stopCh", "src", "writer"}]
  /\ copier \in [Execs -> Copiers]

EditType ==
  /\ object \in [text : Texts, version : 1..MaxVersion] /\ present \in BOOLEAN
  /\ edit \in Edits

KubeType ==
  /\ file \in Configs /\ memory \in Configs /\ lock \in {"nobody", "krepl", "ghost"}
  /\ change \in Changes /\ edits \in 0..MaxEdits

RestType == logsMode \in {"none", "print", "follow", "editor"} /\ session \in Sessions

LEMMA TypeParts ==
  /\ TypeOK <=> TermType /\ ExecType /\ EditType /\ KubeType /\ RestType
  /\ TypeOK' <=> TermType' /\ ExecType' /\ EditType' /\ KubeType' /\ RestType'
<1>1. TypeOK <=> TermType /\ ExecType /\ EditType /\ KubeType /\ RestType
  BY DEF TypeOK, PCs, TermType, ExecType, EditType, KubeType, RestType
<1>2. TypeOK' <=> TermType' /\ ExecType' /\ EditType' /\ KubeType' /\ RestType'
  BY DEF TypeOK, PCs, TermType, ExecType, EditType, KubeType, RestType
<1> QED BY <1>1, <1>2

(* The parts of the invariant that a command leaves alone. *)
ExecPart == ExecType /\ ExecOK
EditPart == EditType /\ EditOK
KubePart == KubeType /\ KubeOK

LEMMA InvParts ==
  /\ IInv <=> TermType /\ TermOK /\ RestType /\ ExecPart /\ EditPart /\ KubePart
  /\ IInv' <=> TermType' /\ TermOK' /\ RestType' /\ ExecPart' /\ EditPart' /\ KubePart'
BY TypeParts DEF IInv, ExecPart, EditPart, KubePart

LEMMA KeepsExec ==
  ASSUME ExecPart, UNCHANGED execVars, trouble \subseteq trouble',
         pc \notin ExecPCs, pc' \notin ExecPCs
  PROVE  ExecPart'
<1>1. UNCHANGED <<runs, mode, pump, closed, copier>>
  BY DEF execVars
<1>2. ExecType'
  BY <1>1 DEF ExecPart, ExecType
<1>3. ExecOK'
  BY <1>1 DEF ExecPart, ExecOK, PumpOK, CopierOK, ExecPCs
<1> QED BY <1>2, <1>3 DEF ExecPart

LEMMA NoEditIsEdit ==
  /\ NoEdit \in Edits
  /\ NoEdit.opened.version = NoVersion /\ NoEdit.opened = NoEdit.fetched
  /\ NoEdit.update = "none" /\ NoEdit.said = "nothing" /\ NoEdit.editorOk
BY EditAssumption DEF NoEdit, Edits, NoDocument, Documents, NoVersion

LEMMA KeepsEdit ==
  ASSUME EditPart, UNCHANGED editVars,
         pc \notin EditPCs \cup {"dispatched"}, pc' \notin EditPCs
  PROVE  EditPart'
<1>1. UNCHANGED <<object, present, edit>> /\ edit = NoEdit
  BY DEF editVars, EditPart, EditOK
<1>2. EditType'
  BY <1>1 DEF EditPart, EditType
<1>3. EditOK'
  BY <1>1, NoEditIsEdit DEF EditOK, SeenBeforeOverwritten, EditSaysWhatItDid, EditPCs
<1> QED BY <1>2, <1>3 DEF EditPart

LEMMA NoChangeIsChange ==
  NoChange \in Changes /\ NoChange.outcome = "none" /\ Empty \in Configs
<1>1. <<>> \in [{} -> NamespaceOrNone]
  OBVIOUS
<1>2. Empty \in Configs
  BY <1>1 DEF Empty, Configs, ContextOrNone
<1> QED BY <1>2 DEF NoChange, Changes

LEMMA KeepsKube ==
  ASSUME KubePart, UNCHANGED kubeVars,
         pc \notin KubePCs \cup {"dispatched"}, pc' \notin KubePCs
  PROVE  KubePart'
<1>1. UNCHANGED <<file, lock, memory, change, edits>>
  BY DEF kubeVars
<1>2. KubeType'
  BY <1>1 DEF KubePart, KubeType
<1>3. KubeOK'
  BY <1>1 DEF KubePart, KubeOK, UndisturbedChangeIsExact, KubePCs
<1> QED BY <1>2, <1>3 DEF KubePart

-----------------------------------------------------------------------------
LEMMA InitEstablishes == Init => IInv
<1> SUFFICES ASSUME Init PROVE IInv
  OBVIOUS
<1>1. TermType /\ TermOK /\ RestType
  BY DEF Init, TermInit, LogsInit, TermType, TermOK, RestType, PCs, LoopPCs
<1>2. ExecPart
  BY ExecAssumption DEF Init, TermInit, ExecInit, ExecPart, ExecType, ExecOK, PumpOK, CopierOK,
                        Execs, PumpStates, Copiers, NoCopier
<1>3. EditPart
  <2>1. EditType
    BY EditAssumption, NoEditIsEdit DEF Init, EditInit, EditType
  <2>2. EditOK
    BY NoEditIsEdit DEF Init, TermInit, EditInit, EditOK, SeenBeforeOverwritten,
                        EditSaysWhatItDid, EditPCs
  <2> QED BY <2>1, <2>2 DEF EditPart
<1>4. KubePart
  <2>1. KubeType
    BY NoChangeIsChange, KubeconfigEditAssumption DEF Init, KubeInit, KubeType
  <2>2. KubeOK
    BY NoChangeIsChange DEF Init, TermInit, KubeInit, KubeOK, UndisturbedChangeIsExact, KubePCs
  <2> QED BY <2>1, <2>2 DEF KubePart
<1> QED BY <1>1, <1>2, <1>3, <1>4, InvParts

-----------------------------------------------------------------------------
(* exec itself. *)
LEMMA ExecLeavesRest ==
  ASSUME IInv, UNCHANGED <<editVars, logsMode, kubeVars, session>>,
         pc \in ExecPCs, pc' \in ExecPCs \cup {"dispatched"},
         TermType', TermOK', ExecPart'
  PROVE  IInv'
<1>1. EditPart'
  BY InvParts, KeepsEdit DEF ExecPCs, EditPCs
<1>2. KubePart'
  BY InvParts, KeepsKube DEF ExecPCs, KubePCs
<1>3. RestType'
  BY InvParts DEF RestType
<1> QED BY <1>1, <1>2, <1>3, InvParts

LEMMA RawIsInteractive == rawTTY => interactive
BY DEF rawTTY, interactive

LEMMA ExecControl ==
  ASSUME IInv, ExecGoesOn \/ StreamEnds, UNCHANGED <<editVars, logsMode, kubeVars, session>>
  PROVE  IInv'
<1>1. TermType /\ TermOK /\ ExecType /\ ExecOK
  BY InvParts DEF ExecPart
<1>2. \A state \in PumpStates : [pump EXCEPT ![runs] = state] \in [Execs -> PumpStates]
  BY <1>1 DEF ExecType
<1>3. CASE PrepareInput
  <2>1. /\ pc = "exec.prepare" /\ pc' \in {"dispatched", "exec.suspend", "exec.stream"}
        /\ UNCHANGED <<rl, hooks, tty, reset, trouble, runs, mode, closed, copier>>
        /\ pc' = "exec.suspend" => interactive
        /\ \/ UNCHANGED pump
           \/ /\ rawTTY /\ pc' = "exec.suspend"
              /\ pump' = [pump EXCEPT ![runs] = "starting"]
    BY <1>3, RawIsInteractive DEF PrepareInput, Goto, execVars
  <2>2. TermType' /\ TermOK'
    BY <1>1, <2>1 DEF TermType, TermOK, PCs, LoopPCs, EndPCs, ExecPCs, HandedOver, Raw,
                      Scarred, AfterResume
  <2>3. ExecType'
    BY <1>1, <1>2, <2>1 DEF ExecType, PumpStates
  <2>4. ExecOK'
    BY <1>1, <2>1 DEF ExecOK, PumpOK, CopierOK, ExecType, rawTTY, interactive
  <2> QED BY <2>1, <2>2, <2>3, <2>4, ExecLeavesRest DEF ExecPart, ExecPCs
<1>4. CASE ExecSuspend
  <2>1. /\ pc = "exec.suspend" /\ UNCHANGED <<hooks, tty, reset, runs, mode, pump, closed, copier>>
        /\ \/ /\ pc' = IF rawTTY THEN "exec.raw" ELSE "exec.stream"
              /\ rl' = "used" /\ UNCHANGED trouble
           \/ pc' = "dispatched" /\ trouble' = trouble \cup {"suspend"} /\ UNCHANGED rl
    BY <1>4 DEF ExecSuspend, SuspendTerminal, execVars
  <2>2. ExecType' /\ ExecOK'
    BY <1>1, <2>1 DEF ExecType, ExecOK, PumpOK, CopierOK, rawTTY, interactive
  <2>3. TermType'
    BY <1>1, <2>1 DEF TermType, PCs, LoopPCs, EndPCs, ExecPCs
  <2>4. TermOK'
    BY <1>1, <2>1 DEF TermOK, EndPCs, HandedOver, Raw, Scarred, AfterResume, ExecOK, interactive
  <2> QED BY <2>1, <2>2, <2>3, <2>4, ExecLeavesRest DEF ExecPart, ExecPCs
<1>5. CASE MakeRaw
  <2>1. /\ pc = "exec.raw" /\ UNCHANGED <<rl, hooks, reset, runs, mode, pump, closed, copier>>
        /\ \/ pc' = "exec.stream" /\ tty' = "raw" /\ UNCHANGED trouble
           \/ pc' = "dispatched" /\ trouble' = trouble \cup {"raw"} /\ UNCHANGED tty
    BY <1>5 DEF MakeRaw, execVars
  <2>2. ExecType' /\ ExecOK'
    BY <1>1, <2>1 DEF ExecType, ExecOK, PumpOK, CopierOK, rawTTY, interactive
  <2>3. TermType'
    BY <1>1, <2>1 DEF TermType, PCs, LoopPCs, EndPCs, ExecPCs
  <2>4. rawTTY /\ rawTTY' /\ interactive'
    BY <1>1, <2>1 DEF ExecOK, rawTTY, interactive
  <2>5. TermOK'
    BY <1>1, <2>1, <2>4 DEF TermOK, EndPCs, HandedOver, Raw, Scarred, AfterResume
  <2> QED BY <2>1, <2>2, <2>3, <2>5, ExecLeavesRest DEF ExecPart, ExecPCs
<1>6. CASE CloseInput
  <2>1. /\ pc = "exec.stop"
        /\ UNCHANGED <<rl, hooks, tty, reset, trouble, runs, mode, pump, copier>>
        /\ \/ /\ rawTTY /\ pc' = "exec.wait"
              /\ closed' = [closed EXCEPT ![runs] = {"stopCh", "src", "writer"}]
           \/ /\ ~rawTTY /\ UNCHANGED closed
              /\ pc' = IF interactive THEN "exec.resume" ELSE "dispatched"
    BY <1>6 DEF CloseInput, Goto
  <2>2. ExecType'
    BY <1>1, <2>1 DEF ExecType
  <2>3. \A i \in Execs : closed[i] \subseteq closed'[i]
    BY <1>1, <2>1 DEF ExecType
  <2>4. rawTTY => \A i \in Execs : i = runs => "writer" \in closed'[i]
    BY <1>1, <2>1 DEF ExecType
  <2>5. ExecOK'
    BY <1>1, <2>1, <2>3, <2>4 DEF ExecOK, PumpOK, CopierOK, rawTTY, interactive
  <2>6. TermType'
    BY <1>1, <2>1 DEF TermType, PCs, LoopPCs, EndPCs, ExecPCs
  <2>7. TermOK'
    BY <1>1, <2>1 DEF TermOK, EndPCs, HandedOver, Raw, Scarred, AfterResume
  <2> QED BY <2>1, <2>2, <2>5, <2>6, <2>7, ExecLeavesRest DEF ExecPart, ExecPCs
<1>7. CASE PumpDone
  <2>1. /\ pc = "exec.wait" /\ pump[runs] = "done" /\ pc' = "exec.restore"
        /\ UNCHANGED <<rl, hooks, tty, reset, trouble, runs, mode, pump, closed, copier>>
    BY <1>7 DEF PumpDone, Goto, execVars
  <2>2. ExecType' /\ ExecOK'
    BY <1>1, <2>1 DEF ExecType, ExecOK, PumpOK, CopierOK, rawTTY, interactive
  <2>3. TermType' /\ TermOK'
    BY <1>1, <2>1 DEF TermType, TermOK, PCs, LoopPCs, EndPCs, ExecPCs, HandedOver, Raw,
                      Scarred, AfterResume
  <2> QED BY <2>1, <2>2, <2>3, ExecLeavesRest DEF ExecPart, ExecPCs
<1>8. CASE RestoreTerminal
  <2>1. /\ pc = "exec.restore" /\ UNCHANGED <<rl, hooks, reset, runs, mode, pump, closed, copier>>
        /\ \/ pc' = "exec.resume" /\ tty' = "cooked" /\ UNCHANGED trouble
           \/ pc' = "dispatched" /\ trouble' = trouble \cup {"restore"} /\ UNCHANGED tty
    BY <1>8 DEF RestoreTerminal, execVars
  <2>2. ExecType' /\ ExecOK'
    BY <1>1, <2>1 DEF ExecType, ExecOK, PumpOK, CopierOK, rawTTY, interactive
  <2>3. TermType' /\ TermOK'
    BY <1>1, <2>1 DEF TermType, TermOK, PCs, LoopPCs, EndPCs, ExecPCs, HandedOver, Raw,
                      Scarred, AfterResume
  <2> QED BY <2>1, <2>2, <2>3, ExecLeavesRest DEF ExecPart, ExecPCs
<1>9. CASE ExecResume
  <2>1. /\ pc = "exec.resume" /\ pc' = "dispatched" /\ reset' = TRUE
        /\ UNCHANGED <<rl, hooks, tty, trouble, runs, mode, pump, closed, copier>>
    BY <1>9 DEF ExecResume, ResumeTerminal, execVars
  <2>2. ExecType' /\ ExecOK'
    BY <1>1, <2>1 DEF ExecType, ExecOK, PumpOK, CopierOK, rawTTY, interactive
  <2>3. TermType' /\ TermOK'
    BY <1>1, <2>1 DEF TermType, TermOK, PCs, LoopPCs, EndPCs, ExecPCs, HandedOver, Raw,
                      Scarred, AfterResume
  <2> QED BY <2>1, <2>2, <2>3, ExecLeavesRest DEF ExecPart, ExecPCs
<1>10. CASE StreamEnds
  <2>1. /\ pc = "exec.stream" /\ pc' = "exec.stop"
        /\ UNCHANGED <<rl, hooks, tty, reset, trouble, runs, mode, pump, closed, copier>>
    BY <1>10 DEF StreamEnds, Goto, execVars
  <2>2. ExecType' /\ ExecOK'
    BY <1>1, <2>1 DEF ExecType, ExecOK, PumpOK, CopierOK, rawTTY, interactive
  <2>3. TermType' /\ TermOK'
    BY <1>1, <2>1 DEF TermType, TermOK, PCs, LoopPCs, EndPCs, ExecPCs, HandedOver, Raw,
                      Scarred, AfterResume, interactive, rawTTY
  <2> QED BY <2>1, <2>2, <2>3, ExecLeavesRest DEF ExecPart, ExecPCs
<1> QED BY <1>3, <1>4, <1>5, <1>6, <1>7, <1>8, <1>9, <1>10 DEF ExecGoesOn

-----------------------------------------------------------------------------
(* A part none of whose variables change. *)
LEMMA SameTerm ==
  ASSUME TermType, TermOK, UNCHANGED <<termVars, mode>>
  PROVE  TermType' /\ TermOK'
BY DEF termVars, TermType, TermOK, HandedOver, Raw, Scarred, rawTTY, interactive

LEMMA SameExec ==
  ASSUME ExecPart, UNCHANGED <<pc, trouble, execVars>>
  PROVE  ExecPart'
BY DEF ExecPart, execVars, ExecType, ExecOK, PumpOK, CopierOK, rawTTY, interactive

LEMMA SameEdit ==
  ASSUME EditPart, UNCHANGED <<pc, editVars>>
  PROVE  EditPart'
BY DEF EditPart, editVars, EditType, EditOK, SeenBeforeOverwritten, EditSaysWhatItDid

LEMMA SameKube ==
  ASSUME KubePart, UNCHANGED <<pc, kubeVars>>
  PROVE  KubePart'
BY DEF KubePart, kubeVars, KubeType, KubeOK, UndisturbedChangeIsExact

(* The pump and the copier, at work beside whatever krepl is doing: a      *)
(* pump that is at work was so before, and what is closed stays closed.    *)
LEMMA CopierState ==
  ASSUME copier \in [Execs -> Copiers], NEW i \in Execs,
         copier[i].state \in {"reading", "sending"},
         NEW state \in {"reading", "sending", "done"},
         copier' = [copier EXCEPT ![i].state = state]
  PROVE  /\ copier' \in [Execs -> Copiers]
         /\ \A j \in Execs : /\ copier'[j].from = copier[j].from
                            /\ copier'[j].state = IF j = i THEN state ELSE copier[j].state
<1>1. copier[i] \in [state : {"reading", "sending", "done"}, from : {"pipe", "stdin"}]
  BY DEF Copiers, NoCopier
<1>2. \A j \in Execs : copier'[j] = IF j = i THEN [copier[i] EXCEPT !.state = state] ELSE copier[j]
  OBVIOUS
<1>3. /\ [copier[i] EXCEPT !.state = state] \in Copiers
      /\ [copier[i] EXCEPT !.state = state].state = state
      /\ [copier[i] EXCEPT !.state = state].from = copier[i].from
  BY <1>1 DEF Copiers
<1>4. \A j \in Execs : copier'[j] \in Copiers
  BY <1>2, <1>3
<1>5. copier' \in [Execs -> Copiers]
  BY <1>4
<1> QED BY <1>2, <1>3, <1>5

LEMMA PumpType ==
  ASSUME ExecType, NEW i \in Execs, Pump(i)
  PROVE  /\ ExecType'
         /\ \A j \in Execs :
              /\ pump'[j] \notin {"none", "done"} => pump[j] \notin {"none", "done"}
              /\ closed[j] \subseteq closed'[j]
              /\ copier'[j].state \in {"reading", "sending"} =>
                   copier[j].state \in {"reading", "sending"}
              /\ copier'[j].from = copier[j].from
<1>1. ASSUME NEW state \in PumpStates, PumpGoes(i, state),
             pump[i] \notin {"none", "done"}
      PROVE  /\ pump' \in [Execs -> PumpStates]
             /\ \A j \in Execs :
                  pump'[j] \notin {"none", "done"} => pump[j] \notin {"none", "done"}
  BY <1>1 DEF PumpGoes, ExecType
<1>2. UNCHANGED <<runs, mode>>
  BY DEF Pump
<1>3. pump[i] \notin {"none", "done"} /\ \E state \in PumpStates : PumpGoes(i, state)
  BY DEF Pump, SetNonblock, CheckStop, ReadTTY, Wake, Transfer, WriteFails, PumpFails,
         PumpStops, PumpStates
<1>4. /\ closed' \in [Execs -> SUBSET {"stopCh", "src", "writer"}]
      /\ \A j \in Execs : closed[j] \subseteq closed'[j]
  <2>1. \/ UNCHANGED closed
        \/ closed' = [closed EXCEPT ![i] = @ \cup {"writer"}]
        \/ closed' = [closed EXCEPT ![i] = {"stopCh", "src", "writer"}]
    BY DEF Pump, SetNonblock, CheckStop, ReadTTY, Wake, Transfer, WriteFails, PumpFails,
           PumpStops
  <2> QED BY <2>1 DEF ExecType
<1>5. /\ copier' \in [Execs -> Copiers]
      /\ \A j \in Execs :
           /\ copier'[j].state \in {"reading", "sending"} =>
                copier[j].state \in {"reading", "sending"}
           /\ copier'[j].from = copier[j].from
  <2>1. \/ UNCHANGED copier
        \/ /\ copier[i] = [state |-> "reading", from |-> "pipe"]
           /\ copier' = [copier EXCEPT ![i].state = "sending"]
    BY DEF Pump, SetNonblock, CheckStop, ReadTTY, Wake, Transfer, WriteFails, PumpFails,
           PumpStops
  <2>2. CASE /\ copier[i] = [state |-> "reading", from |-> "pipe"]
             /\ copier' = [copier EXCEPT ![i].state = "sending"]
    <3>1. copier[i].state = "reading" /\ copier \in [Execs -> Copiers]
      BY <2>2 DEF ExecType
    <3> QED BY <2>2, <3>1, CopierState
  <2> QED BY <2>1, <2>2 DEF ExecType
<1> QED BY <1>1, <1>2, <1>3, <1>4, <1>5 DEF ExecType

LEMMA CopierType ==
  ASSUME ExecType, NEW i \in Execs, Copier(i) \/ CopierReadsStdin(i)
  PROVE  /\ ExecType' /\ UNCHANGED <<pump, closed>>
         /\ \A j \in Execs :
              /\ copier'[j].state \in {"reading", "sending"} =>
                   copier[j].state \in {"reading", "sending"}
              /\ copier'[j].from = copier[j].from
<1>1. /\ UNCHANGED <<runs, mode, pump, closed>>
      /\ copier[i].state \in {"reading", "sending"}
      /\ \E state \in {"reading", "sending", "done"} :
           copier' = [copier EXCEPT ![i].state = state]
  BY DEF Copier, CopierSent, CopierSeesEnd, CopierReadsStdin
<1>2. PICK state \in {"reading", "sending", "done"} :
        copier' = [copier EXCEPT ![i].state = state]
  BY <1>1
<1>3. copier \in [Execs -> Copiers]
  BY DEF ExecType
<1> QED BY <1>1, <1>2, <1>3, CopierState DEF ExecType

LEMMA ExecBeside ==
  ASSUME IInv, UNCHANGED <<editVars, logsMode, kubeVars, session>>,
         StreamStarts \/ \E i \in Execs : Pump(i) \/ Copier(i) \/ CopierReadsStdin(i)
  PROVE  IInv'
<1>1. UNCHANGED <<termVars, runs, mode>>
  BY DEF StreamStarts, Pump, Copier, CopierSent, CopierSeesEnd, CopierReadsStdin
<1>2. UNCHANGED <<pc, rl, hooks, tty, reset, trouble>>
  BY <1>1 DEF termVars
<1>3. ExecType /\ ExecOK
  BY InvParts DEF ExecPart
<1>4. ASSUME ExecType',
             \A j \in Execs :
               /\ pump'[j] \notin {"none", "done"} => pump[j] \notin {"none", "done"}
               /\ closed[j] \subseteq closed'[j]
               /\ copier'[j].state \in {"reading", "sending"} =>
                    copier[j].state \in {"reading", "sending"}
               /\ copier'[j].from = copier[j].from
      PROVE  ExecPart'
  BY <1>1, <1>2, <1>3, <1>4 DEF ExecPart, ExecOK, PumpOK, CopierOK, rawTTY, interactive
<1>5. ASSUME StreamStarts PROVE ExecPart'
  <2>1. /\ pc = "exec.stream" /\ UNCHANGED <<pump, closed>>
        /\ copier' = [copier EXCEPT ![runs] =
             [state |-> "reading", from |-> IF rawTTY THEN "pipe" ELSE "stdin"]]
    BY <1>5 DEF StreamStarts
  <2>2. ExecType'
    BY <1>1, <1>3, <2>1 DEF ExecType, Copiers
  <2>3. CopierOK'
    BY <1>1, <1>2, <1>3, <2>1 DEF ExecType, ExecOK, CopierOK, rawTTY
  <2>4. ExecPart'
    BY <1>1, <1>2, <1>3, <2>1, <2>2, <2>3 DEF ExecPart, ExecOK, PumpOK, rawTTY, interactive
  <2> QED BY <2>4
<1>6. ASSUME NEW i \in Execs, Pump(i) PROVE ExecPart'
  BY <1>3, <1>4, <1>6, PumpType
<1>7. ASSUME NEW i \in Execs, Copier(i) \/ CopierReadsStdin(i) PROVE ExecPart'
  BY <1>3, <1>4, <1>7, CopierType
<1>8. ExecPart'
  BY <1>5, <1>6, <1>7
<1>9. RestType'
  BY InvParts DEF RestType
<1> QED BY <1>1, <1>2, <1>8, <1>9, InvParts, SameTerm, SameEdit, SameKube

-----------------------------------------------------------------------------
(* logs. *)
LEMMA LogsStep ==
  ASSUME IInv, LogsMove, UNCHANGED session
  PROVE  IInv'
<1>1. TermType /\ TermOK /\ ExecPart /\ EditPart /\ KubePart /\ RestType
      /\ UNCHANGED <<execVars, editVars, kubeVars, session>>
  BY InvParts DEF LogsMove
<1>2. UNCHANGED <<mode, hooks, tty, logsMode>>
  BY <1>1 DEF LogsMove, GetLogs, CopyEnds, InterruptFollow, LogsSuspend, LogsEditor, LogsResume,
              Goto, SuspendTerminal, ResumeTerminal, execVars
<1>3. \/ /\ pc \in {"logs.get", "logs.copy"} /\ UNCHANGED <<rl, reset, trouble>>
         /\ pc' \in {"logs.get", "logs.copy", "logs.suspend", "dispatched"}
      \/ /\ pc = "logs.suspend" /\ pc' = "logs.editor" /\ rl' = "used"
         /\ UNCHANGED <<reset, trouble>>
      \/ /\ pc = "logs.suspend" /\ pc' = "dispatched" /\ UNCHANGED <<rl, reset>>
         /\ trouble' = trouble \cup {"suspend"}
      \/ /\ pc = "logs.editor" /\ pc' = "logs.resume" /\ UNCHANGED <<rl, reset, trouble>>
      \/ /\ pc = "logs.resume" /\ pc' = "dispatched" /\ reset' = TRUE
         /\ UNCHANGED <<rl, trouble>>
  BY DEF LogsMove, GetLogs, CopyEnds, InterruptFollow, LogsSuspend, LogsEditor, LogsResume,
         Goto, SuspendTerminal, ResumeTerminal
<1>4. pc \in LogsPCs /\ pc' \in LogsPCs \cup {"dispatched"} /\ trouble \subseteq trouble'
  BY <1>3 DEF LogsPCs
<1>5. TermType'
  BY <1>1, <1>2, <1>3, <1>4 DEF TermType, PCs, LoopPCs
<1>6. TermOK'
  BY <1>1, <1>2, <1>3 DEF TermOK, EndPCs, HandedOver, Raw, Scarred, AfterResume
<1>7. ExecPart' /\ EditPart' /\ KubePart'
  BY <1>1, <1>4, KeepsExec, KeepsEdit, KeepsKube DEF LogsPCs, ExecPCs, EditPCs, KubePCs
<1>8. RestType'
  BY <1>1, <1>2 DEF RestType
<1> QED BY <1>5, <1>6, <1>7, <1>8, InvParts

-----------------------------------------------------------------------------
(* The loop. *)
LEMMA LoopStep ==
  ASSUME IInv, Loop, UNCHANGED session
  PROVE  IInv'
<1>1. TermType /\ TermOK /\ ExecPart /\ EditPart /\ KubePart /\ RestType
  BY InvParts
<1>2. CASE Returned
  <2>1. /\ pc = "dispatched" /\ pc' = IF reset THEN "closing" ELSE "prompt"
        /\ reset' = FALSE /\ UNCHANGED <<rl, hooks, tty, trouble>>
        /\ mode' = {} /\ edit' = NoEdit /\ logsMode' = "none" /\ change' = NoChange
        /\ UNCHANGED <<runs, pump, closed, copier, object, present, file, lock, memory, edits>>
    BY <1>2 DEF Returned, ConsumeTerminalReset
  <2>2. TermType' /\ RestType'
    BY <1>1, <2>1 DEF TermType, RestType, PCs, LoopPCs
  <2>3. TermOK'
    BY <1>1, <2>1 DEF TermOK, EndPCs, HandedOver, Raw, Scarred, AfterResume
  <2>4. ExecPart'
    BY <1>1, <2>1 DEF ExecPart, ExecType, ExecOK, PumpOK, CopierOK
  <2>5. EditPart'
    BY <1>1, <2>1, NoEditIsEdit DEF EditPart, EditType, EditOK, SeenBeforeOverwritten,
                                    EditSaysWhatItDid, EditPCs
  <2>6. KubePart'
    BY <1>1, <2>1, NoChangeIsChange DEF KubePart, KubeType, KubeOK, UndisturbedChangeIsExact, KubePCs
  <2> QED BY <2>2, <2>3, <2>4, <2>5, <2>6, InvParts
<1>3. CASE /\ CloseReadline \/ NewReadlineInstance \/ LeaveLoop
           /\ UNCHANGED <<execVars, editVars, logsMode, kubeVars>>
  <2>1. /\ pc \in {"closing", "rebuilding", "prompt"} /\ UNCHANGED <<tty, reset, trouble, mode>>
        /\ \/ pc = "closing" /\ pc' = "rebuilding" /\ rl' = "closed" /\ UNCHANGED hooks
           \/ pc = "closing" /\ pc' = "ended" /\ UNCHANGED <<rl, hooks>>
           \/ pc = "rebuilding" /\ pc' = "prompt" /\ rl' = "ready" /\ hooks' = "this"
           \/ pc = "rebuilding" /\ pc' = "panicked" /\ rl' = "nil" /\ hooks' = "old"
           \/ pc = "prompt" /\ pc' = "ended" /\ UNCHANGED <<rl, hooks>>
    BY <1>3 DEF CloseReadline, NewReadlineInstance, LeaveLoop, Goto, execVars
  <2>2. TermType' /\ RestType'
    BY <1>1, <1>3, <2>1 DEF TermType, RestType, PCs, LoopPCs, EndPCs
  <2>3. TermOK'
    BY <1>1, <2>1 DEF TermOK, EndPCs, HandedOver, Raw, Scarred, AfterResume
  <2>4. ExecPart' /\ EditPart' /\ KubePart'
    BY <1>1, <1>3, <2>1, KeepsExec, KeepsEdit, KeepsKube DEF ExecPCs, EditPCs, KubePCs
  <2> QED BY <2>2, <2>3, <2>4, InvParts
<1> QED BY <1>2, <1>3 DEF Loop

(* A command is started. *)
LEMMA StartStep ==
  ASSUME IInv, Start, UNCHANGED session
  PROVE  IInv'
<1>1. TermType /\ TermOK /\ ExecPart /\ EditPart /\ KubePart /\ RestType
  BY InvParts
<1>2. /\ pc = "prompt" /\ pc' \in {"exec.prepare", "edit.get", "logs.get", "kube.read"}
      /\ UNCHANGED <<rl, hooks, tty, reset, trouble>>
  BY DEF Start, StartExec, StartEdit, StartLogs, StartChange, Goto
<1>3. TermType' /\ TermOK'
  BY <1>1, <1>2 DEF TermType, PCs, ExecPCs, EditPCs, LogsPCs, KubePCs, TermOK, EndPCs,
                    HandedOver, Raw, Scarred, AfterResume
<1>4. CASE StartExec /\ UNCHANGED <<editVars, logsMode, kubeVars>>
  <2>1. /\ pc' = "exec.prepare" /\ runs < MaxExecs /\ runs' = runs + 1
        /\ mode' \in SUBSET {"tty", "stdin", "terminal"} /\ UNCHANGED <<pump, closed, copier>>
    BY <1>4 DEF StartExec, Goto
  <2>2. ExecType'
    BY <1>1, <2>1, ExecAssumption DEF ExecPart, ExecType
  <2>3. ExecOK'
    BY <1>1, <1>2, <2>1 DEF ExecPart, ExecOK, PumpOK, CopierOK
  <2>4. EditPart' /\ KubePart'
    BY <1>1, <1>2, <1>4, <2>1, KeepsEdit, KeepsKube DEF EditPCs, KubePCs
  <2>5. RestType'
    BY <1>1, <1>4 DEF RestType
  <2> QED BY <1>3, <2>2, <2>3, <2>4, <2>5, InvParts DEF ExecPart
<1>5. CASE StartEdit /\ UNCHANGED <<execVars, logsMode, kubeVars>>
  <2>1. pc' = "edit.get" /\ UNCHANGED <<object, present, edit>> /\ edit = NoEdit
    BY <1>1, <1>2, <1>5 DEF StartEdit, Goto, editVars, EditPart, EditOK, EditPCs
  <2>2. EditPart'
    BY <1>1, <2>1, NoEditIsEdit DEF EditPart, EditType, EditOK, SeenBeforeOverwritten,
                                    EditSaysWhatItDid, EditPCs
  <2>3. ExecPart' /\ KubePart'
    BY <1>1, <1>2, <1>5, <2>1, KeepsExec, KeepsKube DEF ExecPCs, KubePCs
  <2>4. RestType'
    BY <1>1, <1>5 DEF RestType
  <2> QED BY <1>3, <2>2, <2>3, <2>4, InvParts
<1>6. CASE StartLogs /\ UNCHANGED <<execVars, editVars, kubeVars>>
  <2>1. pc' = "logs.get" /\ logsMode' \in {"print", "follow", "editor"}
    BY <1>6 DEF StartLogs, Goto
  <2>2. ExecPart' /\ EditPart' /\ KubePart'
    BY <1>1, <1>2, <1>6, <2>1, KeepsExec, KeepsEdit, KeepsKube DEF ExecPCs, EditPCs, KubePCs
  <2>3. RestType'
    BY <1>1, <2>1 DEF RestType
  <2> QED BY <1>3, <2>2, <2>3, InvParts
<1>7. ASSUME NEW op \in Ops, StartChange(op), UNCHANGED <<execVars, editVars, logsMode>>
      PROVE  IInv'
  <2>1. /\ pc' = "kube.read" /\ change' = [change EXCEPT !.op = op]
        /\ UNCHANGED <<file, lock, memory, edits>>
    BY <1>7 DEF StartChange, Goto
  <2>2. change'.op = op /\ change'.outcome = change.outcome /\ change' \in Changes
    BY <1>1, <2>1 DEF KubePart, KubeType, Changes
  <2>3. KubePart'
    BY <1>1, <1>2, <2>1, <2>2 DEF KubePart, KubeType, KubeOK, UndisturbedChangeIsExact, KubePCs
  <2>4. ExecPart' /\ EditPart'
    BY <1>1, <1>2, <1>7, <2>1, KeepsExec, KeepsEdit DEF ExecPCs, EditPCs
  <2>5. RestType'
    BY <1>1, <1>7 DEF RestType
  <2> QED BY <1>3, <2>3, <2>4, <2>5, InvParts
<1> QED BY <1>4, <1>5, <1>6, <1>7 DEF Start

(* The process ends, or another is started. *)
LEMMA ProcessStep ==
  ASSUME IInv, Dies \/ Restart, UNCHANGED session
  PROVE  IInv'
<1>1. TermType /\ TermOK /\ ExecPart /\ EditPart /\ KubePart /\ RestType
  BY InvParts
<1>2. /\ pc' \in {"killed", "prompt"} /\ ProcessIsNew
      /\ file' \in {file, Empty} /\ lock' \in {"nobody", "ghost"}
      /\ memory' \in {memory, file} /\ UNCHANGED edits
  BY <1>1 DEF Dies, Restart, Alive, KubeDies, KubePart, KubeType, KubeOK, EndPCs
<1>3. TermType' /\ TermOK' /\ RestType'
  BY <1>1, <1>2 DEF ProcessIsNew, TermType, TermOK, RestType, PCs, LoopPCs, EndPCs
<1>4. ExecPart'
  BY <1>2, ExecAssumption DEF ProcessIsNew, ExecPart, ExecType, ExecOK, PumpOK, CopierOK,
                              PumpStates, Copiers, NoCopier
<1>5. EditPart'
  BY <1>1, <1>2, NoEditIsEdit DEF ProcessIsNew, EditPart, EditType, EditOK,
                                  SeenBeforeOverwritten, EditSaysWhatItDid, EditPCs
<1>6. KubePart'
  BY <1>1, <1>2, NoChangeIsChange DEF ProcessIsNew, KubePart, KubeType, KubeOK,
                                      UndisturbedChangeIsExact, KubePCs
<1> QED BY <1>3, <1>4, <1>5, <1>6, InvParts


-----------------------------------------------------------------------------
(* edit itself. *)
LEMMA EditLeavesRest ==
  ASSUME IInv, UNCHANGED <<execVars, logsMode, kubeVars, session>>,
         pc \in EditPCs, pc' \in EditPCs \cup {"dispatched"},
         trouble \subseteq trouble'
  PROVE  ExecPart' /\ KubePart' /\ RestType'
<1>1. ExecPart /\ KubePart /\ RestType
  BY InvParts
<1>2. ExecPart'
  BY <1>1, KeepsExec DEF EditPCs, ExecPCs
<1>3. KubePart'
  BY <1>1, KeepsKube DEF EditPCs, KubePCs
<1>4. RestType'
  BY <1>1 DEF RestType
<1> QED BY <1>2, <1>3, <1>4

LEMMA EditFields ==
  ASSUME edit \in Edits
  PROVE  /\ edit.fetched \in Documents /\ edit.opened \in Documents
         /\ edit.saved \in Documents /\ edit.sent \in Documents
         /\ edit.editorOk \in BOOLEAN /\ edit.overwrote \in 0..MaxVersion
         /\ edit.update \in {"none", "underway", "applied", "refused", "lost"}
         /\ edit.said \in {"nothing", "updated", "cancelled", "error"}
BY DEF Edits

(* edit returns, and has said what it did. *)
LEMMA EditReturning ==
  ASSUME EditPart, pc \in EditPCs, UNCHANGED <<object, present>>,
         NEW said \in {"updated", "cancelled", "error"}, EditReturns(said),
         said = "updated" => edit.update = "applied" /\ pc = "edit.wait",
         said = "cancelled" => edit.update = "none"
  PROVE  EditPart'
<1>1. pc' = "dispatched" /\ edit' = [edit EXCEPT !.said = said]
  BY DEF EditReturns, Goto
<1>2. edit \in Edits /\ EditType /\ EditOK
  BY DEF EditPart, EditType
<1>3. edit' \in Edits
  BY <1>1, <1>2 DEF Edits
<1>4. /\ edit'.said = said /\ edit'.fetched = edit.fetched /\ edit'.opened = edit.opened
      /\ edit'.saved = edit.saved /\ edit'.sent = edit.sent /\ edit'.update = edit.update
      /\ edit'.editorOk = edit.editorOk /\ edit'.overwrote = edit.overwrote
  BY <1>1, <1>2 DEF Edits
<1>5. EditOK'
  BY <1>1, <1>2, <1>4 DEF EditOK, EditPCs, SeenBeforeOverwritten, EditSaysWhatItDid
<1> QED BY <1>2, <1>3, <1>5 DEF EditPart, EditType

(* edit goes on with the same locals. *)
LEMMA EditGoing ==
  ASSUME EditPart, UNCHANGED editVars, edit.update = "none",
         \/ pc = "edit.suspend" /\ pc' = "edit.editor"
         \/ pc = "edit.resume" /\ pc' = "edit.read"
         \/ pc = "edit.read" /\ pc' = "edit.compare" /\ edit.editorOk
         \/ /\ pc = "edit.compare" /\ pc' = "edit.apply"
            /\ edit.opened # edit.fetched /\ edit.opened.text # "notYAML"
  PROVE  EditPart'
<1>1. UNCHANGED <<object, present, edit>>
  BY DEF editVars
<1>2. EditType'
  BY <1>1 DEF EditPart, EditType
<1>3. EditOK'
  BY <1>1 DEF EditPart, EditOK, EditPCs, SeenBeforeOverwritten, EditSaysWhatItDid
<1> QED BY <1>2, <1>3 DEF EditPart

LEMMA EditControl ==
  ASSUME IInv, EditGoesOn \/ RunEditor,
         UNCHANGED <<execVars, logsMode, kubeVars, session>>
  PROVE  IInv'
<1>1. TermType /\ TermOK /\ ExecPart /\ EditPart /\ KubePart /\ RestType
  BY InvParts
<1>2. edit \in Edits /\ EditType /\ EditOK
  BY <1>1 DEF EditPart, EditType
<1>3. mode' = mode
  BY DEF execVars
<1>4. ASSUME UNCHANGED <<rl, hooks, tty, reset, trouble>>, EditPart',
             \/ /\ pc \in {"edit.get", "edit.read", "edit.compare", "edit.apply", "edit.wait"}
                /\ pc' = "dispatched"
             \/ pc = "edit.get" /\ pc' = "edit.suspend"
             \/ pc = "edit.editor" /\ pc' = "edit.resume"
             \/ /\ pc \in {"edit.read", "edit.compare", "edit.apply"}
                /\ pc' \in {"edit.compare", "edit.apply", "edit.wait"}
      PROVE  IInv'
  <2>1. TermType'
    BY <1>1, <1>4 DEF TermType, PCs, LoopPCs, EditPCs
  <2>2. TermOK'
    BY <1>1, <1>4 DEF TermOK, EndPCs, HandedOver, Raw, Scarred, AfterResume
  <2>3. pc \in EditPCs /\ pc' \in EditPCs \cup {"dispatched"} /\ trouble \subseteq trouble'
    BY <1>4 DEF EditPCs
  <2>4. ExecPart' /\ KubePart' /\ RestType'
    BY <2>3, EditLeavesRest
  <2> QED BY <1>4, <2>1, <2>2, <2>4, InvParts
<1>5. CASE GetObject
  <2>1. pc = "edit.get" /\ edit = NoEdit /\ UNCHANGED <<object, present>> /\ pc \in EditPCs
    BY <1>2, <1>5 DEF GetObject, EditOK, EditPCs
  <2>2. CASE Goto("edit.suspend")
             /\ edit' = [edit EXCEPT !.fetched = object, !.opened = object, !.saved = object]
    <3>1. object \in Documents
      BY <1>2 DEF EditType, Documents
    <3>2. edit' \in Edits
      BY <1>2, <2>2, <3>1 DEF Edits
    <3>3. /\ edit'.fetched = object /\ edit'.opened = object /\ edit'.saved = object
          /\ edit'.update = "none" /\ edit'.said = "nothing" /\ edit'.editorOk
      BY <2>1, <2>2, NoEditIsEdit DEF NoEdit
    <3>4. pc' = "edit.suspend"
      BY <2>2 DEF Goto
    <3>5. EditOK'
      BY <3>3, <3>4 DEF EditOK, EditPCs, SeenBeforeOverwritten, EditSaysWhatItDid
    <3>6. EditPart'
      BY <1>2, <2>1, <3>2, <3>5 DEF EditPart, EditType
    <3> QED BY <1>4, <2>1, <2>2, <3>4, <3>6 DEF Goto
  <2>3. CASE EditReturns("error")
    <3>1. EditPart'
      BY <1>1, <2>1, <2>3, EditReturning
    <3> QED BY <1>4, <2>1, <2>3, <3>1 DEF EditReturns, Goto
  <2> QED BY <1>5, <2>2, <2>3 DEF GetObject
<1>6. CASE EditSuspend
  <2>1. /\ pc = "edit.suspend" /\ pc' \in {"edit.editor", "dispatched"}
        /\ UNCHANGED <<object, present, hooks, tty, reset>>
        /\ pc' = "edit.editor" => rl' = "used" /\ UNCHANGED <<trouble, edit>>
        /\ pc' = "dispatched" => /\ trouble' = trouble \cup {"suspend"}
                                 /\ edit' = [edit EXCEPT !.said = "error"] /\ UNCHANGED rl
    BY <1>6 DEF EditSuspend, SuspendTerminal
  <2>2. TermType'
    BY <1>1, <2>1 DEF TermType, PCs, LoopPCs, EditPCs
  <2>3. TermOK'
    BY <1>1, <2>1 DEF TermOK, EndPCs, HandedOver, Raw, Scarred, AfterResume
  <2>4. ExecPart' /\ KubePart' /\ RestType'
    BY <2>1, EditLeavesRest DEF EditPCs
  <2>5. EditPart'
    <3>1. edit.update = "none"
      BY <1>2, <2>1 DEF EditOK, EditPCs
    <3>2. CASE pc' = "edit.editor"
      BY <1>1, <2>1, <3>1, <3>2, EditGoing DEF editVars
    <3>3. CASE pc' = "dispatched"
      <4>1. edit' = [edit EXCEPT !.said = "error"]
        BY <2>1, <3>3
      <4>2. edit' \in Edits
        BY <1>2, <4>1 DEF Edits
      <4>3. /\ edit'.said = "error" /\ edit'.fetched = edit.fetched /\ edit'.opened = edit.opened
            /\ edit'.saved = edit.saved /\ edit'.sent = edit.sent /\ edit'.update = edit.update
            /\ edit'.editorOk = edit.editorOk /\ edit'.overwrote = edit.overwrote
        BY <1>2, <4>1 DEF Edits
      <4>4. EditOK'
        BY <1>2, <3>1, <3>3, <4>3 DEF EditOK, EditPCs, SeenBeforeOverwritten, EditSaysWhatItDid
      <4> QED BY <1>2, <2>1, <4>2, <4>4 DEF EditPart, EditType
    <3> QED BY <2>1, <3>2, <3>3
  <2> QED BY <2>2, <2>3, <2>4, <2>5, InvParts
<1>7. CASE RunEditor
  <2>1. PICK doc \in [text : Texts \cup {"notYAML"}, version : {edit.fetched.version, NoVersion}],
             inPlace \in BOOLEAN, ok \in BOOLEAN :
          edit' = [edit EXCEPT !.saved = doc,
                               !.opened = IF inPlace THEN doc ELSE edit.opened,
                               !.editorOk = ok]
    BY <1>7 DEF RunEditor
  <2>2. /\ pc = "edit.editor" /\ pc' = "edit.resume" /\ UNCHANGED <<object, present>>
        /\ UNCHANGED <<rl, hooks, tty, reset, trouble>> /\ pc \in EditPCs
    BY <1>7 DEF RunEditor, Goto, EditPCs
  <2>3. edit.fetched \in Documents /\ edit.opened \in Documents
    BY <1>2, EditFields
  <2>4. edit.fetched.version \in 0..MaxVersion
    BY <2>3 DEF Documents
  <2>5. NoVersion \in 0..MaxVersion
    BY EditAssumption DEF NoVersion
  <2>6. doc \in Documents /\ doc.version \in {edit.fetched.version, NoVersion}
    BY <2>4, <2>5 DEF Documents
  <2>7. edit' \in Edits
    <3>1. (IF inPlace THEN doc ELSE edit.opened) \in Documents
      BY <2>3, <2>6
    <3> QED BY <1>2, <2>1, <2>6, <3>1 DEF Edits
  <2>8. /\ edit'.saved = doc /\ edit'.opened \in {doc, edit.opened}
        /\ edit'.fetched = edit.fetched /\ edit'.update = edit.update
        /\ edit'.said = edit.said /\ edit'.sent = edit.sent
    BY <1>2, <2>1 DEF Edits
  <2>9. edit.opened = edit.fetched
    BY <1>2, <2>2 DEF EditOK
  <2>10. edit'.opened \in {edit'.fetched, edit'.saved}
    BY <2>8, <2>9
  <2>11. EditOK'
    BY <1>2, <2>2, <2>6, <2>8, <2>10 DEF EditOK, EditPCs, SeenBeforeOverwritten, EditSaysWhatItDid
  <2>12. EditPart'
    BY <1>2, <2>2, <2>7, <2>11 DEF EditPart, EditType
  <2> QED BY <1>4, <2>2, <2>12
<1>8. CASE EditResume
  <2>1. /\ pc = "edit.resume" /\ pc' = "edit.read" /\ reset' = TRUE
        /\ UNCHANGED <<rl, hooks, tty, trouble, editVars>>
    BY <1>8 DEF EditResume, ResumeTerminal
  <2>2. TermType'
    BY <1>1, <2>1 DEF TermType, PCs, EditPCs
  <2>3. TermOK'
    BY <1>1, <2>1 DEF TermOK, EndPCs, HandedOver, Raw, Scarred, AfterResume
  <2>4. ExecPart' /\ KubePart' /\ RestType'
    BY <2>1, EditLeavesRest DEF EditPCs
  <2>5. edit.update = "none"
    BY <1>2, <2>1 DEF EditOK, EditPCs
  <2>6. EditPart'
    BY <1>1, <2>1, <2>5, EditGoing
  <2> QED BY <2>2, <2>3, <2>4, <2>6, InvParts
<1>9. CASE ReadBack
  <2>1. pc = "edit.read" /\ pc \in EditPCs /\ UNCHANGED <<object, present>> /\ edit.update = "none"
    BY <1>2, <1>9 DEF ReadBack, EditOK, EditPCs
  <2>2. CASE edit.editorOk /\ Goto("edit.compare") /\ UNCHANGED edit
    <3>1. EditPart'
      BY <1>1, <2>1, <2>2, EditGoing DEF Goto, editVars
    <3> QED BY <1>4, <2>1, <2>2, <3>1 DEF Goto
  <2>3. CASE EditReturns("error")
    <3>1. EditPart'
      BY <1>1, <2>1, <2>3, EditReturning
    <3> QED BY <1>4, <2>1, <2>3, <3>1 DEF EditReturns, Goto
  <2> QED BY <1>9, <2>2, <2>3 DEF ReadBack
<1>10. CASE Compare
  <2>1. pc = "edit.compare" /\ pc \in EditPCs /\ UNCHANGED <<object, present>>
        /\ edit.update = "none"
    BY <1>2, <1>10 DEF Compare, EditOK, EditPCs
  <2>2. CASE /\ edit.opened # edit.fetched /\ edit.opened.text # "notYAML"
             /\ Goto("edit.apply") /\ UNCHANGED edit
    <3>1. EditPart'
      BY <1>1, <2>1, <2>2, EditGoing DEF Goto, editVars
    <3> QED BY <1>4, <2>1, <2>2, <3>1 DEF Goto
  <2>3. ASSUME NEW said \in {"cancelled", "error"}, EditReturns(said)
        PROVE  IInv'
    <3>1. EditPart'
      BY <1>1, <2>1, <2>3, EditReturning
    <3> QED BY <1>4, <2>1, <2>3, <3>1 DEF EditReturns, Goto
  <2> QED BY <1>10, <2>2, <2>3 DEF Compare
<1>11. CASE ApplyEdit
  <2>1. pc = "edit.apply" /\ pc \in EditPCs /\ UNCHANGED <<object, present>>
        /\ edit.update = "none"
    BY <1>2, <1>11 DEF ApplyEdit, EditOK, EditPCs
  <2>2. CASE Goto("edit.wait")
             /\ edit' = [edit EXCEPT !.update = "underway", !.sent = edit.opened]
    <3>1. edit.opened \in Documents
      BY <1>2, EditFields
    <3>2. edit' \in Edits
      BY <1>2, <2>2, <3>1 DEF Edits
    <3>3. /\ edit'.update = "underway" /\ edit'.sent = edit.opened
          /\ edit'.fetched = edit.fetched /\ edit'.opened = edit.opened
          /\ edit'.saved = edit.saved /\ edit'.said = edit.said
          /\ edit'.editorOk = edit.editorOk /\ edit'.overwrote = edit.overwrote
      BY <1>2, <2>2 DEF Edits
    <3>4. pc' = "edit.wait"
      BY <2>2 DEF Goto
    <3>5. /\ edit.opened = edit.saved /\ edit.opened.text # "notYAML" /\ edit.editorOk /\ edit.said = "nothing"
          /\ edit.opened.version \in {NoVersion, edit.fetched.version}
          /\ edit.opened \in {edit.fetched, edit.saved}
      BY <1>2, <2>1 DEF EditOK, EditPCs
    <3>6. EditOK'
      BY <3>3, <3>4, <3>5 DEF EditOK, EditPCs, SeenBeforeOverwritten, EditSaysWhatItDid
    <3>7. EditPart'
      BY <1>2, <2>1, <3>2, <3>6 DEF EditPart, EditType
    <3> QED BY <1>4, <2>1, <2>2, <3>4, <3>7 DEF Goto
  <2>3. CASE EditReturns("error")
    <3>1. EditPart'
      BY <1>1, <2>1, <2>3, EditReturning
    <3> QED BY <1>4, <2>1, <2>3, <3>1 DEF EditReturns, Goto
  <2> QED BY <1>11, <2>2, <2>3 DEF ApplyEdit
<1>12. CASE ReceiveUpdate \/ UpdateTimeout
  <2>1. pc = "edit.wait" /\ pc \in EditPCs /\ UNCHANGED <<object, present>>
    BY <1>12 DEF ReceiveUpdate, UpdateTimeout, EditPCs
  <2>2. PICK said \in {"updated", "error"} :
          EditReturns(said) /\ (said = "updated" => edit.update = "applied")
    BY <1>12 DEF ReceiveUpdate, UpdateTimeout
  <2>3. EditPart'
    BY <1>1, <2>1, <2>2, EditReturning
  <2> QED BY <1>4, <2>1, <2>2, <2>3 DEF EditReturns, Goto
<1> QED BY <1>5, <1>6, <1>7, <1>8, <1>9, <1>10, <1>11, <1>12 DEF EditGoesOn

(* The server takes the update, or others change the object, whatever      *)
(* krepl is doing by then.                                                 *)
LEMMA ServerStep ==
  ASSUME IInv, ServerUpdates \/ OthersUpdate,
         UNCHANGED <<execVars, logsMode, kubeVars, session>>
  PROVE  IInv'
<1>1. TermType /\ TermOK /\ ExecPart /\ EditPart /\ KubePart /\ RestType
  BY InvParts
<1>2. UNCHANGED termVars
  BY DEF ServerUpdates, OthersUpdate
<1>3. UNCHANGED <<pc, rl, hooks, tty, reset, trouble, mode>>
  BY <1>2 DEF termVars, execVars
<1>4. TermType' /\ TermOK' /\ ExecPart' /\ KubePart' /\ RestType'
  BY <1>1, <1>2, <1>3, SameTerm, SameExec, SameKube DEF RestType
<1>5. edit \in Edits /\ EditType /\ EditOK
  BY <1>1 DEF EditPart, EditType
<1>6. /\ object.text \in Texts /\ object.version \in 1..MaxVersion
      /\ object \in [text : Texts, version : 1..MaxVersion]
  BY <1>5 DEF EditType
<1>7. CASE OthersUpdate
  <2>1. PICK text \in Texts : object' = [text |-> text, version |-> object.version + 1]
    BY <1>7 DEF OthersUpdate
  <2>2. object.version + 1 \in 1..MaxVersion
    BY <1>6, <1>7, EditAssumption DEF OthersUpdate
  <2>3. EditType'
    BY <1>5, <1>7, <2>1, <2>2 DEF EditType, OthersUpdate
  <2>4. EditOK'
    BY <1>3, <1>5, <1>7 DEF OthersUpdate, EditOK, SeenBeforeOverwritten, EditSaysWhatItDid
  <2> QED BY <1>4, <2>3, <2>4, InvParts DEF EditPart
<1>8. CASE ServerUpdates
  <2>1. /\ edit.update = "underway" /\ UNCHANGED present
        /\ edit.editorOk /\ edit.said \notin {"updated", "cancelled"}
        /\ edit.sent.version \in {NoVersion, edit.fetched.version}
        /\ edit.sent.text # "notYAML" /\ pc \in {"edit.wait", "dispatched"}
    BY <1>5, <1>8, NoEditIsEdit DEF ServerUpdates, EditOK, EditPCs, EditSaysWhatItDid
  <2>2. ASSUME /\ edit'.update \in {"applied", "refused", "lost"}
               /\ edit'.update = "applied" =>
                    /\ edit.sent.version \in {NoVersion, object.version}
                    /\ edit'.overwrote = object.version
               /\ edit'.sent = edit.sent /\ edit'.fetched = edit.fetched
               /\ edit'.opened = edit.opened /\ edit'.saved = edit.saved
               /\ edit'.said = edit.said /\ edit'.editorOk = edit.editorOk
        PROVE  EditOK'
    BY <1>3, <1>5, <2>1, <2>2 DEF EditOK, EditPCs, SeenBeforeOverwritten, EditSaysWhatItDid
  <2>3. CASE /\ edit.sent.version \in {NoVersion, object.version}
             /\ object.version < MaxVersion
             /\ object' = [text |-> edit.sent.text, version |-> object.version + 1]
             /\ edit' = [edit EXCEPT !.update = "applied", !.overwrote = object.version]
    <3>1. /\ edit'.update = "applied" /\ edit'.overwrote = object.version
          /\ edit'.sent = edit.sent /\ edit'.fetched = edit.fetched
          /\ edit'.opened = edit.opened /\ edit'.saved = edit.saved
          /\ edit'.said = edit.said /\ edit'.editorOk = edit.editorOk
      BY <1>5, <2>3 DEF Edits
    <3>2. object.version \in 0..MaxVersion /\ object.version + 1 \in 1..MaxVersion
      BY <1>6, <2>3, EditAssumption
    <3>3. edit' \in Edits
      BY <1>5, <2>3, <3>2 DEF Edits
    <3>4. EditOK'
      BY <2>2, <2>3, <3>1
    <3>5. edit.sent.text \in Texts
      BY <1>5, <2>1, EditFields DEF Documents
    <3>6. EditType'
      BY <1>5, <2>1, <2>3, <3>2, <3>3, <3>5 DEF EditType
    <3> QED BY <1>4, <3>4, <3>6, InvParts DEF EditPart
  <2>4. ASSUME NEW u \in {"refused", "lost"}, edit' = [edit EXCEPT !.update = u],
               UNCHANGED object
        PROVE  IInv'
    <3>1. /\ edit'.update = u
          /\ edit'.sent = edit.sent /\ edit'.fetched = edit.fetched
          /\ edit'.opened = edit.opened /\ edit'.saved = edit.saved
          /\ edit'.said = edit.said /\ edit'.editorOk = edit.editorOk
      BY <1>5, <2>4 DEF Edits
    <3>2. edit' \in Edits
      BY <1>5, <2>4 DEF Edits
    <3>3. EditOK'
      BY <2>2, <3>1
    <3>4. EditType'
      BY <1>5, <2>1, <2>4, <3>2 DEF EditType
    <3> QED BY <1>4, <3>3, <3>4, InvParts DEF EditPart
  <2> QED BY <1>8, <2>3, <2>4 DEF ServerUpdates
<1> QED BY <1>7, <1>8

-----------------------------------------------------------------------------
(* The three changes of the kubeconfig, and one write of the file. *)
LEMMA ChangedConfig ==
  ASSUME NEW cfg \in Configs, NEW op \in Ops, HasContext(cfg, op.name)
  PROVE  /\ Changed(cfg, op) \in Configs
         /\ op.op = "context" => Changed(cfg, op).current = op.name
         /\ op.op = "namespace" => /\ HasContext(Changed(cfg, op), op.name)
                                   /\ Changed(cfg, op).contexts[op.name] = op.ns
         /\ op.op = "delete" => ~HasContext(Changed(cfg, op), op.name)
         /\ op.op \in {"context", "namespace", "delete"}
<1>1. op.op \in {"context", "namespace", "delete"} /\ op.ns \in NamespaceOrNone
  BY DEF Ops, NamespaceOrNone
<1>2. op.name \in Contexts
  BY ConfigEdits DEF HasContext
<1>3. op.name \in ContextOrNone
  BY <1>2 DEF ContextOrNone
<1>4. CASE op.op = "context"
  <2>1. Changed(cfg, op) = WithCurrent(cfg, op.name)
    BY <1>4 DEF Changed
  <2> QED BY <1>3, <1>4, <2>1, ConfigEdits, EditEffects
<1>5. CASE op.op = "namespace"
  <2>1. Changed(cfg, op) = WithNamespace(cfg, op.name, op.ns)
    BY <1>5 DEF Changed
  <2> QED BY <1>1, <1>2, <1>5, <2>1, ConfigEdits, EditEffects
<1>6. CASE op.op = "delete"
  <2>1. Changed(cfg, op) = WithoutContext(cfg, op.name)
    BY <1>6 DEF Changed
  <2> QED BY <1>2, <1>6, <2>1, ConfigEdits, EditEffects
<1> QED BY <1>1, <1>4, <1>5, <1>6

LEMMA ContextWritten ==
  ASSUME NEW cfg \in Configs, NEW c \in Contexts, NEW ns \in NamespaceOrNone
  PROVE  WithContext(cfg, c, ns) \in Configs
<1> DEFINE contexts == [d \in DOMAIN cfg.contexts \cup {c} |->
                          IF d = c THEN ns ELSE cfg.contexts[d]]
<1>1. /\ cfg.contexts \in [DOMAIN cfg.contexts -> NamespaceOrNone]
      /\ DOMAIN cfg.contexts \subseteq Contexts
  BY ConfigEdits
<1>2. contexts \in [DOMAIN cfg.contexts \cup {c} -> NamespaceOrNone]
  BY <1>1
<1>3. DOMAIN cfg.contexts \cup {c} \in SUBSET Contexts
  BY <1>1
<1>4. WithContext(cfg, c, ns) = [cfg EXCEPT !.contexts = contexts]
  BY DEF WithContext, Configs
<1> HIDE DEF contexts
<1>5. contexts \in UNION {[D -> NamespaceOrNone] : D \in SUBSET Contexts}
  BY <1>2, <1>3
<1> QED BY <1>4, <1>5 DEF Configs

LEMMA FileWritten ==
  ASSUME KubeType, NEW c \in Contexts
  PROVE  Written(c) \in Configs
<1>1. file \in Configs /\ change.copy \in Configs
  BY DEF KubeType, Changes
<1>2. CASE file.current # change.copy.current
  <2>1. WithCurrent(file, change.copy.current) \in Configs
    BY <1>1, ConfigEdits
  <2> QED BY <1>2, <2>1 DEF Written
<1>3. CASE file.current = change.copy.current /\ HasContext(change.copy, c)
  <2>1. change.copy.contexts[c] \in NamespaceOrNone
    BY <1>1, <1>3, ConfigEdits DEF HasContext
  <2>2. WithContext(file, c, change.copy.contexts[c]) \in Configs
    BY <1>1, <2>1, ContextWritten
  <2> QED BY <1>3, <2>2 DEF Written
<1>4. CASE file.current = change.copy.current /\ ~HasContext(change.copy, c)
  <2>1. WithoutContext(file, c) \in Configs
    BY <1>1, ConfigEdits
  <2> QED BY <1>4, <2>1 DEF Written
<1> QED BY <1>2, <1>3, <1>4

(* A change returns, having failed. *)
LEMMA ChangeFails ==
  ASSUME KubePart, pc \in KubePCs, ChangeReturns("failed"),
         UNCHANGED <<file, memory, edits>>, lock' \in {"nobody", "ghost"}
  PROVE  KubePart'
<1>1. pc' = "dispatched" /\ change' = [change EXCEPT !.outcome = "failed"]
  BY DEF ChangeReturns, Goto
<1>2. KubeType /\ change \in Changes
  BY DEF KubePart, KubeType
<1>3. change' \in Changes /\ change'.outcome = "failed"
  BY <1>1, <1>2 DEF Changes
<1>4. KubeType'
  BY <1>2, <1>3 DEF KubeType
<1>5. KubeOK'
  BY <1>1, <1>3 DEF KubeOK, UndisturbedChangeIsExact, KubePCs
<1> QED BY <1>4, <1>5 DEF KubePart

LEMMA KubeControl ==
  ASSUME IInv, KubeGoesOn, UNCHANGED <<execVars, editVars, logsMode, session>>
  PROVE  IInv'
<1>1. TermType /\ TermOK /\ ExecPart /\ EditPart /\ KubePart /\ RestType
  BY InvParts
<1>2. KubeType /\ KubeOK /\ file \in Configs /\ memory \in Configs /\ change \in Changes
  BY <1>1 DEF KubePart, KubeType
<1>3. /\ pc \in KubePCs /\ pc' \in KubePCs \cup {"dispatched"}
      /\ UNCHANGED <<rl, hooks, tty, reset, trouble, mode>>
  BY DEF KubeGoesOn, ReadFile, LockFile, WriteFile, UnlockFile, UpdateMemory, ChangeReturns,
         Goto, KubePCs, termVars, execVars
<1>4. TermType' /\ TermOK'
  BY <1>1, <1>3 DEF TermType, PCs, LoopPCs, KubePCs, TermOK, EndPCs, HandedOver, Raw, Scarred,
                    AfterResume
<1>5. ExecPart' /\ EditPart' /\ RestType'
  BY <1>1, <1>3, KeepsExec, KeepsEdit DEF ExecPCs, EditPCs, KubePCs, RestType
<1>6. SUFFICES KubePart'
  BY <1>4, <1>5, InvParts
<1>7. change.op \in Ops /\ change.outcome = "none"
  BY <1>2, <1>3 DEF KubeOK, KubePCs
<1>8. CASE ReadFile
  <2>1. pc = "kube.read" /\ UNCHANGED <<file, lock, memory, edits>> /\ lock # "krepl"
    BY <1>2, <1>8 DEF ReadFile, KubeOK
  <2>2. CASE ChangeReturns("failed")
    BY <1>1, <1>2, <1>3, <2>1, <2>2, ChangeFails DEF KubeType
  <2>3. CASE /\ HasContext(file, change.op.name)
             /\ Goto("kube.lock")
             /\ change' = [change EXCEPT !.before = file, !.copy = Changed(file, change.op)]
    <3>1. Changed(file, change.op) \in Configs
      BY <1>2, <1>7, <2>3, ChangedConfig
    <3>2. /\ change' \in Changes
          /\ change'.before = file /\ change'.copy = Changed(file, change.op)
          /\ change'.op = change.op /\ change'.outcome = "none"
      BY <1>2, <1>7, <2>3, <3>1 DEF Changes
    <3>3. KubeType'
      BY <1>2, <2>1, <3>2 DEF KubeType
    <3>4. KubeOK'
      BY <1>7, <2>1, <2>3, <3>2 DEF Goto, KubeOK, UndisturbedChangeIsExact, KubePCs
    <3> QED BY <3>3, <3>4 DEF KubePart
  <2> QED BY <1>8, <2>2, <2>3 DEF ReadFile
<1>9. CASE LockFile
  <2>1. pc = "kube.lock" /\ UNCHANGED <<file, memory, edits>> /\ lock # "krepl"
    BY <1>2, <1>9 DEF LockFile, KubeOK
  <2>2. CASE ChangeReturns("failed") /\ UNCHANGED lock
    BY <1>1, <1>2, <1>3, <2>1, <2>2, ChangeFails DEF KubeType
  <2>3. CASE Goto("kube.write") /\ lock' = "krepl" /\ UNCHANGED change
    <3>1. KubeType'
      BY <1>2, <2>1, <2>3 DEF KubeType
    <3>2. KubeOK'
      BY <1>2, <1>7, <2>1, <2>3 DEF Goto, KubeOK, UndisturbedChangeIsExact, KubePCs
    <3> QED BY <3>1, <3>2 DEF KubePart
  <2> QED BY <1>9, <2>2, <2>3 DEF LockFile
<1>10. CASE WriteFile
  <2>1. pc = "kube.write" /\ pc' = pc /\ UNCHANGED <<lock, memory, change, edits>>
    BY <1>10 DEF WriteFile, termVars
  <2>2. PICK c \in Contexts : file' = Written(c)
    BY <1>10 DEF WriteFile
  <2>3. KubeType'
    BY <1>2, <2>1, <2>2, FileWritten DEF KubeType
  <2>4. KubeOK'
    BY <1>2, <1>7, <2>1 DEF KubeOK, UndisturbedChangeIsExact, KubePCs
  <2> QED BY <2>3, <2>4 DEF KubePart
<1>11. CASE UnlockFile
  <2>1. pc = "kube.write" /\ lock' = "nobody" /\ UNCHANGED <<file, memory, edits>>
    BY <1>11 DEF UnlockFile
  <2>2. CASE ChangeReturns("failed")
    BY <1>1, <1>3, <2>1, <2>2, ChangeFails
  <2>3. CASE file = change.copy /\ Goto("kube.memory") /\ UNCHANGED change
    <3>1. KubeType'
      BY <1>2, <2>1, <2>3 DEF KubeType
    <3>2. KubeOK'
      BY <1>2, <1>7, <2>1, <2>3 DEF Goto, KubeOK, UndisturbedChangeIsExact, KubePCs
    <3> QED BY <3>1, <3>2 DEF KubePart
  <2> QED BY <1>11, <2>2, <2>3 DEF UnlockFile
<1>12. CASE UpdateMemory
  <2>1. pc = "kube.memory" /\ UNCHANGED <<file, lock, edits>> /\ lock # "krepl"
    BY <1>2, <1>12 DEF UpdateMemory, KubeOK
  <2>2. /\ change.before \in Configs /\ HasContext(change.before, change.op.name)
        /\ ~change.disturbed => file = Changed(change.before, change.op)
    BY <1>2, <2>1 DEF KubeOK, Changes
  <2>3. ASSUME ChangeReturns("done"), memory' \in Configs,
               ~change.disturbed =>
                 /\ change.op.op = "context" => memory'.current = file.current
                 /\ change.op.op # "context" /\ HasContext(memory', change.op.name) =>
                      /\ HasContext(file, change.op.name)
                      /\ memory'.contexts[change.op.name] = file.contexts[change.op.name]
        PROVE  KubePart'
    <3>1. pc' = "dispatched" /\ change' = [change EXCEPT !.outcome = "done"]
      BY <2>3 DEF ChangeReturns, Goto
    <3>2. /\ change' \in Changes /\ change'.outcome = "done"
          /\ change'.op = change.op /\ change'.before = change.before
          /\ change'.disturbed = change.disturbed
      BY <1>2, <3>1 DEF Changes
    <3>3. KubeType'
      BY <1>2, <2>1, <2>3, <3>2 DEF KubeType
    <3>4. UndisturbedChangeIsExact'
      BY <2>1, <2>2, <2>3, <3>1, <3>2 DEF UndisturbedChangeIsExact
    <3>5. KubeOK'
      BY <2>1, <3>1, <3>4 DEF KubeOK, KubePCs
    <3> QED BY <3>3, <3>5 DEF KubePart
  <2>4. CASE /\ HasContext(memory, change.op.name)
             /\ memory' = Changed(memory, change.op) /\ ChangeReturns("done")
    <3>1. memory' \in Configs
      BY <1>2, <1>7, <2>4, ChangedConfig
    <3>2. change.op.op = "context" =>
            /\ memory'.current = change.op.name
            /\ Changed(change.before, change.op).current = change.op.name
      BY <1>2, <1>7, <2>2, <2>4, ChangedConfig
    <3>3. change.op.op = "namespace" =>
            /\ HasContext(Changed(change.before, change.op), change.op.name)
            /\ Changed(change.before, change.op).contexts[change.op.name] = change.op.ns
            /\ memory'.contexts[change.op.name] = change.op.ns
      BY <1>2, <1>7, <2>2, <2>4, ChangedConfig
    <3>4. change.op.op = "delete" => ~HasContext(memory', change.op.name)
      BY <1>2, <1>7, <2>4, ChangedConfig
    <3>5. change.op.op \in {"context", "namespace", "delete"}
      BY <1>2, <1>7, <2>4, ChangedConfig
    <3> QED BY <2>2, <2>3, <2>4, <3>1, <3>2, <3>3, <3>4, <3>5
  <2>5. CASE ~HasContext(memory, change.op.name) /\ UNCHANGED memory
             /\ change.op.op = "namespace" /\ ChangeReturns("done")
    BY <1>2, <2>3, <2>5
  <2>6. CASE UNCHANGED memory /\ ChangeReturns("failed")
    BY <1>1, <1>2, <1>3, <2>1, <2>6, ChangeFails DEF KubeType
  <2> QED BY <1>12, <2>4, <2>5, <2>6 DEF UpdateMemory
<1> QED BY <1>8, <1>9, <1>10, <1>11, <1>12 DEF KubeGoesOn

(* Others edit the file. *)
LEMMA OthersEditStep ==
  ASSUME IInv, OthersEdit, UNCHANGED <<execVars, editVars, logsMode, session>>
  PROVE  IInv'
<1>1. TermType /\ TermOK /\ ExecPart /\ EditPart /\ KubePart /\ RestType
  BY InvParts
<1>2. /\ UNCHANGED termVars /\ UNCHANGED memory
      /\ lock = "nobody" /\ lock' \in {"nobody", "ghost"}
      /\ edits < MaxEdits /\ edits' = edits + 1
  BY DEF OthersEdit
<1>3. UNCHANGED <<pc, rl, hooks, tty, reset, trouble, mode>>
  BY <1>2 DEF termVars, execVars
<1>4. TermType' /\ TermOK' /\ ExecPart' /\ EditPart' /\ RestType'
  BY <1>1, <1>2, <1>3, SameTerm, SameExec, SameEdit DEF RestType
<1>5. KubeType /\ KubeOK /\ file \in Configs /\ change \in Changes
  BY <1>1 DEF KubePart, KubeType
<1>6. file' \in Configs
  <2>1. PICK c \in Contexts, ns \in NamespaceOrNone, cur \in ContextOrNone :
          file' \in {WithCurrent(file, cur), WithContext(file, c, ns), WithoutContext(file, c)}
    BY DEF OthersEdit
  <2>2. /\ WithCurrent(file, cur) \in Configs /\ WithContext(file, c, ns) \in Configs
        /\ WithoutContext(file, c) \in Configs
    BY <1>5, ConfigEdits, ContextWritten
  <2> QED BY <2>1, <2>2
<1>7. change' = [change EXCEPT !.disturbed = change.disturbed \/ pc \notin {"prompt", "kube.read"}]
  BY DEF OthersEdit
<1>8. /\ change' \in Changes /\ change'.op = change.op /\ change'.copy = change.copy
      /\ change'.before = change.before /\ change'.outcome = change.outcome
      /\ pc \notin {"prompt", "kube.read"} => change'.disturbed
  BY <1>5, <1>7 DEF Changes
<1>9. edits' \in 0..MaxEdits
  BY <1>2, <1>5, KubeconfigEditAssumption DEF KubeType
<1>10. KubeType'
  BY <1>2, <1>5, <1>6, <1>8, <1>9 DEF KubeType
<1>11. UndisturbedChangeIsExact'
  BY <1>2, <1>3, <1>5, <1>8 DEF KubeOK, UndisturbedChangeIsExact
<1>12. KubeOK'
  BY <1>2, <1>3, <1>5, <1>8, <1>11 DEF KubeOK
<1> QED BY <1>4, <1>10, <1>12, InvParts DEF KubePart

-----------------------------------------------------------------------------
LEMMA StepPreserves == IInv /\ [Next]_vars => IInv'
<1> SUFFICES ASSUME IInv, [Next]_vars PROVE IInv'
  OBVIOUS
<1>1. CASE UNCHANGED vars
  <2>1. TermType /\ TermOK /\ ExecPart /\ EditPart /\ KubePart /\ RestType
    BY InvParts
  <2>2. UNCHANGED <<termVars, execVars, editVars, logsMode, kubeVars, session>>
    BY <1>1 DEF vars
  <2>3. UNCHANGED <<pc, trouble, mode>>
    BY <2>2 DEF termVars, execVars
  <2> QED BY <2>1, <2>2, <2>3, SameTerm, SameExec, SameEdit, SameKube, InvParts DEF RestType
<1>2. CASE Start /\ UNCHANGED session
  BY <1>2, StartStep
<1>3. CASE ExecMoves /\ UNCHANGED session
  <2>1. UNCHANGED <<editVars, logsMode, kubeVars, session>>
    BY <1>3 DEF ExecMoves
  <2>2. CASE ExecGoesOn \/ StreamEnds
    BY <2>1, <2>2, ExecControl
  <2>3. CASE StreamStarts \/ \E i \in Execs : Pump(i) \/ Copier(i) \/ CopierReadsStdin(i)
    BY <2>1, <2>3, ExecBeside
  <2> QED BY <1>3, <2>2, <2>3 DEF ExecMoves
<1>4. CASE EditMoves /\ UNCHANGED session
  <2>1. UNCHANGED <<execVars, logsMode, kubeVars, session>>
    BY <1>4 DEF EditMoves
  <2>2. CASE EditGoesOn \/ RunEditor
    BY <2>1, <2>2, EditControl
  <2>3. CASE ServerUpdates \/ OthersUpdate
    BY <2>1, <2>3, ServerStep
  <2> QED BY <1>4, <2>2, <2>3 DEF EditMoves
<1>5. CASE LogsMove /\ UNCHANGED session
  BY <1>5, LogsStep
<1>6. CASE KubeMoves /\ UNCHANGED session
  <2>1. UNCHANGED <<execVars, editVars, logsMode, session>>
    BY <1>6 DEF KubeMoves
  <2>2. CASE KubeGoesOn
    BY <2>1, <2>2, KubeControl
  <2>3. CASE OthersEdit
    BY <2>1, <2>3, OthersEditStep
  <2> QED BY <1>6, <2>2, <2>3 DEF KubeMoves
<1>7. CASE Loop /\ UNCHANGED session
  BY <1>7, LoopStep
<1>8. CASE (Dies \/ Restart) /\ UNCHANGED session
  BY <1>8, ProcessStep
<1> QED BY <1>1, <1>2, <1>3, <1>4, <1>5, <1>6, <1>7, <1>8 DEF Next

(* The inductive invariant holds throughout, whatever is killed and when,  *)
(* and whatever others do to the object and to the file.                   *)
THEOREM Invariant == Spec => []IInv
<1>1. Init => IInv
  BY InitEstablishes
<1>2. IInv /\ [Next]_vars => IInv'
  BY StepPreserves
<1> QED BY <1>1, <1>2, PTL DEF Spec

(* Every value has its type. *)
THEOREM TypeCorrect == Spec => []TypeOK
<1>1. IInv => TypeOK
  BY DEF IInv
<1> QED BY <1>1, Invariant, PTL

(* exec gives the terminal back only when its pump and its copier are off  *)
(* it, save on the two paths on which the code forgets them.               *)
THEOREM TerminalIsHandedBack == Spec => []TerminalIsReleased
<1>1. ASSUME IInv, pc \in {"exec.restore", "exec.resume", "prompt"}, NEW i \in Execs
      PROVE  /\ pump[i] \notin {"none", "done"} => trouble \cap {"suspend", "raw"} # {}
             /\ copier[i].state \in {"reading", "sending"} =>
                  copier[i].from = "stdin" \/ "writer" \in closed[i]
  BY <1>1 DEF IInv, ExecOK, PumpOK, CopierOK
<1>2. IInv => TerminalIsReleased
  BY <1>1 DEF TerminalIsReleased
<1> QED BY <1>2, Invariant, PTL

(* Each prompt is shown by a readline of its own, on a terminal in order,  *)
(* save after a MakeRaw or a Restore that failed.                          *)
THEOREM PromptsAreFresh == Spec => []PromptIsFresh
<1>1. ASSUME IInv, pc = "prompt"
      PROVE  /\ hooks = "this" /\ ~reset
             /\ rl = "ready" \/ trouble \cap {"raw", "restore"} # {}
             /\ tty = "cooked" \/ "restore" \in trouble
  BY <1>1 DEF IInv, TypeOK, TermOK, AfterResume, EndPCs, HandedOver, Raw, Scarred
<1>2. IInv => PromptIsFresh
  BY <1>1 DEF PromptIsFresh
<1> QED BY <1>2, Invariant, PTL

(* An update that carries a version replaces what the user was shown,      *)
(* however many others write, and when.                                    *)
THEOREM NothingUnseenIsLost == Spec => []SeenBeforeOverwritten
<1>1. IInv => SeenBeforeOverwritten
  BY DEF IInv, EditOK
<1> QED BY <1>1, Invariant, PTL

(* What edit reports agrees with what was sent and what became of it.      *)
THEOREM EditReportsAreTrue == Spec => []EditSaysWhatItDid
<1>1. IInv => EditSaysWhatItDid
  BY DEF IInv, EditOK
<1> QED BY <1>1, Invariant, PTL

(* A change of the kubeconfig in several steps, which others leave alone,  *)
(* has the effect of the one step that Env takes; it holds the lock for    *)
(* the write and no longer.                                                *)
THEOREM ChangesAreExact == Spec => []UndisturbedChangeIsExact
<1>1. IInv => UndisturbedChangeIsExact
  BY DEF IInv, KubeOK
<1> QED BY <1>1, Invariant, PTL

-----------------------------------------------------------------------------
(* That exec comes to an end.  The pump it waits for has been started, and *)
(* all that the pump could wait for itself is closed.                      *)
AllClosed == {"stopCh", "src", "writer"}

GoroutinesOK ==
  /\ pc \in ExecPCs => runs \in Execs
  /\ \A i \in Execs :
       i > runs \/ (i = runs /\ pc = "exec.prepare") => pump[i] = "none" /\ closed[i] = {}
  /\ pc \in {"exec.suspend", "exec.raw", "exec.stream", "exec.stop", "exec.wait"} /\ rawTTY =>
       pump[runs] # "none"
  /\ pc = "exec.wait" => closed[runs] = AllClosed

(* Whatever is not exec leaves its goroutines alone. *)
LEMMA OthersLeaveExec ==
  ASSUME Next, ~ExecMoves, ~StartExec, ~Dies, ~Restart
  PROVE  /\ UNCHANGED <<runs, pump, closed>>
         /\ pc' \notin ExecPCs \/ UNCHANGED <<pc, mode>>
<1>1. CASE Start
  BY <1>1 DEF Start, StartEdit, StartLogs, StartChange, Goto, execVars, ExecPCs
<1>2. CASE EditMoves
  <2>1. UNCHANGED <<runs, mode, pump, closed>>
    BY <1>2 DEF EditMoves, execVars
  <2>2. CASE EditGoesOn \/ RunEditor
    BY <2>1, <2>2 DEF EditGoesOn, RunEditor, GetObject, EditSuspend, EditResume, ReadBack, Compare,
           ApplyEdit, ReceiveUpdate, UpdateTimeout, EditReturns, SuspendTerminal,
           ResumeTerminal, Goto, ExecPCs
  <2>3. CASE ServerUpdates \/ OthersUpdate
    BY <2>1, <2>3 DEF ServerUpdates, OthersUpdate, termVars
  <2> QED BY <1>2, <2>2, <2>3 DEF EditMoves
<1>3. CASE LogsMove
  BY <1>3 DEF LogsMove, GetLogs, CopyEnds, InterruptFollow, LogsSuspend, LogsEditor, LogsResume,
              Goto, SuspendTerminal, ResumeTerminal, execVars, ExecPCs
<1>4. CASE KubeMoves
  BY <1>4 DEF KubeMoves, KubeGoesOn, ReadFile, LockFile, WriteFile, UnlockFile, UpdateMemory,
              OthersEdit, ChangeReturns, Goto, termVars, execVars, ExecPCs
<1>5. CASE Loop
  BY <1>5 DEF Loop, Returned, ConsumeTerminalReset, CloseReadline, NewReadlineInstance,
              LeaveLoop, Goto, execVars, ExecPCs
<1> QED BY <1>1, <1>2, <1>3, <1>4, <1>5 DEF Next

LEMMA GoroutinesInit == Init => GoroutinesOK
BY DEF Init, TermInit, ExecInit, GoroutinesOK, ExecPCs

LEMMA GoroutinesControl ==
  ASSUME IInv, GoroutinesOK, ExecGoesOn \/ StreamEnds
  PROVE  GoroutinesOK'
<1>1. /\ runs \in Nat /\ pump \in [Execs -> PumpStates]
      /\ closed \in [Execs -> SUBSET {"stopCh", "src", "writer"}]
  BY ExecAssumption DEF IInv, TypeOK
<1>2. pc \in ExecPCs /\ runs \in Execs /\ UNCHANGED <<runs, mode>>
  BY DEF ExecGoesOn, PrepareInput, ExecSuspend, MakeRaw, CloseInput, PumpDone, RestoreTerminal,
         ExecResume, StreamEnds, SuspendTerminal, ResumeTerminal, GoroutinesOK, ExecPCs, execVars
<1>3. CASE PrepareInput
  <2>1. /\ pc = "exec.prepare" /\ UNCHANGED closed
        /\ \/ pc' = "dispatched" /\ UNCHANGED pump
           \/ /\ pc' \in {"exec.suspend", "exec.stream"}
              /\ pump' = IF rawTTY THEN [pump EXCEPT ![runs] = "starting"] ELSE pump
    BY <1>3 DEF PrepareInput, Goto, execVars
  <2>2. pc' # "dispatched" /\ rawTTY => pump'[runs] = "starting"
    BY <1>1, <1>2, <2>1
  <2>3. \A i \in Execs : i # runs => pump'[i] = pump[i]
    BY <1>1, <2>1
  <2>4. rawTTY' = rawTTY
    BY <1>2 DEF rawTTY
  <2> QED BY <1>1, <1>2, <2>1, <2>2, <2>3, <2>4 DEF GoroutinesOK, ExecPCs, Execs
<1>4. CASE CloseInput
  <2>1. /\ pc = "exec.stop" /\ UNCHANGED pump
        /\ \/ /\ pc' = "exec.wait"
              /\ closed' = [closed EXCEPT ![runs] = AllClosed]
           \/ pc' \in {"exec.resume", "dispatched"} /\ UNCHANGED closed
    BY <1>4 DEF CloseInput, Goto, AllClosed
  <2>2. pc' = "exec.wait" => closed'[runs] = AllClosed
    BY <1>1, <1>2, <2>1
  <2>3. \A i \in Execs : i # runs => closed'[i] = closed[i]
    BY <1>1, <2>1
  <2>4. rawTTY' = rawTTY
    BY <1>2 DEF rawTTY
  <2> QED BY <1>1, <1>2, <2>1, <2>2, <2>3, <2>4 DEF GoroutinesOK, ExecPCs, Execs
<1>5. CASE ExecSuspend \/ MakeRaw \/ PumpDone \/ RestoreTerminal \/ ExecResume \/ StreamEnds
  <2>1. /\ UNCHANGED <<pump, closed>>
        /\ pc \in {"exec.suspend", "exec.raw", "exec.stream"} \/ pc' \notin ExecPCs
             \/ pc' \in {"exec.restore", "exec.resume"}
        /\ pc' \notin {"exec.prepare", "exec.wait"}
    BY <1>5 DEF ExecSuspend, MakeRaw, PumpDone, RestoreTerminal, ExecResume, StreamEnds,
                SuspendTerminal, ResumeTerminal, Goto, execVars, ExecPCs
  <2>2. rawTTY' = rawTTY
    BY <1>2 DEF rawTTY
  <2> QED BY <1>1, <1>2, <2>1, <2>2 DEF GoroutinesOK, ExecPCs, Execs
<1> QED BY <1>3, <1>4, <1>5 DEF ExecGoesOn

(* How many more steps a pump can take when all is closed. *)
PumpLeft(state) ==
  IF state \in {"starting", "writing", "sleeping"} THEN 5
  ELSE IF state = "reading" THEN 4
  ELSE IF state = "checking" THEN 3
  ELSE IF state = "failing" THEN 2
  ELSE IF state = "stopping" THEN 1
  ELSE 0

LEMMA PumpLowers ==
  ASSUME ExecType, NEW i \in Execs, Pump(i)
  PROVE  /\ UNCHANGED <<termVars, runs, mode>>
         /\ pump[i] # "none" /\ pump'[i] # "none"
         /\ \A j \in Execs : j # i => pump'[j] = pump[j] /\ closed'[j] = closed[j]
         /\ closed[i] \subseteq closed'[i]
         /\ closed[i] = AllClosed => PumpLeft(pump'[i]) < PumpLeft(pump[i])
<1>1. /\ UNCHANGED <<termVars, runs, mode>>
      /\ \/ UNCHANGED closed
         \/ closed' = [closed EXCEPT ![i] = @ \cup {"writer"}]
         \/ closed' = [closed EXCEPT ![i] = AllClosed]
  BY DEF Pump, SetNonblock, CheckStop, ReadTTY, Wake, Transfer, WriteFails, PumpFails, PumpStops,
         AllClosed
<1>2. \/ pump[i] = "starting" /\ \E state \in {"checking", "failing"} : PumpGoes(i, state)
      \/ pump[i] = "checking" /\ PumpGoes(i, IF "stopCh" \in closed[i] THEN "stopping" ELSE "reading")
      \/ /\ pump[i] = "reading"
         /\ IF "src" \in closed[i]
              THEN PumpGoes(i, "failing")
              ELSE \E state \in {"writing", "sleeping", "stopping", "failing"} : PumpGoes(i, state)
      \/ pump[i] \in {"sleeping", "writing"} /\ \E state \in {"checking", "stopping"} : PumpGoes(i, state)
      \/ pump[i] = "failing" /\ PumpGoes(i, "stopping")
      \/ pump[i] = "stopping" /\ PumpGoes(i, "done")
  BY DEF Pump, SetNonblock, CheckStop, ReadTTY, Wake, Transfer, WriteFails, PumpFails, PumpStops
<1>3. PICK state : PumpGoes(i, state)
  BY <1>2
<1>4. pump'[i] = state /\ \A j \in Execs : j # i => pump'[j] = pump[j]
  BY <1>3 DEF PumpGoes, ExecType
<1>5. /\ \A j \in Execs : j # i => closed'[j] = closed[j]
      /\ closed[i] \subseteq closed'[i]
  BY <1>1 DEF ExecType, AllClosed
<1>6. \A other : PumpGoes(i, other) => other = pump'[i]
  BY DEF PumpGoes, ExecType
<1>7. \/ pump[i] = "starting" /\ pump'[i] \in {"checking", "failing"}
      \/ pump[i] = "checking" /\ pump'[i] = IF "stopCh" \in closed[i] THEN "stopping" ELSE "reading"
      \/ /\ pump[i] = "reading"
         /\ pump'[i] \in {"writing", "sleeping", "stopping", "failing"}
         /\ "src" \in closed[i] => pump'[i] = "failing"
      \/ pump[i] \in {"sleeping", "writing"} /\ pump'[i] \in {"checking", "stopping"}
      \/ pump[i] = "failing" /\ pump'[i] = "stopping"
      \/ pump[i] = "stopping" /\ pump'[i] = "done"
  BY <1>2, <1>6
<1>8. closed[i] = AllClosed => PumpLeft(pump'[i]) < PumpLeft(pump[i])
  BY <1>7 DEF AllClosed, PumpLeft
<1> QED BY <1>1, <1>4, <1>5, <1>7, <1>8

LEMMA GoroutinesStep == IInv /\ GoroutinesOK /\ [Next]_vars => GoroutinesOK'
<1> SUFFICES ASSUME IInv, GoroutinesOK, [Next]_vars PROVE GoroutinesOK'
  OBVIOUS
<1>1. ExecType /\ runs \in Nat
  BY InvParts, ExecAssumption DEF ExecPart, ExecType
<1>2. ASSUME UNCHANGED <<runs, mode, pump, closed, pc>> PROVE GoroutinesOK'
  BY <1>2 DEF GoroutinesOK, rawTTY
<1>3. CASE UNCHANGED vars
  BY <1>2, <1>3 DEF vars, execVars, termVars
<1>4. CASE ExecMoves
  <2>1. CASE ExecGoesOn \/ StreamEnds
    BY <2>1, GoroutinesControl
  <2>2. CASE StreamStarts
    BY <1>2, <2>2 DEF StreamStarts, termVars
  <2>3. ASSUME NEW i \in Execs, Pump(i) PROVE GoroutinesOK'
    <3>1. UNCHANGED <<pc, runs, mode>>
      BY <1>1, <2>3, PumpLowers DEF termVars
    <3>2. rawTTY' = rawTTY
      BY <3>1 DEF rawTTY
    <3>3. /\ pump[i] # "none" /\ pump'[i] # "none"
          /\ \A j \in Execs : j # i => pump'[j] = pump[j] /\ closed'[j] = closed[j]
          /\ closed[i] \subseteq closed'[i]
      BY <1>1, <2>3, PumpLowers
    <3>4. closed' \in [Execs -> SUBSET AllClosed]
      BY <1>1, <2>3, PumpType DEF ExecType, AllClosed
    <3>5. closed[i] = AllClosed => closed'[i] = AllClosed
      BY <3>3, <3>4
    <3> QED BY <3>1, <3>2, <3>3, <3>5 DEF GoroutinesOK, ExecPCs
  <2>4. ASSUME NEW i \in Execs, Copier(i) \/ CopierReadsStdin(i) PROVE GoroutinesOK'
    <3>1. UNCHANGED <<runs, mode, pump, closed, pc>>
      BY <2>4 DEF Copier, CopierSent, CopierSeesEnd, CopierReadsStdin, termVars
    <3> QED BY <1>2, <3>1
  <2> QED BY <1>4, <2>1, <2>2, <2>3, <2>4 DEF ExecMoves
<1>5. CASE StartExec
  <2>1. /\ pc' = "exec.prepare" /\ runs' = runs + 1 /\ runs < MaxExecs
        /\ UNCHANGED <<pump, closed>>
    BY <1>5 DEF StartExec, Goto
  <2>2. runs' \in Execs
    BY <1>1, <2>1, ExecAssumption DEF Execs
  <2> QED BY <1>1, <2>1, <2>2 DEF GoroutinesOK, Execs
<1>6. CASE Dies \/ Restart
  <2>1. /\ pc' \in {"killed", "prompt"}
        /\ pump' = [i \in Execs |-> "none"] /\ closed' = [i \in Execs |-> {}]
    BY <1>6 DEF Dies, Restart, ProcessIsNew
  <2>2. \A i \in Execs : pump'[i] = "none" /\ closed'[i] = {}
    BY <2>1
  <2>3. /\ pc' \notin ExecPCs
        /\ pc' \notin {"exec.suspend", "exec.raw", "exec.stream", "exec.stop", "exec.wait"}
    BY <2>1 DEF ExecPCs
  <2> QED BY <2>2, <2>3 DEF GoroutinesOK
<1>7. CASE Next /\ ~ExecMoves /\ ~StartExec /\ ~Dies /\ ~Restart
  <2>1. UNCHANGED <<runs, pump, closed>> /\ (pc' \notin ExecPCs \/ UNCHANGED <<pc, mode>>)
    BY <1>7, OthersLeaveExec
  <2>2. CASE UNCHANGED <<pc, mode>>
    BY <1>2, <2>1, <2>2
  <2>3. CASE pc' \notin ExecPCs
    BY <2>1, <2>3 DEF GoroutinesOK, ExecPCs
  <2> QED BY <2>1, <2>2, <2>3
<1> QED BY <1>3, <1>4, <1>5, <1>6, <1>7

(* While exec waits for its pump (exec.go), all is closed that the pump    *)
(* reads from, writes to and looks at.                                     *)
WaitedForPumpIsClosed ==
  pc = "exec.wait" => runs \in Execs /\ pump[runs] # "none" /\ closed[runs] = AllClosed

(* A pump for which all is closed has five more steps at most, and nothing *)
(* that others do gives it more.                                           *)
ClosedPumpRunsDown ==
  [][\A i \in Execs :
       pump[i] # "none" /\ closed[i] = AllClosed /\ ~Dies /\ ~Restart =>
         /\ closed'[i] = AllClosed
         /\ pump'[i] = pump[i] \/ PumpLeft(pump'[i]) < PumpLeft(pump[i])]_vars

(* So exec does not wait for its pump forever (exec.go), and neither is a  *)
(* pump at work forever that is left behind with all closed.               *)
THEOREM ExecsWaitEnds == Spec => []WaitedForPumpIsClosed /\ ClosedPumpRunsDown
<1>1. IInv /\ GoroutinesOK => WaitedForPumpIsClosed
  BY DEF IInv, ExecOK, GoroutinesOK, WaitedForPumpIsClosed, ExecPCs
<1>2. ASSUME IInv, GoroutinesOK, Next, NEW i \in Execs,
             pump[i] # "none", closed[i] = AllClosed, ~Dies, ~Restart
      PROVE  /\ closed'[i] = AllClosed
             /\ pump'[i] = pump[i] \/ PumpLeft(pump'[i]) < PumpLeft(pump[i])
  <2>1. ExecType /\ runs \in Nat
    BY <1>2, InvParts, ExecAssumption DEF ExecPart, ExecType
  <2>2. CASE UNCHANGED <<pump, closed>>
    BY <1>2, <2>2
  <2>3. CASE PrepareInput
    <3>1. /\ UNCHANGED closed /\ pc = "exec.prepare"
          /\ pump' = pump \/ pump' = [pump EXCEPT ![runs] = "starting"]
      BY <2>3 DEF PrepareInput, execVars
    <3>2. i # runs
      BY <1>2, <3>1 DEF GoroutinesOK
    <3>3. pump'[i] = pump[i]
      BY <2>1, <3>1, <3>2 DEF ExecType
    <3> QED BY <1>2, <3>1, <3>3
  <2>4. CASE CloseInput
    <3>1. UNCHANGED pump /\ (closed' = closed \/ closed' = [closed EXCEPT ![runs] = AllClosed])
      BY <2>4 DEF CloseInput, AllClosed
    <3> QED BY <1>2, <2>1, <3>1 DEF ExecType
  <2>5. ASSUME NEW j \in Execs, Pump(j)
        PROVE  /\ closed'[i] = AllClosed
               /\ pump'[i] = pump[i] \/ PumpLeft(pump'[i]) < PumpLeft(pump[i])
    <3>1. closed' \in [Execs -> SUBSET AllClosed]
      BY <2>1, <2>5, PumpType DEF ExecType, AllClosed
    <3> QED BY <1>2, <2>1, <2>5, <3>1, PumpLowers
  <2>6. CASE ExecMoves /\ ~PrepareInput /\ ~CloseInput /\ (\A j \in Execs : ~Pump(j))
    BY <2>2, <2>6 DEF ExecMoves, ExecGoesOn, ExecSuspend, MakeRaw, PumpDone, RestoreTerminal,
             ExecResume, StreamStarts, StreamEnds, Copier, CopierSent, CopierSeesEnd,
             CopierReadsStdin, execVars
  <2>7. CASE StartExec
    BY <2>2, <2>7 DEF StartExec
  <2>8. CASE ~ExecMoves /\ ~StartExec
    BY <1>2, <2>2, <2>8, OthersLeaveExec
  <2> QED BY <2>3, <2>4, <2>5, <2>6, <2>7, <2>8
<1>3. IInv /\ GoroutinesOK /\ [Next]_vars =>
        [\A i \in Execs :
           pump[i] # "none" /\ closed[i] = AllClosed /\ ~Dies /\ ~Restart =>
             /\ closed'[i] = AllClosed
             /\ pump'[i] = pump[i] \/ PumpLeft(pump'[i]) < PumpLeft(pump[i])]_vars
  BY <1>2
<1>4. Spec => [](IInv /\ GoroutinesOK)
  <2>1. Init => IInv /\ GoroutinesOK
    BY InitEstablishes, GoroutinesInit
  <2>2. (IInv /\ GoroutinesOK) /\ [Next]_vars => (IInv /\ GoroutinesOK)'
    BY StepPreserves, GoroutinesStep
  <2> QED BY <2>1, <2>2, PTL DEF Spec
<1> QED BY <1>1, <1>3, <1>4, PTL DEF Spec, ClosedPumpRunsDown

-----------------------------------------------------------------------------
(* What ModifyConfig writes: the current context, and then the contexts in *)
(* which file and copy differ.                                             *)
Entry(cfg, c) == IF HasContext(cfg, c) THEN {cfg.contexts[c]} ELSE {}

Differing(cfg, copy) == {c \in Contexts : Entry(cfg, c) # Entry(copy, c)}

(* Two configurations that differ in nothing of this are the same. *)
LEMMA NoDifferenceLeft ==
  ASSUME NEW a \in Configs, NEW b \in Configs,
         a.current = b.current, Differing(a, b) = {}
  PROVE  a = b
<1>1. /\ a.contexts \in [DOMAIN a.contexts -> NamespaceOrNone]
      /\ b.contexts \in [DOMAIN b.contexts -> NamespaceOrNone]
      /\ DOMAIN a.contexts \subseteq Contexts /\ DOMAIN b.contexts \subseteq Contexts
  BY ConfigEdits
<1>2. \A c \in Contexts : Entry(a, c) = Entry(b, c)
  BY DEF Differing
<1>3. \A c \in Contexts : c \in DOMAIN a.contexts <=> c \in DOMAIN b.contexts
  BY <1>2 DEF Entry, HasContext
<1>4. DOMAIN a.contexts = DOMAIN b.contexts
  BY <1>1, <1>3
<1>5. \A c \in DOMAIN a.contexts : a.contexts[c] = b.contexts[c]
  BY <1>1, <1>2, <1>4 DEF Entry, HasContext
<1>6. a.contexts = b.contexts
  BY <1>1, <1>4, <1>5
<1> QED BY <1>6 DEF Configs

(* A write of a context that the copy has, and one of a context it lacks.  *)
LEMMA EntryWritten ==
  ASSUME NEW cfg \in Configs, NEW c \in Contexts
  PROVE  /\ \A ns \in NamespaceOrNone :
              /\ WithContext(cfg, c, ns).current = cfg.current
              /\ Entry(WithContext(cfg, c, ns), c) = {ns}
              /\ \A d \in Contexts \ {c} : Entry(WithContext(cfg, c, ns), d) = Entry(cfg, d)
         /\ WithoutContext(cfg, c).current = cfg.current
         /\ Entry(WithoutContext(cfg, c), c) = {}
         /\ \A d \in Contexts \ {c} : Entry(WithoutContext(cfg, c), d) = Entry(cfg, d)
<1>1. ASSUME NEW ns \in NamespaceOrNone
      PROVE  /\ WithContext(cfg, c, ns).current = cfg.current
             /\ Entry(WithContext(cfg, c, ns), c) = {ns}
             /\ \A d \in Contexts \ {c} : Entry(WithContext(cfg, c, ns), d) = Entry(cfg, d)
  <2> DEFINE contexts == [d \in DOMAIN cfg.contexts \cup {c} |->
                            IF d = c THEN ns ELSE cfg.contexts[d]]
  <2>1. WithContext(cfg, c, ns) = [cfg EXCEPT !.contexts = contexts]
    BY DEF WithContext, Configs
  <2>2. /\ WithContext(cfg, c, ns).current = cfg.current
        /\ WithContext(cfg, c, ns).contexts = contexts
    <3> HIDE DEF contexts
    <3> QED BY <2>1 DEF Configs
  <2> QED BY <2>2 DEF Entry, HasContext
<1>2. /\ WithoutContext(cfg, c).current = cfg.current
      /\ WithoutContext(cfg, c).contexts =
           [d \in DOMAIN cfg.contexts \ {c} |-> cfg.contexts[d]]
  BY DEF WithoutContext, Configs
<1>3. /\ Entry(WithoutContext(cfg, c), c) = {}
      /\ \A d \in Contexts \ {c} : Entry(WithoutContext(cfg, c), d) = Entry(cfg, d)
  BY <1>2 DEF Entry, HasContext
<1> QED BY <1>1, <1>2, <1>3

(* One write settles one difference. *)
LEMMA WriteSettles ==
  ASSUME KubeType, WriteFile
  PROVE  /\ UNCHANGED change
         /\ file'.current = change.copy.current
         /\ \/ /\ file.current # change.copy.current
               /\ Differing(file', change.copy) = Differing(file, change.copy)
            \/ /\ file.current = change.copy.current
               /\ \E c \in Differing(file, change.copy) :
                    Differing(file', change.copy) = Differing(file, change.copy) \ {c}
<1>1. file \in Configs /\ change.copy \in Configs
  BY DEF KubeType, Changes
<1>2. PICK c \in Contexts : file' = Written(c) /\ file' # file
  BY DEF WriteFile
<1>3. CASE file.current # change.copy.current
  <2>1. file' = WithCurrent(file, change.copy.current)
    BY <1>2, <1>3 DEF Written
  <2>2. file'.current = change.copy.current /\ file'.contexts = file.contexts
    BY <1>1, <2>1, EditEffects
  <2> QED BY <1>3, <2>2 DEF WriteFile, Differing, Entry, HasContext
<1>4. CASE file.current = change.copy.current
  <2>1. /\ file'.current = file.current
        /\ Entry(file', c) = Entry(change.copy, c)
        /\ \A d \in Contexts \ {c} : Entry(file', d) = Entry(file, d)
    <3>1. CASE HasContext(change.copy, c)
      <4>1. change.copy.contexts[c] \in NamespaceOrNone
        BY <1>1, <3>1, ConfigEdits DEF HasContext
      <4>2. file' = WithContext(file, c, change.copy.contexts[c])
        BY <1>2, <1>4, <3>1 DEF Written
      <4>3. Entry(change.copy, c) = {change.copy.contexts[c]}
        BY <3>1 DEF Entry
      <4> QED BY <1>1, <4>1, <4>2, <4>3, EntryWritten
    <3>2. CASE ~HasContext(change.copy, c)
      <4>1. file' = WithoutContext(file, c)
        BY <1>2, <1>4, <3>2 DEF Written
      <4>2. Entry(change.copy, c) = {}
        BY <3>2 DEF Entry
      <4> QED BY <1>1, <4>1, <4>2, EntryWritten
    <3> QED BY <3>1, <3>2
  <2>2. c \in Differing(file, change.copy)
    <3> SUFFICES ASSUME Entry(file, c) = Entry(change.copy, c) PROVE FALSE
      BY DEF Differing
    <3>1. \A d \in Contexts : Entry(file', d) = Entry(file, d)
      BY <2>1
    <3>2. file' \in Configs
      BY <1>2, FileWritten
    <3>3. Differing(file', file) = {}
      BY <3>1 DEF Differing
    <3> QED BY <1>1, <1>2, <2>1, <3>2, <3>3, NoDifferenceLeft
  <2>3. Differing(file', change.copy) = Differing(file, change.copy) \ {c}
    BY <2>1 DEF Differing
  <2> QED BY <1>4, <2>1, <2>2, <2>3 DEF WriteFile
<1> QED BY <1>3, <1>4

(* While krepl has the lock nobody writes the file but krepl, and each of  *)
(* its writes settles one difference between file and copy and makes no    *)
(* other: the current context first, then context by context.              *)
WritesSettleDifferences ==
  [][lock = "krepl" /\ lock' = "krepl" =>
       \/ UNCHANGED <<file, change>>
       \/ /\ UNCHANGED change
          /\ file'.current = change.copy.current
          /\ \/ /\ file.current # change.copy.current
                /\ Differing(file', change.copy) = Differing(file, change.copy)
             \/ /\ file.current = change.copy.current
                /\ \E c \in Differing(file, change.copy) :
                     Differing(file', change.copy) = Differing(file, change.copy) \ {c}]_vars

(* So a change that fails half-way has left all alone in which the file    *)
(* agreed with its copy, and one that goes on is through after as many     *)
(* writes as there were differences (kubeconfig.go:36-97).                 *)
THEOREM WritesConverge == Spec => WritesSettleDifferences
<1>1. ASSUME IInv, Next, lock = "krepl", lock' = "krepl"
      PROVE  WriteFile \/ UNCHANGED <<file, change>>
  <2>1. pc = "kube.write"
    BY <1>1 DEF IInv, KubeOK
  <2>2. ~Start /\ ~Loop /\ ~Dies /\ ~Restart
    BY <1>1, <2>1 DEF Start, StartExec, StartEdit, StartLogs, StartChange, Loop, Returned,
           ConsumeTerminalReset, CloseReadline, NewReadlineInstance, LeaveLoop, Dies, KubeDies,
           Restart, Alive, EndPCs
  <2>3. CASE ExecMoves \/ EditMoves \/ LogsMove
    BY <2>3 DEF ExecMoves, EditMoves, LogsMove, kubeVars
  <2>4. CASE KubeMoves
    BY <1>1, <2>1, <2>4 DEF KubeMoves, KubeGoesOn, ReadFile, LockFile, UnlockFile, UpdateMemory,
           OthersEdit
  <2> QED BY <1>1, <2>2, <2>3, <2>4 DEF Next
<1>2. IInv => KubeType
  BY InvParts DEF KubePart
<1>3. IInv /\ [Next]_vars =>
        [lock = "krepl" /\ lock' = "krepl" =>
           \/ UNCHANGED <<file, change>>
           \/ /\ UNCHANGED change
              /\ file'.current = change.copy.current
              /\ \/ /\ file.current # change.copy.current
                    /\ Differing(file', change.copy) = Differing(file, change.copy)
                 \/ /\ file.current = change.copy.current
                    /\ \E c \in Differing(file, change.copy) :
                         Differing(file', change.copy) = Differing(file, change.copy) \ {c}]_vars
  BY <1>1, <1>2, WriteSettles
<1> QED BY <1>3, Invariant, PTL DEF Spec, WritesSettleDifferences

=============================================================================
