--------------------------- MODULE KubeconfigEdit ---------------------------
(***************************************************************************)
(* context, namespace and delete-context step by step: the kubeconfig file *)
(* is read, a copy of it is changed, and ModifyConfig of client-go locks   *)
(* the file and brings it, one write at a time, to what the copy says;     *)
(* then the copy of it in memory is changed as well.  Others edit the file *)
(* when it is not locked, and a process that dies leaves its lock behind.  *)
(* Env takes each of the three commands in one step.                       *)
(***************************************************************************)
EXTENDS Terminal, Kubeconfig

CONSTANT MaxEdits   (* bound: how often others edit the file *)

ASSUME KubeconfigEditAssumption == MaxEdits \in Nat

VARIABLES
  file,      (* the kubeconfig file *)
  lock,      (* who has the lock file: "nobody", "krepl", or "ghost", a *)
             (* process that is no more *)
  memory,    (* Env.rawConfig, whose current context is Env.currentContext *)
  change,    (* the command's locals, and what became of them: see Changes *)
  edits      (* how often others have edited the file *)

kubeVars == <<file, lock, memory, change, edits>>

Ops ==
  [op : {"context", "delete"}, name : Contexts, ns : {NONE}]
    \cup [op : {"namespace"}, name : ContextOrNone, ns : NamespaceOrNone]

NoOp == [op |-> "none", name |-> NONE, ns |-> NONE]

Empty == [contexts |-> <<>>, current |-> NONE]

Changes ==
  [op        : Ops \cup {NoOp},   (* what was asked for *)
   copy      : Configs,           (* the changed copy *)
   before    : Configs,           (* history: what the file held when read *)
   disturbed : BOOLEAN,           (* history: others edited it since *)
   outcome   : {"none", "done", "failed"}]

NoChange == [op |-> NoOp, copy |-> Empty, before |-> Empty,
             disturbed |-> FALSE, outcome |-> "none"]

KubePCs == {"kube.read", "kube.lock", "kube.write", "kube.memory"}

(* LoadRawConfig. *)
KubeInit ==
  /\ file \in Configs
  /\ memory = file
  /\ lock = "nobody"
  /\ change = NoChange
  /\ edits = 0

Changed(cfg, op) ==
  CASE op.op = "context"   -> WithCurrent(cfg, op.name)
    [] op.op = "namespace" -> WithNamespace(cfg, op.name, op.ns)
    [] op.op = "delete"    -> WithoutContext(cfg, op.name)

(* namespace works on the current context, which has to be set; delete-    *)
(* context refuses the current context as it is in memory.                 *)
StartChange(op) ==
  /\ pc = "prompt"
  /\ op.op = "namespace" => op.name = memory.current /\ op.name # NONE
  /\ op.op = "delete" => op.name # memory.current
  /\ change' = [change EXCEPT !.op = op]
  /\ Goto("kube.read")
  /\ UNCHANGED <<file, lock, memory, edits>>

ChangeReturns(outcome) ==
  /\ Goto("dispatched")
  /\ change' = [change EXCEPT !.outcome = outcome]

(* Slip: it is the configuration in memory that is changed and saved. *)
ReadFile_UsesMemory ==
  /\ pc = "kube.read"
  /\ \/ /\ HasContext(memory, change.op.name)
        /\ Goto("kube.lock")
        /\ change' = [change EXCEPT !.before = file, !.copy = Changed(memory, change.op)]
     \/ ChangeReturns("failed")
  /\ UNCHANGED <<file, lock, memory, edits>>

(* The file cannot be read, lacks the context, or is read and copied. *)
ReadFile ==
  /\ pc = "kube.read"
  /\ \/ /\ HasContext(file, change.op.name)
        /\ Goto("kube.lock")
        /\ change' = [change EXCEPT !.before = file, !.copy = Changed(file, change.op)]
     \/ ChangeReturns("failed")
  /\ UNCHANGED <<file, lock, memory, edits>>

(* The lock is a file that must not exist; it is not waited for. *)
LockFile ==
  /\ pc = "kube.lock"
  /\ IF lock = "nobody"
       THEN Goto("kube.write") /\ lock' = "krepl" /\ UNCHANGED change
       ELSE ChangeReturns("failed") /\ UNCHANGED lock
  /\ UNCHANGED <<file, memory, edits>>

WithContext(cfg, c, ns) ==
  [cfg EXCEPT !.contexts =
     [d \in DOMAIN @ \cup {c} |-> IF d = c THEN ns ELSE @[d]]]

(* One write: of the current context, or of one context in which file and  *)
(* copy differ.                                                            *)
Written(c) ==
  IF file.current # change.copy.current THEN WithCurrent(file, change.copy.current)
  ELSE IF HasContext(change.copy, c) THEN WithContext(file, c, change.copy.contexts[c])
  ELSE WithoutContext(file, c)

WriteFile ==
  /\ pc = "kube.write"
  /\ file # change.copy
  /\ file' \in {Written(c) : c \in Contexts} \ {file}
  /\ UNCHANGED <<termVars, lock, memory, change, edits>>

(* When file and copy agree, or when a write fails. *)
UnlockFile ==
  /\ pc = "kube.write"
  /\ lock' = "nobody"
  /\ \/ file = change.copy /\ Goto("kube.memory") /\ UNCHANGED change
     \/ file # change.copy /\ ChangeReturns("failed")
  /\ UNCHANGED <<file, memory, edits>>

(* Env.SetContext, SetNamespace and DeleteContext check memory, not file. *)
UpdateMemory ==
  /\ pc = "kube.memory"
  /\ IF HasContext(memory, change.op.name)
       THEN memory' = Changed(memory, change.op) /\ ChangeReturns("done")
       ELSE /\ UNCHANGED memory
            /\ ChangeReturns(IF change.op.op = "namespace" THEN "done" ELSE "failed")
  /\ UNCHANGED <<file, lock, edits>>

(* kubectl, or another krepl; it may itself die and leave the lock. *)
OthersEdit ==
  /\ lock = "nobody"
  /\ edits < MaxEdits
  /\ edits' = edits + 1
  /\ \E c \in Contexts, ns \in NamespaceOrNone, cur \in ContextOrNone :
       file' \in {WithCurrent(file, cur), WithContext(file, c, ns), WithoutContext(file, c)}
  /\ lock' \in {"nobody", "ghost"}
  /\ change' = [change EXCEPT !.disturbed = @ \/ pc \notin {"prompt", "kube.read"}]
  /\ UNCHANGED <<termVars, memory>>

(* krepl dies, maybe in the middle of a write, which empties the file      *)
(* first.                                                                  *)
KubeDies ==
  /\ lock' = IF lock = "krepl" THEN "ghost" ELSE lock
  /\ file' \in IF pc = "kube.write" THEN {file, Empty} ELSE {file}

KubeGoesOn ==
  ReadFile \/ LockFile \/ WriteFile \/ UnlockFile \/ UpdateMemory

=============================================================================
