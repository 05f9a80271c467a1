--------------------------------- MODULE Env ---------------------------------
(***************************************************************************)
(* The REPL's state (repl.Env) and every command that changes it: context, *)
(* namespace and delete-context, which edit the kubeconfig on disk first,  *)
(* the fifteen list commands, which fetch rows from the API server, the    *)
(* numeric selections, clear and quit.  The REPL runs one command at a     *)
(* time, so a command is one step; a command that returns an error before  *)
(* it has changed anything is a stuttering step.                           *)
(***************************************************************************)
EXTENDS Kinds, Kubeconfig, Parser, FiniteSets

CONSTANTS
  Resources,            (* CRD-backed resource types discovery can find *)
  NamespacedResources,  (* those whose descriptor says Namespaced *)
  APIObjects,           (* what an API server may hold: kind, res, name, ns *)
  InputLines,           (* numeric selections the user may type: see Parser *)
  MaxRows               (* bound on the rows of one answer *)

Names == {o.name : o \in APIObjects}

ASSUME ObjectAssumption ==
  /\ NONE \notin Resources
  /\ NamespacedResources \subseteq Resources
  /\ MaxRows \in 0..MaxAlloc
  /\ InputLines \subseteq Lines
  /\ \A o \in APIObjects :
       /\ o \in [kind : Kinds, res : Resources \cup {NONE}, name : Names,
                 ns : NamespaceOrNone]
       /\ \/ o.kind \in ClusterScopedKinds
          \/ o.res \in Resources \ NamespacedResources
          => o.ns = NONE

(* LastObject.  The field ctx is not in the Go struct: it records which    *)
(* cluster the row came from, for the properties.                          *)
LastObjects ==
  [kind : Kinds, res : Resources \cup {NONE}, name : Names,
   ns : NamespaceOrNone, ctx : Contexts]

VARIABLES
  rawConfig,       (* Env.rawConfig, the kubeconfig as held in memory *)
  disk,            (* the kubeconfig files *)
  currentContext,  (* Env.currentContext *)
  namespace,       (* Env.namespace *)
  lastObjects,     (* Env.lastObjects *)
  selection,       (* Env.selection *)
  prompt,          (* Env.prompt: what the prompt shows *)
  status,          (* "reading" lines, "quit", or "panicked" *)
  lastListEmpty    (* history: did the latest list command find nothing? *)

scopeVars  == <<rawConfig, currentContext, namespace>>
configVars == <<rawConfig, disk, currentContext, namespace>>
vars == <<rawConfig, disk, currentContext, namespace, lastObjects, selection,
          prompt, status, lastListEmpty>>

-----------------------------------------------------------------------------
NoSelection == [kind |-> "None", items |-> <<>>, label |-> NONE]

(* The label of a range: "<count> <type>[s] selected", the type being that *)
(* of the first object.                                                    *)
Label(objs) == [count |-> Len(objs), kind |-> objs[1].kind, res |-> objs[1].res]

Rendered(ctx, ns, sel) ==
  [ctx |-> ctx, ns |-> ns,
   sel |-> CASE sel.kind = "None"   -> NONE
             [] sel.kind = "Single" -> sel.items[1].name
             [] sel.kind = "Range"  -> sel.label]

rebuildPrompt == prompt' = Rendered(currentContext', namespace', selection')

ClearSelection == selection' = NoSelection /\ rebuildPrompt

(* Slip: the prompt is not rebuilt. *)
SetCurrent_StalePrompt(obj) ==
  /\ selection' = [kind |-> "Single", items |-> <<obj>>, label |-> NONE]
  /\ UNCHANGED prompt

SetCurrent(obj) ==
  /\ selection' = [kind |-> "Single", items |-> <<obj>>, label |-> NONE]
  /\ rebuildPrompt

(* Slip: an empty range is stored like any other. *)
SetRange_KeepsEmpty(objs) ==
  /\ selection' = [kind  |-> "Range", items |-> objs,
                   label |-> IF objs = <<>> THEN NONE ELSE Label(objs)]
  /\ rebuildPrompt

SetRange(objs) ==
  IF objs = <<>> THEN ClearSelection
  ELSE /\ selection' = [kind |-> "Range", items |-> objs, label |-> Label(objs)]
       /\ rebuildPrompt

(* ItemAt(i) is not nil. *)
HasItem(i) == i \in 0..Len(lastObjects) - 1

(* The rows SetRangeByIndices collects: it stops at the first index that   *)
(* has no row.                                                             *)
FoundIndices(indices) ==
  {k \in DOMAIN indices : \A j \in 1..k : HasItem(indices[j])}

RowsAt(indices) ==
  [k \in FoundIndices(indices) |-> lastObjects[indices[k] + 1]]

SetRangeByIndices(indices) == SetRange(RowsAt(indices))

(* Slips: the old namespace, or the old selection, outlives the switch. *)
SetContext_KeepsNamespace(name) ==
  /\ currentContext' = name
  /\ rawConfig' = WithCurrent(rawConfig, name)
  /\ lastObjects' = <<>>
  /\ UNCHANGED namespace
  /\ ClearSelection

SetContext_KeepsSelection(name) ==
  /\ currentContext' = name
  /\ rawConfig' = WithCurrent(rawConfig, name)
  /\ namespace' = rawConfig.contexts[name]
  /\ lastObjects' = <<>>
  /\ UNCHANGED selection
  /\ rebuildPrompt

SetContext(name) ==
  /\ currentContext' = name
  /\ rawConfig' = WithCurrent(rawConfig, name)
  /\ namespace' = rawConfig.contexts[name]
  /\ lastObjects' = <<>>
  /\ ClearSelection

(* Slip: the rows of the old namespace stay selectable. *)
SetNamespace_KeepsRows(ns) ==
  /\ namespace' = ns
  /\ rawConfig' = WithNamespace(rawConfig, currentContext, ns)
  /\ UNCHANGED <<currentContext, lastObjects>>
  /\ ClearSelection

SetNamespace(ns) ==
  /\ namespace' = ns
  /\ rawConfig' = IF HasContext(rawConfig, currentContext)
                    THEN WithNamespace(rawConfig, currentContext, ns)
                    ELSE rawConfig
  /\ lastObjects' = <<>>
  /\ UNCHANGED currentContext
  /\ ClearSelection

(* Slip: the copy in memory keeps the context. *)
DeleteContext_DiskOnly(name) ==
  /\ UNCHANGED <<rawConfig, currentContext, namespace, lastObjects, selection>>
  /\ rebuildPrompt

DeleteContext(name) ==
  /\ rawConfig' = WithoutContext(rawConfig, name)
  /\ UNCHANGED <<currentContext, namespace, lastObjects, selection>>
  /\ rebuildPrompt

-----------------------------------------------------------------------------
(* NewEnv, with the kubeconfig that main loads from disk. *)
Init ==
  /\ rawConfig \in Configs
  /\ disk = rawConfig
  /\ currentContext = rawConfig.current
  /\ namespace = IF HasContext(rawConfig, rawConfig.current)
                   THEN rawConfig.contexts[rawConfig.current] ELSE NONE
  /\ lastObjects = <<>>
  /\ selection = NoSelection
  /\ prompt = Rendered(currentContext, namespace, selection)
  /\ status = "reading"
  /\ lastListEmpty = FALSE

Reading == status = "reading" /\ UNCHANGED <<status, lastListEmpty>>

(* Slip: the working namespace is carried over to the new context. *)
ContextCmd_CarriesNamespace(name) ==
  /\ Reading
  /\ HasContext(disk, name) /\ HasContext(rawConfig, name)
  /\ disk' = WithNamespace(WithCurrent(disk, name), name, namespace)
  /\ SetContext(name)

(* context <name>: the file first, then the REPL's own copy. *)
ContextCmd(name) ==
  /\ Reading
  /\ HasContext(disk, name)
  /\ disk' = WithCurrent(disk, name)
  /\ IF HasContext(rawConfig, name)
       THEN SetContext(name)
       ELSE UNCHANGED <<rawConfig, currentContext, namespace, lastObjects,
                        selection, prompt>>

(* namespace [name], without a name to clear it. *)
NamespaceCmd(ns) ==
  /\ Reading
  /\ currentContext # NONE
  /\ HasContext(disk, currentContext)
  /\ disk' = WithNamespace(disk, currentContext, ns)
  /\ SetNamespace(ns)

(* Slip: the context in use can be deleted. *)
DeleteContextCmd_EvenCurrent(name) ==
  /\ Reading
  /\ HasContext(disk, name) /\ HasContext(rawConfig, name)
  /\ disk' = WithoutContext(disk, name)
  /\ DeleteContext(name)

DeleteContextCmd(name) ==
  /\ Reading
  /\ name # currentContext
  /\ HasContext(disk, name)
  /\ disk' = WithoutContext(disk, name)
  /\ IF HasContext(rawConfig, name)
       THEN DeleteContext(name)
       ELSE UNCHANGED <<rawConfig, currentContext, namespace, lastObjects,
                        selection, prompt>>

ClearCmd ==
  /\ Reading
  /\ UNCHANGED <<configVars, lastObjects>>
  /\ ClearSelection

(* Ends the loop of Run; what becomes of port-forwards is in PortForward. *)
QuitCmd ==
  /\ status = "reading"
  /\ status' = "quit"
  /\ UNCHANGED <<configVars, lastObjects, selection, prompt, lastListEmpty>>

-----------------------------------------------------------------------------
(* A list request for one resource type; ns is NONE for all namespaces and *)
(* for cluster-scoped types.  The server, and the filters and the order    *)
(* the user asks for, can yield any selection of the matching objects.     *)
Matching(kind, res, ns) ==
  {o \in APIObjects : o.kind = kind /\ o.res = res /\ (ns # NONE => o.ns = ns)}

Answers(kind, res, ns) ==
  {s \in UNION {[1..n -> Matching(kind, res, ns)] : n \in 0..MaxRows} :
     \A i, j \in DOMAIN s : s[i] = s[j] => i = j}

(* Slip: the rows are added to those of the previous list. *)
SetLastObjects_Appends(objs) == lastObjects' = lastObjects \o objs

SetLastObjects(objs) == lastObjects' = objs

(* The shape the list commands share: a context must be active and known,  *)
(* so that a client can be built; rows are kept only when there are some.  *)
List(kind, res, ns) ==
  /\ status = "reading"
  /\ HasContext(rawConfig, currentContext)
  /\ \E items \in Answers(kind, res, ns) :
       /\ lastListEmpty' = (items = <<>>)
       /\ IF items = <<>>
            THEN UNCHANGED lastObjects
            ELSE SetLastObjects(
                   [i \in DOMAIN items |->
                      [kind |-> kind, res |-> res, name |-> items[i].name,
                       ns |-> items[i].ns, ctx |-> currentContext]])
  /\ UNCHANGED <<configVars, selection, prompt, status>>

(* rejectNamespaceSelectionForList returns no error. *)
NoNamespaceSelected ==
  \A i \in DOMAIN selection.items : selection.items[i].kind # "Namespace"

ListNamespaced(kind)    == NoNamespaceSelected /\ List(kind, NONE, namespace)
ListClusterScoped(kind) == NoNamespaceSelected /\ List(kind, NONE, NONE)

runPods              == ListNamespaced("Pod")
runNamespaces        == List("Namespace", NONE, NONE)
runNodes             == ListClusterScoped("Node")
runDeployments       == ListNamespaced("Deployment")
runReplicaSets       == ListNamespaced("ReplicaSet")
runStatefulSets      == ListNamespaced("StatefulSet")
runConfigMaps        == ListNamespaced("ConfigMap")
runSecrets           == ListNamespaced("Secret")
runJobs              == ListNamespaced("Job")
runCronJobs          == ListNamespaced("CronJob")
runDaemonSets        == ListNamespaced("DaemonSet")
runPersistentVolumes == ListClusterScoped("PersistentVolume")
runServices          == ListNamespaced("Service")
runStorageClasses    == ListClusterScoped("StorageClass")

(* crd <resource>, once discovery has found the resource. *)
runCrd(res) ==
  /\ NoNamespaceSelected
  /\ List("Dynamic", res, IF res \in NamespacedResources THEN namespace ELSE NONE)

ListCmd ==
  \/ runPods \/ runNamespaces \/ runNodes \/ runDeployments \/ runReplicaSets
  \/ runStatefulSets \/ runConfigMaps \/ runSecrets \/ runJobs \/ runCronJobs
  \/ runDaemonSets \/ runPersistentVolumes \/ runServices \/ runStorageClasses
  \/ \E res \in Resources : runCrd(res)

-----------------------------------------------------------------------------
(* A bare index selects its row, or reports that it is out of range. *)
SelectByIndex(line) ==
  /\ Reading
  /\ IsBareIndex(line)
  /\ HasItem(line.parts[1])
  /\ UNCHANGED <<configVars, lastObjects>>
  /\ SetCurrent(lastObjects[line.parts[1] + 1])

(* A range or a list selects its rows; what matches neither is a command. *)
SelectSeveral(line) ==
  LET parsed == ParsedSelection(line, Len(lastObjects))
  IN  /\ Reading
      /\ ~IsBareIndex(line)
      /\ parsed.ok /\ ~parsed.panics
      /\ UNCHANGED <<configVars, lastObjects>>
      /\ SetRangeByIndices(parsed.indices)

(* Building the index slice panics and takes the program down. *)
SelectionPanics(line) ==
  /\ status = "reading"
  /\ ~IsBareIndex(line)
  /\ ParsedSelection(line, Len(lastObjects)).panics
  /\ status' = "panicked"
  /\ UNCHANGED <<configVars, lastObjects, selection, prompt, lastListEmpty>>

Select ==
  \E line \in InputLines :
    SelectByIndex(line) \/ SelectSeveral(line) \/ SelectionPanics(line)

Next ==
  \/ \E name \in Contexts : ContextCmd(name) \/ DeleteContextCmd(name)
  \/ \E ns \in NamespaceOrNone : NamespaceCmd(ns)
  \/ ListCmd
  \/ Select
  \/ ClearCmd
  \/ QuitCmd

Spec == Init /\ [][Next]_vars

-----------------------------------------------------------------------------
SelectionOK ==
  /\ selection.kind \in {"None", "Single", "Range"}
  /\ selection.items \in Seq(LastObjects)
  /\ selection.kind = "None" <=> selection.items = <<>>
  /\ selection.kind = "Single" => Len(selection.items) = 1

(* Type invariant of the REPL's state (the fields of repl.Env). *)
TypeOK ==
  /\ rawConfig \in Configs
  /\ disk \in Configs
  /\ currentContext \in ContextOrNone
  /\ namespace \in NamespaceOrNone
  /\ lastObjects \in Seq(LastObjects) /\ Len(lastObjects) =< MaxRows
  /\ SelectionOK
  /\ status \in {"reading", "quit", "panicked"}
  /\ lastListEmpty \in BOOLEAN

InScope(obj) ==
  /\ obj.ctx = currentContext
  /\ namespace # NONE => obj.ns \in {namespace, NONE}

(* No row that can still be selected, and no selected object, comes from   *)
(* another cluster or another namespace than the ones the prompt names:    *)
(* the commands that act on the selection build their client from the      *)
(* current context at that moment, so a row that outlived a switch would   *)
(* name a different object of the same name.                               *)
SelectionInScope ==
  /\ \A i \in DOMAIN lastObjects : InScope(lastObjects[i])
  /\ \A i \in DOMAIN selection.items : InScope(selection.items[i])

(* The working namespace is the one saved with the active context, both in *)
(* memory and in the file, so the next krepl starts where this one is.     *)
NamespaceIsSaved ==
  HasContext(rawConfig, currentContext)
    => namespace = rawConfig.contexts[currentContext]

(* A single krepl never lets its copy of the kubeconfig and the file       *)
(* disagree: each command that edits one edits the other alike.            *)
MemoryMatchesDisk == disk = rawConfig /\ rawConfig.current = currentContext

(* The prompt the user reads before typing names the scope and the         *)
(* selection that the next command will use (rebuildPrompt is called by    *)
(* hand after each change).                                                *)
PromptTellsTheTruth == prompt = Rendered(currentContext, namespace, selection)

(* The label of a range, made from its first object alone, is true of all  *)
(* of them.                                                                *)
LabelFitsEveryItem ==
  selection.kind = "Range" =>
    /\ selection.label.count = Len(selection.items)
    /\ \A i \in DOMAIN selection.items :
         /\ selection.items[i].kind = selection.label.kind
         /\ selection.items[i].res = selection.label.res

(* All rows of one list are of one type: a list command asks for one.      *)
RowsAlike ==
  \A i, j \in DOMAIN lastObjects :
    /\ lastObjects[i].kind = lastObjects[j].kind
    /\ lastObjects[i].res = lastObjects[j].res

(* The inductive invariant behind the properties above. *)
IInv ==
  /\ TypeOK
  /\ SelectionInScope
  /\ NamespaceIsSaved
  /\ MemoryMatchesDisk
  /\ PromptTellsTheTruth
  /\ RowsAlike
  /\ LabelFitsEveryItem

(* Once the current context exists in the kubeconfig, it does for good:    *)
(* delete-context never removes the context in use, neither from memory    *)
(* nor from the file.                                                      *)
CurrentContextSurvives ==
  [][HasContext(rawConfig, currentContext)
       => HasContext(rawConfig', currentContext') /\ HasContext(disk', disk'.current)]_vars

(* A command changes the saved namespace of at most the current context.   *)
OtherContextsKeepTheirNamespace ==
  [][\A c \in DOMAIN disk.contexts \cap DOMAIN disk'.contexts :
       disk'.contexts[c] # disk.contexts[c] => c = currentContext /\ c = currentContext']_vars

(* A line whose numbers are ints: what a user is expected to type. *)
Fits(line) ==
  IF line.form = "range"
    THEN /\ ~line.eq
         /\ line.start \in 0..MaxInt \cup {Blank}
         /\ line.end \in 0..MaxInt-1 \cup {Blank}
    ELSE \A k \in DOMAIN line.parts : line.parts[k] \in 0..MaxInt

(* The rows `a..b` means, both ends included and either end optional. *)
RowsBetween(line) ==
  {i \in 0..Len(lastObjects)-1 :
     /\ line.start # Blank => line.start =< i
     /\ line.end # Blank => i =< line.end}

Means(line, items) ==
  IF line.form = "range"
    THEN LET first == IF line.start = Blank THEN 0 ELSE line.start
         IN  items = [k \in 1..Cardinality(RowsBetween(line)) |-> lastObjects[first + k]]
    ELSE (\A k \in DOMAIN line.parts : HasItem(line.parts[k]))
           => items = [k \in DOMAIN line.parts |-> lastObjects[line.parts[k] + 1]]

(* A range selects exactly the rows between its ends, in order, cut off at *)
(* the last row; a list of existing rows selects those rows as typed,      *)
(* repetitions included; and no such line brings the program down.         *)
LinesSelectWhatTheySay ==
  [][\A line \in InputLines :
       Fits(line) => /\ SelectSeveral(line) => Means(line, selection'.items)
                     /\ ~SelectionPanics(line)]_vars

(* dispatch.go: "If the line is a bare non-negative integer, it selects    *)
(* that row from the last list", so a number without a row selects none.   *)
BareNumberSelectsThatRow ==
  [][\A line \in InputLines :
       /\ line.form = "list" /\ Len(line.parts) = 1 /\ line.parts[1] \in Nat
       /\ SelectSeveral(line)
       => selection'.items = IF HasItem(line.parts[1])
                               THEN <<lastObjects[line.parts[1] + 1]>> ELSE <<>>]_vars

(* env.go and `help` call the rows an index selects those of "the most     *)
(* recent list": after a list command that found nothing there are none.   *)
IndexMeansMostRecentList == lastListEmpty => lastObjects = <<>>

-----------------------------------------------------------------------------
(* Env implements Workbench: the scope is the context and the namespace,   *)
(* the offer is the set of rows, the choice the set of selected objects.   *)
ItemSet(s) == {s[i] : i \in DOMAIN s}

ScopeReach(scope) ==
  {obj \in LastObjects :
     /\ obj.ctx = scope.ctx
     /\ scope.ns # NONE => obj.ns \in {scope.ns, NONE}}

Bench == INSTANCE Workbench WITH
  Scopes  <- [ctx : ContextOrNone, ns : NamespaceOrNone],
  Objects <- LastObjects,
  Reach   <- ScopeReach,
  scope   <- [ctx |-> currentContext, ns |-> namespace],
  offered <- ItemSet(lastObjects),
  chosen  <- ItemSet(selection.items)

(* The REPL never lets an object be chosen that the present scope has not  *)
(* offered, and a change of context or of namespace forgets both, however  *)
(* the commands are interleaved.                                           *)
ImplementsWorkbench == Bench!WSpec

=============================================================================
