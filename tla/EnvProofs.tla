------------------------------ MODULE EnvProofs ------------------------------
(***************************************************************************)
(* Env for every set of contexts, namespaces, objects and typed lines: its *)
(* type invariant, the inductive invariant behind its safety properties,   *)
(* and that it implements Workbench.                                       *)
(***************************************************************************)
EXTENDS Env, KubeconfigProofs, ParserProofs, FiniteSetTheorems, SequenceTheorems, WellFoundedInduction, TLAPS

-----------------------------------------------------------------------------
(* A non-empty set of positive numbers has a least one. *)
LEMMA LeastElement ==
  ASSUME NEW T, T \subseteq Nat, T # {}
  PROVE  \E m \in T : \A k \in T : m =< k
<1> DEFINE R == OpToRel(<, Nat)
<1>1. IsWellFoundedOn(R, Nat)
  BY NatLessThanWellFounded
<1>2. PICK m \in T : \A k \in T : ~(<<k, m>> \in R)
  <2> HIDE DEF R
  <2> QED BY <1>1, WFMin
<1>3. \A k \in T : ~(k < m)
  BY <1>2 DEF OpToRel
<1> QED BY <1>3

(* The rows a sequence of indices selects form a sequence of rows of the   *)
(* last list.                                                              *)
LEMMA RowsAtType ==
  ASSUME NEW S, lastObjects \in Seq(S),
         NEW m \in Nat, NEW indices \in [1..m -> Int]
  PROVE  /\ RowsAt(indices) \in Seq(S)
         /\ \A k \in DOMAIN RowsAt(indices) :
              \E j \in DOMAIN lastObjects : RowsAt(indices)[k] = lastObjects[j]
<1> DEFINE Missing == {k \in 1..m : ~HasItem(indices[k])}
<1>1. \A k \in FoundIndices(indices) : indices[k] + 1 \in DOMAIN lastObjects
  BY DEF FoundIndices, HasItem
<1>2. \E n \in Nat : FoundIndices(indices) = 1..n
  <2>1. CASE Missing = {}
    <3>1. \A k \in 1..m : HasItem(indices[k])
      BY <2>1
    <3>2. FoundIndices(indices) = {k \in 1..m : \A j \in 1..k : HasItem(indices[j])}
      BY DEF FoundIndices
    <3>3. \A k \in 1..m : \A j \in 1..k : j \in 1..m
      OBVIOUS
    <3>4. FoundIndices(indices) = 1..m
      BY <3>1, <3>2, <3>3
    <3> QED BY <3>4
  <2>2. CASE Missing # {}
    <3>1. PICK least \in Missing : \A k \in Missing : least =< k
      <4> Missing \subseteq Nat
        OBVIOUS
      <4> HIDE DEF Missing
      <4> QED BY <2>2, LeastElement
    <3>2. FoundIndices(indices) = 1..(least - 1)
      <4>1. least \in 1..m /\ ~HasItem(indices[least])
        BY <3>1
      <4>2. \A k \in 1..(least - 1) : k \in 1..m /\ HasItem(indices[k])
        BY <3>1, <4>1
      <4>3. \A k \in FoundIndices(indices) : k \in 1..m /\ k < least
        BY <4>1 DEF FoundIndices
      <4>4. \A k \in 1..(least - 1) : k \in FoundIndices(indices)
        BY <4>1, <4>2 DEF FoundIndices
      <4>5. \A k \in FoundIndices(indices) : k \in 1..(least - 1)
        BY <4>1, <4>3
      <4> QED BY <4>4, <4>5
    <3>3. least - 1 \in Nat
      BY <3>1
    <3> QED BY <3>2, <3>3
  <2> QED BY <2>1, <2>2
<1>3. PICK n \in Nat : FoundIndices(indices) = 1..n
  BY <1>2
<1>4. RowsAt(indices) \in [1..n -> S]
  BY <1>1, <1>3 DEF RowsAt
<1>5. RowsAt(indices) \in Seq(S)
  BY <1>3, <1>4, SeqDef
<1>6. ASSUME NEW k \in DOMAIN RowsAt(indices)
      PROVE  \E j \in DOMAIN lastObjects : RowsAt(indices)[k] = lastObjects[j]
  BY <1>1 DEF RowsAt
<1> QED BY <1>5, <1>6

-----------------------------------------------------------------------------
(* What a list command may leave in lastObjects: rows of the present scope *)
(* and of one type.                                                        *)
FreshRows(kind, res) ==
  {obj \in LastObjects : InScope(obj) /\ obj.kind = kind /\ obj.res = res}

LEMMA ListAnswer ==
  ASSUME TypeOK,
         NEW kind \in Kinds, NEW res \in Resources \cup {NONE},
         NEW ns \in {namespace, NONE},
         \A o \in Matching(kind, res, ns) : namespace # NONE => o.ns \in {namespace, NONE},
         List(kind, res, ns)
  PROVE  /\ lastListEmpty' \in BOOLEAN
         /\ Len(lastObjects') =< MaxRows
         /\ lastObjects' = lastObjects \/ lastObjects' \in Seq(FreshRows(kind, res))
<1>1. PICK items \in Answers(kind, res, ns) :
        /\ lastListEmpty' = (items = <<>>)
        /\ IF items = <<>>
             THEN UNCHANGED lastObjects
             ELSE SetLastObjects(
                    [i \in DOMAIN items |->
                       [kind |-> kind, res |-> res, name |-> items[i].name,
                        ns |-> items[i].ns, ctx |-> currentContext]])
  BY DEF List
<1>2. PICK n \in 0..MaxRows : items \in [1..n -> Matching(kind, res, ns)]
  BY DEF Answers
<1>n. n \in Nat /\ n =< MaxRows
  BY ObjectAssumption, IntAssumption
<1>3. currentContext \in Contexts
  <2>1. currentContext \in DOMAIN rawConfig.contexts
    BY DEF List, HasContext
  <2> QED BY <2>1, ConfigEdits DEF TypeOK
<1>4. ASSUME NEW i \in 1..n
      PROVE  [kind |-> kind, res |-> res, name |-> items[i].name,
              ns |-> items[i].ns, ctx |-> currentContext] \in FreshRows(kind, res)
  <2>1. items[i] \in Matching(kind, res, ns)
    BY <1>2
  <2>2. items[i] \in APIObjects /\ items[i].name \in Names /\ items[i].ns \in NamespaceOrNone
    BY <2>1, ObjectAssumption DEF Matching, Names
  <2>3. namespace # NONE => items[i].ns \in {namespace, NONE}
    BY <2>1
  <2> QED BY <1>3, <2>2, <2>3 DEF FreshRows, LastObjects, InScope
<1>5. CASE items = <<>>
  BY <1>1, <1>5 DEF TypeOK
<1>6. CASE items # <<>>
  <2>1. lastObjects' = [i \in 1..n |->
                         [kind |-> kind, res |-> res, name |-> items[i].name,
                          ns |-> items[i].ns, ctx |-> currentContext]]
    BY <1>1, <1>2, <1>6 DEF SetLastObjects
  <2>2. lastObjects' \in [1..n -> FreshRows(kind, res)]
    BY <2>1, <1>4
  <2>3. lastObjects' \in Seq(FreshRows(kind, res)) /\ Len(lastObjects') = n
    BY <2>2, <1>n, SeqDef
  <2> QED BY <1>1, <1>n, <2>3
<1> QED BY <1>5, <1>6

(* Every list command asks the server for the working namespace, or for a  *)
(* type whose objects are in none.                                         *)
LEMMA ListCommands ==
  ASSUME TypeOK, ListCmd
  PROVE  /\ UNCHANGED <<configVars, selection, prompt, status>>
         /\ lastListEmpty' \in BOOLEAN
         /\ Len(lastObjects') =< MaxRows
         /\ \/ lastObjects' = lastObjects
            \/ \E kind \in Kinds, res \in Resources \cup {NONE} :
                 lastObjects' \in Seq(FreshRows(kind, res))
<1> DEFINE Goal ==
      /\ UNCHANGED <<configVars, selection, prompt, status>>
      /\ lastListEmpty' \in BOOLEAN
      /\ Len(lastObjects') =< MaxRows
      /\ \/ lastObjects' = lastObjects
         \/ \E kind \in Kinds, res \in Resources \cup {NONE} :
              lastObjects' \in Seq(FreshRows(kind, res))
<1> SUFFICES Goal
  OBVIOUS
<1>1. ASSUME NEW kind \in Kinds, NEW res \in Resources \cup {NONE},
             NEW ns \in {namespace, NONE},
             \A o \in Matching(kind, res, ns) :
               namespace # NONE => o.ns \in {namespace, NONE},
             List(kind, res, ns)
      PROVE  Goal
  <2>1. UNCHANGED <<configVars, selection, prompt, status>>
    BY <1>1 DEF List
  <2> QED BY <1>1, <2>1, ListAnswer
<1> HIDE DEF Goal
<1>2. ASSUME NEW kind \in Kinds, List(kind, NONE, namespace)
      PROVE  Goal
  <2>1. \A o \in Matching(kind, NONE, namespace) :
          namespace # NONE => o.ns \in {namespace, NONE}
    BY DEF Matching
  <2> QED BY <1>1, <1>2, <2>1
<1>3. ASSUME NEW kind \in ClusterScopedKinds, List(kind, NONE, NONE)
      PROVE  Goal
  <2>1. \A o \in Matching(kind, NONE, NONE) :
          namespace # NONE => o.ns \in {namespace, NONE}
    BY ObjectAssumption DEF Matching
  <2>2. kind \in Kinds
    BY DEF ClusterScopedKinds, Kinds, BuiltinKinds
  <2> QED BY <1>1, <1>3, <2>1, <2>2
<1>4. ASSUME NEW res \in Resources, runCrd(res)
      PROVE  Goal
  <2> DEFINE ns == IF res \in NamespacedResources THEN namespace ELSE NONE
  <2>1. \A o \in Matching("Dynamic", res, ns) :
          namespace # NONE => o.ns \in {namespace, NONE}
    BY ObjectAssumption DEF Matching
  <2>2. "Dynamic" \in Kinds
    BY DEF Kinds
  <2>3. List("Dynamic", res, ns)
    BY <1>4 DEF runCrd
  <2>4. ns \in {namespace, NONE}
    OBVIOUS
  <2> HIDE DEF ns
  <2> QED BY <1>1, <2>1, <2>2, <2>3, <2>4
<1>5. /\ {"Pod", "Deployment", "ReplicaSet", "StatefulSet", "ConfigMap", "Secret",
          "Job", "CronJob", "DaemonSet", "Service"} \subseteq Kinds
      /\ {"Namespace", "Node", "PersistentVolume", "StorageClass"} \subseteq ClusterScopedKinds
  BY DEF Kinds, BuiltinKinds, ClusterScopedKinds
<1>6. CASE \E res \in Resources : runCrd(res)
  BY <1>4, <1>6
<1>7. CASE \/ runPods \/ runDeployments \/ runReplicaSets \/ runStatefulSets
           \/ runConfigMaps \/ runSecrets \/ runJobs \/ runCronJobs
           \/ runDaemonSets \/ runServices
  BY <1>2, <1>5, <1>7
     DEF ListNamespaced, runPods, runDeployments, runReplicaSets, runStatefulSets,
         runConfigMaps, runSecrets, runJobs, runCronJobs, runDaemonSets, runServices
<1>8. CASE runNamespaces \/ runNodes \/ runPersistentVolumes \/ runStorageClasses
  BY <1>3, <1>5, <1>8
     DEF ListClusterScoped, runNamespaces, runNodes, runPersistentVolumes,
         runStorageClasses
<1> QED BY <1>6, <1>7, <1>8 DEF ListCmd

-----------------------------------------------------------------------------
LEMMA InitEstablishes == Init => IInv
<1> SUFFICES ASSUME Init PROVE IInv
  OBVIOUS
<1>1. /\ namespace \in NamespaceOrNone
      /\ currentContext \in ContextOrNone
  <2>1. rawConfig \in Configs
    BY DEF Init
  <2> QED BY <2>1, ConfigEdits DEF Init, HasContext, NamespaceOrNone
<1>2. TypeOK
  <2>1. lastObjects \in Seq(LastObjects) /\ SelectionOK
    BY DEF Init, SelectionOK, NoSelection
  <2>2. Len(lastObjects) =< MaxRows
    BY ObjectAssumption, IntAssumption DEF Init
  <2> QED BY <1>1, <2>1, <2>2 DEF Init, TypeOK
<1>3. SelectionInScope /\ RowsAlike /\ LabelFitsEveryItem
  BY DEF Init, SelectionInScope, RowsAlike, LabelFitsEveryItem, NoSelection
<1>4. NamespaceIsSaved /\ MemoryMatchesDisk /\ PromptTellsTheTruth
  BY DEF Init, NamespaceIsSaved, MemoryMatchesDisk, PromptTellsTheTruth
<1> QED BY <1>2, <1>3, <1>4 DEF IInv

(* Clearing the selection is always sound. *)
LEMMA Cleared ==
  ASSUME ClearSelection
  PROVE  SelectionOK' /\ PromptTellsTheTruth' /\ LabelFitsEveryItem'
BY DEF ClearSelection, rebuildPrompt, NoSelection, SelectionOK, PromptTellsTheTruth,
       LabelFitsEveryItem

(* Selecting some rows of the last list, in any order and number. *)
LEMMA Selected ==
  ASSUME IInv, UNCHANGED <<configVars, lastObjects>>,
         NEW objs \in Seq(LastObjects),
         \A k \in DOMAIN objs : \E j \in DOMAIN lastObjects : objs[k] = lastObjects[j],
         SetRange(objs) \/ (Len(objs) = 1 /\ SetCurrent(objs[1]))
  PROVE  SelectionOK' /\ PromptTellsTheTruth' /\ LabelFitsEveryItem' /\ SelectionInScope'
<1>1. /\ \A k \in DOMAIN objs : InScope(objs[k])
      /\ \A j, k \in DOMAIN objs : objs[j].kind = objs[k].kind /\ objs[j].res = objs[k].res
  BY DEF IInv, SelectionInScope, RowsAlike
<1>2. \A obj : InScope(obj)' <=> InScope(obj)
  BY DEF InScope, configVars
<1>3. CASE SetRange(objs) /\ objs = <<>>
  <2>1. ClearSelection
    BY <1>3 DEF SetRange
  <2>2. selection'.items = <<>>
    BY <2>1 DEF ClearSelection, NoSelection
  <2>3. SelectionInScope'
    BY <1>2, <2>2 DEF SelectionInScope, IInv
  <2> QED BY <2>1, <2>3, Cleared
<1>4. CASE SetRange(objs) /\ objs # <<>>
  <2>1. /\ selection' = [kind |-> "Range", items |-> objs, label |-> Label(objs)]
        /\ rebuildPrompt
    BY <1>4 DEF SetRange
  <2>2. 1 \in DOMAIN objs
    BY <1>4
  <2>3. LabelFitsEveryItem'
    BY <1>1, <2>1, <2>2 DEF LabelFitsEveryItem, Label
  <2>4. SelectionInScope'
    BY <1>1, <1>2, <2>1 DEF SelectionInScope, IInv
  <2>5. SelectionOK' /\ PromptTellsTheTruth'
    BY <1>4, <2>1 DEF SelectionOK, PromptTellsTheTruth, rebuildPrompt
  <2> QED BY <2>3, <2>4, <2>5
<1>5. CASE Len(objs) = 1 /\ SetCurrent(objs[1])
  <2>1. /\ selection' = [kind |-> "Single", items |-> <<objs[1]>>, label |-> NONE]
        /\ rebuildPrompt
    BY <1>5 DEF SetCurrent
  <2>2. 1 \in DOMAIN objs /\ objs[1] \in LastObjects
    BY <1>5
  <2>3. SelectionOK' /\ PromptTellsTheTruth' /\ LabelFitsEveryItem'
    BY <2>1, <2>2 DEF SelectionOK, PromptTellsTheTruth, LabelFitsEveryItem, rebuildPrompt
  <2>4. SelectionInScope'
    BY <1>1, <1>2, <2>1, <2>2 DEF SelectionInScope, IInv
  <2> QED BY <2>3, <2>4
<1> QED BY <1>3, <1>4, <1>5

(* Moving to another scope: the rows and the selection go. *)
LEMMA Moved ==
  ASSUME lastObjects' = <<>>, ClearSelection
  PROVE  /\ SelectionInScope' /\ RowsAlike'
         /\ lastObjects' \in Seq(LastObjects) /\ Len(lastObjects') =< MaxRows
<1>1. Len(lastObjects') =< MaxRows
  BY ObjectAssumption, IntAssumption
<1> QED BY <1>1 DEF ClearSelection, NoSelection, SelectionInScope, RowsAlike

-----------------------------------------------------------------------------
LEMMA ContextStep ==
  ASSUME IInv, NEW name \in Contexts, ContextCmd(name)
  PROVE  IInv'
<1>1. rawConfig \in Configs /\ disk = rawConfig
  BY DEF IInv, TypeOK, MemoryMatchesDisk
<1>2. HasContext(rawConfig, name) /\ SetContext(name) /\ disk' = WithCurrent(disk, name)
  BY <1>1 DEF ContextCmd
<1>3. /\ rawConfig' = WithCurrent(rawConfig, name)
      /\ currentContext' = name
      /\ namespace' = rawConfig.contexts[name]
      /\ lastObjects' = <<>>
      /\ ClearSelection
  BY <1>2 DEF SetContext
<1>4. /\ rawConfig'.contexts = rawConfig.contexts
      /\ rawConfig'.current = name
  BY <1>1, <1>3 DEF WithCurrent, Configs
<1>5. TypeOK'
  <2>1. namespace' \in NamespaceOrNone
    BY <1>1, <1>2, <1>3, ConfigEdits DEF HasContext
  <2>2. rawConfig' \in Configs /\ disk' \in Configs
    BY <1>1, <1>2, <1>3, ConfigEdits DEF ContextOrNone
  <2>3. UNCHANGED <<status, lastListEmpty>>
    BY DEF ContextCmd, Reading
  <2> QED BY <1>3, <2>1, <2>2, <2>3, Cleared, Moved DEF TypeOK, IInv, ContextOrNone
<1>6. NamespaceIsSaved' /\ MemoryMatchesDisk'
  BY <1>1, <1>2, <1>3, <1>4 DEF NamespaceIsSaved, MemoryMatchesDisk
<1> QED BY <1>3, <1>5, <1>6, Cleared, Moved DEF IInv

LEMMA NamespaceStep ==
  ASSUME IInv, NEW ns \in NamespaceOrNone, NamespaceCmd(ns)
  PROVE  IInv'
<1>1. rawConfig \in Configs /\ disk = rawConfig /\ currentContext \in Contexts
  BY DEF IInv, TypeOK, MemoryMatchesDisk, NamespaceCmd, ContextOrNone
<1>2. HasContext(rawConfig, currentContext) /\ SetNamespace(ns)
  BY <1>1 DEF NamespaceCmd
<1>3. /\ rawConfig' = WithNamespace(rawConfig, currentContext, ns)
      /\ disk' = rawConfig'
      /\ currentContext' = currentContext
      /\ namespace' = ns
      /\ lastObjects' = <<>>
      /\ ClearSelection
  BY <1>1, <1>2 DEF SetNamespace, NamespaceCmd
<1>4. rawConfig'.contexts[currentContext] = ns /\ rawConfig'.current = rawConfig.current
  BY <1>1, <1>2, <1>3, ConfigEdits DEF WithNamespace, HasContext, Configs
<1>5. TypeOK'
  <2>1. rawConfig' \in Configs
    BY <1>1, <1>2, <1>3, ConfigEdits
  <2>2. UNCHANGED <<status, lastListEmpty>>
    BY DEF NamespaceCmd, Reading
  <2> QED BY <1>3, <2>1, <2>2, Cleared, Moved DEF TypeOK, IInv
<1>6. NamespaceIsSaved' /\ MemoryMatchesDisk'
  BY <1>3, <1>4 DEF NamespaceIsSaved, MemoryMatchesDisk, IInv
<1> QED BY <1>3, <1>5, <1>6, Cleared, Moved DEF IInv

LEMMA DeleteContextStep ==
  ASSUME IInv, NEW name \in Contexts, DeleteContextCmd(name)
  PROVE  IInv'
<1>1. rawConfig \in Configs /\ disk = rawConfig /\ name # currentContext
  BY DEF IInv, TypeOK, MemoryMatchesDisk, DeleteContextCmd
<1>2. HasContext(rawConfig, name) /\ DeleteContext(name)
  BY <1>1 DEF DeleteContextCmd
<1>3. /\ rawConfig' = WithoutContext(rawConfig, name)
      /\ disk' = rawConfig'
      /\ UNCHANGED <<currentContext, namespace, lastObjects, selection>>
      /\ rebuildPrompt
  BY <1>1, <1>2 DEF DeleteContext, DeleteContextCmd
<1>4. /\ rawConfig'.current = rawConfig.current
      /\ HasContext(rawConfig', currentContext) =>
           /\ HasContext(rawConfig, currentContext)
           /\ rawConfig'.contexts[currentContext] = rawConfig.contexts[currentContext]
  BY <1>1, <1>3 DEF WithoutContext, HasContext, Configs
<1>5. TypeOK'
  <2>1. rawConfig' \in Configs
    BY <1>1, <1>3, ConfigEdits
  <2>2. UNCHANGED <<status, lastListEmpty>>
    BY DEF DeleteContextCmd, Reading
  <2> QED BY <1>3, <2>1, <2>2 DEF TypeOK, SelectionOK, IInv
<1>6. NamespaceIsSaved' /\ MemoryMatchesDisk'
  BY <1>3, <1>4 DEF NamespaceIsSaved, MemoryMatchesDisk, IInv
<1>7. SelectionInScope' /\ RowsAlike' /\ LabelFitsEveryItem' /\ PromptTellsTheTruth'
  BY <1>3 DEF IInv, SelectionInScope, InScope, RowsAlike, LabelFitsEveryItem,
              PromptTellsTheTruth, rebuildPrompt
<1> QED BY <1>5, <1>6, <1>7 DEF IInv

LEMMA ListStep ==
  ASSUME IInv, ListCmd
  PROVE  IInv'
<1>1. /\ UNCHANGED <<configVars, selection, prompt, status>>
      /\ lastListEmpty' \in BOOLEAN
      /\ Len(lastObjects') =< MaxRows
      /\ \/ lastObjects' = lastObjects
         \/ \E kind \in Kinds, res \in Resources \cup {NONE} :
              lastObjects' \in Seq(FreshRows(kind, res))
  BY ListCommands DEF IInv
<1>2. \A obj : InScope(obj)' <=> InScope(obj)
  BY <1>1 DEF InScope, configVars
<1>3. CASE lastObjects' = lastObjects
  <2>1. TypeOK'
    BY <1>1, <1>3 DEF IInv, TypeOK, SelectionOK, configVars
  <2> QED BY <1>1, <1>2, <1>3, <2>1
          DEF IInv, SelectionInScope, NamespaceIsSaved, MemoryMatchesDisk,
              PromptTellsTheTruth, RowsAlike, LabelFitsEveryItem, configVars
<1>4. ASSUME NEW kind \in Kinds, NEW res \in Resources \cup {NONE},
             lastObjects' \in Seq(FreshRows(kind, res))
      PROVE  IInv'
  <2>1. \A i \in DOMAIN lastObjects' : lastObjects'[i] \in FreshRows(kind, res)
    BY <1>4
  <2>2. lastObjects' \in Seq(LastObjects)
    BY <1>4, <2>1, SeqDef DEF FreshRows
  <2>3. RowsAlike'
    BY <2>1 DEF RowsAlike, FreshRows
  <2>4. SelectionInScope'
    BY <1>1, <1>2, <2>1 DEF SelectionInScope, FreshRows, IInv
  <2>5. TypeOK'
    BY <1>1, <2>2 DEF IInv, TypeOK, SelectionOK, configVars
  <2> QED BY <1>1, <2>3, <2>4, <2>5
          DEF IInv, NamespaceIsSaved, MemoryMatchesDisk, PromptTellsTheTruth,
              LabelFitsEveryItem, configVars
<1> QED BY <1>1, <1>3, <1>4

LEMMA SelectStep ==
  ASSUME IInv, Select
  PROVE  IInv'
<1>1. PICK line \in InputLines :
        SelectByIndex(line) \/ SelectSeveral(line) \/ SelectionPanics(line)
  BY DEF Select
<1>2. line \in Lines /\ lastObjects \in Seq(LastObjects)
  BY ObjectAssumption DEF IInv, TypeOK
<1>3. ASSUME UNCHANGED <<configVars, lastObjects, status, lastListEmpty>>,
             SelectionOK', PromptTellsTheTruth', LabelFitsEveryItem', SelectionInScope'
      PROVE  IInv'
  BY <1>3 DEF IInv, TypeOK, NamespaceIsSaved, MemoryMatchesDisk, RowsAlike, configVars
<1>4. CASE SelectByIndex(line)
  <2> DEFINE j    == line.parts[1] + 1
             objs == <<lastObjects[j]>>
  <2>1. j \in DOMAIN lastObjects /\ SetCurrent(lastObjects[j])
    BY <1>2, <1>4 DEF SelectByIndex, HasItem
  <2>2. objs \in Seq(LastObjects) /\ Len(objs) = 1 /\ objs[1] = lastObjects[j]
    BY <1>2, <2>1
  <2>3. \A k \in DOMAIN objs : \E i \in DOMAIN lastObjects : objs[k] = lastObjects[i]
    BY <2>1
  <2>4. UNCHANGED <<configVars, lastObjects, status, lastListEmpty>>
    BY <1>4 DEF SelectByIndex, Reading
  <2> HIDE DEF objs, j
  <2> QED BY <1>3, <2>1, <2>2, <2>3, <2>4, Selected
<1>5. CASE SelectSeveral(line)
  <2> DEFINE parsed == ParsedSelection(line, Len(lastObjects))
  <2>1. parsed.ok /\ SetRange(RowsAt(parsed.indices))
    BY <1>5 DEF SelectSeveral, SetRangeByIndices
  <2>2. UNCHANGED <<configVars, lastObjects, status, lastListEmpty>>
    BY <1>5 DEF SelectSeveral, Reading
  <2>3. Len(lastObjects) \in Nat
    BY <1>2
  <2>4. PICK m \in Nat : parsed.indices \in [1..m -> Int]
    BY <1>2, <2>1, <2>3, ParsedIndices
  <2> HIDE DEF parsed
  <2>5. /\ RowsAt(parsed.indices) \in Seq(LastObjects)
        /\ \A k \in DOMAIN RowsAt(parsed.indices) :
             \E j \in DOMAIN lastObjects : RowsAt(parsed.indices)[k] = lastObjects[j]
    BY <1>2, <2>4, RowsAtType
  <2> QED BY <1>3, <2>1, <2>2, <2>5, Selected
<1>6. CASE SelectionPanics(line)
  BY <1>6 DEF SelectionPanics, IInv, TypeOK, SelectionOK, SelectionInScope, InScope,
              NamespaceIsSaved, MemoryMatchesDisk, PromptTellsTheTruth, RowsAlike,
              LabelFitsEveryItem, configVars
<1> QED BY <1>1, <1>4, <1>5, <1>6

LEMMA StepPreserves == IInv /\ [Next]_vars => IInv'
<1> SUFFICES ASSUME IInv, [Next]_vars PROVE IInv'
  OBVIOUS
<1>1. ASSUME NEW name \in Contexts, ContextCmd(name) PROVE IInv'
  BY <1>1, ContextStep
<1>2. ASSUME NEW name \in Contexts, DeleteContextCmd(name) PROVE IInv'
  BY <1>2, DeleteContextStep
<1>3. ASSUME NEW ns \in NamespaceOrNone, NamespaceCmd(ns) PROVE IInv'
  BY <1>3, NamespaceStep
<1>4. CASE ListCmd
  BY <1>4, ListStep
<1>5. CASE Select
  BY <1>5, SelectStep
<1>6. CASE ClearCmd
  <2>1. /\ UNCHANGED <<configVars, lastObjects, status, lastListEmpty>>
        /\ selection'.items = <<>>
        /\ SelectionOK' /\ PromptTellsTheTruth' /\ LabelFitsEveryItem'
    BY <1>6, Cleared DEF ClearCmd, Reading, ClearSelection, NoSelection
  <2>2. SelectionInScope'
    BY <2>1 DEF SelectionInScope, InScope, IInv, configVars
  <2> QED BY <2>1, <2>2
          DEF IInv, TypeOK, NamespaceIsSaved, MemoryMatchesDisk, RowsAlike, configVars
<1>7. CASE QuitCmd
  BY <1>7 DEF QuitCmd, IInv, TypeOK, SelectionOK, SelectionInScope, InScope,
              NamespaceIsSaved, MemoryMatchesDisk, PromptTellsTheTruth, RowsAlike,
              LabelFitsEveryItem, configVars
<1>8. CASE UNCHANGED vars
  BY <1>8 DEF vars, IInv, TypeOK, SelectionOK, SelectionInScope, InScope,
              NamespaceIsSaved, MemoryMatchesDisk, PromptTellsTheTruth, RowsAlike,
              LabelFitsEveryItem
<1> QED BY <1>1, <1>2, <1>3, <1>4, <1>5, <1>6, <1>7, <1>8 DEF Next

(* The invariant holds in every reachable state. *)
THEOREM Invariant == Spec => []IInv
BY InitEstablishes, StepPreserves, PTL DEF Spec

(* Every field of the REPL's state keeps its type, whatever is typed. *)
THEOREM TypeCorrect == Spec => []TypeOK
<1>1. IInv => TypeOK
  BY DEF IInv
<1> QED BY <1>1, Invariant, PTL

(* No selectable row and no selected object is ever of another cluster or  *)
(* of another namespace than the active ones.                              *)
THEOREM SelectionStaysInScope == Spec => []SelectionInScope
<1>1. IInv => SelectionInScope
  BY DEF IInv
<1> QED BY <1>1, Invariant, PTL

(* Memory and file agree after every command. *)
THEOREM ConfigAgreement == Spec => []MemoryMatchesDisk
<1>1. IInv => MemoryMatchesDisk
  BY DEF IInv
<1> QED BY <1>1, Invariant, PTL

(* The working namespace is always the one that is saved with the current  *)
(* context, so a restart finds it.                                         *)
THEOREM NamespaceIsKept == Spec => []NamespaceIsSaved
<1>1. IInv => NamespaceIsSaved
  BY DEF IInv
<1> QED BY <1>1, Invariant, PTL

(* The prompt always shows the present scope and selection. *)
THEOREM PromptIsCurrent == Spec => []PromptTellsTheTruth
<1>1. IInv => PromptTellsTheTruth
  BY DEF IInv
<1> QED BY <1>1, Invariant, PTL

(* A range's label counts its items and names the type of each. *)
THEOREM LabelIsAccurate == Spec => []LabelFitsEveryItem
<1>1. IInv => LabelFitsEveryItem
  BY DEF IInv
<1> QED BY <1>1, Invariant, PTL

-----------------------------------------------------------------------------
(* What one step does to the scope, by kind of step. *)
LEMMA ScopeSteps ==
  ASSUME IInv, Next
  PROVE  \/ UNCHANGED configVars
         \/ \E name \in Contexts :
              /\ ContextCmd(name)
              /\ HasContext(disk, name)
              /\ rawConfig' = WithCurrent(rawConfig, name)
              /\ disk' = WithCurrent(disk, name)
              /\ currentContext' = name
         \/ \E name \in Contexts :
              /\ DeleteContextCmd(name)
              /\ name # currentContext
              /\ rawConfig' = WithoutContext(rawConfig, name)
              /\ disk' = WithoutContext(disk, name)
              /\ UNCHANGED currentContext
         \/ \E ns \in NamespaceOrNone :
              /\ NamespaceCmd(ns)
              /\ rawConfig' = WithNamespace(rawConfig, currentContext, ns)
              /\ disk' = WithNamespace(disk, currentContext, ns)
              /\ UNCHANGED currentContext
<1>1. disk = rawConfig
  BY DEF IInv, MemoryMatchesDisk
<1>2. ASSUME NEW name \in Contexts, ContextCmd(name)
      PROVE  /\ HasContext(disk, name)
             /\ rawConfig' = WithCurrent(rawConfig, name)
             /\ disk' = WithCurrent(disk, name)
             /\ currentContext' = name
  BY <1>1, <1>2 DEF ContextCmd, SetContext
<1>3. ASSUME NEW name \in Contexts, DeleteContextCmd(name)
      PROVE  /\ name # currentContext
             /\ rawConfig' = WithoutContext(rawConfig, name)
             /\ disk' = WithoutContext(disk, name)
             /\ UNCHANGED currentContext
  BY <1>1, <1>3 DEF DeleteContextCmd, DeleteContext
<1>4. ASSUME NEW ns \in NamespaceOrNone, NamespaceCmd(ns)
      PROVE  /\ rawConfig' = WithNamespace(rawConfig, currentContext, ns)
             /\ disk' = WithNamespace(disk, currentContext, ns)
             /\ UNCHANGED currentContext
  BY <1>1, <1>4 DEF NamespaceCmd, SetNamespace
<1>5. ASSUME ListCmd \/ Select \/ ClearCmd \/ QuitCmd
      PROVE  UNCHANGED configVars
  <2>1. CASE ListCmd
    BY <2>1, ListCommands DEF IInv
  <2>2. CASE Select \/ ClearCmd \/ QuitCmd
    BY <2>2 DEF Select, SelectByIndex, SelectSeveral, SelectionPanics, ClearCmd, QuitCmd
  <2> QED BY <1>5, <2>1, <2>2
<1> QED BY <1>2, <1>3, <1>4, <1>5 DEF Next

LEMMA CurrentContextStep ==
  ASSUME IInv, [Next]_vars, HasContext(rawConfig, currentContext)
  PROVE  HasContext(rawConfig', currentContext') /\ HasContext(disk', disk'.current)
<1>1. IInv'
  BY StepPreserves
<1>2. disk' = rawConfig' /\ disk'.current = currentContext' /\ rawConfig \in Configs
  BY <1>1 DEF IInv, TypeOK, MemoryMatchesDisk
<1>3. SUFFICES HasContext(rawConfig', currentContext')
  BY <1>2
<1>4. CASE UNCHANGED configVars \/ UNCHANGED vars
  BY <1>4 DEF configVars, vars
<1>5. ASSUME NEW name \in Contexts, HasContext(disk, name),
             rawConfig' = WithCurrent(rawConfig, name), currentContext' = name
      PROVE  HasContext(rawConfig', currentContext')
  BY <1>2, <1>5 DEF WithCurrent, HasContext, Configs, IInv, MemoryMatchesDisk
<1>6. ASSUME NEW name \in Contexts, name # currentContext,
             rawConfig' = WithoutContext(rawConfig, name), UNCHANGED currentContext
      PROVE  HasContext(rawConfig', currentContext')
  BY <1>2, <1>6 DEF WithoutContext, HasContext, Configs
<1>7. ASSUME NEW ns \in NamespaceOrNone,
             rawConfig' = WithNamespace(rawConfig, currentContext, ns),
             UNCHANGED currentContext
      PROVE  HasContext(rawConfig', currentContext')
  BY <1>2, <1>7 DEF WithNamespace, HasContext, Configs
<1> QED BY <1>4, <1>5, <1>6, <1>7, ScopeSteps

(* No command deletes the context in use, in memory or on disk. *)
THEOREM CurrentContextIsKept == Spec => CurrentContextSurvives
<1>1. IInv /\ [Next]_vars =>
        [HasContext(rawConfig, currentContext)
           => HasContext(rawConfig', currentContext') /\ HasContext(disk', disk'.current)]_vars
  BY CurrentContextStep
<1> QED BY <1>1, Invariant, PTL DEF Spec, CurrentContextSurvives

LEMMA OtherContextsStep ==
  ASSUME IInv, [Next]_vars,
         NEW c \in DOMAIN disk.contexts \cap DOMAIN disk'.contexts,
         disk'.contexts[c] # disk.contexts[c]
  PROVE  c = currentContext /\ c = currentContext'
<1>1. disk \in Configs /\ disk = rawConfig
  BY DEF IInv, TypeOK, MemoryMatchesDisk
<1>2. ~(UNCHANGED configVars \/ UNCHANGED vars)
  BY DEF configVars, vars
<1>3. ASSUME NEW name \in Contexts, disk' = WithCurrent(disk, name)
      PROVE  FALSE
  BY <1>1, <1>3 DEF WithCurrent, Configs
<1>4. ASSUME NEW name \in Contexts, disk' = WithoutContext(disk, name)
      PROVE  FALSE
  BY <1>1, <1>4 DEF WithoutContext, Configs
<1>5. ASSUME NEW ns \in NamespaceOrNone,
             disk' = WithNamespace(disk, currentContext, ns), UNCHANGED currentContext
      PROVE  c = currentContext /\ c = currentContext'
  <2>1. PICK C \in SUBSET Contexts : disk.contexts \in [C -> NamespaceOrNone]
    BY <1>1 DEF Configs
  <2>2. disk'.contexts = [disk.contexts EXCEPT ![currentContext] = ns]
    BY <1>1, <1>5 DEF WithNamespace, Configs
  <2> QED BY <1>5, <2>1, <2>2
<1> QED BY <1>2, <1>3, <1>4, <1>5, ScopeSteps

(* The file's namespace of a context changes only while it is current. *)
THEOREM OtherContextsAreKept == Spec => OtherContextsKeepTheirNamespace
<1>1. IInv /\ [Next]_vars =>
        [\A c \in DOMAIN disk.contexts \cap DOMAIN disk'.contexts :
           disk'.contexts[c] # disk.contexts[c] => c = currentContext /\ c = currentContext']_vars
  BY OtherContextsStep
<1> QED BY <1>1, Invariant, PTL DEF Spec, OtherContextsKeepTheirNamespace

-----------------------------------------------------------------------------
(* Each step of Env is a step of Workbench or leaves its variables alone.  *)
LEMMA BenchInit == Init => Bench!WInit
<1> SUFFICES ASSUME Init PROVE Bench!WInit
  OBVIOUS
<1>1. namespace \in NamespaceOrNone /\ currentContext \in ContextOrNone
  BY InitEstablishes DEF IInv, TypeOK
<1>2. ItemSet(lastObjects) = {} /\ ItemSet(selection.items) = {}
  BY DEF Init, ItemSet, NoSelection
<1> QED BY <1>1, <1>2 DEF Bench!WInit

LEMMA BenchMove ==
  ASSUME IInv', lastObjects' = <<>>, ClearSelection
  PROVE  Bench!Move
<1>1. namespace' \in NamespaceOrNone /\ currentContext' \in ContextOrNone
  BY DEF IInv, TypeOK
<1>2. ItemSet(lastObjects)' = {} /\ ItemSet(selection.items)' = {}
  BY DEF ItemSet, ClearSelection, NoSelection
<1> QED BY <1>1, <1>2 DEF Bench!Move

LEMMA BenchChoose ==
  ASSUME UNCHANGED <<configVars, lastObjects>>,
         ItemSet(selection.items)' \subseteq ItemSet(lastObjects)
  PROVE  Bench!Choose
BY DEF Bench!Choose, configVars, ItemSet

(* The objects a selection step picks are rows of the last list. *)
LEMMA SelectedRows ==
  ASSUME IInv, Select, status' = "reading"
  PROVE  /\ UNCHANGED <<configVars, lastObjects>>
         /\ ItemSet(selection.items)' \subseteq ItemSet(lastObjects)
<1>1. PICK line \in InputLines : SelectByIndex(line) \/ SelectSeveral(line)
  BY DEF Select, SelectionPanics
<1>2. line \in Lines /\ lastObjects \in Seq(LastObjects) /\ Len(lastObjects) \in Nat
  BY ObjectAssumption DEF IInv, TypeOK
<1>3. UNCHANGED <<configVars, lastObjects>>
  BY <1>1 DEF SelectByIndex, SelectSeveral
<1>4. CASE SelectByIndex(line)
  <2>1. selection'.items = <<lastObjects[line.parts[1] + 1]>>
    BY <1>4 DEF SelectByIndex, SetCurrent
  <2>2. line.parts[1] + 1 \in DOMAIN lastObjects
    BY <1>2, <1>4 DEF SelectByIndex, HasItem
  <2> QED BY <1>3, <2>1, <2>2 DEF ItemSet
<1>5. CASE SelectSeveral(line)
  <2> DEFINE parsed == ParsedSelection(line, Len(lastObjects))
  <2>1. parsed.ok /\ SetRange(RowsAt(parsed.indices))
    BY <1>5 DEF SelectSeveral, SetRangeByIndices
  <2>2. PICK m \in Nat : parsed.indices \in [1..m -> Int]
    BY <1>2, <2>1, ParsedIndices
  <2> HIDE DEF parsed
  <2>3. \A k \in DOMAIN RowsAt(parsed.indices) :
          \E j \in DOMAIN lastObjects : RowsAt(parsed.indices)[k] = lastObjects[j]
    BY <1>2, <2>2, RowsAtType
  <2>4. selection'.items \in {<<>>, RowsAt(parsed.indices)}
    BY <2>1 DEF SetRange, ClearSelection, NoSelection
  <2> QED BY <1>3, <2>3, <2>4 DEF ItemSet
<1> QED BY <1>1, <1>3, <1>4, <1>5

LEMMA BenchStep == IInv /\ [Next]_vars => [Bench!WNext]_(Bench!wvars)
<1> SUFFICES ASSUME IInv, [Next]_vars PROVE [Bench!WNext]_(Bench!wvars)
  OBVIOUS
<1>1. IInv'
  BY StepPreserves
<1>2. ASSUME NEW name \in Contexts, ContextCmd(name) PROVE Bench!Move
  <2>1. HasContext(rawConfig, name)
    BY <1>2 DEF ContextCmd, IInv, MemoryMatchesDisk
  <2>2. lastObjects' = <<>> /\ ClearSelection
    BY <1>2, <2>1 DEF ContextCmd, SetContext
  <2> QED BY <1>1, <2>2, BenchMove
<1>3. ASSUME NEW ns \in NamespaceOrNone, NamespaceCmd(ns) PROVE Bench!Move
  <2>1. lastObjects' = <<>> /\ ClearSelection
    BY <1>3 DEF NamespaceCmd, SetNamespace
  <2> QED BY <1>1, <2>1, BenchMove
<1>4. ASSUME NEW name \in Contexts, DeleteContextCmd(name) PROVE UNCHANGED Bench!wvars
  BY <1>4 DEF DeleteContextCmd, DeleteContext, Bench!wvars, ItemSet
<1>5. CASE ListCmd
  <2>1. /\ UNCHANGED <<currentContext, namespace, selection>>
        /\ \/ lastObjects' = lastObjects
           \/ \E kind \in Kinds, res \in Resources \cup {NONE} :
                lastObjects' \in Seq(FreshRows(kind, res))
    BY <1>5, ListCommands DEF IInv, configVars
  <2>2. CASE lastObjects' = lastObjects
    BY <2>1, <2>2 DEF Bench!wvars, ItemSet
  <2>3. ASSUME NEW kind \in Kinds, NEW res \in Resources \cup {NONE},
               lastObjects' \in Seq(FreshRows(kind, res))
        PROVE  Bench!Offer
    <3>1. \A i \in DOMAIN lastObjects' : lastObjects'[i] \in FreshRows(kind, res)
      BY <2>3
    <3>2. ItemSet(lastObjects)' \subseteq
            ScopeReach([ctx |-> currentContext, ns |-> namespace]) \cap LastObjects
      BY <3>1 DEF ItemSet, FreshRows, ScopeReach, InScope
    <3>3. UNCHANGED <<[ctx |-> currentContext, ns |-> namespace], ItemSet(selection.items)>>
      BY <2>1 DEF ItemSet
    <3> QED BY <3>2, <3>3 DEF Bench!Offer
  <2> QED BY <2>1, <2>2, <2>3 DEF Bench!WNext
<1>6. CASE Select
  <2>1. CASE status' = "reading"
    BY <1>6, <2>1, SelectedRows, BenchChoose DEF Bench!WNext
  <2>2. CASE status' # "reading"
    <3>1. UNCHANGED <<configVars, lastObjects, selection>>
      BY <1>6, <2>2 DEF Select, SelectByIndex, SelectSeveral, SelectionPanics, Reading
    <3> QED BY <3>1 DEF Bench!wvars, configVars, ItemSet
  <2> QED BY <2>1, <2>2
<1>7. CASE ClearCmd
  <2>1. /\ UNCHANGED <<configVars, lastObjects>>
        /\ ItemSet(selection.items)' \subseteq ItemSet(lastObjects)
    BY <1>7 DEF ClearCmd, ClearSelection, NoSelection, ItemSet
  <2> QED BY <2>1, BenchChoose DEF Bench!WNext
<1>8. CASE QuitCmd
  BY <1>8 DEF QuitCmd, configVars, Bench!wvars, ItemSet
<1>9. CASE UNCHANGED vars
  BY <1>9 DEF vars, Bench!wvars, ItemSet
<1> QED BY <1>2, <1>3, <1>4, <1>5, <1>6, <1>7, <1>8, <1>9 DEF Next, Bench!WNext

(* The REPL implements the abstract workbench: objects are chosen only     *)
(* among those the present scope has offered.                              *)
THEOREM EnvImplementsWorkbench == Spec => ImplementsWorkbench
BY BenchInit, BenchStep, Invariant, PTL DEF Spec, ImplementsWorkbench, Bench!WSpec

-----------------------------------------------------------------------------
(* What a typed line selects. *)
LEMMA SelectedItems ==
  ASSUME TypeOK, NEW line, SelectSeveral(line),
         NEW n \in Nat, NEW first \in Nat,
         CountsUp(ParsedSelection(line, Len(lastObjects)), first, n),
         first + n =< Len(lastObjects) \/ n = 0
  PROVE  selection'.items = [k \in 1..n |-> lastObjects[first + k]]
<1> DEFINE indices == ParsedSelection(line, Len(lastObjects)).indices
<1>1. SetRange(RowsAt(indices))
  BY DEF SelectSeveral, SetRangeByIndices
<1>2. Len(lastObjects) \in Nat
  BY DEF TypeOK
<1>3. indices \in [1..n -> Int] /\ \A k \in 1..n : indices[k] = first + k - 1
  BY DEF CountsUp
<1> HIDE DEF indices
<1>4. \A k \in 1..n : HasItem(indices[k])
  BY <1>2, <1>3 DEF HasItem
<1>5. FoundIndices(indices) = 1..n
  BY <1>3, <1>4 DEF FoundIndices
<1>6. \A k \in 1..n : indices[k] + 1 = first + k
  BY <1>3
<1>7. RowsAt(indices) = [k \in 1..n |-> lastObjects[first + k]]
  BY <1>5, <1>6 DEF RowsAt
<1>8. selection'.items = RowsAt(indices)
  BY <1>1 DEF SetRange, ClearSelection, NoSelection
<1> QED BY <1>7, <1>8

LEMMA RangeSelects ==
  ASSUME TypeOK, NEW line \in Lines, line.form = "range", Fits(line)
  PROVE  /\ SelectSeveral(line) => Means(line, selection'.items)
         /\ ~SelectionPanics(line)
<1> DEFINE len   == Len(lastObjects)
           first == FirstRow(line)
           last  == LastRow(line, len)
           count == IF first > last THEN 0 ELSE last - first + 1
<1>1. len \in Nat /\ len =< MaxAlloc
  BY ObjectAssumption, IntAssumption DEF TypeOK
<1>2. /\ ~line.eq /\ line.start \in 0..MaxInt \cup {Blank}
      /\ line.end \in 0..MaxInt-1 \cup {Blank}
  BY DEF Fits
<1>3. /\ first \in Nat /\ last \in Int
      /\ CountsUp(ParsedSelection(line, len), first, count)
  <2> HIDE DEF len
  <2> QED BY <1>1, <1>2, RangeMeaning DEF ParsedSelection
<1>4. RowsBetween(line) = first..last
  <2>1. ASSUME NEW i \in Int
        PROVE  i \in RowsBetween(line) <=> first =< i /\ i =< last
    BY <1>1, <1>2, TokenAssumption, IntAssumption DEF RowsBetween, FirstRow, LastRow
  <2>2. RowsBetween(line) \subseteq Int
    BY <1>1 DEF RowsBetween
  <2> DEFINE rows == RowsBetween(line)
  <2> HIDE DEF first, last, rows
  <2>3. \A i \in first..last : i \in Int /\ first =< i /\ i =< last
    BY <1>3
  <2>4. \A i \in Int : first =< i /\ i =< last => i \in first..last
    BY <1>3
  <2>5. rows \subseteq first..last /\ first..last \subseteq rows
    <3>1. \A i \in rows : i \in first..last
      BY <2>1, <2>2, <2>4, Zenon DEF rows
    <3>2. \A i \in first..last : i \in rows
      BY <2>1, <2>3, Zenon DEF rows
    <3> QED BY <3>1, <3>2
  <2> QED BY <2>5 DEF rows
<1>5. last =< len - 1
  BY <1>1, <1>2, TokenAssumption, IntAssumption DEF LastRow
<1> HIDE DEF first, last, len
<1>6. Cardinality(RowsBetween(line)) = count
  BY <1>3, <1>4, FS_Interval
<1>7. count \in Nat /\ (first + count =< len \/ count = 0)
  BY <1>1, <1>3, <1>5
<1>8. ~SelectionPanics(line)
  BY <1>3 DEF SelectionPanics, CountsUp, len
<1>9. ASSUME SelectSeveral(line)
      PROVE  Means(line, selection'.items)
  <2> HIDE DEF count
  <2>1. selection'.items = [k \in 1..count |-> lastObjects[first + k]]
    BY <1>3, <1>7, <1>9, SelectedItems DEF len
  <2> QED BY <1>6, <2>1 DEF Means, first, FirstRow
<1> QED BY <1>8, <1>9

LEMMA ListSelects ==
  ASSUME TypeOK, NEW line \in Lines, line.form = "list", Fits(line)
  PROVE  /\ SelectSeveral(line) => Means(line, selection'.items)
         /\ ~SelectionPanics(line)
<1> DEFINE indices == ParsedSelection(line, Len(lastObjects)).indices
<1>1. /\ ~ParsedSelection(line, Len(lastObjects)).panics
      /\ indices = [k \in DOMAIN line.parts |-> line.parts[k]]
  BY CSLMeaning DEF Fits, ParsedSelection
<1>2. ~SelectionPanics(line)
  BY <1>1 DEF SelectionPanics
<1>3. ASSUME SelectSeveral(line), \A k \in DOMAIN line.parts : HasItem(line.parts[k])
      PROVE  selection'.items = [k \in DOMAIN line.parts |-> lastObjects[line.parts[k] + 1]]
  <2>1. SetRange(RowsAt(indices))
    BY <1>3 DEF SelectSeveral, SetRangeByIndices
  <2> HIDE DEF indices
  <2>2. DOMAIN line.parts = 1..Len(line.parts) /\ Len(line.parts) \in Nat
    BY DEF Lines
  <2>3. FoundIndices(indices) = DOMAIN line.parts
    BY <1>1, <1>3, <2>2 DEF FoundIndices
  <2>4. RowsAt(indices) = [k \in DOMAIN line.parts |-> lastObjects[line.parts[k] + 1]]
    BY <1>1, <2>3 DEF RowsAt
  <2>5. selection'.items = RowsAt(indices)
    BY <2>1 DEF SetRange, ClearSelection, NoSelection
  <2> QED BY <2>4, <2>5
<1> QED BY <1>2, <1>3 DEF Means

(* Whatever the width of int and the length of the last list: a range of   *)
(* ints selects exactly the rows it names, a list of existing rows those   *)
(* rows, and neither brings krepl down.                                    *)
THEOREM LinesAreObeyed == Spec => LinesSelectWhatTheySay
<1> DEFINE Obeyed == \A line \in InputLines :
                       Fits(line) => /\ SelectSeveral(line) => Means(line, selection'.items)
                                     /\ ~SelectionPanics(line)
<1>1. IInv => Obeyed
  <2> SUFFICES ASSUME IInv, NEW line \in InputLines, Fits(line)
               PROVE  /\ SelectSeveral(line) => Means(line, selection'.items)
                      /\ ~SelectionPanics(line)
    OBVIOUS
  <2>1. TypeOK /\ line \in Lines /\ line.form \in {"range", "list"}
    BY ObjectAssumption DEF IInv, Lines
  <2> QED BY <2>1, RangeSelects, ListSelects
<1> HIDE DEF Obeyed
<1>2. Spec => [][Obeyed]_vars
  BY <1>1, Invariant, PTL
<1> QED BY <1>2 DEF Obeyed, LinesSelectWhatTheySay

-----------------------------------------------------------------------------
(* What Delete and NodeMaintenance take for granted of a selection they    *)
(* start with (LoopInit of ApplyToSelection, and Init of the two).         *)
SelectionFitsTheLoop ==
  selection.kind # "None" =>
    /\ selection.kind \in {"Single", "Range"}
    /\ Len(selection.items) \in Nat \ {0}
    /\ selection.kind = "Single" => Len(selection.items) = 1
    /\ \A i, j \in DOMAIN selection.items :
         selection.items[i].kind = selection.items[j].kind

(* Whatever the user typed to get it, the selection that a command is run  *)
(* on has an item, one only if it is of a single object, and is of objects *)
(* of one kind (env.go:430-458 looks at the kind of the selection only).   *)
THEOREM SelectionsFitTheLoop == Spec => []SelectionFitsTheLoop
<1>1. IInv => SelectionFitsTheLoop
  <2> SUFFICES ASSUME IInv, selection.kind # "None" PROVE SelectionFitsTheLoop
    BY DEF SelectionFitsTheLoop
  <2>1. /\ selection.kind \in {"Single", "Range"}
        /\ selection.items \in Seq(LastObjects) /\ selection.items # <<>>
        /\ selection.kind = "Single" => Len(selection.items) = 1
    BY DEF IInv, TypeOK, SelectionOK
  <2>2. Len(selection.items) \in Nat \ {0}
    BY <2>1
  <2>3. ASSUME NEW i \in DOMAIN selection.items, NEW j \in DOMAIN selection.items
        PROVE  selection.items[i].kind = selection.items[j].kind
    <3>1. CASE selection.kind = "Single"
      BY <2>1, <3>1
    <3>2. CASE selection.kind = "Range"
      BY <3>2 DEF IInv, LabelFitsEveryItem
    <3> QED BY <2>1, <3>1, <3>2
  <2> QED BY <2>1, <2>2, <2>3 DEF SelectionFitsTheLoop
<1> QED BY <1>1, Invariant, PTL

=============================================================================
