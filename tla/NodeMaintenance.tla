--------------------------- MODULE NodeMaintenance ---------------------------
(***************************************************************************)
(* cordon, uncordon and drain on a selection of nodes.  drain cordons a    *)
(* node, lists its pods, and unless one of them stands in the way of what  *)
(* the flags allow asks for the eviction of each and waits until all are   *)
(* gone; each node has 30 seconds.  Requests may be refused, answered late *)
(* or not at all, and carried out when nobody waits any more.  Meanwhile   *)
(* pods are scheduled, and others cordon and uncordon nodes.               *)
(***************************************************************************)
EXTENDS ApplyToSelection, FiniteSets

CONSTANTS
  Pods,       (* the pods there may be: traits and node *)
  MaxPods,    (* bound: how many of them come to be in one behaviour *)
  Requests    (* bound: the commands, with flags, that the user may give *)

(* What the drain looks at: whether a pod is of a DaemonSet; static, so    *)
(* that the API server has a mirror of it; has local data; is of no        *)
(* controller; has finished by the time the pods are listed.  A pod whose  *)
(* DaemonSet is gone counts as bare.                                       *)
PodTraits == {"daemonSet", "static", "emptyDir", "bare", "finished"}

Flags    == {"ignore-daemonsets", "delete-emptydir-data", "force",
             "disable-eviction", "dry-run"}

ASSUME NodeAssumption ==
  /\ IsFiniteSet(Pods) /\ MaxPods \in Nat
  /\ \A p \in Pods : /\ p.traits \subseteq PodTraits /\ p.node \in Objects
                     /\ ~({"daemonSet", "static"} \subseteq p.traits)
  /\ Requests \subseteq [op : {"cordon", "uncordon"}, flags : {{}}]
                        \cup [op : {"drain"}, flags : SUBSET Flags]

VARIABLES
  command,     (* what the user has asked for *)
  node,        (* each node: "open" to new pods, or "cordoned" *)
  pod,         (* each pod: "unborn", "present" or "gone" *)
  patches,     (* the nodes for which a patch is under way *)
  evictions,   (* the pods for which an eviction or deletion is under way *)
  reply,       (* to the patch the command waits for: "none" if not yet *)
  work,        (* the drainer's progress with each pod of its list *)
  wanted,      (* history: positions at which the node was as wanted while *)
               (* the command was at it *)
  meddled,     (* history: have others touched the node's state meanwhile? *)
  agreed,      (* history: the pods whose eviction the flags and the list *)
               (* of their node allow *)
  drained      (* history: nodes that were drained with nobody meddling *)

clusterVars == <<node, pod, patches, evictions, reply>>
historyVars == <<wanted, meddled, agreed, drained>>
vars == <<loopVars, command, clusterVars, work, historyVars>>

NodePhases == {"getting", "patching", "listing", "evicting"}

Working == phase \in NodePhases

Flag(f) == f \in command.flags

WantedState == IF command.op = "uncordon" THEN "open" ELSE "cordoned"

PodsOn(n) == {p \in Pods : p.node = n /\ pod[p] = "present"}

(* Pods that no drain is meant to leave, and that no cordoned node gets    *)
(* from the scheduler.                                                     *)
Ordinary(p) == p.traits \cap {"daemonSet", "static"} = {}

-----------------------------------------------------------------------------
(* The filters of kubectl's drain, in its order: DaemonSets, mirror pods,  *)
(* local data, controllers.  The first that keeps a pod decides; all but   *)
(* the one for mirror pods let a finished pod pass.                        *)
Skipped(p) ==
  \/ "daemonSet" \in p.traits /\ "finished" \notin p.traits /\ Flag("ignore-daemonsets")
  \/ "static" \in p.traits

Blocking(p) ==
  /\ ~Skipped(p) /\ "finished" \notin p.traits
  /\ \/ "daemonSet" \in p.traits
     \/ "emptyDir" \in p.traits /\ ~Flag("delete-emptydir-data")
     \/ "bare" \in p.traits     /\ ~Flag("force")

NoWork == [p \in Pods |-> "none"]

(* A bound: pods only where a drain may come, and MaxPods of them. *)
Init ==
  /\ LoopInit("getting")
  /\ command \in Requests
  /\ node \in [Objects -> {"open", "cordoned"}]
  /\ pod \in [Pods -> {"unborn", "present", "gone"}]
  /\ \A p \in Pods : pod[p] # "gone" =>
       command.op = "drain" /\ \E k \in DOMAIN items : items[k] = p.node
  /\ Cardinality({p \in Pods : pod[p] # "gone"}) <= MaxPods
  /\ patches = {} /\ evictions = {} /\ reply = "none"
  /\ work = NoWork
  /\ wanted = {} /\ meddled = FALSE /\ agreed = {} /\ drained = {}

Enter(next) ==
  /\ phase' = next
  /\ UNCHANGED <<kind, items, pos, continueAll, results, answered>>

NodeReturns(result) ==
  /\ FnReturns(result)
  /\ work' = NoWork

(* The history of a step that takes the nodes to state'. *)
Observe(state) ==
  wanted' = IF Working /\ state[items[pos]] = WantedState
              THEN wanted \cup {pos} ELSE wanted

-----------------------------------------------------------------------------
(* The node is fetched, unless Timeout ends it here.  A dry run goes on to *)
(* the pods; a node that is as wanted needs no patch.                      *)
GetNode ==
  /\ phase = "getting"
  /\ Observe(node)
  /\ reply' = "none"
  /\ meddled' = FALSE
  /\ \/ /\ command.op = "drain"
        /\ Flag("dry-run") \/ node[items[pos]] = WantedState
        /\ Enter("listing")
        /\ UNCHANGED <<patches, work>>
     \/ /\ command.op # "drain"
        /\ node[items[pos]] = WantedState
        /\ NodeReturns("ok")
        /\ UNCHANGED patches
     \/ /\ ~(command.op = "drain" /\ Flag("dry-run"))
        /\ node[items[pos]] # WantedState
        /\ Enter("patching")
        /\ patches' = patches \cup {items[pos]}
        /\ UNCHANGED work
  /\ UNCHANGED <<command, node, pod, evictions, agreed, drained>>

(* Slip: the error of the patch is dropped. *)
ReceivePatch_IgnoresRefusal ==
  /\ phase = "patching"
  /\ reply # "none"
  /\ IF command.op = "drain"
       THEN Enter("listing") /\ UNCHANGED work
       ELSE NodeReturns("ok")
  /\ UNCHANGED <<command, clusterVars, historyVars>>

ReceivePatch ==
  /\ phase = "patching"
  /\ \/ reply = "refused" /\ NodeReturns("error")
     \/ reply = "done" /\ command.op # "drain" /\ NodeReturns("ok")
     \/ reply = "done" /\ command.op = "drain" /\ Enter("listing") /\ UNCHANGED work
  /\ UNCHANGED <<command, clusterVars, historyVars>>

(* Slip: pods in the way are skipped, and the others evicted. *)
ListPods_SkipsBlocking ==
  LET here == PodsOn(items[pos]) IN
  /\ phase = "listing"
  /\ IF Flag("dry-run")
       THEN NodeReturns("ok") /\ UNCHANGED agreed
       ELSE /\ Enter("evicting")
            /\ work' = [p \in Pods |-> IF p \in here /\ ~Skipped(p) /\ ~Blocking(p)
                                         THEN "todo" ELSE "none"]
            /\ agreed' = IF \E p \in here : Blocking(p) THEN agreed
                         ELSE agreed \cup {p \in here : ~Skipped(p)}
  /\ UNCHANGED <<command, clusterVars, wanted, meddled, drained>>

(* One pod in the way fails the node; a dry run ends here.  (drainNode-    *)
(* WithClient and, inside RunNodeDrain, GetPodsForDeletion.)               *)
ListPods ==
  LET here == PodsOn(items[pos]) IN
  /\ phase = "listing"
  /\ \/ (\E p \in here : Blocking(p)) /\ NodeReturns("error") /\ UNCHANGED agreed
     \/ /\ \A p \in here : ~Blocking(p)
        /\ IF Flag("dry-run")
             THEN NodeReturns("ok") /\ UNCHANGED agreed
             ELSE /\ Enter("evicting")
                  /\ work' = [p \in Pods |->
                                IF p \in here /\ ~Skipped(p) THEN "todo" ELSE "none"]
                  /\ agreed' = agreed \cup {p \in here : ~Skipped(p)}
  /\ UNCHANGED <<command, clusterVars, wanted, meddled, drained>>

-----------------------------------------------------------------------------
(* Evictions are asked for side by side; with --disable-eviction pods are  *)
(* deleted one after the other, and the first error ends the drain.        *)
AskEviction(p) ==
  /\ phase = "evicting"
  /\ work[p] = "todo"
  /\ Flag("disable-eviction") => \A q \in Pods : work[q] \notin {"asked", "failed"}
  /\ work' = [work EXCEPT ![p] = "asked"]
  /\ evictions' = evictions \cup {p}
  /\ UNCHANGED <<loopVars, command, node, pod, patches, reply, historyVars>>

(* The answer of the server, as far as the drainer still waits for it. *)
Answered(p, progress) ==
  work' = IF work[p] = "asked" THEN [work EXCEPT ![p] = progress] ELSE work

SeeGone(p) ==
  /\ phase = "evicting"
  /\ work[p] = "accepted"
  /\ pod[p] = "gone"
  /\ work' = [work EXCEPT ![p] = "gone"]
  /\ UNCHANGED <<loopVars, command, clusterVars, historyVars>>

(* Slip: the drain does not wait for the pods to be gone. *)
DrainReturns_NoWait ==
  /\ phase = "evicting"
  /\ \A p \in Pods : work[p] \in {"none", "accepted", "gone"}
  /\ NodeReturns("ok")
  /\ drained' = IF meddled THEN drained ELSE drained \cup {items[pos]}
  /\ UNCHANGED <<command, clusterVars, wanted, meddled, agreed>>

DrainReturns ==
  /\ phase = "evicting"
  /\ \/ /\ \A p \in Pods : work[p] \in {"none", "gone"}
        /\ NodeReturns("ok")
        /\ drained' = IF meddled THEN drained ELSE drained \cup {items[pos]}
     \/ /\ \E p \in Pods : work[p] = "failed"
        /\ ~Flag("disable-eviction") =>
             \A p \in Pods : work[p] \in {"none", "gone", "failed"}
        /\ NodeReturns("error")
        /\ UNCHANGED drained
  /\ UNCHANGED <<command, clusterVars, wanted, meddled, agreed>>

(* Slip: there is no deadline. *)
Timeout_Never == FALSE /\ UNCHANGED vars

(* The 30 seconds are over, at whatever the command is doing, or a request *)
(* fails: no client, no such node, no list; those sent stay under way.     *)
Timeout ==
  /\ Working
  /\ NodeReturns("error")
  /\ UNCHANGED <<command, clusterVars, historyVars>>

-----------------------------------------------------------------------------
(* The API server carries out a patch, or refuses it, or it is lost. *)
ServerPatches(n) ==
  /\ n \in patches
  /\ patches' = patches \ {n}
  /\ LET Reply(r) == reply' = IF phase = "patching" /\ n = items[pos] THEN r ELSE reply
     IN \/ /\ node' = [node EXCEPT ![n] = WantedState]
           /\ Reply("done")
           /\ Observe(node')
        \/ /\ \E r \in {"refused", "none"} : Reply(r)
           /\ UNCHANGED <<node, wanted>>
  /\ UNCHANGED <<loopVars, command, pod, evictions, work, meddled, agreed, drained>>

(* It accepts an eviction; finds no such pod; refuses for good; or, to     *)
(* respect a disruption budget, for now, and the drainer tries again.      *)
ServerEvicts(p) ==
  /\ p \in evictions
  /\ evictions' = evictions \ {p}
  /\ \/ pod[p] # "gone" /\ Answered(p, "accepted")
     \/ pod[p] = "gone" /\ Answered(p, "gone")
     \/ Answered(p, "failed")
     \/ ~Flag("disable-eviction") /\ Answered(p, "todo")
  /\ UNCHANGED <<loopVars, command, node, pod, patches, reply, historyVars>>

(* Others put pods on a node, or uncordon it, and with that it is theirs.  *)
Meddle(n) ==
  /\ meddled' = (meddled \/ n = items[pos])
  /\ drained' = drained \ {n}

(* Pods come, DaemonSet and static pods to any node, the others to open    *)
(* ones by the scheduler and past the cordon if they tolerate it or are    *)
(* bound to the node by others.                                            *)
PodComes(p) ==
  /\ pod[p] = "unborn"
  /\ pod' = [pod EXCEPT ![p] = "present"]
  /\ IF Ordinary(p) /\ node[p.node] = "cordoned"
       THEN Meddle(p.node) ELSE UNCHANGED <<meddled, drained>>
  /\ UNCHANGED <<loopVars, command, node, patches, evictions, reply, work, wanted, agreed>>

(* They go when they were evicted, or of themselves. *)
PodGoes(p) ==
  /\ pod[p] = "present"
  /\ pod' = [pod EXCEPT ![p] = "gone"]
  /\ UNCHANGED <<loopVars, command, node, patches, evictions, reply, work, historyVars>>

(* Others cordon or uncordon a node. *)
OthersChange(n) ==
  /\ node' \in {[node EXCEPT ![n] = s] : s \in {"open", "cordoned"}}
  /\ Meddle(n)
  /\ Observe(node')
  /\ UNCHANGED <<loopVars, command, pod, patches, evictions, reply, work, agreed>>

Loop ==
  /\ \/ HandleResult
     \/ \E answer \in {"once", "all", "no"} : AnswerContinue(answer)
     \/ NextItem("getting")
  /\ UNCHANGED <<command, clusterVars, work, historyVars>>

(* The cluster is followed only while the command runs, and what it has to *)
(* do with: a bound.  The end of krepl by Ctrl-C is left out.              *)
Next ==
  \/ GetNode \/ ReceivePatch \/ ListPods \/ DrainReturns \/ Timeout
  \/ \E p \in Pods : AskEviction(p) \/ SeeGone(p)
  \/ Loop
  \/ /\ ~Ended
     /\ \/ \E k \in DOMAIN items : ServerPatches(items[k]) \/ OthersChange(items[k])
        \/ \E p \in Pods : ServerEvicts(p) \/ PodComes(p) \/ PodGoes(p)

Spec == Init /\ [][Next]_vars

(* The command runs on by itself, with its deadline, and the user answers  *)
(* what it asks; nothing is assumed of the cluster.                        *)
FairSpec == Spec /\ WF_vars(Timeout) /\ WF_vars(Loop)

-----------------------------------------------------------------------------
(* Type invariant of the commands and of the cluster. *)
TypeOK ==
  /\ kind \in {"Single", "Range"}
  /\ items \in Seq(Objects) /\ Len(items) \in 1..MaxItems
  /\ pos \in 1..Len(items)
  /\ phase \in NodePhases \cup LoopPhases
  /\ continueAll \in BOOLEAN
  /\ results \in Seq({"ok", "error"}) /\ Len(results) \in pos-1..pos
  /\ answered \in {"none", "once", "all"}
  /\ command \in Requests
  /\ node \in [Objects -> {"open", "cordoned"}]
  /\ pod \in [Pods -> {"unborn", "present", "gone"}]
  /\ patches \subseteq Objects /\ evictions \subseteq Pods
  /\ reply \in {"none", "done", "refused"}
  /\ work \in [Pods -> {"none", "todo", "asked", "accepted", "gone", "failed"}]
  /\ wanted \subseteq 1..MaxItems /\ meddled \in BOOLEAN
  /\ agreed \subseteq Pods /\ drained \subseteq Objects

(* Nothing is asked of the cluster that the command and its flags do not   *)
(* allow: no eviction except of pods of the selected nodes, and none on a  *)
(* node where one pod is in the way; only selected nodes are patched; a    *)
(* dry run changes nothing.                                                *)
AsksOnlyAsAgreed ==
  /\ evictions \subseteq agreed
  /\ \A p \in agreed :
       /\ command.op = "drain" /\ ~Skipped(p) /\ ~Blocking(p)
       /\ \E k \in 1..pos : items[k] = p.node
  /\ \A n \in patches : \E k \in 1..pos : items[k] = n
  /\ Flag("dry-run") => patches = {} /\ evictions = {}

(* Of the pods of a node, those krepl set out to evict. *)
AllGone(n) == \A p \in agreed : p.node = n => pod[p] = "gone"

(* A node of which "cordoned" or "uncordoned" was said has been so at some *)
(* moment while the command was at it, though others may have changed it   *)
(* since.  One of which "drained" was said has been cordoned in the same   *)
(* sense, and all the pods that krepl set out to evict from it are gone,   *)
(* also those of a try before that failed; of pods which others brought    *)
(* there after the list it says nothing (node_maintenance.go:134-141).     *)
ReportedStateWasReached ==
  ~Flag("dry-run") =>
    \A k \in DOMAIN results : results[k] = "ok" =>
      /\ k \in wanted
      /\ (\A j \in (k + 1)..pos : items[j] # items[k]) => AllGone(items[k])

(* A node that was drained, and that nobody else has touched meanwhile or  *)
(* since, holds no pods but those the drain leaves alone: of DaemonSets,   *)
(* and the static ones, as a node of the control plane has.                *)
DrainedNodesAreEmpty ==
  \A n \in drained : \A p \in PodsOn(n) : ~Ordinary(p)

(* The command ends, however long evictions are refused.                   *)
NodeCommandEnds == <>Ended

=============================================================================
