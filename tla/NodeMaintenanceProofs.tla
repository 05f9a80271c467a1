----------------------- MODULE NodeMaintenanceProofs -----------------------
(***************************************************************************)
(* cordon, uncordon and drain for any nodes, pods, flags and selections:   *)
(* what is asked of the cluster, what is said of it, and that a drained    *)
(* node is empty, by one inductive invariant; and that the loop implements *)
(* ForEach around them as well.  That the command ends is model-checked,   *)
(* under fairness; what is proved of it is that no step of its own can be  *)
(* taken forever.                                                          *)
(***************************************************************************)
EXTENDS NodeMaintenance, TLAPS

(* Where the loop is, by phase. *)
LoopOK ==
  /\ Working => Len(results) = pos - 1
  /\ phase \in {"returned", "continuing", "next", "finished", "failed"} =>
       Len(results) = pos
  /\ phase \in {"continuing", "failed"} => results[pos] = "error" /\ ~continueAll
  /\ kind = "Single" => ~continueAll /\ phase # "continuing"
  /\ phase = "finished" => pos = Len(items)

(* The drainer works on agreed pods only, and only where it may. *)
AskOK ==
  /\ AsksOnlyAsAgreed
  /\ phase \in {"listing", "evicting"} => command.op = "drain"
  /\ phase \in {"patching", "evicting"} => ~Flag("dry-run")
  /\ \A p \in Pods : work[p] # "none" => p \in agreed

(* What the drainer knows of the pods is so, and it waits for all of those *)
(* it has ever set out to evict from the node and that are still there.    *)
PodsOK ==
  /\ \A p \in agreed : pod[p] # "unborn"
  /\ \A p \in Pods : work[p] = "gone" => pod[p] = "gone"
  /\ phase = "evicting" =>
       \A p \in agreed : p.node = items[pos] /\ pod[p] # "gone" => work[p] # "none"

(* Once the command is past the patch the node has been as wanted. *)
ReachedOK ==
  /\ ReportedStateWasReached
  /\ phase = "patching" /\ reply = "done" => pos \in wanted
  /\ phase \in {"listing", "evicting"} /\ ~Flag("dry-run") => pos \in wanted

(* From the cordon on, as long as nobody meddles, no ordinary pod comes to *)
(* the node, and each that is there is one the drainer still waits for.    *)
CordonHolds ==
  ~meddled /\ command.op = "drain" /\ ~Flag("dry-run") =>
    /\ phase \in {"listing", "evicting"} => node[items[pos]] = "cordoned"
    /\ phase = "patching" /\ reply = "done" => node[items[pos]] = "cordoned"

NoneForgotten ==
  phase = "evicting" /\ ~meddled =>
    \A p \in PodsOn(items[pos]) :
      Ordinary(p) => work[p] \notin {"none", "gone"}

DrainOK ==
  /\ DrainedNodesAreEmpty
  /\ \A n \in drained : node[n] = "cordoned" /\ command.op = "drain"
  /\ CordonHolds
  /\ NoneForgotten

(* The inductive invariant. *)
IInv ==
  /\ TypeOK
  /\ LoopOK
  /\ AskOK
  /\ PodsOK
  /\ ReachedOK
  /\ DrainOK

LEMMA InitEstablishes == Init => IInv
<1> SUFFICES ASSUME Init PROVE IInv
  OBVIOUS
<1>1. PICK n \in 1..MaxItems : items \in [1..n -> Objects]
  BY DEF Init, LoopInit
<1>2. items \in Seq(Objects) /\ Len(items) = n /\ n \in Nat /\ 1 =< n
  BY <1>1, ApplyAssumption
<1>3. results = <<>> /\ results \in Seq({"ok", "error"}) /\ Len(results) = 0
      /\ DOMAIN results = {}
  BY DEF Init, LoopInit
<1>4. /\ kind \in {"Single", "Range"} /\ pos = 1 /\ phase = "getting"
      /\ continueAll = FALSE /\ answered = "none"
  BY DEF Init, LoopInit
<1>5. TypeOK
  <2>1. Len(items) \in 1..MaxItems /\ pos \in 1..Len(items) /\ Len(results) \in pos-1..pos
    BY <1>1, <1>2, <1>3, <1>4
  <2>2. pod \in [Pods -> {"unborn", "present", "gone"}]
    BY DEF Init
  <2>3. /\ command \in Requests /\ node \in [Objects -> {"open", "cordoned"}]
        /\ patches = {} /\ evictions = {} /\ reply = "none"
        /\ wanted = {} /\ meddled = FALSE /\ agreed = {} /\ drained = {}
    BY DEF Init
  <2>4. work \in [Pods -> {"none", "todo", "asked", "accepted", "gone", "failed"}]
    BY DEF Init, NoWork
  <2> QED BY <1>2, <1>3, <1>4, <2>1, <2>2, <2>3, <2>4 DEF TypeOK, NodePhases
<1>6. LoopOK
  BY <1>3, <1>4 DEF LoopOK, Working, NodePhases
<1>7. AskOK
  BY <1>4 DEF Init, AskOK, AsksOnlyAsAgreed, NoWork
<1>8. ReachedOK
  BY <1>3, <1>4 DEF ReachedOK, ReportedStateWasReached, AllGone
<1>9. DrainOK
  BY <1>4 DEF Init, DrainOK, DrainedNodesAreEmpty, CordonHolds, NoneForgotten
<1>10. PodsOK
  BY <1>4 DEF Init, PodsOK, NoWork
<1> QED BY <1>5, <1>6, <1>7, <1>8, <1>9, <1>10 DEF IInv

-----------------------------------------------------------------------------
(* What the definitions say of one command: only drain has flags.          *)
LEMMA OnlyDrainHasFlags ==
  ASSUME TypeOK, command.op # "drain"
  PROVE  ~Flag("dry-run")
BY NodeAssumption DEF TypeOK, Flag

LEMMA OthersEvictNothing ==
  ASSUME AskOK, command.op # "drain"
  PROVE  \A n : AllGone(n)
BY DEF AskOK, AsksOnlyAsAgreed, AllGone

(* The command's function returns for the present node. *)
LEMMA ReturnedResults ==
  ASSUME TypeOK, LoopOK, Working, NEW r \in {"ok", "error"}, NodeReturns(r)
  PROVE  /\ results' \in Seq({"ok", "error"}) /\ Len(results') = pos
         /\ results'[pos] = r
         /\ DOMAIN results' = DOMAIN results \cup {pos}
         /\ \A k \in DOMAIN results : k # pos /\ results'[k] = results[k]
         /\ UNCHANGED <<kind, items, pos, continueAll>>
         /\ phase' = "returned" /\ answered' \in {"none", "once", "all"}
         /\ work' = NoWork
<1>1. results \in Seq({"ok", "error"}) /\ Len(results) = pos - 1 /\ pos \in Nat \ {0}
  BY DEF TypeOK, LoopOK
<1>2. results' = Append(results, r) /\ answered' \in {"none", "once", "all"}
  BY DEF NodeReturns, FnReturns
<1>3. DOMAIN results = 1..(pos - 1) /\ DOMAIN results' = 1..pos
  BY <1>1, <1>2
<1>4. \A k \in DOMAIN results : k # pos /\ results'[k] = results[k]
  BY <1>1, <1>2, <1>3
<1>5. DOMAIN results' = DOMAIN results \cup {pos}
  BY <1>1, <1>3
<1> QED BY <1>1, <1>2, <1>4, <1>5 DEF NodeReturns, FnReturns

LEMMA ReturnKeepsLoop ==
  ASSUME TypeOK, LoopOK, Working, NEW r \in {"ok", "error"}, NodeReturns(r)
  PROVE  LoopOK'
BY ReturnedResults DEF LoopOK, Working, NodePhases

(* It returns "ok" only when the node has been as wanted and the pods it   *)
(* set out to evict are gone, and leaves the requests and the pods alone.  *)
LEMMA ReturnKeeps ==
  ASSUME IInv, Working, NEW r \in {"ok", "error"}, NodeReturns(r),
         UNCHANGED <<command, node, pod, patches, evictions, agreed>>,
         reply' \in {"none", "done", "refused"}, meddled' \in BOOLEAN,
         wanted \subseteq wanted', wanted' \subseteq 1..MaxItems,
         r = "ok" /\ ~Flag("dry-run") => pos \in wanted' /\ AllGone(items[pos]),
         drained \subseteq drained', drained' \subseteq drained \cup {items[pos]},
         drained' # drained =>
           /\ node[items[pos]] = "cordoned" /\ command.op = "drain"
           /\ \A p \in PodsOn(items[pos]) : ~Ordinary(p)
  PROVE  IInv'
<1>1. TypeOK /\ LoopOK /\ AskOK /\ PodsOK /\ ReachedOK /\ DrainOK
  BY DEF IInv
<1>2. /\ results' \in Seq({"ok", "error"}) /\ Len(results') = pos
      /\ results'[pos] = r
      /\ DOMAIN results' = DOMAIN results \cup {pos}
      /\ \A k \in DOMAIN results : k # pos /\ results'[k] = results[k]
      /\ UNCHANGED <<kind, items, pos, continueAll>>
      /\ phase' = "returned" /\ answered' \in {"none", "once", "all"}
      /\ work' = NoWork
  BY <1>1, ReturnedResults
<1>3. items[pos] \in Objects /\ pos \in Nat
  BY <1>1 DEF TypeOK
<1>4. TypeOK'
  <2>1. work' \in [Pods -> {"none", "todo", "asked", "accepted", "gone", "failed"}]
    BY <1>2 DEF NoWork
  <2>2. drained' \subseteq Objects
    BY <1>1, <1>3 DEF TypeOK
  <2>3. Len(results') \in pos'-1..pos'
    BY <1>2, <1>3
  <2> QED BY <1>1, <1>2, <2>1, <2>2, <2>3 DEF TypeOK, LoopPhases
<1>5. LoopOK'
  BY <1>1, ReturnKeepsLoop
<1>6. AskOK'
  <2>1. AsksOnlyAsAgreed'
    BY <1>1, <1>2 DEF AskOK, AsksOnlyAsAgreed, Flag, Skipped, Blocking
  <2>2. \A p \in Pods : work'[p] = "none"
    BY <1>2 DEF NoWork
  <2> QED BY <1>2, <2>1, <2>2 DEF AskOK
<1>7. ReachedOK'
  <2>1. ASSUME ~Flag("dry-run"), NEW k \in DOMAIN results', results'[k] = "ok"
        PROVE  /\ k \in wanted'
               /\ (\A j \in (k + 1)..pos : items[j] # items[k]) => AllGone(items[k])
    <3>1. CASE k = pos
      BY <1>2, <2>1, <3>1
    <3>2. CASE k # pos
      BY <1>1, <1>2, <2>1, <3>2 DEF ReachedOK, ReportedStateWasReached
    <3> QED BY <3>1, <3>2
  <2>2. ReportedStateWasReached'
    BY <1>2, <2>1 DEF ReportedStateWasReached, AllGone, Flag
  <2> QED BY <1>2, <2>2 DEF ReachedOK
<1>8. DrainOK'
  BY <1>1, <1>2 DEF DrainOK, DrainedNodesAreEmpty, CordonHolds, NoneForgotten, PodsOn, Ordinary
<1>9. PodsOK'
  BY <1>1, <1>2 DEF PodsOK, NoWork
<1> QED BY <1>4, <1>5, <1>6, <1>7, <1>8, <1>9 DEF IInv

(* The command goes on with the present node. *)
LEMMA EnterKeepsLoop ==
  ASSUME TypeOK, LoopOK, Working, NEW next \in NodePhases, Enter(next)
  PROVE  LoopOK'
BY DEF Enter, LoopOK, Working, NodePhases

LEMMA GetNodeStep == IInv /\ GetNode => IInv'
<1> SUFFICES ASSUME IInv, GetNode PROVE IInv'
  OBVIOUS
<1>1. /\ TypeOK /\ LoopOK /\ AskOK /\ PodsOK /\ ReachedOK /\ DrainOK
      /\ phase = "getting" /\ Working
  BY DEF IInv, GetNode, Working, NodePhases
<1>2. /\ reply' = "none" /\ meddled' = FALSE
      /\ UNCHANGED <<command, node, pod, evictions, agreed, drained>>
      /\ wanted' = IF node[items[pos]] = WantedState THEN wanted \cup {pos} ELSE wanted
  BY <1>1 DEF GetNode, Observe
<1>3. pos \in 1..MaxItems /\ pos \in 1..Len(items) /\ items[pos] \in Objects
      /\ wanted \subseteq wanted' /\ wanted' \subseteq 1..MaxItems
  <2>1. pos \in 1..MaxItems /\ pos \in 1..Len(items) /\ items[pos] \in Objects
    BY <1>1, ApplyAssumption DEF TypeOK
  <2>2. wanted \subseteq 1..MaxItems
    BY <1>1 DEF TypeOK
  <2> QED BY <1>2, <2>1, <2>2
<1>4. CASE /\ command.op = "drain" /\ (Flag("dry-run") \/ node[items[pos]] = WantedState)
           /\ Enter("listing") /\ UNCHANGED <<patches, work>>
  <2>1. phase' = "listing" /\ UNCHANGED <<kind, items, pos, continueAll, results, answered>>
    BY <1>4 DEF Enter
  <2>2. TypeOK'
    BY <1>1, <1>2, <1>3, <1>4, <2>1 DEF TypeOK, NodePhases
  <2>3. LoopOK'
    BY <1>1, <1>4, EnterKeepsLoop DEF NodePhases
  <2>4. AskOK'
    BY <1>1, <1>2, <1>4, <2>1 DEF AskOK, AsksOnlyAsAgreed, Flag, Skipped, Blocking
  <2>5. ReachedOK'
    BY <1>1, <1>2, <1>4, <2>1 DEF ReachedOK, ReportedStateWasReached, AllGone, Flag
  <2>6. DrainOK'
    BY <1>1, <1>2, <1>4, <2>1
       DEF DrainOK, DrainedNodesAreEmpty, CordonHolds, NoneForgotten, PodsOn, Ordinary, Ordinary, WantedState, Flag
  <2>7. PodsOK'
    BY <1>1, <1>2, <1>4, <2>1 DEF PodsOK
  <2> QED BY <2>2, <2>3, <2>4, <2>5, <2>6, <2>7 DEF IInv
<1>5. CASE /\ command.op # "drain" /\ node[items[pos]] = WantedState /\ NodeReturns("ok") /\ UNCHANGED patches
  <2>1. pos \in wanted' /\ AllGone(items[pos])
    BY <1>1, <1>2, <1>5, OthersEvictNothing
  <2> QED BY <1>1, <1>2, <1>3, <1>5, <2>1, ReturnKeeps
<1>6. CASE /\ ~(command.op = "drain" /\ Flag("dry-run"))
           /\ Enter("patching") /\ patches' = patches \cup {items[pos]} /\ UNCHANGED work
  <2>1. phase' = "patching" /\ UNCHANGED <<kind, items, pos, continueAll, results, answered>>
    BY <1>6 DEF Enter
  <2>2. ~Flag("dry-run")
    BY <1>1, <1>6, OnlyDrainHasFlags
  <2>3. TypeOK'
    BY <1>1, <1>2, <1>3, <1>6, <2>1 DEF TypeOK, NodePhases
  <2>4. LoopOK'
    BY <1>1, <1>6, EnterKeepsLoop DEF NodePhases
  <2>5. AskOK'
    <3>1. \A n \in patches' : \E k \in 1..pos : items[k] = n
      BY <1>1, <1>3, <1>6 DEF AskOK, AsksOnlyAsAgreed
    <3> QED BY <1>1, <1>2, <1>6, <2>1, <2>2, <3>1
            DEF AskOK, AsksOnlyAsAgreed, Flag, Skipped, Blocking
  <2>6. ReachedOK'
    BY <1>1, <1>2, <2>1 DEF ReachedOK, ReportedStateWasReached, AllGone, Flag
  <2>7. DrainOK'
    BY <1>1, <1>2, <2>1
       DEF DrainOK, DrainedNodesAreEmpty, CordonHolds, NoneForgotten, PodsOn, Ordinary
  <2>8. PodsOK'
    BY <1>1, <1>2, <1>6, <2>1 DEF PodsOK
  <2> QED BY <2>3, <2>4, <2>5, <2>6, <2>7, <2>8 DEF IInv
<1> QED BY <1>4, <1>5, <1>6 DEF GetNode

LEMMA ReceivePatchStep == IInv /\ ReceivePatch => IInv'
<1> SUFFICES ASSUME IInv, ReceivePatch PROVE IInv'
  OBVIOUS
<1>1. /\ TypeOK /\ LoopOK /\ AskOK /\ PodsOK /\ ReachedOK /\ DrainOK
      /\ phase = "patching" /\ Working
      /\ UNCHANGED <<command, node, pod, patches, evictions, reply>>
      /\ UNCHANGED <<wanted, meddled, agreed, drained>>
  BY DEF IInv, ReceivePatch, Working, NodePhases, clusterVars, historyVars
<1>2. ASSUME NEW r \in {"ok", "error"}, NodeReturns(r),
             r = "ok" => reply = "done" /\ command.op # "drain"
      PROVE  IInv'
  <2>1. r = "ok" => pos \in wanted' /\ AllGone(items[pos])
    BY <1>1, <1>2, OthersEvictNothing DEF ReachedOK
  <2>2. reply' \in {"none", "done", "refused"} /\ meddled' \in BOOLEAN
        /\ wanted' \subseteq 1..MaxItems
    BY <1>1 DEF TypeOK
  <2> QED BY <1>1, <1>2, <2>1, <2>2, ReturnKeeps
<1>3. CASE reply = "done" /\ command.op = "drain" /\ Enter("listing") /\ UNCHANGED work
  <2>1. phase' = "listing" /\ UNCHANGED <<kind, items, pos, continueAll, results, answered>>
    BY <1>3 DEF Enter
  <2>2. TypeOK'
    BY <1>1, <1>3, <2>1 DEF TypeOK, NodePhases
  <2>3. LoopOK'
    BY <1>1, <1>3, EnterKeepsLoop DEF NodePhases
  <2>4. AskOK'
    BY <1>1, <1>3, <2>1 DEF AskOK, AsksOnlyAsAgreed, Flag, Skipped, Blocking
  <2>5. ReachedOK'
    BY <1>1, <1>3, <2>1 DEF ReachedOK, ReportedStateWasReached, AllGone, Flag
  <2>6. DrainOK'
    BY <1>1, <1>3, <2>1
       DEF DrainOK, DrainedNodesAreEmpty, CordonHolds, NoneForgotten, PodsOn, Ordinary, Flag
  <2>7. PodsOK'
    BY <1>1, <1>3, <2>1 DEF PodsOK
  <2> QED BY <2>2, <2>3, <2>4, <2>5, <2>6, <2>7 DEF IInv
<1> QED BY <1>2, <1>3 DEF ReceivePatch

LEMMA ListPodsStep == IInv /\ ListPods => IInv'
<1> SUFFICES ASSUME IInv, ListPods PROVE IInv'
  OBVIOUS
<1> DEFINE here == PodsOn(items[pos])
<1>1. /\ TypeOK /\ LoopOK /\ AskOK /\ PodsOK /\ ReachedOK /\ DrainOK
      /\ phase = "listing" /\ Working
      /\ UNCHANGED <<command, node, pod, patches, evictions, reply>>
      /\ UNCHANGED <<wanted, meddled, drained>>
  BY DEF IInv, ListPods, Working, NodePhases, clusterVars
<1>2. reply' \in {"none", "done", "refused"} /\ meddled' \in BOOLEAN
      /\ wanted' \subseteq 1..MaxItems
  BY <1>1 DEF TypeOK
<1>3. CASE NodeReturns("error") /\ UNCHANGED agreed
  BY <1>1, <1>2, <1>3, ReturnKeeps
<1>4. CASE Flag("dry-run") /\ NodeReturns("ok") /\ UNCHANGED agreed
  BY <1>1, <1>2, <1>4, ReturnKeeps
<1>5. CASE /\ \A p \in here : ~Blocking(p)
           /\ ~Flag("dry-run")
           /\ Enter("evicting")
           /\ work' = [p \in Pods |-> IF p \in here /\ ~Skipped(p) THEN "todo" ELSE "none"]
           /\ agreed' = agreed \cup {p \in here : ~Skipped(p)}
  <2>1. phase' = "evicting" /\ UNCHANGED <<kind, items, pos, continueAll, results, answered>>
    BY <1>5 DEF Enter
  <2>2. here \subseteq Pods /\ \A p \in here : p.node = items[pos]
    BY DEF PodsOn
  <2>3. TypeOK'
    <3>1. agreed' \subseteq Pods
      BY <1>1, <1>5, <2>2 DEF TypeOK
    <3>2. work' \in [Pods -> {"none", "todo", "asked", "accepted", "gone", "failed"}]
      BY <1>5
    <3> QED BY <1>1, <2>1, <3>1, <3>2 DEF TypeOK, NodePhases
  <2>4. LoopOK'
    BY <1>1, <1>5, EnterKeepsLoop DEF NodePhases
  <2>5. AskOK'
    <3>1. command.op = "drain" /\ pos \in 1..pos
      BY <1>1 DEF AskOK, TypeOK
    <3>2. \A p \in agreed' : /\ ~Skipped(p) /\ ~Blocking(p)
                             /\ \E k \in 1..pos : items[k] = p.node
      BY <1>1, <1>5, <2>2, <3>1 DEF AskOK, AsksOnlyAsAgreed
    <3>3. AsksOnlyAsAgreed'
      BY <1>1, <1>5, <2>1, <3>1, <3>2 DEF AskOK, AsksOnlyAsAgreed, Flag, Skipped, Blocking
    <3>4. \A p \in Pods : work'[p] # "none" => p \in agreed'
      BY <1>5
    <3> QED BY <1>1, <1>5, <2>1, <3>1, <3>3, <3>4 DEF AskOK, Flag
  <2>6. ReachedOK'
    <3>1. \A k \in DOMAIN results : k + 1 =< pos /\ k \in Nat
      BY <1>1 DEF LoopOK, TypeOK
    <3>2. \A k \in DOMAIN results :
            (\A j \in (k + 1)..pos : items[j] # items[k]) => items[k] # items[pos]
      BY <1>1, <3>1 DEF TypeOK
    <3>3. ASSUME NEW n, n # items[pos], AllGone(n) PROVE AllGone(n)'
      BY <1>1, <1>5, <2>2, <3>3 DEF AllGone
    <3>4. ReportedStateWasReached'
      BY <1>1, <2>1, <3>2, <3>3 DEF ReachedOK, ReportedStateWasReached, Flag
    <3> QED BY <1>1, <2>1, <3>4 DEF ReachedOK, Flag
  <2>7. DrainOK'
    <3>1. NoneForgotten'
      <4> SUFFICES ASSUME NEW p \in PodsOn(items[pos])', Ordinary(p)
                   PROVE  work'[p] \notin {"none", "gone"}
        BY <2>1 DEF NoneForgotten
      <4>1. p \in Pods /\ p \in here
        BY <1>1, <2>1 DEF PodsOn
      <4>2. ~Skipped(p)
        BY DEF Skipped, Ordinary
      <4> QED BY <1>5, <4>1, <4>2
    <3>2. DrainedNodesAreEmpty' /\ \A n \in drained' : node'[n] = "cordoned" /\ command'.op = "drain"
      BY <1>1 DEF DrainOK, DrainedNodesAreEmpty, PodsOn
    <3>3. CordonHolds'
      BY <1>1, <2>1 DEF DrainOK, CordonHolds, Flag
    <3> QED BY <3>1, <3>2, <3>3 DEF DrainOK
  <2>8. PodsOK'
    <3>1. \A p \in agreed' : pod[p] # "unborn"
      BY <1>1, <1>5 DEF PodsOK, PodsOn
    <3>2. \A p \in Pods : work'[p] # "gone"
      BY <1>5
    <3>3. ASSUME NEW p \in agreed', p.node = items[pos], pod[p] # "gone"
          PROVE  work'[p] # "none"
      <4>1. p \in Pods /\ ~Skipped(p)
        BY <1>1, <1>5, <2>2 DEF TypeOK, AskOK, AsksOnlyAsAgreed
      <4>2. p \in here
        BY <1>1, <3>1, <3>3, <4>1 DEF TypeOK, PodsOn
      <4> QED BY <1>5, <4>1, <4>2
    <3> QED BY <1>1, <2>1, <3>1, <3>2, <3>3 DEF PodsOK
  <2> QED BY <2>3, <2>4, <2>5, <2>6, <2>7, <2>8 DEF IInv
<1> QED BY <1>3, <1>4, <1>5 DEF ListPods

-----------------------------------------------------------------------------
(* The drainer and what it is told. *)
LEMMA AskEvictionStep ==
  ASSUME IInv, NEW p \in Pods, AskEviction(p)
  PROVE  IInv'
<1>1. /\ TypeOK /\ LoopOK /\ AskOK /\ PodsOK /\ ReachedOK /\ DrainOK
      /\ phase = "evicting" /\ work[p] = "todo"
      /\ work' = [work EXCEPT ![p] = "asked"] /\ evictions' = evictions \cup {p}
      /\ UNCHANGED <<kind, items, pos, phase, continueAll, results, answered>>
      /\ UNCHANGED <<command, node, pod, patches, reply>>
      /\ UNCHANGED <<wanted, meddled, agreed, drained>>
  BY DEF IInv, AskEviction, loopVars, historyVars
<1>2. \A q \in Pods : work'[q] = IF q = p THEN "asked" ELSE work[q]
  BY <1>1 DEF TypeOK
<1>3. TypeOK'
  BY <1>1, <1>2 DEF TypeOK
<1>4. LoopOK'
  BY <1>1 DEF LoopOK, Working
<1>5. p \in agreed /\ ~Flag("dry-run")
  BY <1>1 DEF AskOK
<1>6. AskOK'
  BY <1>1, <1>2, <1>5 DEF AskOK, AsksOnlyAsAgreed, Flag, Skipped, Blocking
<1>7. ReachedOK'
  BY <1>1 DEF ReachedOK, ReportedStateWasReached, AllGone, Flag
<1>8. DrainOK'
  BY <1>1, <1>2 DEF DrainOK, DrainedNodesAreEmpty, CordonHolds, NoneForgotten, PodsOn, Ordinary, Flag
<1>9. PodsOK'
  BY <1>1, <1>2 DEF PodsOK
<1> QED BY <1>3, <1>4, <1>6, <1>7, <1>8, <1>9 DEF IInv

LEMMA SeeGoneStep ==
  ASSUME IInv, NEW p \in Pods, SeeGone(p)
  PROVE  IInv'
<1>1. /\ TypeOK /\ LoopOK /\ AskOK /\ PodsOK /\ ReachedOK /\ DrainOK
      /\ pod[p] = "gone" /\ work[p] = "accepted"
      /\ work' = [work EXCEPT ![p] = "gone"]
      /\ UNCHANGED <<kind, items, pos, phase, continueAll, results, answered>>
      /\ UNCHANGED <<command, node, pod, patches, evictions, reply>>
      /\ UNCHANGED <<wanted, meddled, agreed, drained>>
  BY DEF IInv, SeeGone, loopVars, clusterVars, historyVars
<1>2. \A q \in Pods : work'[q] = IF q = p THEN "gone" ELSE work[q]
  BY <1>1 DEF TypeOK
<1>3. TypeOK'
  BY <1>1, <1>2 DEF TypeOK
<1>4. LoopOK' /\ ReachedOK'
  BY <1>1 DEF LoopOK, Working, ReachedOK, ReportedStateWasReached, AllGone, Flag
<1>5. AskOK'
  BY <1>1, <1>2 DEF AskOK, AsksOnlyAsAgreed, Flag, Skipped, Blocking
<1>6. DrainOK'
  BY <1>1, <1>2 DEF DrainOK, DrainedNodesAreEmpty, CordonHolds, NoneForgotten, PodsOn, Ordinary, Flag
<1>7. PodsOK'
  BY <1>1, <1>2 DEF PodsOK, TypeOK
<1> QED BY <1>3, <1>4, <1>5, <1>6, <1>7 DEF IInv

LEMMA ServerEvictsStep ==
  ASSUME IInv, NEW p \in Pods, ServerEvicts(p)
  PROVE  IInv'
<1>1. /\ TypeOK /\ LoopOK /\ AskOK /\ PodsOK /\ ReachedOK /\ DrainOK
      /\ evictions' \subseteq evictions
      /\ UNCHANGED <<kind, items, pos, phase, continueAll, results, answered>>
      /\ UNCHANGED <<command, node, pod, patches, reply>>
      /\ UNCHANGED <<wanted, meddled, agreed, drained>>
  BY DEF IInv, ServerEvicts, loopVars, historyVars
<1>2. PICK progress \in {"accepted", "failed", "gone", "todo"} :
        /\ work' = IF work[p] = "asked" THEN [work EXCEPT ![p] = progress] ELSE work
        /\ progress = "gone" => pod[p] = "gone"
  BY DEF ServerEvicts, Answered
<1>3. /\ \A q \in Pods : q # p => work'[q] = work[q]
      /\ \/ work'[p] = work[p]
         \/ work[p] = "asked" /\ work'[p] = progress
  BY <1>1, <1>2 DEF TypeOK
<1>4. TypeOK'
  <2>1. work' \in [Pods -> {"none", "todo", "asked", "accepted", "gone", "failed"}]
    BY <1>1, <1>2 DEF TypeOK
  <2> QED BY <1>1, <2>1 DEF TypeOK
<1>5. LoopOK' /\ ReachedOK'
  BY <1>1 DEF LoopOK, Working, ReachedOK, ReportedStateWasReached, AllGone, Flag
<1>6. AskOK'
  BY <1>1, <1>3 DEF AskOK, AsksOnlyAsAgreed, Flag, Skipped, Blocking
<1>7. PodsOK'
  BY <1>1, <1>2, <1>3 DEF PodsOK, TypeOK
<1>8. DrainOK'
  <2>1. NoneForgotten'
    <3> SUFFICES ASSUME phase = "evicting", ~meddled,
                        NEW q \in PodsOn(items[pos]), Ordinary(q)
                 PROVE  work'[q] \notin {"none", "gone"}
      BY <1>1 DEF NoneForgotten, PodsOn
    <3>1. work[q] \notin {"none", "gone"} /\ q \in Pods /\ pod[q] # "gone"
      BY <1>1 DEF DrainOK, NoneForgotten, PodsOn
    <3> QED BY <1>2, <1>3, <3>1
  <2>2. DrainedNodesAreEmpty' /\ \A n \in drained' : node'[n] = "cordoned" /\ command'.op = "drain"
    BY <1>1 DEF DrainOK, DrainedNodesAreEmpty, PodsOn
  <2>3. CordonHolds'
    BY <1>1 DEF DrainOK, CordonHolds, Flag
  <2> QED BY <2>1, <2>2, <2>3 DEF DrainOK
<1> QED BY <1>4, <1>5, <1>6, <1>7, <1>8 DEF IInv

LEMMA DrainReturnsStep == IInv /\ DrainReturns => IInv'
<1> SUFFICES ASSUME IInv, DrainReturns PROVE IInv'
  OBVIOUS
<1>1. /\ TypeOK /\ LoopOK /\ AskOK /\ PodsOK /\ ReachedOK /\ DrainOK
      /\ phase = "evicting" /\ Working
      /\ UNCHANGED <<command, node, pod, patches, evictions, reply>>
      /\ UNCHANGED <<wanted, meddled, agreed>>
  BY DEF IInv, DrainReturns, Working, NodePhases, clusterVars
<1>2. /\ reply' \in {"none", "done", "refused"} /\ meddled' \in BOOLEAN
      /\ wanted' \subseteq 1..MaxItems /\ ~Flag("dry-run") /\ command.op = "drain"
      /\ pos \in wanted'
  BY <1>1 DEF TypeOK, AskOK, ReachedOK
<1>3. CASE NodeReturns("error") /\ UNCHANGED drained
  BY <1>1, <1>2, <1>3, ReturnKeeps
<1>4. CASE /\ \A p \in Pods : work[p] \in {"none", "gone"}
           /\ NodeReturns("ok")
           /\ drained' = IF meddled THEN drained ELSE drained \cup {items[pos]}
  <2>1. ~meddled => /\ node[items[pos]] = "cordoned"
                    /\ \A p \in PodsOn(items[pos]) : ~Ordinary(p)
    BY <1>1, <1>2, <1>4 DEF DrainOK, CordonHolds, NoneForgotten, PodsOn
  <2>2. /\ drained \subseteq drained' /\ drained' \subseteq drained \cup {items[pos]}
        /\ drained' # drained => ~meddled
    BY <1>4
  <2>3. AllGone(items[pos])
    BY <1>1, <1>4 DEF AllGone, PodsOK, TypeOK
  <2> QED BY <1>1, <1>2, <1>4, <2>1, <2>2, <2>3, ReturnKeeps
<1> QED BY <1>3, <1>4 DEF DrainReturns

LEMMA TimeoutStep == IInv /\ Timeout => IInv'
<1> SUFFICES ASSUME IInv, Timeout PROVE IInv'
  OBVIOUS
<1>1. /\ TypeOK /\ Working /\ NodeReturns("error")
      /\ UNCHANGED <<command, node, pod, patches, evictions, reply>>
      /\ UNCHANGED <<wanted, meddled, agreed, drained>>
  BY DEF IInv, Timeout, clusterVars, historyVars
<1>2. reply' \in {"none", "done", "refused"} /\ meddled' \in BOOLEAN
      /\ wanted' \subseteq 1..MaxItems
  BY <1>1 DEF TypeOK
<1> QED BY <1>1, <1>2, ReturnKeeps

-----------------------------------------------------------------------------
(* The nodes. *)
LEMMA ServerPatchesStep ==
  ASSUME IInv, NEW n \in Objects, ServerPatches(n)
  PROVE  IInv'
<1>1. /\ TypeOK /\ LoopOK /\ AskOK /\ PodsOK /\ ReachedOK /\ DrainOK
      /\ patches' \subseteq patches
      /\ UNCHANGED <<kind, items, pos, phase, continueAll, results, answered>>
      /\ UNCHANGED <<command, pod, evictions, work, meddled, agreed, drained>>
  BY DEF IInv, ServerPatches, loopVars
<1>2. pos \in 1..MaxItems /\ items[pos] \in Objects
  BY <1>1, ApplyAssumption DEF TypeOK
<1>3. /\ reply' \in {"none", "done", "refused"}
      /\ reply' # reply => phase = "patching"
      /\ phase = "patching" /\ reply' = "done" =>
           \/ reply = "done"
           \/ /\ n = items[pos] /\ node' = [node EXCEPT ![n] = WantedState]
              /\ wanted' = IF Working /\ node'[items[pos]] = WantedState
                             THEN wanted \cup {pos} ELSE wanted
  BY <1>1 DEF ServerPatches, Observe, TypeOK
<1>4. \/ node' = node /\ wanted' = wanted
      \/ /\ node' = [node EXCEPT ![n] = WantedState]
         /\ wanted' = IF Working /\ node'[items[pos]] = WantedState
                        THEN wanted \cup {pos} ELSE wanted
  BY DEF ServerPatches, Observe
<1>5. /\ node' \in [Objects -> {"open", "cordoned"}]
      /\ \A m \in Objects : node'[m] = node[m] \/ node'[m] = WantedState
      /\ node' = [node EXCEPT ![n] = WantedState] => node'[n] = WantedState
  BY <1>1, <1>4 DEF TypeOK, WantedState
<1>6. wanted \subseteq wanted' /\ wanted' \subseteq 1..MaxItems
  BY <1>1, <1>2, <1>4 DEF TypeOK
<1>7. TypeOK'
  BY <1>1, <1>3, <1>5, <1>6 DEF TypeOK
<1>8. LoopOK'
  BY <1>1 DEF LoopOK, Working
<1>9. AskOK'
  BY <1>1 DEF AskOK, AsksOnlyAsAgreed, Flag, Skipped, Blocking
<1>10. ReachedOK'
  <2>1. phase = "patching" /\ reply' = "done" => pos \in wanted'
    <3>1. CASE phase = "patching" /\ reply = "done"
      BY <1>1, <1>6, <3>1 DEF ReachedOK
    <3>2. CASE /\ phase = "patching" /\ n = items[pos]
               /\ node' = [node EXCEPT ![n] = WantedState]
               /\ wanted' = IF Working /\ node'[items[pos]] = WantedState
                              THEN wanted \cup {pos} ELSE wanted
      <4>1. Working /\ node'[items[pos]] = WantedState
        BY <1>5, <3>2 DEF Working, NodePhases
      <4> QED BY <3>2, <4>1
    <3> QED BY <1>3, <3>1, <3>2
  <2> QED BY <1>1, <1>6, <2>1 DEF ReachedOK, ReportedStateWasReached, AllGone, Flag
<1>11. DrainOK'
  <2>1. \A m \in Objects : command.op = "drain" /\ node[m] = "cordoned" => node'[m] = "cordoned"
    BY <1>5 DEF WantedState
  <2>2. \A m \in drained' : node'[m] = "cordoned" /\ command'.op = "drain"
    BY <1>1, <2>1 DEF DrainOK, TypeOK
  <2>3. CordonHolds'
    <3>1. n = items[pos] /\ node' = [node EXCEPT ![n] = WantedState] /\ command.op = "drain"
            => node'[items[pos]] = "cordoned"
      BY <1>5 DEF WantedState
    <3> QED BY <1>1, <1>2, <1>3, <2>1, <3>1 DEF DrainOK, CordonHolds, Flag
  <2>4. DrainedNodesAreEmpty' /\ NoneForgotten'
    BY <1>1 DEF DrainOK, DrainedNodesAreEmpty, NoneForgotten, PodsOn, Ordinary
  <2> QED BY <2>2, <2>3, <2>4 DEF DrainOK
<1>12. PodsOK'
  BY <1>1 DEF PodsOK
<1> QED BY <1>7, <1>8, <1>9, <1>10, <1>11, <1>12 DEF IInv

LEMMA OthersChangeStep ==
  ASSUME IInv, NEW n \in Objects, OthersChange(n)
  PROVE  IInv'
<1>1. /\ TypeOK /\ LoopOK /\ AskOK /\ PodsOK /\ ReachedOK /\ DrainOK
      /\ UNCHANGED <<kind, items, pos, phase, continueAll, results, answered>>
      /\ UNCHANGED <<command, pod, patches, evictions, reply, work, agreed>>
      /\ meddled' = (meddled \/ n = items[pos])
      /\ drained' = drained \ {n}
  BY DEF IInv, OthersChange, Meddle, loopVars
<1>2. pos \in 1..MaxItems /\ items[pos] \in Objects
  BY <1>1, ApplyAssumption DEF TypeOK
<1>3. /\ node' \in [Objects -> {"open", "cordoned"}]
      /\ \A m \in Objects : m # n => node'[m] = node[m]
  BY <1>1 DEF OthersChange, TypeOK
<1>4. wanted \subseteq wanted' /\ wanted' \subseteq 1..MaxItems
  BY <1>1, <1>2 DEF OthersChange, Observe, TypeOK
<1>5. TypeOK'
  <2>1. meddled' \in BOOLEAN
    BY <1>1 DEF TypeOK
  <2> QED BY <1>1, <1>3, <1>4, <2>1 DEF TypeOK
<1>6. LoopOK'
  BY <1>1 DEF LoopOK, Working
<1>7. AskOK'
  BY <1>1 DEF AskOK, AsksOnlyAsAgreed, Flag, Skipped, Blocking
<1>8. ReachedOK'
  BY <1>1, <1>4 DEF ReachedOK, ReportedStateWasReached, AllGone, Flag
<1>9. DrainOK'
  <2>1. \A m \in drained' : node'[m] = "cordoned" /\ command'.op = "drain"
    BY <1>1, <1>3 DEF DrainOK, TypeOK
  <2>2. CordonHolds' /\ NoneForgotten'
    BY <1>1, <1>2, <1>3 DEF DrainOK, CordonHolds, NoneForgotten, PodsOn, Ordinary, Flag
  <2>3. DrainedNodesAreEmpty'
    BY <1>1 DEF DrainOK, DrainedNodesAreEmpty, PodsOn
  <2> QED BY <2>1, <2>2, <2>3 DEF DrainOK
<1>10. PodsOK'
  BY <1>1 DEF PodsOK
<1> QED BY <1>5, <1>6, <1>7, <1>8, <1>9, <1>10 DEF IInv

LEMMA PodStep ==
  ASSUME IInv, NEW p \in Pods, PodComes(p) \/ PodGoes(p)
  PROVE  IInv'
<1>1. /\ TypeOK /\ LoopOK /\ AskOK /\ PodsOK /\ ReachedOK /\ DrainOK
      /\ UNCHANGED <<kind, items, pos, phase, continueAll, results, answered>>
      /\ UNCHANGED <<command, node, patches, evictions, reply, work>>
      /\ UNCHANGED <<wanted, agreed>>
  BY DEF IInv, PodComes, PodGoes, loopVars, historyVars
<1>2. pod' \in [Pods -> {"unborn", "present", "gone"}]
  BY <1>1 DEF PodComes, PodGoes, TypeOK
<1>3. /\ drained' \subseteq drained /\ meddled' \in BOOLEAN /\ (meddled => meddled')
      /\ \A q \in Pods : pod[q] = "gone" => pod'[q] = "gone"
      /\ \A q \in Pods : pod[q] # "unborn" => pod'[q] # "unborn"
  BY <1>1 DEF PodComes, PodGoes, Meddle, historyVars, TypeOK
<1>4. ASSUME NEW n, node[n] = "cordoned", NEW q \in PodsOn(n)', Ordinary(q)
      PROVE  \/ q \in PodsOn(n)
             \/ n \notin drained' /\ (n = items[pos] => meddled')
  <2>1. CASE q # p
    BY <1>1, <1>4, <2>1 DEF PodComes, PodGoes, PodsOn, TypeOK
  <2>2. CASE q = p /\ PodComes(p)
    BY <1>1, <1>4, <2>2 DEF PodComes, PodsOn, Meddle
  <2>3. CASE q = p /\ PodGoes(p)
    BY <1>1, <1>4, <2>3 DEF PodGoes, PodsOn, TypeOK
  <2> QED BY <2>1, <2>2, <2>3
<1>5. TypeOK'
  BY <1>1, <1>2, <1>3 DEF TypeOK
<1>6. LoopOK' /\ AskOK'
  BY <1>1 DEF LoopOK, Working, AskOK, AsksOnlyAsAgreed, Flag, Skipped, Blocking
<1>7. PodsOK'
  BY <1>1, <1>3 DEF PodsOK, AskOK, TypeOK
<1>8. ReachedOK'
  <2>1. \A n : AllGone(n) => AllGone(n)'
    BY <1>1, <1>3 DEF AllGone, TypeOK
  <2> QED BY <1>1, <2>1 DEF ReachedOK, ReportedStateWasReached, Flag
<1>9. DrainOK'
  <2>1. \A n \in drained' : node'[n] = "cordoned" /\ command'.op = "drain"
    BY <1>1, <1>3 DEF DrainOK
  <2>2. DrainedNodesAreEmpty'
    BY <1>1, <1>3, <1>4 DEF DrainOK, DrainedNodesAreEmpty
  <2>3. CordonHolds'
    BY <1>1, <1>3 DEF DrainOK, CordonHolds, Flag
  <2>4. NoneForgotten'
    <3> SUFFICES ASSUME phase = "evicting", ~meddled',
                        NEW q \in PodsOn(items[pos])', Ordinary(q)
                 PROVE  work[q] \notin {"none", "gone"}
      BY <1>1 DEF NoneForgotten, PodsOn
    <3>1. node[items[pos]] = "cordoned"
      BY <1>1, <1>3 DEF DrainOK, CordonHolds, AskOK
    <3>2. q \in PodsOn(items[pos])
      BY <1>1, <1>4, <3>1 DEF PodsOn
    <3> QED BY <1>1, <1>3, <3>2 DEF DrainOK, NoneForgotten
  <2> QED BY <2>1, <2>2, <2>3, <2>4 DEF DrainOK
<1> QED BY <1>5, <1>6, <1>7, <1>8, <1>9 DEF IInv

-----------------------------------------------------------------------------
(* The loop touches neither the cluster nor the histories. *)
LEMMA LoopKeepsRest ==
  ASSUME IInv, UNCHANGED <<command, clusterVars, work, historyVars, items, results>>,
         pos' \in 1..Len(items), pos =< pos',
         phase' \in {"getting"} \cup LoopPhases
  PROVE  AskOK' /\ PodsOK' /\ ReachedOK' /\ DrainOK'
<1>1. /\ TypeOK /\ AskOK /\ PodsOK /\ ReachedOK /\ DrainOK
      /\ UNCHANGED <<node, pod, patches, evictions, reply, wanted, meddled, agreed, drained>>
  BY DEF IInv, clusterVars, historyVars
<1>2. phase' \notin {"patching", "listing", "evicting"}
  BY DEF LoopPhases
<1>3. \A k \in 1..pos : k \in 1..pos'
  BY <1>1 DEF TypeOK
<1>4. AskOK'
  BY <1>1, <1>2, <1>3 DEF AskOK, AsksOnlyAsAgreed, Flag, Skipped, Blocking
<1>5. ReachedOK'
  <2>1. \A k \in DOMAIN results : \A j \in (k + 1)..pos : j \in (k + 1)..pos'
    BY <1>1, <1>3 DEF TypeOK
  <2> QED BY <1>1, <1>2, <2>1 DEF ReachedOK, ReportedStateWasReached, AllGone, Flag
<1>6. DrainOK'
  BY <1>1, <1>2 DEF DrainOK, DrainedNodesAreEmpty, CordonHolds, NoneForgotten, PodsOn, Ordinary
<1>7. PodsOK'
  BY <1>1, <1>2 DEF PodsOK
<1> QED BY <1>4, <1>5, <1>6, <1>7

LEMMA LoopStep == IInv /\ Loop => IInv'
<1> SUFFICES ASSUME IInv, Loop PROVE IInv'
  OBVIOUS
<1>1. /\ TypeOK /\ LoopOK /\ UNCHANGED <<kind, items, results>>
      /\ UNCHANGED <<command, clusterVars, work, historyVars>>
      /\ answered' \in {"none", "once", "all"}
  BY DEF IInv, TypeOK, Loop, HandleResult, AnswerContinue, NextItem
<1>2. /\ pos \in 1..Len(items) /\ Len(items) \in Nat /\ pos \in Nat
      /\ Len(results) \in Nat /\ results \in Seq({"ok", "error"})
  BY <1>1 DEF TypeOK
<1>3. ASSUME pos' \in 1..Len(items), pos =< pos', Len(results) \in pos'-1..pos',
             phase' \in {"getting"} \cup LoopPhases, continueAll' \in BOOLEAN, LoopOK'
      PROVE  IInv'
  <2>1. TypeOK'
    BY <1>1, <1>3 DEF TypeOK, NodePhases, clusterVars, historyVars
  <2> QED BY <1>1, <1>3, <2>1, LoopKeepsRest DEF IInv
<1>4. CASE HandleResult
  <2>1. /\ UNCHANGED <<pos, continueAll>> /\ phase = "returned"
        /\ phase' \in {"next", "failed", "continuing"}
    BY <1>4 DEF HandleResult
  <2>2. Len(results) = pos /\ results[pos] \in {"ok", "error"}
    BY <1>1, <1>2, <2>1 DEF LoopOK
  <2>3. /\ kind = "Single" => ~continueAll
        /\ phase' \in {"failed", "continuing"} => results[pos] = "error" /\ ~continueAll
        /\ phase' = "continuing" => kind # "Single"
    BY <1>1, <1>4, <2>2 DEF HandleResult, LoopOK
  <2>4. LoopOK'
    BY <1>1, <2>1, <2>2, <2>3 DEF LoopOK, Working, NodePhases
  <2>5. continueAll' \in BOOLEAN
    BY <1>1, <2>1 DEF TypeOK
  <2> QED BY <1>2, <1>3, <2>1, <2>2, <2>4, <2>5 DEF LoopPhases
<1>5. ASSUME NEW answer \in {"once", "all", "no"}, AnswerContinue(answer)
      PROVE  IInv'
  <2>1. /\ UNCHANGED pos /\ phase = "continuing" /\ phase' \in {"next", "failed"}
        /\ continueAll' \in BOOLEAN /\ (phase' = "failed" => ~continueAll')
    BY <1>5 DEF AnswerContinue
  <2>2. Len(results) = pos /\ kind # "Single" /\ results[pos] = "error"
    BY <1>1, <2>1 DEF LoopOK
  <2>3. LoopOK'
    BY <1>1, <2>1, <2>2 DEF LoopOK, Working, NodePhases
  <2> QED BY <1>2, <1>3, <2>1, <2>2, <2>3 DEF LoopPhases
<1>6. CASE NextItem("getting")
  <2>1. phase = "next" /\ UNCHANGED continueAll /\ continueAll \in BOOLEAN
        /\ Len(results) = pos /\ (kind = "Single" => ~continueAll)
    BY <1>1, <1>6 DEF NextItem, TypeOK, LoopOK
  <2>2. CASE pos = Len(items)
    <3>1. phase' = "finished" /\ UNCHANGED pos
      BY <1>6, <2>2 DEF NextItem
    <3>2. LoopOK'
      BY <1>1, <2>1, <2>2, <3>1 DEF LoopOK, Working, NodePhases
    <3> QED BY <1>2, <1>3, <2>1, <3>1, <3>2 DEF LoopPhases
  <2>3. CASE pos # Len(items)
    <3>1. phase' = "getting" /\ pos' = pos + 1
      BY <1>6, <2>3 DEF NextItem
    <3>2. LoopOK'
      BY <1>1, <1>2, <2>1, <3>1 DEF LoopOK, Working, NodePhases
    <3> QED BY <1>2, <1>3, <2>1, <2>3, <3>1, <3>2
  <2> QED BY <2>2, <2>3
<1> QED BY <1>4, <1>5, <1>6 DEF Loop

LEMMA StepPreserves == IInv /\ [Next]_vars => IInv'
<1> SUFFICES ASSUME IInv, [Next]_vars PROVE IInv'
  OBVIOUS
<1>1. CASE GetNode \/ ReceivePatch \/ ListPods \/ DrainReturns \/ Timeout
  BY <1>1, GetNodeStep, ReceivePatchStep, ListPodsStep, DrainReturnsStep, TimeoutStep
<1>2. ASSUME NEW p \in Pods, AskEviction(p) \/ SeeGone(p) PROVE IInv'
  BY <1>2, AskEvictionStep, SeeGoneStep
<1>3. CASE Loop
  BY <1>3, LoopStep
<1>4. ASSUME NEW k \in DOMAIN items, ServerPatches(items[k]) \/ OthersChange(items[k])
      PROVE  IInv'
  <2>1. items[k] \in Objects
    BY DEF IInv, TypeOK
  <2> QED BY <1>4, <2>1, ServerPatchesStep, OthersChangeStep
<1>5. ASSUME NEW p \in Pods,
             ServerEvicts(p) \/ PodComes(p) \/ PodGoes(p)
      PROVE  IInv'
  BY <1>5, ServerEvictsStep, PodStep
<1>6. CASE UNCHANGED vars
  <2>1. TypeOK' /\ LoopOK'
    BY <1>6 DEF IInv, TypeOK, LoopOK, Working, vars, loopVars, clusterVars, historyVars
  <2>2. AskOK' /\ ReachedOK'
    BY <1>6 DEF IInv, AskOK, AsksOnlyAsAgreed, Flag, Skipped, Blocking, ReachedOK,
                ReportedStateWasReached, AllGone, vars, loopVars, clusterVars, historyVars
  <2>3. DrainOK'
    BY <1>6 DEF IInv, DrainOK, DrainedNodesAreEmpty, CordonHolds, NoneForgotten, PodsOn, Ordinary,
                Flag, vars, loopVars, clusterVars, historyVars
  <2>4. PodsOK'
    BY <1>6 DEF IInv, PodsOK, vars, loopVars, clusterVars, historyVars
  <2> QED BY <2>1, <2>2, <2>3, <2>4 DEF IInv
<1> QED BY <1>1, <1>2, <1>3, <1>4, <1>5, <1>6 DEF Next

(* The invariant holds in every reachable state. *)
THEOREM Invariant == Spec => []IInv
BY InitEstablishes, StepPreserves, PTL DEF Spec

(* The state of the commands and of the cluster keeps its type.            *)
THEOREM TypeCorrect == Spec => []TypeOK
<1>1. IInv => TypeOK
  BY DEF IInv
<1> QED BY <1>1, Invariant, PTL

(* Nothing is asked of the cluster that the command, its flags and the     *)
(* pods of the node do not allow, and a dry run asks for nothing.          *)
THEOREM AsksAreAgreed == Spec => []AsksOnlyAsAgreed
<1>1. IInv => AsksOnlyAsAgreed
  BY DEF IInv, AskOK
<1> QED BY <1>1, Invariant, PTL

(* What is said of a node is true: it has been cordoned, or uncordoned,    *)
(* while the command was at it, and when it is called drained, the pods    *)
(* that krepl has ever set out to evict from it are gone.                  *)
THEOREM ReportsAreTrue == Spec => []ReportedStateWasReached
<1>1. IInv => ReportedStateWasReached
  BY DEF IInv, ReachedOK
<1> QED BY <1>1, Invariant, PTL

(* A drained node that nobody has meddled with holds only pods of          *)
(* DaemonSets and static ones (node_maintenance.go:186-215).               *)
THEOREM DrainedIsEmpty == Spec => []DrainedNodesAreEmpty
<1>1. IInv => DrainedNodesAreEmpty
  BY DEF IInv, DrainOK
<1> QED BY <1>1, Invariant, PTL

-----------------------------------------------------------------------------
(* The waivers: an invariant of its own, on top of the other.  What the    *)
(* loop remembers of the answers is what was answered; it goes on after a  *)
(* failure only when that was waived, and asks only when it was not.       *)
LastFailed == results # <<>> /\ results[Len(results)] = "error"

WaiverOK ==
  /\ continueAll = (answered = "all")
  /\ phase \in {"returned", "continuing", "failed"} => answered # "once"
  /\ phase \in NodePhases \cup {"next"} /\ LastFailed => answered # "none"

LEMMA WaiverInit == Init => WaiverOK
BY DEF Init, LoopInit, WaiverOK, LastFailed

(* How a step that is not the loop's looks to the loop. *)
LEMMA FunctionSteps ==
  ASSUME IInv,
         \/ GetNode \/ ReceivePatch \/ ListPods \/ DrainReturns \/ Timeout
         \/ \E p \in Pods : \/ AskEviction(p) \/ SeeGone(p)
                            \/ ServerEvicts(p) \/ PodComes(p) \/ PodGoes(p)
         \/ \E k \in DOMAIN items : ServerPatches(items[k]) \/ OthersChange(items[k])
  PROVE  \/ Working /\ \E r \in {"ok", "error"} : FnReturns(r)
         \/ Working /\ \E next \in NodePhases : Enter(next)
         \/ UNCHANGED loopVars
<1>1. CASE GetNode \/ ReceivePatch \/ ListPods
  BY <1>1 DEF GetNode, ReceivePatch, ListPods, NodeReturns, Working, NodePhases
<1>2. CASE DrainReturns \/ Timeout
  BY <1>2 DEF DrainReturns, Timeout, NodeReturns, Working, NodePhases
<1>3. ASSUME NEW p \in Pods,
             \/ AskEviction(p) \/ SeeGone(p) \/ ServerEvicts(p)
             \/ PodComes(p) \/ PodGoes(p)
      PROVE  UNCHANGED loopVars
  BY <1>3 DEF AskEviction, SeeGone, ServerEvicts, PodComes, PodGoes
<1>4. ASSUME NEW k \in DOMAIN items, ServerPatches(items[k]) \/ OthersChange(items[k])
      PROVE  UNCHANGED loopVars
  BY <1>4 DEF ServerPatches, OthersChange
<1> QED BY <1>1, <1>2, <1>3, <1>4

LEMMA WaiverStep == IInv /\ WaiverOK /\ [Next]_vars => WaiverOK'
<1> SUFFICES ASSUME IInv, WaiverOK, [Next]_vars PROVE WaiverOK'
  OBVIOUS
<1>1. TypeOK /\ LoopOK
  BY DEF IInv
<1>2. ASSUME NEW r \in {"ok", "error"}, FnReturns(r) PROVE WaiverOK'
  BY <1>1, <1>2 DEF FnReturns, WaiverOK, TypeOK, NodePhases
<1>3. ASSUME Working, NEW next \in NodePhases, Enter(next) PROVE WaiverOK'
  BY <1>3 DEF Enter, Working, WaiverOK, LastFailed, NodePhases
<1>4. CASE HandleResult
  <2>1. /\ phase = "returned" /\ UNCHANGED <<continueAll, results, answered>>
        /\ phase' \in {"next", "failed", "continuing"}
    BY <1>4 DEF HandleResult
  <2>2. answered # "once" /\ (continueAll = (answered = "all"))
    BY <2>1 DEF WaiverOK
  <2>3. ASSUME phase' = "next", LastFailed PROVE answered # "none"
    <3>1. results[pos] # "ok"
      BY <1>1, <2>1, <2>3 DEF LoopOK, LastFailed
    <3>2. continueAll
      BY <1>4, <2>3, <3>1 DEF HandleResult
    <3> QED BY <2>2, <3>2
  <2> QED BY <2>1, <2>2, <2>3 DEF WaiverOK, LastFailed, NodePhases
<1>5. ASSUME NEW answer \in {"once", "all", "no"}, AnswerContinue(answer)
      PROVE  WaiverOK'
  BY <1>5 DEF AnswerContinue, WaiverOK, NodePhases
<1>6. CASE NextItem("getting")
  <2>1. /\ phase = "next" /\ phase' \in {"getting", "finished"}
        /\ UNCHANGED <<continueAll, results, answered>>
    BY <1>6 DEF NextItem
  <2> QED BY <2>1 DEF WaiverOK, LastFailed, NodePhases
<1>7. CASE UNCHANGED loopVars
  BY <1>7 DEF loopVars, WaiverOK, LastFailed
<1>8. CASE Loop
  BY <1>4, <1>5, <1>6, <1>8 DEF Loop
<1>9. CASE UNCHANGED vars
  BY <1>7, <1>9 DEF vars
<1> QED BY <1>2, <1>3, <1>7, <1>8, <1>9, FunctionSteps DEF Next

(* The loop waives what the user has waived, and nothing else. *)
THEOREM WaiversAreAnswers == Spec => [](IInv /\ WaiverOK)
<1>1. (IInv /\ WaiverOK) /\ [Next]_vars => (IInv /\ WaiverOK)'
  BY WaiverStep, StepPreserves
<1> QED BY <1>1, WaiverInit, InitEstablishes, PTL DEF Spec

-----------------------------------------------------------------------------
(* Each step is a step of ForEach or leaves its variables alone.           *)
LEMMA EachInit == Init => Each!FInit
<1> SUFFICES ASSUME Init PROVE Each!FInit
  OBVIOUS
<1>1. Len(items) \in Nat
  BY InitEstablishes DEF IInv, TypeOK
<1>2. results = <<>> /\ answered = "none" /\ phase = "getting"
  BY DEF Init, LoopInit
<1> QED BY <1>1, <1>2 DEF Each!FInit, State

LEMMA EachTake ==
  ASSUME IInv, WaiverOK, Working, NEW r \in {"ok", "error"}, FnReturns(r)
  PROVE  Each!Take(r)
<1>1. /\ results' = Append(results, r) /\ phase' = "returned"
      /\ answered' = IF answered = "all" THEN "all" ELSE "none"
      /\ UNCHANGED <<kind, items, pos, continueAll>>
  BY DEF FnReturns
<1>2. Len(results) < Len(items)
  BY DEF IInv, TypeOK, LoopOK
<1>3. State = "running" /\ State' = "running"
  BY <1>1 DEF State, Working, NodePhases
<1>4. Each!MayProceed
  BY DEF Each!MayProceed, Each!LastFailed, WaiverOK, LastFailed, Working
<1> QED BY <1>1, <1>2, <1>3, <1>4 DEF Each!Take

(* Steps that concern neither the results nor the answers. *)
LEMMA EachStutter ==
  ASSUME UNCHANGED <<items, results, answered>>,
         phase \notin {"finished", "failed", "killed"},
         phase' \notin {"finished", "failed", "killed"}
  PROVE  UNCHANGED Each!fvars
BY DEF Each!fvars, State

LEMMA EachStep == IInv /\ WaiverOK /\ [Next]_vars => [Each!FNext]_(Each!fvars)
<1> SUFFICES ASSUME IInv, WaiverOK, [Next]_vars PROVE [Each!FNext]_(Each!fvars)
  OBVIOUS
<1>1. TypeOK /\ LoopOK
  BY DEF IInv
<1>2. ASSUME Working, NEW r \in {"ok", "error"}, FnReturns(r) PROVE Each!FNext
  BY <1>2, EachTake DEF Each!FNext
<1>3. ASSUME Working, NEW next \in NodePhases, Enter(next) PROVE UNCHANGED Each!fvars
  BY <1>3, EachStutter DEF Enter, Working, NodePhases
<1>4. CASE HandleResult
  <2>1. /\ phase = "returned" /\ UNCHANGED <<kind, items, pos, continueAll, results, answered>>
        /\ phase' \in {"next", "failed", "continuing"}
    BY <1>4 DEF HandleResult
  <2>2. CASE phase' = "failed"
    <3>1. Len(results) = pos /\ results \in Seq({"ok", "error"}) /\ pos \in Nat \ {0}
      BY <1>1, <2>1 DEF LoopOK, TypeOK
    <3>2. results # <<>> /\ results[pos] = "error" /\ kind = "Single"
      BY <1>4, <2>2, <3>1 DEF HandleResult
    <3>3. answered = "none"
      BY <1>1, <2>1, <3>2 DEF LoopOK, WaiverOK, TypeOK
    <3> QED BY <2>1, <2>2, <3>1, <3>2, <3>3 DEF Each!FNext, Each!Abort, Each!LastFailed, State
  <2>3. CASE phase' # "failed"
    BY <2>1, <2>3, EachStutter
  <2> QED BY <2>2, <2>3
<1>5. ASSUME NEW answer \in {"once", "all", "no"}, AnswerContinue(answer)
      PROVE  Each!FNext
  <2>1. /\ phase = "continuing" /\ UNCHANGED <<kind, items, pos, results>>
        /\ answered' = IF answer \in {"once", "all"} THEN answer ELSE "none"
        /\ phase' = IF answer \in {"once", "all"} THEN "next" ELSE "failed"
    BY <1>5 DEF AnswerContinue
  <2>2. Each!LastFailed /\ State = "running"
    <3>1. Len(results) = pos /\ results[pos] = "error" /\ pos \in Nat \ {0}
      BY <1>1, <2>1 DEF LoopOK, TypeOK
    <3> QED BY <2>1, <3>1 DEF Each!LastFailed, State
  <2>3. answered = "none"
    BY <1>1, <2>1 DEF LoopOK, WaiverOK, TypeOK
  <2>4. CASE answer \in {"once", "all"}
    <3>1. answered' = answer /\ State' = "running"
      BY <2>1, <2>4 DEF State
    <3> QED BY <2>1, <2>2, <2>3, <2>4, <3>1 DEF Each!FNext, Each!Waive
  <2>5. CASE answer = "no"
    <3>1. answered' = "none" /\ State' = "aborted"
      BY <2>1, <2>5 DEF State
    <3> QED BY <2>1, <2>2, <2>3, <3>1 DEF Each!FNext, Each!Abort
  <2> QED BY <2>4, <2>5
<1>6. CASE NextItem("getting")
  <2>1. phase = "next" /\ UNCHANGED <<kind, items, continueAll, results, answered>>
    BY <1>6 DEF NextItem
  <2>2. CASE pos = Len(items)
    <3>1. phase' = "finished"
      BY <1>6, <2>2 DEF NextItem
    <3>2. Len(results) = Len(items)
      BY <1>1, <2>1, <2>2 DEF LoopOK
    <3>3. State = "running" /\ State' = "finished"
      BY <2>1, <3>1 DEF State
    <3>4. Each!MayProceed
      BY <2>1 DEF Each!MayProceed, Each!LastFailed, WaiverOK, LastFailed
    <3> QED BY <2>1, <3>2, <3>3, <3>4 DEF Each!FNext, Each!Finish
  <2>3. CASE pos # Len(items)
    <3>1. phase' = "getting"
      BY <1>6, <2>3 DEF NextItem
    <3> QED BY <2>1, <3>1, EachStutter
  <2> QED BY <2>2, <2>3
<1>7. CASE UNCHANGED loopVars
  BY <1>7 DEF loopVars, Each!fvars, State
<1>8. CASE Loop
  BY <1>4, <1>5, <1>6, <1>8 DEF Loop
<1>9. CASE UNCHANGED vars
  BY <1>7, <1>9 DEF vars
<1> QED BY <1>2, <1>3, <1>7, <1>8, <1>9, FunctionSteps DEF Next

(* cordon, uncordon and drain go through the selection as ForEach says:    *)
(* no node is touched after a failure that the user has not waived.        *)
THEOREM NodeCommandsImplementForEach == Spec => ImplementsForEach
BY EachInit, EachStep, WaiversAreAnswers, PTL DEF Spec, ImplementsForEach, Each!FSpec

-----------------------------------------------------------------------------
(* How many more steps the loop can take before it has ended, not counting *)
(* those of the drainer with the pods of a node.                           *)
StepsLeft ==
  7 * (Len(items) - pos)
    + (IF phase = "getting" THEN 7
       ELSE IF phase = "patching" THEN 6
       ELSE IF phase = "listing" THEN 5
       ELSE IF phase = "evicting" THEN 4
       ELSE IF phase = "returned" THEN 3
       ELSE IF phase = "continuing" THEN 2
       ELSE IF phase = "next" THEN 1
       ELSE 0)

StepsRunOut ==
  [][UNCHANGED loopVars \/ (StepsLeft' \in Nat /\ StepsLeft' < StepsLeft)]_vars

(* A step within the node the loop is at. *)
LEMMA StepWithinNode ==
  ASSUME TypeOK, UNCHANGED <<items, pos>>,
         \/ phase = "getting" /\ phase' \in {"patching", "listing", "returned"}
         \/ phase = "patching" /\ phase' \in {"listing", "returned"}
         \/ phase = "listing" /\ phase' \in {"evicting", "returned"}
         \/ phase = "evicting" /\ phase' = "returned"
         \/ phase = "returned" /\ phase' \in {"continuing", "next", "failed"}
         \/ phase = "continuing" /\ phase' \in {"next", "failed"}
         \/ phase = "next" /\ phase' = "finished"
  PROVE  StepsLeft' \in Nat /\ StepsLeft' < StepsLeft
<1>1. Len(items) \in Nat /\ pos \in Nat /\ pos =< Len(items)
  BY DEF TypeOK
<1>2. Len(items') = Len(items) /\ pos' = pos
  OBVIOUS
<1> QED BY <1>1, <1>2 DEF StepsLeft

(* Each step of the loop is one step less to go, whatever the cluster and  *)
(* the user do: seven for each node at most.  What does not lower the      *)
(* measure is the drainer asking again for a refused eviction, and that    *)
(* the deadline of the node ends (node_maintenance.go:131-231).            *)
THEOREM NodeCommandsRunOut == Spec => StepsRunOut
<1>1. ASSUME IInv, Next
      PROVE  UNCHANGED loopVars \/ (StepsLeft' \in Nat /\ StepsLeft' < StepsLeft)
  <2>1. TypeOK
    BY <1>1 DEF IInv
  <2>2. CASE GetNode
    <3>1. /\ phase = "getting" /\ phase' \in {"patching", "listing", "returned"}
          /\ UNCHANGED <<items, pos>>
      BY <2>2 DEF GetNode, Enter, NodeReturns, FnReturns
    <3> QED BY <2>1, <3>1, StepWithinNode
  <2>3. CASE ReceivePatch
    <3>1. phase = "patching" /\ phase' \in {"listing", "returned"} /\ UNCHANGED <<items, pos>>
      BY <2>3 DEF ReceivePatch, Enter, NodeReturns, FnReturns
    <3> QED BY <2>1, <3>1, StepWithinNode
  <2>4. CASE ListPods
    <3>1. phase = "listing" /\ phase' \in {"evicting", "returned"} /\ UNCHANGED <<items, pos>>
      BY <2>4 DEF ListPods, Enter, NodeReturns, FnReturns
    <3> QED BY <2>1, <3>1, StepWithinNode
  <2>5. CASE DrainReturns
    <3>1. phase = "evicting" /\ phase' = "returned" /\ UNCHANGED <<items, pos>>
      BY <2>5 DEF DrainReturns, NodeReturns, FnReturns
    <3> QED BY <2>1, <3>1, StepWithinNode
  <2>6. CASE Timeout
    <3>1. phase \in NodePhases /\ phase' = "returned" /\ UNCHANGED <<items, pos>>
      BY <2>6 DEF Timeout, Working, NodeReturns, FnReturns
    <3> QED BY <2>1, <3>1, StepWithinNode DEF NodePhases
  <2>7. CASE HandleResult
    <3>1. /\ phase = "returned" /\ phase' \in {"continuing", "next", "failed"}
          /\ UNCHANGED <<items, pos>>
      BY <2>7 DEF HandleResult
    <3> QED BY <2>1, <3>1, StepWithinNode
  <2>8. CASE \E answer \in {"once", "all", "no"} : AnswerContinue(answer)
    <3>1. phase = "continuing" /\ phase' \in {"next", "failed"} /\ UNCHANGED <<items, pos>>
      BY <2>8 DEF AnswerContinue
    <3> QED BY <2>1, <3>1, StepWithinNode
  <2>9. CASE NextItem("getting")
    <3>1. phase = "next" /\ UNCHANGED items
      BY <2>9 DEF NextItem
    <3>2. CASE pos = Len(items)
      <4>1. phase' = "finished" /\ UNCHANGED pos
        BY <2>9, <3>2 DEF NextItem
      <4> QED BY <2>1, <3>1, <4>1, StepWithinNode
    <3>3. CASE pos # Len(items)
      <4>1. phase' = "getting" /\ pos' = pos + 1
        BY <2>9, <3>3 DEF NextItem
      <4>2. Len(items) \in Nat /\ pos \in Nat /\ pos < Len(items) /\ Len(items') = Len(items)
        BY <2>1, <3>1, <3>3 DEF TypeOK
      <4> QED BY <3>1, <4>1, <4>2 DEF StepsLeft
    <3> QED BY <3>2, <3>3
  <2> QED BY <1>1, <2>2, <2>3, <2>4, <2>5, <2>6, <2>7, <2>8, <2>9
          DEF Next, Loop, AskEviction, SeeGone, ServerPatches, OthersChange,
              ServerEvicts, PodComes, PodGoes
<1>2. IInv /\ [Next]_vars =>
        [UNCHANGED loopVars \/ (StepsLeft' \in Nat /\ StepsLeft' < StepsLeft)]_vars
  BY <1>1
<1> QED BY <1>2, Invariant, PTL DEF Spec, StepsRunOut

=============================================================================
