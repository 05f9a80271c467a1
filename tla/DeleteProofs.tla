---------------------------- MODULE DeleteProofs ----------------------------
(***************************************************************************)
(* delete for selections of any length and any objects: what is deleted    *)
(* and what is reported, by one inductive invariant, and that the loop of  *)
(* ApplyToSelection implements ForEach.  That the command ends is model-   *)
(* checked, under fairness; what is proved of it is that no step of its    *)
(* own can be taken forever.                                               *)
(***************************************************************************)
EXTENDS Delete, TLAPS

(* Where the loop is, by phase. *)
LoopOK ==
  /\ phase \in DeletePhases => Len(results) = pos - 1
  /\ phase \in {"returned", "continuing", "next", "finished", "failed"} =>
       Len(results) = pos
  /\ phase \in {"continuing", "failed"} => results[pos] = "error" /\ ~continueAll
  /\ kind = "Single" =>
       /\ ~continueAll
       /\ phase # "continuing"
       /\ phase \in {"next", "finished"} => results[1] = "ok"
  /\ phase = "finished" => pos = Len(items)

LastFailed == results # <<>> /\ results[Len(results)] = "error"

(* What the loop remembers of the answers is what was answered; it goes on *)
(* after a failure only when that was waived, and asks only when not.      *)
WaiverOK ==
  /\ continueAll = (answered = "all")
  /\ phase \in {"returned", "continuing", "failed"} => answered # "once"
  /\ phase \in DeletePhases \cup {"next"} /\ LastFailed => answered # "none"

(* What the histories hold of items that are still to come. *)
HistoryOK ==
  /\ \A k \in confirmed : k =< pos
  /\ phase = "asking" => pos \notin confirmed
  /\ phase = "requesting" => pos \in confirmed /\ pos \notin reported
  /\ phase = "requesting" /\ reply = "deleted" => pos \in removed
  /\ \A k \in DOMAIN results \cap confirmed : results[k] = "ok" <=> k \in reported

(* The inductive invariant. *)
IInv ==
  /\ TypeOK
  /\ OnlyConfirmedAreDeleted
  /\ ReportedAreDeleted
  /\ LoopOK
  /\ HistoryOK

LEMMA ItemsAccountedFor == IInv => EveryItemAccountedFor
BY DEF IInv, EveryItemAccountedFor, LoopOK, HistoryOK

LEMMA InitEstablishes == Init => IInv
<1> SUFFICES ASSUME Init PROVE IInv
  OBVIOUS
<1>1. PICK n \in 1..MaxItems : items \in [1..n -> Objects]
  BY DEF Init, LoopInit
<1>2. items \in Seq(Objects) /\ Len(items) = n /\ n \in Nat /\ 1 =< n
  BY <1>1, ApplyAssumption
<1>3. results = <<>> /\ results \in Seq({"ok", "error"}) /\ Len(results) = 0
  BY DEF Init, LoopInit
<1>4. TypeOK
  <2>1. /\ kind \in {"Single", "Range"} /\ (kind = "Single" => Len(items) = 1)
        /\ pos = 1 /\ phase = "asking" /\ continueAll = FALSE /\ answered = "none"
    BY DEF Init, LoopInit
  <2>2. Len(items) \in 1..MaxItems /\ pos \in 1..Len(items)
    BY <1>1, <1>2, <2>1
  <2>3. Len(results) \in pos-1..pos
    BY <1>3, <2>1
  <2> QED BY <1>2, <1>3, <2>1, <2>2, <2>3 DEF Init, TypeOK, DeletePhases
<1>5. OnlyConfirmedAreDeleted /\ ReportedAreDeleted
  BY DEF Init, OnlyConfirmedAreDeleted, ReportedAreDeleted
<1>6. LoopOK /\ HistoryOK
  BY <1>3 DEF Init, LoopInit, LoopOK, HistoryOK, DeletePhases
<1> QED BY <1>4, <1>5, <1>6 DEF IInv

-----------------------------------------------------------------------------
(* fn returns for the present item. *)
LEMMA ReturnedResults ==
  ASSUME TypeOK, LoopOK, phase \in DeletePhases, NEW r \in {"ok", "error"}, FnReturns(r)
  PROVE  /\ results' \in Seq({"ok", "error"}) /\ Len(results') = pos
         /\ results'[pos] = r
         /\ DOMAIN results' = DOMAIN results \cup {pos}
         /\ \A k \in DOMAIN results : k # pos /\ results'[k] = results[k]
         /\ UNCHANGED <<kind, items, pos, continueAll>>
         /\ phase' = "returned" /\ answered' \in {"none", "once", "all"}
<1>1. results \in Seq({"ok", "error"}) /\ Len(results) = pos - 1 /\ pos \in Nat \ {0}
  BY DEF TypeOK, LoopOK
<1>2. results' = Append(results, r) /\ answered' \in {"none", "once", "all"}
  BY DEF FnReturns
<1>3. DOMAIN results = 1..(pos - 1) /\ DOMAIN results' = 1..pos
  BY <1>1, <1>2
<1>4. \A k \in DOMAIN results : k # pos /\ results'[k] = results[k]
  BY <1>1, <1>2, <1>3
<1>5. DOMAIN results' = DOMAIN results \cup {pos}
  BY <1>1, <1>3
<1> QED BY <1>1, <1>2, <1>4, <1>5 DEF FnReturns

LEMMA ReturnKeepsLoop ==
  ASSUME TypeOK, LoopOK, phase \in DeletePhases, NEW r \in {"ok", "error"}, FnReturns(r)
  PROVE  LoopOK'
BY ReturnedResults DEF LoopOK, DeletePhases

LEMMA ConfirmStep ==
  ASSUME IInv, NEW answer \in {"yes", "no", "readError"}, Confirm(answer)
  PROVE  IInv'
<1>1. /\ TypeOK /\ LoopOK /\ HistoryOK /\ OnlyConfirmedAreDeleted /\ ReportedAreDeleted
      /\ phase = "asking" /\ phase \in DeletePhases
      /\ UNCHANGED <<present, removed, reported>>
      /\ confirmed' = IF answer = "yes" THEN confirmed \cup {pos} ELSE confirmed
  BY DEF IInv, Confirm, DeletePhases
<1>2. pos \in 1..Len(items) /\ pos \notin confirmed /\ pos \notin removed /\ pos \notin reported
  BY <1>1 DEF TypeOK, HistoryOK, OnlyConfirmedAreDeleted, ReportedAreDeleted
<1>3. pos \notin DOMAIN results /\ \A k \in DOMAIN results : k # pos
  BY <1>1 DEF TypeOK, LoopOK
<1>4. CASE /\ answer = "yes" /\ items[pos].kind \in DeletableKinds
           /\ phase' = "requesting" /\ inFlight' = inFlight \cup {pos} /\ reply' = "none"
           /\ UNCHANGED <<kind, items, pos, continueAll, results, answered>>
  <2>1. TypeOK'
    BY <1>1, <1>2, <1>4 DEF TypeOK, DeletePhases, LoopPhases
  <2>2. OnlyConfirmedAreDeleted' /\ ReportedAreDeleted'
    BY <1>1, <1>2, <1>4 DEF OnlyConfirmedAreDeleted, ReportedAreDeleted
  <2>3. LoopOK'
    BY <1>1, <1>4 DEF LoopOK, DeletePhases
  <2>4. HistoryOK'
    BY <1>1, <1>2, <1>3, <1>4 DEF HistoryOK, TypeOK
  <2> QED BY <2>1, <2>2, <2>3, <2>4 DEF IInv
<1>5. ASSUME NEW r \in {"ok", "error"}, FnReturns(r), UNCHANGED <<inFlight, reply>>,
             answer = "yes" => r = "error"
      PROVE  IInv'
  <2>1. /\ results' \in Seq({"ok", "error"}) /\ Len(results') = pos
        /\ results'[pos] = r
        /\ DOMAIN results' = DOMAIN results \cup {pos}
        /\ \A k \in DOMAIN results : k # pos /\ results'[k] = results[k]
        /\ UNCHANGED <<kind, items, pos, continueAll>>
        /\ phase' = "returned" /\ answered' \in {"none", "once", "all"}
    BY <1>1, <1>5, ReturnedResults
  <2>2. TypeOK'
    BY <1>1, <1>2, <1>5, <2>1 DEF TypeOK, LoopPhases
  <2>3. OnlyConfirmedAreDeleted' /\ ReportedAreDeleted'
    BY <1>1, <1>5, <2>1 DEF OnlyConfirmedAreDeleted, ReportedAreDeleted
  <2>4. LoopOK'
    BY <1>1, <1>5, ReturnKeepsLoop
  <2>5. HistoryOK'
    BY <1>1, <1>2, <1>5, <2>1 DEF HistoryOK, TypeOK
  <2> QED BY <2>2, <2>3, <2>4, <2>5 DEF IInv
<1> QED BY <1>4, <1>5 DEF Confirm

LEMMA ServerStep ==
  ASSUME IInv, NEW k \in 1..MaxItems, ServerDeletes(k) \/ ServerRefuses(k)
  PROVE  IInv'
<1>1. /\ TypeOK /\ LoopOK /\ HistoryOK /\ OnlyConfirmedAreDeleted /\ ReportedAreDeleted
      /\ UNCHANGED <<kind, items, pos, phase, continueAll, results, answered, confirmed, reported>>
      /\ k \in inFlight /\ inFlight' = inFlight \ {k}
  BY DEF IInv, ServerDeletes, ServerRefuses, loopVars, historyVars
<1>2. LoopOK'
  BY <1>1 DEF LoopOK
<1>3. \/ removed' = removed /\ present' = present
      \/ removed' = removed \cup {k} /\ present' \subseteq present
  BY DEF ServerDeletes, ServerRefuses, historyVars
<1>4. reply' \in {"none", "deleted", "refused"}
  BY <1>1 DEF ServerDeletes, ServerRefuses, Reply, TypeOK
<1>5. TypeOK'
  BY <1>1, <1>3, <1>4 DEF TypeOK
<1>6. OnlyConfirmedAreDeleted' /\ ReportedAreDeleted'
  BY <1>1, <1>3 DEF OnlyConfirmedAreDeleted, ReportedAreDeleted
<1>7. phase = "requesting" /\ reply' = "deleted" => pos \in removed'
  BY <1>1, <1>3 DEF ServerDeletes, ServerRefuses, Reply, HistoryOK
<1>8. HistoryOK'
  BY <1>1, <1>7 DEF HistoryOK
<1> QED BY <1>2, <1>5, <1>6, <1>8 DEF IInv

LEMMA ReplyStep ==
  ASSUME IInv, ReceiveReply \/ Timeout
  PROVE  IInv'
<1>1. /\ TypeOK /\ LoopOK /\ HistoryOK /\ OnlyConfirmedAreDeleted /\ ReportedAreDeleted
      /\ phase = "requesting" /\ phase \in DeletePhases
      /\ UNCHANGED <<present, inFlight, reply, confirmed, removed>>
  BY DEF IInv, ReceiveReply, Timeout, serverVars, historyVars, DeletePhases
<1>2. PICK r \in {"ok", "error"} :
        /\ FnReturns(r)
        /\ r = "ok" => reply = "deleted"
        /\ reported' = IF r = "ok" THEN reported \cup {pos} ELSE reported
  BY DEF ReceiveReply, Timeout, historyVars
<1>3. /\ results' \in Seq({"ok", "error"}) /\ Len(results') = pos
      /\ results'[pos] = r
      /\ DOMAIN results' = DOMAIN results \cup {pos}
      /\ \A k \in DOMAIN results : k # pos /\ results'[k] = results[k]
      /\ UNCHANGED <<kind, items, pos, continueAll>>
      /\ phase' = "returned" /\ answered' \in {"none", "once", "all"}
  BY <1>1, <1>2, ReturnedResults
<1>4. TypeOK'
  BY <1>1, <1>2, <1>3 DEF TypeOK, LoopPhases
<1>5. OnlyConfirmedAreDeleted' /\ ReportedAreDeleted'
  BY <1>1, <1>2, <1>3 DEF OnlyConfirmedAreDeleted, ReportedAreDeleted, HistoryOK
<1>6. LoopOK'
  BY <1>1, <1>2, ReturnKeepsLoop
<1>7. HistoryOK'
  <2>1. \A k \in DOMAIN results' \cap confirmed' : results'[k] = "ok" <=> k \in reported'
    BY <1>1, <1>2, <1>3 DEF HistoryOK
  <2> QED BY <1>1, <1>3, <2>1 DEF HistoryOK
<1> QED BY <1>4, <1>5, <1>6, <1>7 DEF IInv

LEMMA LoopStep ==
  ASSUME IInv, UNCHANGED <<serverVars, historyVars>>,
         \/ HandleResult
         \/ \E answer \in {"once", "all", "no"} : AnswerContinue(answer)
         \/ NextItem("asking")
         \/ Killed
  PROVE  IInv'
<1>1. /\ TypeOK /\ LoopOK /\ HistoryOK /\ OnlyConfirmedAreDeleted /\ ReportedAreDeleted
      /\ UNCHANGED <<kind, items, results>> /\ answered' \in {"none", "once", "all"}
      /\ UNCHANGED <<present, inFlight, reply, confirmed, removed, reported>>
  BY DEF IInv, TypeOK, HandleResult, AnswerContinue, NextItem, Killed, serverVars, historyVars
<1>2. pos \in 1..Len(items) /\ Len(items) \in Nat /\ Len(results) \in pos-1..pos
      /\ Len(results) \in Nat /\ results \in Seq({"ok", "error"})
  BY <1>1 DEF TypeOK
<1>3. OnlyConfirmedAreDeleted' /\ ReportedAreDeleted'
  BY <1>1 DEF OnlyConfirmedAreDeleted, ReportedAreDeleted
<1>4. CASE HandleResult
  <2>1. UNCHANGED <<pos, continueAll>> /\ phase = "returned"
        /\ phase' \in {"next", "failed", "continuing"}
    BY <1>4 DEF HandleResult
  <2>2. TypeOK'
    BY <1>1, <2>1 DEF TypeOK, LoopPhases
  <2>3. Len(results) = pos /\ results[pos] \in {"ok", "error"}
    BY <1>1, <1>2, <2>1 DEF LoopOK
  <2>4. LoopOK'
    <3>1. kind = "Single" => Len(items) = 1
      BY <1>1 DEF TypeOK
    <3>2. kind = "Single" => pos = 1
      <4> SUFFICES ASSUME kind = "Single" PROVE pos = 1
        OBVIOUS
      <4>1. pos \in 1..Len(items) /\ Len(items) = 1
        BY <1>2, <3>1
      <4> QED BY <4>1
    <3>3. kind = "Single" => ~continueAll
      BY <1>1 DEF LoopOK
    <3>4. /\ phase' = "failed" => results[pos] = "error" /\ ~continueAll
          /\ phase' = "continuing" =>
               results[pos] = "error" /\ ~continueAll /\ kind # "Single"
          /\ phase' = "next" /\ kind = "Single" => results[pos] = "ok"
      BY <1>4, <2>3, <3>3 DEF HandleResult
    <3> QED BY <1>1, <2>1, <2>3, <3>2, <3>3, <3>4 DEF LoopOK, DeletePhases
  <2>5. HistoryOK'
    BY <1>1, <2>1 DEF HistoryOK
  <2> QED BY <1>3, <2>2, <2>4, <2>5 DEF IInv
<1>5. ASSUME NEW answer \in {"once", "all", "no"}, AnswerContinue(answer)
      PROVE  IInv'
  <2>1. UNCHANGED pos /\ phase = "continuing" /\ phase' \in {"next", "failed"}
        /\ continueAll' \in BOOLEAN /\ (phase' = "failed" => ~continueAll')
    BY <1>5 DEF AnswerContinue
  <2>2. TypeOK'
    BY <1>1, <2>1 DEF TypeOK, LoopPhases
  <2>3. LoopOK'
    BY <1>1, <1>2, <2>1 DEF LoopOK, DeletePhases, TypeOK
  <2>4. HistoryOK'
    BY <1>1, <2>1 DEF HistoryOK
  <2> QED BY <1>3, <2>2, <2>3, <2>4 DEF IInv
<1>6. CASE NextItem("asking") /\ pos = Len(items)
  <2>1. UNCHANGED <<pos, continueAll>> /\ phase = "next" /\ phase' = "finished"
    BY <1>6 DEF NextItem
  <2>2. TypeOK'
    BY <1>1, <2>1 DEF TypeOK, LoopPhases
  <2>3. LoopOK'
    BY <1>1, <1>6, <2>1 DEF LoopOK, DeletePhases
  <2>4. HistoryOK'
    BY <1>1, <2>1 DEF HistoryOK
  <2> QED BY <1>3, <2>2, <2>3, <2>4 DEF IInv
<1>7. CASE NextItem("asking") /\ pos # Len(items)
  <2>1. pos' = pos + 1 /\ UNCHANGED continueAll /\ phase = "next" /\ phase' = "asking"
    BY <1>7 DEF NextItem
  <2>2. Len(results) = pos /\ pos' \in 1..Len(items)
    BY <1>1, <1>2, <1>7, <2>1 DEF LoopOK
  <2>3. TypeOK'
    BY <1>1, <1>2, <2>1, <2>2 DEF TypeOK, DeletePhases
  <2>4. LoopOK'
    BY <1>1, <1>2, <1>7, <2>1, <2>2 DEF LoopOK, DeletePhases, TypeOK
  <2>5. HistoryOK'
    BY <1>1, <1>2, <2>1 DEF HistoryOK, TypeOK
  <2> QED BY <1>3, <2>3, <2>4, <2>5 DEF IInv
<1>8. CASE Killed
  BY <1>1, <1>3, <1>8 DEF Killed, IInv, TypeOK, LoopPhases, LoopOK, DeletePhases, HistoryOK
<1> QED BY <1>4, <1>5, <1>6, <1>7, <1>8

LEMMA StepPreserves == IInv /\ [Next]_vars => IInv'
<1> SUFFICES ASSUME IInv, [Next]_vars PROVE IInv'
  OBVIOUS
<1>1. CASE \E answer \in {"yes", "no", "readError"} : Confirm(answer)
  BY <1>1, ConfirmStep
<1>2. CASE ReceiveReply \/ Timeout
  BY <1>2, ReplyStep
<1>3. CASE Loop \/ (Killed /\ UNCHANGED <<serverVars, historyVars>>)
  BY <1>3, LoopStep DEF Loop
<1>4. ASSUME NEW k \in 1..MaxItems, ServerDeletes(k) \/ ServerRefuses(k) PROVE IInv'
  BY <1>4, ServerStep
<1>5. ASSUME NEW o \in Objects, OthersChange(o) PROVE IInv'
  <2>1. /\ present' \subseteq Objects
        /\ UNCHANGED <<loopVars, inFlight, reply, historyVars>>
    BY <1>5 DEF OthersChange, IInv, TypeOK
  <2> QED BY <2>1 DEF IInv, TypeOK, OnlyConfirmedAreDeleted, ReportedAreDeleted, LoopOK,
                     HistoryOK, loopVars, historyVars
<1>6. CASE UNCHANGED vars
  BY <1>6 DEF vars, serverVars, IInv, TypeOK, OnlyConfirmedAreDeleted, ReportedAreDeleted,
              LoopOK, HistoryOK, loopVars, historyVars
<1> QED BY <1>1, <1>2, <1>3, <1>4, <1>5, <1>6 DEF Next

(* The invariant holds in every reachable state. *)
THEOREM Invariant == Spec => []IInv
BY InitEstablishes, StepPreserves, PTL DEF Spec

(* The command's and the server's state keeps its type: in particular the  *)
(* loop never runs past the end of the selection.                          *)
THEOREM TypeCorrect == Spec => []TypeOK
<1>1. IInv => TypeOK
  BY DEF IInv
<1> QED BY <1>1, Invariant, PTL

(* Whatever is typed and however slow the server is, nothing is deleted    *)
(* without its own confirmation.                                           *)
THEOREM DeletesAreConfirmed == Spec => []OnlyConfirmedAreDeleted
<1>1. IInv => OnlyConfirmedAreDeleted
  BY DEF IInv
<1> QED BY <1>1, Invariant, PTL

(* However late the server answers, nothing is reported deleted that is    *)
(* not.                                                                    *)
THEOREM ReportsAreTrue == Spec => []ReportedAreDeleted
<1>1. IInv => ReportedAreDeleted
  BY DEF IInv
<1> QED BY <1>1, Invariant, PTL

(* The user has seen how each confirmed item ended. *)
THEOREM ItemsAreAccountedFor == Spec => []EveryItemAccountedFor
BY ItemsAccountedFor, Invariant, PTL

-----------------------------------------------------------------------------
(* The waivers: an invariant of its own, on top of the other. *)
LEMMA WaiverInit == Init => WaiverOK
BY DEF Init, LoopInit, WaiverOK, LastFailed

LEMMA ReturnKeepsWaiver ==
  ASSUME TypeOK, WaiverOK, NEW r \in {"ok", "error"}, FnReturns(r)
  PROVE  WaiverOK'
BY DEF FnReturns, WaiverOK, TypeOK, DeletePhases

LEMMA WaiverStep == IInv /\ WaiverOK /\ [Next]_vars => WaiverOK'
<1> SUFFICES ASSUME IInv, WaiverOK, [Next]_vars PROVE WaiverOK'
  OBVIOUS
<1>1. TypeOK /\ LoopOK
  BY DEF IInv
<1>2. CASE \E answer \in {"yes", "no", "readError"} : Confirm(answer)
  <2>1. CASE /\ phase = "asking" /\ phase' = "requesting"
             /\ UNCHANGED <<continueAll, results, answered>>
    BY <2>1 DEF WaiverOK, LastFailed, DeletePhases
  <2>2. ASSUME NEW r \in {"ok", "error"}, FnReturns(r) PROVE WaiverOK'
    BY <1>1, <2>2, ReturnKeepsWaiver
  <2> QED BY <1>2, <2>1, <2>2 DEF Confirm
<1>3. CASE ReceiveReply \/ Timeout
  <2>1. \E r \in {"ok", "error"} : FnReturns(r)
    BY <1>3 DEF ReceiveReply, Timeout
  <2> QED BY <1>1, <2>1, ReturnKeepsWaiver
<1>4. CASE HandleResult
  <2>1. /\ phase = "returned" /\ UNCHANGED <<continueAll, results, answered>>
        /\ phase' \in {"next", "failed", "continuing"}
    BY <1>4 DEF HandleResult
  <2>2. answered # "once" /\ (continueAll = (answered = "all"))
    BY <2>1 DEF WaiverOK
  <2>3. ASSUME phase' = "next", LastFailed PROVE answered # "none"
    <3>1. results[pos] # "ok"
      BY <1>1, <2>1, <2>3 DEF LoopOK, LastFailed
    <3>2. continueAll
      BY <1>4, <2>3, <3>1 DEF HandleResult
    <3> QED BY <2>2, <3>2
  <2> QED BY <2>1, <2>2, <2>3 DEF WaiverOK, LastFailed, DeletePhases
<1>5. ASSUME NEW answer \in {"once", "all", "no"}, AnswerContinue(answer)
      PROVE  WaiverOK'
  BY <1>5 DEF AnswerContinue, WaiverOK, DeletePhases
<1>6. CASE NextItem("asking")
  <2>1. /\ phase = "next" /\ phase' \in {"asking", "finished"}
        /\ UNCHANGED <<continueAll, results, answered>>
    BY <1>6 DEF NextItem
  <2> QED BY <2>1 DEF WaiverOK, LastFailed, DeletePhases
<1>7. CASE Killed
  BY <1>7 DEF Killed, WaiverOK, DeletePhases
<1>8. CASE UNCHANGED loopVars
  BY <1>8 DEF loopVars, WaiverOK, LastFailed
<1> QED BY <1>2, <1>3, <1>4, <1>5, <1>6, <1>7, <1>8
        DEF Next, Loop, ServerDeletes, ServerRefuses, OthersChange, vars

(* The loop waives what the user has waived, and nothing else. *)
THEOREM WaiversAreAnswers == Spec => [](IInv /\ WaiverOK)
<1>1. Init => WaiverOK
  BY WaiverInit
<1>2. (IInv /\ WaiverOK) /\ [Next]_vars => (IInv /\ WaiverOK)'
  BY WaiverStep, StepPreserves
<1> QED BY <1>1, <1>2, InitEstablishes, PTL DEF Spec

-----------------------------------------------------------------------------
(* Each step of delete is a step of ForEach or leaves its variables alone. *)
LEMMA EachInit == Init => Each!FInit
<1> SUFFICES ASSUME Init PROVE Each!FInit
  OBVIOUS
<1>1. TypeOK
  BY InitEstablishes DEF IInv
<1>2. Len(items) \in Nat
  BY <1>1 DEF TypeOK
<1>3. results = <<>> /\ answered = "none" /\ phase = "asking"
  BY DEF Init, LoopInit
<1> QED BY <1>2, <1>3 DEF Each!FInit, State

LEMMA EachTake ==
  ASSUME IInv, WaiverOK, phase \in DeletePhases, NEW r \in {"ok", "error"}, FnReturns(r)
  PROVE  Each!Take(r)
<1>1. /\ results' = Append(results, r) /\ phase' = "returned"
      /\ answered' = IF answered = "all" THEN "all" ELSE "none"
      /\ UNCHANGED <<kind, items, pos, continueAll>>
  BY DEF FnReturns
<1>2. Len(results) < Len(items)
  BY DEF IInv, TypeOK, LoopOK
<1>3. State = "running" /\ State' = "running"
  BY <1>1 DEF State, DeletePhases
<1>4. Each!MayProceed
  BY DEF Each!MayProceed, Each!LastFailed, WaiverOK, LastFailed
<1> QED BY <1>1, <1>2, <1>3, <1>4 DEF Each!Take

(* Steps that concern neither the results nor the answers. *)
LEMMA EachStutter ==
  ASSUME UNCHANGED <<items, results, answered>>,
         phase \notin {"finished", "failed", "killed"},
         phase' \notin {"finished", "failed", "killed"}
  PROVE  UNCHANGED Each!fvars
BY DEF Each!fvars, State

LEMMA EachStep == IInv /\ WaiverOK /\ [Next]_vars => [Each!FNext]_(Each!fvars)
<1> SUFFICES ASSUME IInv, WaiverOK, [Next]_vars PROVE [Each!FNext]_(Each!fvars)
  OBVIOUS
<1>1. TypeOK /\ LoopOK
  BY DEF IInv
<1>2. CASE \E answer \in {"yes", "no", "readError"} : Confirm(answer)
  <2>1. phase = "asking" /\ phase \in DeletePhases
    BY <1>2 DEF Confirm, DeletePhases
  <2>2. CASE phase' = "requesting" /\ UNCHANGED <<kind, items, pos, continueAll, results, answered>>
    BY <2>1, <2>2, EachStutter
  <2>3. ASSUME NEW r \in {"ok", "error"}, FnReturns(r) PROVE Each!FNext
    BY <2>1, <2>3, EachTake DEF Each!FNext
  <2> QED BY <1>2, <2>2, <2>3 DEF Confirm
<1>3. CASE ReceiveReply \/ Timeout
  <2>1. phase \in DeletePhases
    BY <1>3 DEF ReceiveReply, Timeout, DeletePhases
  <2>2. \E r \in {"ok", "error"} : FnReturns(r)
    BY <1>3 DEF ReceiveReply, Timeout
  <2> QED BY <2>1, <2>2, EachTake DEF Each!FNext
<1>4. CASE HandleResult
  <2>1. /\ phase = "returned" /\ UNCHANGED <<kind, items, pos, continueAll, results, answered>>
        /\ phase' \in {"next", "failed", "continuing"}
    BY <1>4 DEF HandleResult
  <2>2. CASE phase' = "failed"
    <3>1. Len(results) = pos /\ results \in Seq({"ok", "error"}) /\ pos \in Nat \ {0}
      BY <1>1, <2>1 DEF LoopOK, TypeOK
    <3>2. results # <<>> /\ results[pos] = "error"
      BY <1>4, <2>2, <3>1 DEF HandleResult
    <3>3. kind = "Single"
      BY <1>4, <2>2 DEF HandleResult
    <3>4. answered = "none"
      <4>1. ~continueAll
        BY <1>1, <3>3 DEF LoopOK
      <4> QED BY <1>1, <2>1, <4>1 DEF WaiverOK, TypeOK
    <3> QED BY <2>1, <2>2, <3>1, <3>2, <3>4 DEF Each!FNext, Each!Abort, Each!LastFailed, State
  <2>3. CASE phase' # "failed"
    BY <2>1, <2>3, EachStutter
  <2> QED BY <2>2, <2>3
<1>5. ASSUME NEW answer \in {"once", "all", "no"}, AnswerContinue(answer)
      PROVE  Each!FNext
  <2>1. /\ phase = "continuing" /\ UNCHANGED <<kind, items, pos, results>>
        /\ answered' = IF answer \in {"once", "all"} THEN answer ELSE "none"
        /\ phase' = IF answer \in {"once", "all"} THEN "next" ELSE "failed"
    BY <1>5 DEF AnswerContinue
  <2>2. Each!LastFailed /\ State = "running"
    <3>1. Len(results) = pos /\ results[pos] = "error" /\ pos \in Nat \ {0}
      BY <1>1, <2>1 DEF LoopOK, TypeOK
    <3> QED BY <2>1, <3>1 DEF Each!LastFailed, State
  <2>3. answered = "none"
    <3>1. ~continueAll
      BY <1>1, <2>1 DEF LoopOK
    <3> QED BY <1>1, <2>1, <3>1 DEF WaiverOK, TypeOK
  <2>4. CASE answer \in {"once", "all"}
    <3>1. answered' = answer /\ State' = "running"
      BY <2>1, <2>4 DEF State
    <3> QED BY <2>1, <2>2, <2>3, <2>4, <3>1 DEF Each!FNext, Each!Waive
  <2>5. CASE answer = "no"
    <3>1. answered' = "none" /\ State' = "aborted"
      BY <2>1, <2>5 DEF State
    <3> QED BY <2>1, <2>2, <2>3, <3>1 DEF Each!FNext, Each!Abort
  <2> QED BY <2>4, <2>5
<1>6. CASE NextItem("asking")
  <2>1. phase = "next" /\ UNCHANGED <<kind, items, continueAll, results, answered>>
    BY <1>6 DEF NextItem
  <2>2. CASE pos = Len(items)
    <3>1. phase' = "finished"
      BY <1>6, <2>2 DEF NextItem
    <3>2. Len(results) = Len(items)
      BY <1>1, <2>1, <2>2 DEF LoopOK
    <3>3. State = "running" /\ State' = "finished"
      BY <2>1, <3>1 DEF State
    <3>4. Each!MayProceed
      BY <2>1 DEF Each!MayProceed, Each!LastFailed, WaiverOK, LastFailed
    <3> QED BY <2>1, <3>2, <3>3, <3>4 DEF Each!FNext, Each!Finish
  <2>3. CASE pos # Len(items)
    <3>1. phase' = "asking"
      BY <1>6, <2>3 DEF NextItem
    <3> QED BY <2>1, <3>1, EachStutter
  <2> QED BY <2>2, <2>3
<1>7. CASE Killed
  <2>1. ~Ended /\ phase' = "killed" /\ UNCHANGED <<items, results, answered>>
    BY <1>7 DEF Killed
  <2>2. State = "running" /\ State' = "killed"
    BY <2>1 DEF State, Ended
  <2> QED BY <2>1, <2>2 DEF Each!FNext, Each!Kill
<1>8. CASE UNCHANGED loopVars
  BY <1>8 DEF loopVars, Each!fvars, State
<1> QED BY <1>2, <1>3, <1>4, <1>5, <1>6, <1>7, <1>8
        DEF Next, Loop, ServerDeletes, ServerRefuses, OthersChange, vars

(* delete goes through the selection as ForEach says: nothing is attempted *)
(* after a failure that the user has not waived.                           *)
THEOREM DeleteImplementsForEach == Spec => ImplementsForEach
BY EachInit, EachStep, WaiversAreAnswers, PTL DEF Spec, ImplementsForEach, Each!FSpec

-----------------------------------------------------------------------------
(* How many more steps the loop can take before it has ended. *)
StepsLeft ==
  5 * (Len(items) - pos)
    + (IF phase = "asking" THEN 5
       ELSE IF phase = "requesting" THEN 4
       ELSE IF phase = "returned" THEN 3
       ELSE IF phase = "continuing" THEN 2
       ELSE IF phase = "next" THEN 1
       ELSE 0)

StepsRunOut ==
  [][UNCHANGED loopVars \/ (StepsLeft' \in Nat /\ StepsLeft' < StepsLeft)]_vars

(* A step within the item the loop is at. *)
LEMMA StepWithinItem ==
  ASSUME TypeOK, UNCHANGED <<items, pos>>,
         \/ phase = "asking" /\ phase' \in {"requesting", "returned"}
         \/ phase = "requesting" /\ phase' = "returned"
         \/ phase = "returned" /\ phase' \in {"continuing", "next", "failed"}
         \/ phase = "continuing" /\ phase' \in {"next", "failed"}
         \/ phase = "next" /\ phase' = "finished"
         \/ ~Ended /\ phase' = "killed"
  PROVE  StepsLeft' \in Nat /\ StepsLeft' < StepsLeft
<1>1. Len(items) \in Nat /\ pos \in Nat /\ pos =< Len(items)
  BY DEF TypeOK
<1>2. phase \in DeletePhases \cup LoopPhases
  BY DEF TypeOK
<1>3. Len(items') = Len(items) /\ pos' = pos
  OBVIOUS
<1> QED BY <1>1, <1>2, <1>3 DEF StepsLeft, Ended, DeletePhases, LoopPhases

(* Each step of the loop is one step less to go, whatever the server and   *)
(* the user answer, in whatever order: five steps for each object at most. *)
(* So delete ends if it always goes on, which its deadline sees to         *)
(* (env.go:434-458, delete.go:44-56).                                      *)
THEOREM DeleteRunsOut == Spec => StepsRunOut
<1>1. ASSUME IInv, Next
      PROVE  UNCHANGED loopVars \/ (StepsLeft' \in Nat /\ StepsLeft' < StepsLeft)
  <2>1. TypeOK
    BY <1>1 DEF IInv
  <2>2. CASE \E answer \in {"yes", "no", "readError"} : Confirm(answer)
    <3>1. phase = "asking" /\ phase' \in {"requesting", "returned"} /\ UNCHANGED <<items, pos>>
      BY <2>2 DEF Confirm, FnReturns
    <3> QED BY <2>1, <3>1, StepWithinItem
  <2>3. CASE ReceiveReply \/ Timeout
    <3>1. phase = "requesting" /\ phase' = "returned" /\ UNCHANGED <<items, pos>>
      BY <2>3 DEF ReceiveReply, Timeout, FnReturns
    <3> QED BY <2>1, <3>1, StepWithinItem
  <2>4. CASE HandleResult
    <3>1. /\ phase = "returned" /\ phase' \in {"continuing", "next", "failed"}
          /\ UNCHANGED <<items, pos>>
      BY <2>4 DEF HandleResult
    <3> QED BY <2>1, <3>1, StepWithinItem
  <2>5. CASE \E answer \in {"once", "all", "no"} : AnswerContinue(answer)
    <3>1. phase = "continuing" /\ phase' \in {"next", "failed"} /\ UNCHANGED <<items, pos>>
      BY <2>5 DEF AnswerContinue
    <3> QED BY <2>1, <3>1, StepWithinItem
  <2>6. CASE NextItem("asking")
    <3>1. phase = "next" /\ UNCHANGED items
      BY <2>6 DEF NextItem
    <3>2. CASE pos = Len(items)
      <4>1. phase' = "finished" /\ UNCHANGED pos
        BY <2>6, <3>2 DEF NextItem
      <4> QED BY <2>1, <3>1, <4>1, StepWithinItem
    <3>3. CASE pos # Len(items)
      <4>1. phase' = "asking" /\ pos' = pos + 1
        BY <2>6, <3>3 DEF NextItem
      <4>2. Len(items) \in Nat /\ pos \in Nat /\ pos < Len(items) /\ Len(items') = Len(items)
        BY <2>1, <3>1, <3>3 DEF TypeOK
      <4> QED BY <3>1, <4>1, <4>2 DEF StepsLeft
    <3> QED BY <3>2, <3>3
  <2>7. CASE Killed
    <3>1. ~Ended /\ phase' = "killed" /\ UNCHANGED <<items, pos>>
      BY <2>7 DEF Killed
    <3> QED BY <2>1, <3>1, StepWithinItem
  <2> QED BY <1>1, <2>2, <2>3, <2>4, <2>5, <2>6, <2>7
          DEF Next, Loop, ServerDeletes, ServerRefuses, OthersChange
<1>2. IInv /\ [Next]_vars =>
        [UNCHANGED loopVars \/ (StepsLeft' \in Nat /\ StepsLeft' < StepsLeft)]_vars
  BY <1>1
<1> QED BY <1>2, Invariant, PTL DEF Spec, StepsRunOut

=============================================================================
