-------------------------- MODULE ApplyToSelection --------------------------
(***************************************************************************)
(* Env.ApplyToSelection: how a command runs its function fn on each object *)
(* of the selection, and the prompt after a failure.  What fn does is in   *)
(* the module that extends this one: it works in phases of its own, from   *)
(* firstPhase on, and ends with FnReturns.                                 *)
(***************************************************************************)
EXTENDS Naturals, Sequences

CONSTANTS
  Objects,     (* what can be selected *)
  MaxItems     (* bound on the length of a selection *)

ASSUME ApplyAssumption == MaxItems \in Nat \ {0}

VARIABLES
  kind,          (* selection.Kind: "Single" or "Range" *)
  items,         (* selection.Items; an object may occur more than once *)
  pos,           (* the item the loop is at *)
  phase,         (* where the command is *)
  continueAll,   (* the user has waived all further failures *)
  results,       (* history: how fn ended for the items before *)
  answered       (* history: what the user answered to the last failure, or *)
                 (* "none"; "all" holds from then on *)

loopVars == <<kind, items, pos, phase, continueAll, results, answered>>

LoopPhases ==
  {"returned", "continuing", "next", "finished", "failed", "killed"}

Ended == phase \in {"finished", "failed", "killed"}

(* A selection that is not empty: delete and its like refuse others. *)
LoopInit(firstPhase) ==
  /\ kind \in {"Single", "Range"}
  /\ items \in UNION {[1..n -> Objects] : n \in 1..MaxItems}
  /\ kind = "Single" => Len(items) = 1
  /\ pos = 1
  /\ phase = firstPhase
  /\ continueAll = FALSE
  /\ results = <<>>
  /\ answered = "none"

(* fn(items[pos]) returns, with an error or without. *)
FnReturns(result) ==
  /\ phase' = "returned"
  /\ results' = Append(results, result)
  /\ answered' = IF answered = "all" THEN "all" ELSE "none"
  /\ UNCHANGED <<kind, items, pos, continueAll>>

HandleResult ==
  /\ phase = "returned"
  /\ phase' = IF results[pos] = "ok" THEN "next"
              ELSE IF kind = "Single" THEN "failed"
              ELSE IF continueAll THEN "next" ELSE "continuing"
  /\ UNCHANGED <<kind, items, pos, continueAll, results, answered>>

(* Slip: "once" waives what comes after it as well. *)
AnswerContinue_OnceIsAll(answer) ==
  /\ phase = "continuing"
  /\ continueAll' = (answer \in {"once", "all"})
  /\ answered' = IF answer \in {"once", "all"} THEN answer ELSE "none"
  /\ phase' = IF answer \in {"once", "all"} THEN "next" ELSE "failed"
  /\ UNCHANGED <<kind, items, pos, results>>

(* "Continue? [o/a/N]?"; any other answer, and none, mean no.  *)
AnswerContinue(answer) ==
  /\ phase = "continuing"
  /\ continueAll' = (answer = "all")
  /\ answered' = IF answer \in {"once", "all"} THEN answer ELSE "none"
  /\ phase' = IF answer \in {"once", "all"} THEN "next" ELSE "failed"
  /\ UNCHANGED <<kind, items, pos, results>>

(* Slip: the loop runs once too often. *)
NextItem_OneTooMany(firstPhase) ==
  /\ phase = "next"
  /\ IF pos > Len(items)
       THEN phase' = "finished" /\ UNCHANGED pos
       ELSE phase' = firstPhase /\ pos' = pos + 1
  /\ UNCHANGED <<kind, items, continueAll, results, answered>>

NextItem(firstPhase) ==
  /\ phase = "next"
  /\ IF pos = Len(items)
       THEN phase' = "finished" /\ UNCHANGED pos
       ELSE phase' = firstPhase /\ pos' = pos + 1
  /\ UNCHANGED <<kind, items, continueAll, results, answered>>

(* Ctrl-C while a command runs ends krepl. *)
Killed ==
  /\ ~Ended
  /\ phase' = "killed"
  /\ UNCHANGED <<kind, items, pos, continueAll, results, answered>>

-----------------------------------------------------------------------------
(* The loop implements ForEach; what is waived is what the user answered,   *)
(* whatever the loop makes of it.                                          *)
State ==
  CASE phase = "finished" -> "finished"
    [] phase = "failed"   -> "aborted"
    [] phase = "killed"   -> "killed"
    [] OTHER              -> "running"

Each == INSTANCE ForEach WITH
  count <- Len(items), waiver <- answered, state <- State

(* Items are taken in order, once each; none is taken after a failure the  *)
(* user has not waived; and the command ends well only after the last.     *)
ImplementsForEach == Each!FSpec

=============================================================================
