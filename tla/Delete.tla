------------------------------- MODULE Delete -------------------------------
(***************************************************************************)
(* delete on a selection: for each object a confirmation, then a request   *)
(* that the API server may carry out, refuse or never see, and that the    *)
(* client gives up on after 30 seconds, when the server may still carry it *)
(* out.  Others create and delete objects meanwhile.  A request is known   *)
(* by the position of its item: an object selected twice is asked about    *)
(* and requested twice.                                                    *)
(***************************************************************************)
EXTENDS ApplyToSelection, Kinds

ASSUME DeleteAssumption == \A o \in Objects : o.kind \in Kinds

VARIABLES
  present,      (* the objects the API server holds *)
  inFlight,     (* positions of the requests the server may yet carry out *)
  reply,        (* to the request the command waits for: "none" if not yet *)
  confirmed,    (* history: positions the user said yes to *)
  removed,      (* history: positions whose request deleted its object *)
  reported      (* history: positions for which "Deleted" was printed *)

serverVars  == <<present, inFlight, reply>>
historyVars == <<confirmed, removed, reported>>
vars == <<loopVars, serverVars, historyVars>>

DeletePhases == {"asking", "requesting"}

-----------------------------------------------------------------------------
(* The objects selected come from one list, so they are of one kind. *)
Init ==
  /\ LoopInit("asking")
  /\ \A i, j \in DOMAIN items : items[i].kind = items[j].kind
  /\ present \in SUBSET Objects
  /\ inFlight = {}
  /\ reply = "none"
  /\ confirmed = {}
  /\ removed = {}
  /\ reported = {}

(* Slip: "all" waives the confirmations as well. *)
Confirm_AllSkipsPrompt(answer) ==
  /\ phase = "asking"
  /\ confirmed' = IF answer = "yes" THEN confirmed \cup {pos} ELSE confirmed
  /\ UNCHANGED <<present, removed, reported>>
  /\ IF answer = "yes" \/ continueAll
       THEN /\ phase' = "requesting"
            /\ inFlight' = inFlight \cup {pos}
            /\ reply' = "none"
            /\ UNCHANGED <<kind, items, pos, continueAll, results, answered>>
       ELSE /\ FnReturns(IF answer = "readError" THEN "error" ELSE "ok")
            /\ UNCHANGED <<inFlight, reply>>

(* "Delete <kind> <name> [y/N]?": after a yes the request is sent, unless  *)
(* the kind has no target or no client can be built; any other line, and   *)
(* the end of input, mean "Not deleting".                                  *)
Confirm(answer) ==
  /\ phase = "asking"
  /\ confirmed' = IF answer = "yes" THEN confirmed \cup {pos} ELSE confirmed
  /\ UNCHANGED <<present, removed, reported>>
  /\ \/ /\ answer = "yes"
        /\ items[pos].kind \in DeletableKinds
        /\ phase' = "requesting"
        /\ inFlight' = inFlight \cup {pos}
        /\ reply' = "none"
        /\ UNCHANGED <<kind, items, pos, continueAll, results, answered>>
     \/ /\ answer \in {"yes", "readError"}
        /\ FnReturns("error")
        /\ UNCHANGED <<inFlight, reply>>
     \/ /\ answer = "no"
        /\ FnReturns("ok")
        /\ UNCHANGED <<inFlight, reply>>

(* The server's answer to request k reaches the command only while the     *)
(* command still waits for it.                                             *)
Reply(k, r) ==
  reply' = IF phase = "requesting" /\ k = pos THEN r ELSE reply

(* The server carries out request k: by name, whichever object bears it.   *)
ServerDeletes(k) ==
  /\ k \in inFlight
  /\ items[k] \in present
  /\ present' = present \ {items[k]}
  /\ inFlight' = inFlight \ {k}
  /\ removed' = removed \cup {k}
  /\ Reply(k, "deleted")
  /\ UNCHANGED <<loopVars, confirmed, reported>>

(* It finds no such object, refuses, or the request is lost on its way. *)
ServerRefuses(k) ==
  /\ k \in inFlight
  /\ inFlight' = inFlight \ {k}
  /\ \E r \in {"refused", "none"} : Reply(k, r)
  /\ UNCHANGED <<loopVars, present, historyVars>>

(* Other clients and the controllers of the cluster. *)
OthersChange(o) ==
  /\ present' \in {present \cup {o}, present \ {o}}
  /\ UNCHANGED <<loopVars, inFlight, reply, historyVars>>

(* Slips: an object that is not there counts as deleted; the error of the  *)
(* server is printed and then swallowed.                                   *)
ReceiveReply_IgnoresRefusal ==
  /\ phase = "requesting"
  /\ reply # "none"
  /\ FnReturns("ok")
  /\ reported' = reported \cup {pos}
  /\ UNCHANGED <<serverVars, confirmed, removed>>

ReceiveReply_SwallowsError ==
  /\ phase = "requesting"
  /\ reply # "none"
  /\ FnReturns("ok")
  /\ reported' = IF reply = "deleted" THEN reported \cup {pos} ELSE reported
  /\ UNCHANGED <<serverVars, confirmed, removed>>

ReceiveReply ==
  /\ phase = "requesting"
  /\ reply # "none"
  /\ FnReturns(IF reply = "deleted" THEN "ok" ELSE "error")
  /\ reported' = IF reply = "deleted" THEN reported \cup {pos} ELSE reported
  /\ UNCHANGED <<serverVars, confirmed, removed>>

(* Slip: the request has no deadline. *)
Timeout_Never == FALSE /\ UNCHANGED vars

(* The 30 seconds are over, when an answer may have come in just now, or   *)
(* the connection fails.                                                   *)
Timeout ==
  /\ phase = "requesting"
  /\ FnReturns("error")
  /\ UNCHANGED <<serverVars, historyVars>>

Loop ==
  /\ \/ HandleResult
     \/ \E answer \in {"once", "all", "no"} : AnswerContinue(answer)
     \/ NextItem("asking")
  /\ UNCHANGED <<serverVars, historyVars>>

Next ==
  \/ \E answer \in {"yes", "no", "readError"} : Confirm(answer)
  \/ ReceiveReply
  \/ Timeout
  \/ Loop
  \/ Killed /\ UNCHANGED <<serverVars, historyVars>>
  \/ \E k \in 1..MaxItems : ServerDeletes(k) \/ ServerRefuses(k)
  \/ \E o \in Objects : OthersChange(o)

Spec == Init /\ [][Next]_vars

(* The command runs on by itself, and the user answers what it asks.       *)
FairSpec ==
  /\ Spec
  /\ WF_vars(\E answer \in {"yes", "no", "readError"} : Confirm(answer))
  /\ WF_vars(Timeout)
  /\ WF_vars(Loop)

-----------------------------------------------------------------------------
(* Type invariant of the command and of the server. *)
TypeOK ==
  /\ kind \in {"Single", "Range"}
  /\ items \in Seq(Objects) /\ Len(items) \in 1..MaxItems
  /\ kind = "Single" => Len(items) = 1
  /\ pos \in 1..Len(items)
  /\ phase \in DeletePhases \cup LoopPhases
  /\ continueAll \in BOOLEAN
  /\ results \in Seq({"ok", "error"}) /\ Len(results) \in pos-1..pos
  /\ answered \in {"none", "once", "all"}
  /\ present \subseteq Objects
  /\ inFlight \subseteq 1..Len(items)
  /\ reply \in {"none", "deleted", "refused"}
  /\ confirmed \subseteq 1..Len(items)
  /\ removed \subseteq 1..Len(items)
  /\ reported \subseteq 1..Len(items)

(* Nothing is deleted, now or by a request that is still under way, that   *)
(* the user has not confirmed at its own prompt, and one yes deletes at    *)
(* most one object.  "All" waives failures, not confirmations.             *)
OnlyConfirmedAreDeleted ==
  /\ inFlight \cup removed \subseteq confirmed
  /\ inFlight \cap removed = {}
  /\ \A k \in inFlight \cup removed : items[k].kind \in DeletableKinds

(* "Deleted" is printed only for an object the server has deleted.         *)
ReportedAreDeleted == reported \subseteq removed

(* Once the loop is past a confirmed item, the user has seen "Deleted" or  *)
(* an error for it, and only one of them; and when the command succeeds it *)
(* has been past every item.                                               *)
EveryItemAccountedFor ==
  /\ \A k \in DOMAIN results \cap confirmed : results[k] = "ok" <=> k \in reported
  /\ phase = "finished" => Len(results) = Len(items)
  /\ phase = "finished" /\ kind = "Single" => results[1] = "ok"

(* The kinds whose list command says in its help that rows can be selected *)
(* for follow-up commands such as `delete`.                                *)
KindsWithDeleteHelp == Kinds \ {"Pod", "StorageClass", "Dynamic"}

(* What the help says: for those kinds a yes can lead to a request.        *)
YesCanDelete ==
  phase = "asking" /\ items[pos].kind \in KindsWithDeleteHelp =>
    ENABLED (Confirm("yes") /\ phase' = "requesting")

(* The command ends: no request is waited for longer than its deadline.    *)
DeleteEnds == <>Ended

=============================================================================
