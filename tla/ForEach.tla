------------------------------- MODULE ForEach -------------------------------
(***************************************************************************)
(* What a command on a selection promises: the objects are taken once each *)
(* and in order, nothing is taken after one that failed unless the user    *)
(* has waived that failure, or all further ones, and the command succeeds  *)
(* only when it has been through the whole selection.                      *)
(***************************************************************************)
EXTENDS Sequences, Naturals

VARIABLES
  count,             (* how many objects are selected *)
  results,           (* "ok" or "error" for each object taken so far *)
  waiver,            (* "none", or the failures waived: "once", "all" *)
  state              (* "running", "finished", "aborted", "killed" *)

fvars == <<count, results, waiver, state>>

LastFailed == results # <<>> /\ results[Len(results)] = "error"

MayProceed == LastFailed => waiver # "none"

FInit == count \in Nat /\ results = <<>> /\ waiver = "none" /\ state = "running"

Take(result) ==
  /\ state = "running"
  /\ Len(results) < count
  /\ MayProceed
  /\ results' = Append(results, result)
  /\ waiver' = IF waiver = "all" THEN "all" ELSE "none"
  /\ UNCHANGED <<count, state>>

Waive(w) ==
  /\ state = "running"
  /\ LastFailed
  /\ waiver = "none"
  /\ waiver' = w
  /\ UNCHANGED <<count, results, state>>

Finish ==
  /\ state = "running"
  /\ Len(results) = count
  /\ MayProceed
  /\ state' = "finished"
  /\ UNCHANGED <<count, results, waiver>>

Abort ==
  /\ state = "running"
  /\ LastFailed
  /\ waiver = "none"
  /\ state' = "aborted"
  /\ UNCHANGED <<count, results, waiver>>

(* The program ends in the middle. *)
Kill ==
  /\ state = "running"
  /\ state' = "killed"
  /\ UNCHANGED <<count, results, waiver>>

FNext ==
  \/ \E result \in {"ok", "error"} : Take(result)
  \/ \E w \in {"once", "all"} : Waive(w)
  \/ Finish \/ Abort \/ Kill

FSpec == FInit /\ [][FNext]_fvars

=============================================================================
