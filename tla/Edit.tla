-------------------------------- MODULE Edit --------------------------------
(***************************************************************************)
(* edit: the object is fetched and written to a temporary file, the user   *)
(* changes that in an editor, and what krepl reads back is sent as an      *)
(* update, which the API server accepts when it carries the current        *)
(* resourceVersion, or none.  Others update, delete and recreate the       *)
(* object meanwhile.  A document is the object's text and version.         *)
(***************************************************************************)
EXTENDS Terminal

CONSTANTS
  Texts,        (* contents the object may have *)
  MaxVersion    (* bound on the resourceVersions the server hands out *)

ASSUME EditAssumption == MaxVersion \in Nat \ {0} /\ "notYAML" \notin Texts

NoVersion  == 0     (* the user has removed the line *)
Documents  == [text : Texts \cup {"notYAML"}, version : 0..MaxVersion]
NoDocument == [text |-> "notYAML", version |-> NoVersion]

VARIABLES
  object,     (* the document of the object the server holds, *)
  present,    (* and whether it still does *)
  edit        (* the command's locals, and what became of them: see Edits *)

editVars == <<object, present, edit>>

Edits ==
  [fetched   : Documents,   (* what krepl has fetched *)
   opened    : Documents,   (* what the file that krepl has open holds *)
   saved     : Documents,   (* what the file of that name holds *)
   editorOk  : BOOLEAN,     (* the editor has not exited with an error *)
   sent      : Documents,   (* the update sent *)
   update    : {"none", "underway", "applied", "refused", "lost"},
   overwrote : 0..MaxVersion,   (* history: the version it replaced *)
   said      : {"nothing", "updated", "cancelled", "error"}]
                                (* history: what the user was told *)

NoEdit ==
  [fetched |-> NoDocument, opened |-> NoDocument, saved |-> NoDocument,
   editorOk |-> TRUE, sent |-> NoDocument, update |-> "none",
   overwrote |-> NoVersion, said |-> "nothing"]

EditPCs == {"edit.get", "edit.suspend", "edit.editor", "edit.resume",
            "edit.read", "edit.compare", "edit.apply", "edit.wait"}

EditInit ==
  /\ object \in [text : Texts, version : {1}]
  /\ present = TRUE
  /\ edit = NoEdit

(* An object of a kind edit supports is selected, in a context. *)
StartEdit ==
  /\ pc = "prompt"
  /\ Goto("edit.get")
  /\ UNCHANGED editVars

EditReturns(said) ==
  /\ Goto("dispatched")
  /\ edit' = [edit EXCEPT !.said = said]

(* The fetch has a deadline; the temporary file may fail too. *)
GetObject ==
  /\ pc = "edit.get"
  /\ \/ /\ present
        /\ Goto("edit.suspend")
        /\ edit' = [edit EXCEPT !.fetched = object, !.opened = object, !.saved = object]
     \/ EditReturns("error")
  /\ UNCHANGED <<object, present>>

EditSuspend ==
  /\ SuspendTerminal("edit.suspend", "edit.editor")
  /\ edit' = IF pc' = "dispatched" THEN [edit EXCEPT !.said = "error"] ELSE edit
  /\ UNCHANGED <<object, present>>

(* The user saves a document, or not.  An editor writes to the file that   *)
(* krepl has open, or puts another one of that name in its place.          *)
RunEditor ==
  /\ pc = "edit.editor"
  /\ Goto("edit.resume")
  /\ \E doc \in [text : Texts \cup {"notYAML"}, version : {edit.fetched.version, NoVersion}],
        inPlace, ok \in BOOLEAN :
       edit' = [edit EXCEPT !.saved = doc,
                            !.opened = IF inPlace THEN doc ELSE @,
                            !.editorOk = ok]
  /\ UNCHANGED <<object, present>>

EditResume ==
  /\ ResumeTerminal("edit.resume", "edit.read")
  /\ UNCHANGED editVars

(* An editor that failed, or a file that cannot be read, ends the edit. *)
ReadBack ==
  /\ pc = "edit.read"
  /\ \/ edit.editorOk /\ Goto("edit.compare") /\ UNCHANGED edit
     \/ EditReturns("error")
  /\ UNCHANGED <<object, present>>

(* Slip: what does not parse is sent all the same. *)
Compare_Unparsed ==
  /\ pc = "edit.compare"
  /\ IF edit.opened = edit.fetched
       THEN EditReturns("cancelled")
       ELSE Goto("edit.apply") /\ UNCHANGED edit
  /\ UNCHANGED <<object, present>>

(* What counts is the file krepl has open. *)
Compare ==
  /\ pc = "edit.compare"
  /\ \/ edit.opened = edit.fetched /\ EditReturns("cancelled")
     \/ /\ edit.opened # edit.fetched
        /\ IF edit.opened.text = "notYAML"
             THEN EditReturns("error")
             ELSE Goto("edit.apply") /\ UNCHANGED edit
  /\ UNCHANGED <<object, present>>

(* Slip: the version is brought up to date before the update is sent. *)
ApplyEdit_Refetches ==
  /\ pc = "edit.apply"
  /\ Goto("edit.wait")
  /\ edit' = [edit EXCEPT
       !.update = "underway",
       !.sent = [edit.opened EXCEPT
                   !.version = IF @ = NoVersion THEN @ ELSE object.version]]
  /\ UNCHANGED <<object, present>>

(* No client can be built, or the update is sent. *)
ApplyEdit ==
  /\ pc = "edit.apply"
  /\ \/ EditReturns("error")
     \/ /\ Goto("edit.wait")
        /\ edit' = [edit EXCEPT !.update = "underway", !.sent = edit.opened]
  /\ UNCHANGED <<object, present>>

(* The server accepts the update, or refuses it, or it is lost. *)
ServerUpdates ==
  /\ edit.update = "underway"
  /\ \/ /\ present
        /\ edit.sent.version \in {NoVersion, object.version}
        /\ object.version < MaxVersion
        /\ object' = [text |-> edit.sent.text, version |-> object.version + 1]
        /\ edit' = [edit EXCEPT !.update = "applied", !.overwrote = object.version]
     \/ /\ \E u \in {"refused", "lost"} : edit' = [edit EXCEPT !.update = u]
        /\ UNCHANGED object
  /\ UNCHANGED <<termVars, present>>

(* An update, a deletion, or a new object of the same name. *)
OthersUpdate ==
  /\ object.version < MaxVersion
  /\ \E text \in Texts : object' = [text |-> text, version |-> object.version + 1]
  /\ present' \in BOOLEAN
  /\ UNCHANGED <<termVars, edit>>

(* Slip: a conflict is not told from success. *)
ReceiveUpdate_IgnoresConflict ==
  /\ pc = "edit.wait"
  /\ edit.update \in {"applied", "refused"}
  /\ EditReturns("updated")
  /\ UNCHANGED <<object, present>>

ReceiveUpdate ==
  /\ pc = "edit.wait"
  /\ edit.update \in {"applied", "refused"}
  /\ EditReturns(IF edit.update = "applied" THEN "updated" ELSE "error")
  /\ UNCHANGED <<object, present>>

(* After 30 seconds, or when the connection fails; the server may still    *)
(* accept the update.                                                      *)
UpdateTimeout ==
  /\ pc = "edit.wait"
  /\ EditReturns("error")
  /\ UNCHANGED <<object, present>>

(* What edit does by itself; the user ends the editor. *)
EditGoesOn ==
  \/ GetObject \/ EditSuspend \/ EditResume \/ ReadBack \/ Compare
  \/ ApplyEdit \/ ReceiveUpdate \/ UpdateTimeout

=============================================================================
