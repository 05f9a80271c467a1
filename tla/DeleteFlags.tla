---------------------------- MODULE DeleteFlags ----------------------------
(***************************************************************************)
(* The flags of the delete command over a session.  BuildCommands creates  *)
(* a command's FlagSet once, and Execute parses every line into it, so     *)
(* what one line sets is still set when the next one is parsed.  pflag is  *)
(* external: it reads a line from left to right and stops at the first     *)
(* argument it cannot take; a flag whose integer does not parse is left    *)
(* unmarked but holds 0.                                                   *)
(***************************************************************************)
EXTENDS Integers, Sequences, SequencesExt

CONSTANTS
  Graces,     (* what --gracePeriod is given *)
  Cascades,   (* what --cascade is given, valid policies or not *)
  MaxArgs     (* bound: arguments of one line *)

ASSUME DeleteFlagsAssumption ==
  /\ Graces \subseteq Int
  /\ MaxArgs \in Nat

VARIABLES
  flags,   (* the FlagSet and the variables bound to it *)
  answer,  (* what the last line came to *)
  line     (* history: the last line *)

vars == <<flags, answer, line>>

Policies == {"background", "foreground", "orphan"}
Unset    == -1    (* no grace period in the request: the server's default *)

(* Arguments as pflag reads them; `ok` is FALSE for one it rejects. *)
Args ==
  [flag : {"gracePeriod"}, seconds : Graces, ok : {TRUE}]
    \cup {[flag |-> "gracePeriod", seconds |-> 0, ok |-> FALSE]}
    \cup [flag : {"cascade"}, policy : Cascades, ok : {TRUE}]
    \cup [flag : {"now", "force", "help"}, on : BOOLEAN, ok : {TRUE}]
    \cup {[flag |-> "unknown", ok |-> FALSE], [flag |-> "word", ok |-> TRUE]}

Defaults ==
  [gracePeriod |-> -1, graceChanged |-> FALSE, cascade |-> "background",
   now |-> FALSE, force |-> FALSE, help |-> FALSE]

Outcomes == {"none", "parse error", "help", "usage error", "exclusive", "bad grace",
             "bad cascade", "no object", "request"}

Answers == [outcome : Outcomes, grace : Graces \cup {-1, 0, 1},
            policy : Policies \cup {"none"}]

Refused(why) == [outcome |-> why, grace |-> Unset, policy |-> "none"]

-----------------------------------------------------------------------------
(* pflag: one argument, then a line of them.                               *)

Written(f, arg) ==
  CASE arg.flag = "gracePeriod" ->
         [f EXCEPT !.gracePeriod = arg.seconds, !.graceChanged = @ \/ arg.ok]
    [] arg.flag = "cascade" -> [f EXCEPT !.cascade = arg.policy]
    [] arg.flag = "now"     -> [f EXCEPT !.now = arg.on]
    [] arg.flag = "force"   -> [f EXCEPT !.force = arg.on]
    [] arg.flag = "help"    -> [f EXCEPT !.help = arg.on]
    [] OTHER -> f

ParseFails(args) == \E i \in DOMAIN args : ~args[i].ok

(* The arguments Parse reaches: those up to the first it rejects. *)
Reached(args) ==
  SubSeq(args, 1, CHOOSE n \in 0..Len(args) :
                    /\ \A i \in 1..(n - 1) : args[i].ok
                    /\ n = Len(args) \/ (n > 0 /\ ~args[n].ok))

(* The flags f once the first n of the arguments are written, for every n. *)
AfterArgs(f, args) ==
  LET after[n \in 0..Len(args)] ==
        IF n = 0 THEN f ELSE Written(after[n - 1], args[n])
  IN  after

Parse(f, args) ==
  LET reached == Reached(args) IN AfterArgs(f, reached)[Len(reached)]

-----------------------------------------------------------------------------
(* The body of delete.                                                     *)

WaysSet(f) == {w \in {"grace", "now", "force"} :
                 CASE w = "grace" -> f.graceChanged
                   [] w = "now"   -> f.now
                   [] w = "force" -> f.force}

GraceOf(f) ==
  IF f.graceChanged THEN f.gracePeriod
  ELSE IF f.now THEN 1
  ELSE IF f.force THEN 0
  ELSE Unset

(* Slip: --now and --force are not counted against each other. *)
Exclusive_NowAndForce(f) == f.graceChanged /\ (f.now \/ f.force)

Exclusive(f) == \E v, w \in WaysSet(f) : v # w

(* Slip: the policy goes into the request as it was typed. *)
PolicyValid_Unchecked(f) == TRUE

PolicyValid(f) == f.cascade \in Policies

(* What a line comes to, once its flags are parsed. *)
Answer(f, args, selected) ==
  IF ParseFails(args) THEN Refused("parse error")
  ELSE IF f.help THEN Refused("help")
  ELSE IF \E i \in DOMAIN args : args[i].flag = "word" THEN Refused("usage error")
  ELSE IF Exclusive(f) THEN Refused("exclusive")
  ELSE IF f.graceChanged /\ f.gracePeriod < 0 THEN Refused("bad grace")
  ELSE IF ~PolicyValid(f) THEN Refused("bad cascade")
  ELSE IF ~selected THEN Refused("no object")
  ELSE [outcome |-> "request", grace |-> GraceOf(f), policy |-> f.cascade]

Init ==
  /\ flags = Defaults
  /\ answer = Refused("none")
  /\ line = [args |-> <<>>, selected |-> FALSE]

Execute(args, selected) ==
  /\ flags' = Parse(flags, args)
  /\ answer' = Answer(flags', args, selected)
  /\ line' = [args |-> args, selected |-> selected]

Next ==
  \E args \in BoundedSeq(Args, MaxArgs), selected \in BOOLEAN : Execute(args, selected)

Spec == Init /\ [][Next]_vars

-----------------------------------------------------------------------------
(* Every variable keeps its type. *)
TypeOK ==
  /\ flags \in [gracePeriod : Graces \cup {-1, 0}, graceChanged : BOOLEAN,
                cascade : Cascades \cup {"background"},
                now : BOOLEAN, force : BOOLEAN, help : BOOLEAN]
  /\ answer \in Answers
  /\ line \in [args : Seq(Args), selected : BOOLEAN]

(* The last of the arguments said that is for a flag. *)
LastOf(said, flag, default) ==
  LET places == {i \in DOMAIN said : said[i].flag = flag}
  IN  IF places = {} THEN default ELSE said[CHOOSE i \in places : \A j \in places : j <= i]

IsOn(said, flag) == LastOf(said, flag, [on |-> FALSE]).on

(* What a line says of a request is what the request says: help asks for   *)
(* none, two ways of --gracePeriod, --now and --force make none, and what  *)
(* earlier lines have left in the flags never overrides the line itself    *)
(* (delete.go:73-106, cmd.go:145-152).                                     *)
RequestsObeyTheirLine ==
  answer.outcome = "request" =>
    /\ ~IsOn(line.args, "help")
    /\ answer.policy = LastOf(line.args, "cascade", answer).policy
    /\ answer.grace = LastOf(line.args, "gracePeriod", [seconds |-> answer.grace]).seconds
    /\ IsOn(line.args, "now") => answer.grace = 1
    /\ IsOn(line.args, "force") => answer.grace = 0

(* What Execute's comment promises (cmd.go:139): "Resets all flag values   *)
(* to their defaults so repeated REPL invocations don't accumulate state   *)
(* across calls".  A line comes to what it comes to in a new session.      *)
LinesStandAlone ==
  answer.outcome # "none" =>
    answer = Answer(Parse(Defaults, line.args), line.args, line.selected)

=============================================================================
