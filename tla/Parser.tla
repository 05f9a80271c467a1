------------------------------- MODULE Parser -------------------------------
(***************************************************************************)
(* Numeric selection syntax of the REPL: bare indices, ranges `a..b` and   *)
(* comma-separated lists, and how the dispatcher chooses between them.     *)
(*                                                                         *)
(* A typed line is abstracted to its shape and its tokens.  A token is the *)
(* natural number its digits spell, Blank when it is empty, or Word when   *)
(* it holds anything but digits.                                           *)
(*   [form |-> "range", start |-> t, end |-> t, eq |-> b]                  *)
(*       one word holding "..", with b telling "..=" from ".."             *)
(*   [form |-> "list", parts |-> <<t1, ..., tn>>]                          *)
(*       the line split at its commas; n = 1 when it holds none            *)
(* Go's int has the values -MaxInt-1 .. MaxInt and wraps around.           *)
(***************************************************************************)
EXTENDS Integers, Sequences

CONSTANTS
  MaxInt,    (* largest value of Go's int *)
  MaxAlloc,  (* largest capacity make([]int, 0, n) can satisfy *)
  Blank,     (* an empty token *)
  Word       (* a token that is not a sequence of digits *)

ASSUME IntAssumption ==
  /\ MaxInt \in Nat \ {0}
  /\ MaxAlloc \in 0..MaxInt

ASSUME TokenAssumption == {Blank, Word} \cap Nat = {}

Tokens == Nat \cup {Blank, Word}

Lines ==
  [form : {"range"}, start : Tokens, end : Tokens, eq : BOOLEAN]
    \cup [form : {"list"}, parts : Seq(Tokens)]

(* The value Go's wrapping arithmetic gives the mathematical integer v. *)
Wrap(v) == ((v + MaxInt + 1) % (2 * (MaxInt + 1))) - MaxInt - 1

(* parseUint accumulates n*10 + digit without an overflow check, so the    *)
(* value it returns is the typed number modulo the width of int.           *)
parseUintOk(t) == t \in Nat
parseUint(t)   == Wrap(t)

(* What TryParseRange and TryParseCSL return: ok says whether the line has *)
(* that syntax; panics that building the slice killed the program.         *)
NoMatch       == [ok |-> FALSE, panics |-> FALSE, indices |-> <<>>]
Matched(s)    == [ok |-> TRUE, panics |-> FALSE, indices |-> s]
MakePanics    == [ok |-> TRUE, panics |-> TRUE, indices |-> <<>>]

(* make([]int, 0, n) followed by appending from, from+1, ..., from+n-1. *)
Materialized(from, n) ==
  IF n \in 0..MaxAlloc THEN Matched([k \in 1..n |-> from + k - 1])
                       ELSE MakePanics

materializeRange(start, lastLen) ==
  IF start >= lastLen THEN Matched(<<>>)
                      ELSE Materialized(start, Wrap(lastLen - start))

materializeBoundedRange(start, end, lastLen) ==
  LET stop == IF end > lastLen THEN lastLen ELSE end
  IN  IF start >= end \/ start >= lastLen
        THEN Matched(<<>>)
        ELSE Materialized(start, Wrap(stop - start))

(* Slip: the end of a range is left out, as in a slice expression. *)
TryParseRange_HalfOpen(line, lastLen) ==
  LET start == IF line.start = Blank THEN 0 ELSE parseUint(line.start)
  IN  IF \/ line.eq
         \/ line.start # Blank /\ ~parseUintOk(line.start)
         \/ line.end # Blank /\ ~parseUintOk(line.end)
        THEN NoMatch
      ELSE IF line.end = Blank
        THEN materializeRange(start, lastLen)
        ELSE materializeBoundedRange(start, parseUint(line.end), lastLen)

(* The branches of TryParseRange after the ".." has been found. *)
TryParseRange(line, lastLen) ==
  LET start == IF line.start = Blank THEN 0 ELSE parseUint(line.start)
  IN  IF \/ line.eq
         \/ line.start # Blank /\ ~parseUintOk(line.start)
         \/ line.end # Blank /\ ~parseUintOk(line.end)
        THEN NoMatch
      ELSE IF line.end = Blank
        THEN materializeRange(start, lastLen)
        ELSE materializeBoundedRange(start, Wrap(parseUint(line.end) + 1), lastLen)

TryParseCSL(line) ==
  IF \A k \in DOMAIN line.parts : parseUintOk(line.parts[k])
    THEN Matched([k \in DOMAIN line.parts |-> parseUint(line.parts[k])])
    ELSE NoMatch

-----------------------------------------------------------------------------
(* Dispatch: a bare integer that strconv.Atoi accepts selects one row; any *)
(* other range or list selects several; everything else is a command name. *)
IsBareIndex(line) ==
  /\ line.form = "list"
  /\ Len(line.parts) = 1
  /\ line.parts[1] \in 0..MaxInt

ParsedSelection(line, lastLen) ==
  IF line.form = "range" THEN TryParseRange(line, lastLen) ELSE TryParseCSL(line)

=============================================================================
