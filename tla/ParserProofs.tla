---------------------------- MODULE ParserProofs ----------------------------
(***************************************************************************)
(* Lemmas about the selection syntax, for every width of int: what a typed *)
(* range or list yields is a finite sequence of integers, and where no     *)
(* number is too large for an int it is the rows that the line names.      *)
(***************************************************************************)
EXTENDS Parser, TLAPS

-----------------------------------------------------------------------------
(* What the selection syntax yields is a finite sequence of integers. *)
LEMMA WrapType ==
  ASSUME NEW v \in Int
  PROVE  Wrap(v) \in Int
BY IntAssumption DEF Wrap

LEMMA MaterializedType ==
  ASSUME NEW from \in Int, NEW n, Materialized(from, n).ok
  PROVE  \E m \in Nat : Materialized(from, n).indices \in [1..m -> Int]
<1>1. CASE n \in 0..MaxAlloc
  <2>1. Materialized(from, n).indices = [k \in 1..n |-> from + k - 1]
    BY <1>1 DEF Materialized, Matched
  <2>2. n \in Nat
    BY <1>1, IntAssumption
  <2>3. [k \in 1..n |-> from + k - 1] \in [1..n -> Int]
    BY <2>2
  <2> QED BY <2>1, <2>2, <2>3
<1>2. CASE n \notin 0..MaxAlloc
  <2>1. Materialized(from, n).indices = <<>>
    BY <1>2 DEF Materialized, MakePanics
  <2>2. <<>> \in [1..0 -> Int]
    OBVIOUS
  <2> QED BY <2>1, <2>2
<1> QED BY <1>1, <1>2

LEMMA RangeType ==
  ASSUME NEW line \in Lines, line.form = "range", NEW lastLen \in Nat,
         TryParseRange(line, lastLen).ok
  PROVE  \E m \in Nat : TryParseRange(line, lastLen).indices \in [1..m -> Int]
<1> DEFINE start == IF line.start = Blank THEN 0 ELSE parseUint(line.start)
           end   == Wrap(parseUint(line.end) + 1)
<1>1. /\ line.start # Blank => line.start \in Nat
      /\ line.end # Blank => line.end \in Nat
  BY DEF TryParseRange, NoMatch, parseUintOk
<1>2. start \in Int
  BY <1>1, WrapType DEF parseUint
<1>3. line.end # Blank => end \in Int
  BY <1>1, WrapType DEF parseUint
<1>4. <<>> \in [1..0 -> Int] /\ 0 \in Nat
  OBVIOUS
<1>5. CASE line.end = Blank
  <2>1. TryParseRange(line, lastLen) = materializeRange(start, lastLen)
    BY <1>5 DEF TryParseRange, NoMatch
  <2>2. CASE start >= lastLen
    BY <2>1, <2>2, <1>4 DEF materializeRange, Matched
  <2>3. CASE ~(start >= lastLen)
    <3>1. TryParseRange(line, lastLen) = Materialized(start, Wrap(lastLen - start))
      BY <2>1, <2>3 DEF materializeRange
    <3> HIDE DEF start
    <3> QED BY <3>1, <1>2, MaterializedType
  <2> QED BY <2>2, <2>3
<1>6. CASE line.end # Blank
  <2>1. TryParseRange(line, lastLen) = materializeBoundedRange(start, end, lastLen)
    BY <1>6 DEF TryParseRange, NoMatch
  <2> DEFINE stop == IF end > lastLen THEN lastLen ELSE end
  <2>2. CASE start >= end \/ start >= lastLen
    BY <2>1, <2>2, <1>4 DEF materializeBoundedRange, Matched
  <2>3. CASE ~(start >= end \/ start >= lastLen)
    <3>1. TryParseRange(line, lastLen) = Materialized(start, Wrap(stop - start))
      BY <2>1, <2>3 DEF materializeBoundedRange
    <3> HIDE DEF start, stop
    <3> QED BY <3>1, <1>2, MaterializedType
  <2> QED BY <2>2, <2>3
<1> QED BY <1>5, <1>6

LEMMA CSLType ==
  ASSUME NEW line \in Lines, line.form = "list", TryParseCSL(line).ok
  PROVE  \E m \in Nat : TryParseCSL(line).indices \in [1..m -> Int]
<1>1. line.parts \in Seq(Tokens)
  BY DEF Lines
<1>2. \A k \in DOMAIN line.parts : line.parts[k] \in Nat
  BY DEF TryParseCSL, NoMatch, parseUintOk
<1>3. TryParseCSL(line).indices = [k \in DOMAIN line.parts |-> parseUint(line.parts[k])]
  BY DEF TryParseCSL, NoMatch, Matched
<1>4. DOMAIN line.parts = 1..Len(line.parts) /\ Len(line.parts) \in Nat
  BY <1>1
<1>5. [k \in DOMAIN line.parts |-> parseUint(line.parts[k])] \in [1..Len(line.parts) -> Int]
  <2>1. ASSUME NEW k \in 1..Len(line.parts)
        PROVE  parseUint(line.parts[k]) \in Int
    <3>1. line.parts[k] \in Int
      BY <1>2, <1>4
    <3>2. Wrap(line.parts[k]) \in Int
      BY <3>1, WrapType
    <3> QED BY <3>2 DEF parseUint
  <2> QED BY <2>1, <1>4
<1> QED BY <1>3, <1>4, <1>5

(* A typed range or list stands for a finite sequence of integers. *)
LEMMA ParsedIndices ==
  ASSUME NEW line \in Lines, NEW lastLen \in Nat, ParsedSelection(line, lastLen).ok
  PROVE  \E m \in Nat : ParsedSelection(line, lastLen).indices \in [1..m -> Int]
<1>1. CASE line.form = "range"
  BY <1>1, RangeType DEF ParsedSelection
<1>2. CASE line.form # "range"
  <2>1. line.form = "list"
    BY <1>2 DEF Lines
  <2> QED BY <1>2, <2>1, CSLType DEF ParsedSelection
<1> QED BY <1>1, <1>2

-----------------------------------------------------------------------------
(* Arithmetic within the width of int does not wrap. *)
LEMMA WrapIdentity ==
  ASSUME NEW v \in Int, -MaxInt - 1 =< v, v =< MaxInt
  PROVE  Wrap(v) = v
<1> DEFINE w == 2 * (MaxInt + 1)
           x == v + MaxInt + 1
<1>1. x \in Int /\ w \in Int /\ 0 =< x /\ x < w
  BY IntAssumption
<1>2. x % w = x
  <2> HIDE DEF x, w
  <2> QED BY <1>1
<1>3. Wrap(v) = (x % w) - MaxInt - 1
  BY DEF Wrap
<1> QED BY <1>2, <1>3, IntAssumption

(* The indices that result yields count up from first, and there are n. *)
CountsUp(result, first, n) ==
  /\ result.ok /\ ~result.panics
  /\ result.indices \in [1..n -> Int]
  /\ \A k \in 1..n : result.indices[k] = first + k - 1

LEMMA MaterializedRows ==
  ASSUME NEW first \in Int, NEW n \in Nat, n =< MaxAlloc
  PROVE  CountsUp(Materialized(first, Wrap(n)), first, n)
<1>1. Wrap(n) = n
  BY IntAssumption, WrapIdentity
<1>2. Materialized(first, n) = Matched([k \in 1..n |-> first + k - 1])
  BY DEF Materialized
<1> QED BY <1>1, <1>2 DEF Matched, CountsUp

LEMMA NoRows ==
  ASSUME NEW first \in Int
  PROVE  CountsUp(Matched(<<>>), first, 0)
<1>1. <<>> \in [1..0 -> Int]
  OBVIOUS
<1> QED BY <1>1 DEF CountsUp, Matched

(* The rows from first to the one before stop, or to the last one. *)
LEMMA RowsToTheLast ==
  ASSUME NEW first \in Nat, NEW lastLen \in Nat, lastLen =< MaxAlloc
  PROVE  CountsUp(materializeRange(first, lastLen), first,
                  IF first >= lastLen THEN 0 ELSE lastLen - first)
<1>1. CASE first >= lastLen
  BY <1>1, NoRows DEF materializeRange
<1>2. CASE ~(first >= lastLen)
  <2>1. lastLen - first \in Nat /\ lastLen - first =< MaxAlloc
    BY <1>2, IntAssumption
  <2>2. CountsUp(Materialized(first, Wrap(lastLen - first)), first, lastLen - first)
    BY <2>1, MaterializedRows
  <2> QED BY <1>2, <2>2 DEF materializeRange
<1> QED BY <1>1, <1>2

LEMMA RowsUpTo ==
  ASSUME NEW first \in Nat, NEW end \in Nat, NEW lastLen \in Nat, lastLen =< MaxAlloc,
         NEW stop \in Nat, stop = IF end > lastLen THEN lastLen ELSE end
  PROVE  CountsUp(materializeBoundedRange(first, end, lastLen), first,
                  IF first >= stop THEN 0 ELSE stop - first)
<1>1. CASE first >= end \/ first >= lastLen
  BY <1>1, NoRows DEF materializeBoundedRange
<1>2. CASE ~(first >= end \/ first >= lastLen)
  <2>1. stop - first \in Nat /\ stop - first =< MaxAlloc /\ ~(first >= stop)
    BY <1>2, IntAssumption
  <2>2. CountsUp(Materialized(first, Wrap(stop - first)), first, stop - first)
    BY <2>1, MaterializedRows
  <2>3. materializeBoundedRange(first, end, lastLen) = Materialized(first, Wrap(stop - first))
    BY <1>2 DEF materializeBoundedRange
  <2> QED BY <2>1, <2>2, <2>3
<1> QED BY <1>1, <1>2

(* A range whose ends are ints: the rows from the first to the last that   *)
(* are there.                                                              *)
FirstRow(line) == IF line.start = Blank THEN 0 ELSE line.start

LastRow(line, lastLen) ==
  IF line.end = Blank \/ line.end >= lastLen THEN lastLen - 1 ELSE line.end

LEMMA RangeMeaning ==
  ASSUME NEW line, line.form = "range", ~line.eq,
         line.start \in 0..MaxInt \cup {Blank},
         line.end \in 0..MaxInt-1 \cup {Blank},
         NEW lastLen \in Nat, lastLen =< MaxAlloc
  PROVE  /\ FirstRow(line) \in Nat /\ LastRow(line, lastLen) \in Int
         /\ CountsUp(TryParseRange(line, lastLen), FirstRow(line),
                     IF FirstRow(line) > LastRow(line, lastLen) THEN 0
                     ELSE LastRow(line, lastLen) - FirstRow(line) + 1)
<1> DEFINE first == FirstRow(line)
           last  == LastRow(line, lastLen)
           count == IF first > last THEN 0 ELSE last - first + 1
<1>1. /\ line.start # Blank => line.start \in Nat /\ line.start =< MaxInt
      /\ line.end # Blank => line.end \in Nat /\ line.end + 1 =< MaxInt
      /\ Blank \notin Nat
  BY TokenAssumption, IntAssumption
<1>2. /\ first = IF line.start = Blank THEN 0 ELSE parseUint(line.start)
      /\ first \in Nat
  BY <1>1, WrapIdentity, IntAssumption DEF parseUint, FirstRow
<1>3. last \in Int
  BY <1>1 DEF LastRow
<1>4. CASE line.end = Blank
  <2>1. TryParseRange(line, lastLen) = materializeRange(first, lastLen)
    BY <1>1, <1>2, <1>4 DEF TryParseRange, parseUintOk
  <2>2. last = lastLen - 1
    BY <1>4 DEF LastRow
  <2> HIDE DEF first, last
  <2>3. count = IF first >= lastLen THEN 0 ELSE lastLen - first
    BY <1>2, <2>2
  <2> HIDE DEF count
  <2>4. CountsUp(TryParseRange(line, lastLen), first, count)
    BY <1>2, <2>1, <2>3, RowsToTheLast
  <2> QED BY <1>2, <1>3, <2>4 DEF first, last, count
<1>5. CASE line.end # Blank
  <2> DEFINE end  == line.end + 1
             stop == IF end > lastLen THEN lastLen ELSE end
  <2>1. Wrap(parseUint(line.end) + 1) = end /\ end \in Nat
    BY <1>1, <1>5, WrapIdentity, IntAssumption DEF parseUint
  <2>2. TryParseRange(line, lastLen) = materializeBoundedRange(first, end, lastLen)
    BY <1>1, <1>2, <1>5, <2>1 DEF TryParseRange, parseUintOk
  <2>3. last = stop - 1 /\ stop \in Nat
    BY <1>1, <1>5 DEF LastRow
  <2> HIDE DEF first, last, end
  <2>4. CountsUp(materializeBoundedRange(first, end, lastLen), first,
                 IF first >= stop THEN 0 ELSE stop - first)
    <3> HIDE DEF stop
    <3>1. stop = IF end > lastLen THEN lastLen ELSE end
      BY DEF stop
    <3> QED BY <1>2, <2>1, <2>3, <3>1, RowsUpTo
  <2> HIDE DEF stop
  <2>5. count = IF first >= stop THEN 0 ELSE stop - first
    BY <1>2, <2>3
  <2> HIDE DEF count
  <2>6. CountsUp(TryParseRange(line, lastLen), first, count)
    BY <2>2, <2>4, <2>5
  <2> QED BY <1>2, <1>3, <2>6 DEF first, last, count
<1> QED BY <1>4, <1>5

(* A list whose numbers are ints: those numbers. *)
LEMMA CSLMeaning ==
  ASSUME NEW line, \A k \in DOMAIN line.parts : line.parts[k] \in 0..MaxInt
  PROVE  /\ TryParseCSL(line).ok /\ ~TryParseCSL(line).panics
         /\ TryParseCSL(line).indices = [k \in DOMAIN line.parts |-> line.parts[k]]
<1>1. \A k \in DOMAIN line.parts : parseUintOk(line.parts[k])
  BY IntAssumption DEF parseUintOk
<1>2. \A k \in DOMAIN line.parts : parseUint(line.parts[k]) = line.parts[k]
  BY IntAssumption, WrapIdentity DEF parseUint
<1> QED BY <1>1, <1>2 DEF TryParseCSL, Matched

=============================================================================
