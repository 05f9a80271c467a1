------------------------- MODULE DeleteFlagsProofs -------------------------
(***************************************************************************)
(* The flags of delete for lines and sessions of any length: a request is  *)
(* what its line says, whatever earlier lines have left in the flags.  The *)
(* argument is that after every argument of a line each flag holds what    *)
(* was last written to it, or what it held before the line; Parse is a     *)
(* recursive function, about which this is shown by the least number of    *)
(* arguments for which it fails.                                           *)
(***************************************************************************)
EXTENDS DeleteFlags, SequenceTheorems, WellFoundedInduction, TLAPS

(* A grace period that parses is among the arguments said. *)
IsGraced(said) == \E i \in DOMAIN said : said[i].flag = "gracePeriod" /\ said[i].ok

(* The flags g are what the arguments said make of the flags f. *)
FlagsSay(f, g, said) ==
  /\ g.gracePeriod = LastOf(said, "gracePeriod", [seconds |-> f.gracePeriod]).seconds
  /\ g.graceChanged <=> f.graceChanged \/ IsGraced(said)
  /\ g.cascade = LastOf(said, "cascade", [policy |-> f.cascade]).policy
  /\ g.now = LastOf(said, "now", [on |-> f.now]).on
  /\ g.force = LastOf(said, "force", [on |-> f.force]).on
  /\ g.help = LastOf(said, "help", [on |-> f.help]).on

(* The flags as TypeOK has them. *)
FlagsType ==
  [gracePeriod : Graces \cup {-1, 0}, graceChanged : BOOLEAN,
   cascade : Cascades \cup {"background"},
   now : BOOLEAN, force : BOOLEAN, help : BOOLEAN]

(* The inductive invariant. *)
IInv == TypeOK /\ RequestsObeyTheirLine

-----------------------------------------------------------------------------
(* A non-empty set of natural numbers has a least one. *)
LEMMA LeastElement ==
  ASSUME NEW T, T \subseteq Nat, T # {}
  PROVE  \E m \in T : \A k \in T : m =< k
<1> DEFINE R == OpToRel(<, Nat)
<1>1. IsWellFoundedOn(R, Nat)
  BY NatLessThanWellFounded
<1>2. PICK m \in T : \A k \in T : ~(<<k, m>> \in R)
  <2> HIDE DEF R
  <2> QED BY <1>1, WFMin
<1>3. \A k \in T : ~(k < m)
  BY <1>2 DEF OpToRel
<1> QED BY <1>3

(* A non-empty set of places in a sequence has a last one. *)
LEMMA LastPlace ==
  ASSUME NEW n \in Nat, NEW P, P \subseteq 1..n, P # {}
  PROVE  \E i \in P : \A j \in P : j <= i
<1> DEFINE FromEnd == {n - i : i \in P}
<1>1. FromEnd \subseteq Nat /\ FromEnd # {}
  <2>1. \A i \in P : i \in 1..n /\ n - i \in Nat
    OBVIOUS
  <2>2. PICK i \in P : TRUE
    OBVIOUS
  <2>3. n - i \in FromEnd
    BY <2>2
  <2> QED BY <2>1, <2>3
<1>2. PICK m \in FromEnd : \A k \in FromEnd : m =< k
  <2> HIDE DEF FromEnd
  <2> QED BY <1>1, LeastElement
<1>3. PICK i \in P : m = n - i
  BY <1>2
<1>4. \A j \in P : n - i =< n - j
  BY <1>2, <1>3
<1>5. \A j \in P : j <= i
  BY <1>4
<1> QED BY <1>5

-----------------------------------------------------------------------------
(* What one more argument says. *)
LEMMA LastOfAppended ==
  ASSUME NEW said \in Seq(Args), NEW arg \in Args, NEW flag, NEW default
  PROVE  LastOf(Append(said, arg), flag, default) =
           IF arg.flag = flag THEN arg ELSE LastOf(said, flag, default)
<1> DEFINE more == Append(said, arg)
           n == Len(said)
           before == {i \in DOMAIN said : said[i].flag = flag}
           after  == {i \in DOMAIN more : more[i].flag = flag}
<1>1. /\ n \in Nat /\ DOMAIN said = 1..n /\ DOMAIN more = 1..(n + 1)
      /\ more[n + 1] = arg /\ \A i \in 1..n : more[i] = said[i]
  OBVIOUS
<1> HIDE DEF n, more
<1>2. CASE arg.flag = flag
  <2>1. n + 1 \in after /\ \A j \in after : j <= n + 1
    BY <1>1, <1>2
  <2>2. \A i \in after : (\A j \in after : j <= i) => i = n + 1
    BY <1>1, <2>1
  <2> HIDE DEF after
  <2>3. (CHOOSE i \in after : \A j \in after : j <= i) = n + 1
    BY <2>1, <2>2
  <2> QED BY <1>1, <1>2, <2>1, <2>3 DEF LastOf, after, more
<1>3. CASE arg.flag # flag
  <2>1. after = before
    BY <1>1, <1>3
  <2>2. CASE before = {}
    BY <1>3, <2>1, <2>2 DEF LastOf, more
  <2>3. CASE before # {}
    <3>1. before \subseteq 1..n
      BY <1>1
    <3>2. \E i \in before : \A j \in before : j <= i
      <4> HIDE DEF before
      <4> QED BY <1>1, <2>3, <3>1, LastPlace
    <3> DEFINE last == CHOOSE i \in before : \A j \in before : j <= i
    <3>3. last \in before
      <4> HIDE DEF before
      <4> QED BY <3>2
    <3>4. more[last] = said[last]
      <4> HIDE DEF before, last
      <4> QED BY <1>1, <3>1, <3>3
    <3>5. LastOf(said, flag, default) = said[last]
      BY <2>3 DEF LastOf
    <3>6. LastOf(more, flag, default) = more[last]
      <4>1. after # {}
        BY <2>1, <2>3
      <4>2. LastOf(more, flag, default) = more[CHOOSE i \in after : \A j \in after : j <= i]
        BY <4>1 DEF LastOf
      <4> HIDE DEF after, before
      <4> QED BY <2>1, <4>2 DEF last
    <3> QED BY <1>3, <3>4, <3>5, <3>6 DEF more
  <2> QED BY <2>2, <2>3
<1> QED BY <1>2, <1>3

LEMMA GracedAppended ==
  ASSUME NEW said \in Seq(Args), NEW arg \in Args
  PROVE  IsGraced(Append(said, arg)) <=>
           IsGraced(said) \/ (arg.flag = "gracePeriod" /\ arg.ok)
<1> DEFINE more == Append(said, arg)
           n == Len(said)
<1>1. /\ n \in Nat /\ DOMAIN said = 1..n /\ DOMAIN more = 1..(n + 1)
      /\ more[n + 1] = arg /\ \A i \in 1..n : more[i] = said[i]
  OBVIOUS
<1> HIDE DEF n, more
<1>2. IsGraced(more) <=> IsGraced(said) \/ (arg.flag = "gracePeriod" /\ arg.ok)
  BY <1>1 DEF IsGraced
<1> QED BY <1>2 DEF more

(* The default counts only if no argument is for the flag. *)
LEMMA LastOfDefault ==
  ASSUME NEW said, NEW flag, NEW d, NEW e
  PROVE  \/ LastOf(said, flag, d) = d /\ LastOf(said, flag, e) = e
         \/ /\ LastOf(said, flag, d) = LastOf(said, flag, e)
            /\ \E i \in DOMAIN said : said[i].flag = flag
<1> DEFINE places == {i \in DOMAIN said : said[i].flag = flag}
<1>1. CASE places = {}
  BY <1>1 DEF LastOf
<1>2. CASE places # {}
  BY <1>2 DEF LastOf
<1> QED BY <1>1, <1>2

(* What an argument carries, by its flag. *)
LEMMA ArgCarries ==
  ASSUME NEW arg \in Args
  PROVE  /\ arg.flag \in {"gracePeriod", "cascade", "now", "force", "help", "unknown", "word"}
         /\ arg.flag = "gracePeriod" => arg.seconds \in Graces \cup {0} /\ arg.ok \in BOOLEAN
         /\ arg.flag = "cascade" => arg.policy \in Cascades
         /\ arg.flag \in {"now", "force", "help"} => arg.on \in BOOLEAN
<1>1. CASE arg \in [flag : {"gracePeriod"}, seconds : Graces, ok : {TRUE}]
  BY <1>1
<1>2. CASE arg = [flag |-> "gracePeriod", seconds |-> 0, ok |-> FALSE]
  BY <1>2
<1>3. CASE arg \in [flag : {"cascade"}, policy : Cascades, ok : {TRUE}]
  BY <1>3
<1>4. CASE arg \in [flag : {"now", "force", "help"}, on : BOOLEAN, ok : {TRUE}]
  BY <1>4
<1>5. CASE arg \in {[flag |-> "unknown", ok |-> FALSE], [flag |-> "word", ok |-> TRUE]}
  BY <1>5
<1> QED BY <1>1, <1>2, <1>3, <1>4, <1>5 DEF Args

(* An argument writes to its flag what it says. *)
LEMMA WrittenSays ==
  ASSUME NEW f, NEW h \in FlagsType, NEW said \in Seq(Args), NEW arg \in Args,
         FlagsSay(f, h, said)
  PROVE  /\ Written(h, arg) \in FlagsType
         /\ FlagsSay(f, Written(h, arg), Append(said, arg))
<1> DEFINE more == Append(said, arg)
           g == Written(h, arg)
<1>1. \A flag, default :
        LastOf(more, flag, default) =
          IF arg.flag = flag THEN arg ELSE LastOf(said, flag, default)
  BY LastOfAppended
<1>2. IsGraced(more) <=> IsGraced(said) \/ (arg.flag = "gracePeriod" /\ arg.ok)
  BY GracedAppended
<1> HIDE DEF more
<1>3. CASE arg.flag = "gracePeriod"
  <2>1. g = [h EXCEPT !.gracePeriod = arg.seconds, !.graceChanged = @ \/ arg.ok]
    BY <1>3 DEF Written
  <2>2. g \in FlagsType
    BY <1>3, <2>1, ArgCarries DEF FlagsType
  <2>3. FlagsSay(f, g, more)
    BY <1>1, <1>2, <1>3, <2>1, ArgCarries DEF FlagsSay, FlagsType
  <2> QED BY <2>2, <2>3 DEF more
<1>4. CASE arg.flag = "cascade"
  <2>1. g = [h EXCEPT !.cascade = arg.policy]
    BY <1>4 DEF Written
  <2>2. g \in FlagsType
    BY <1>4, <2>1, ArgCarries DEF FlagsType
  <2>3. FlagsSay(f, g, more)
    BY <1>1, <1>2, <1>4, <2>1, ArgCarries DEF FlagsSay, FlagsType
  <2> QED BY <2>2, <2>3 DEF more
<1>5. CASE arg.flag = "now"
  <2>1. g = [h EXCEPT !.now = arg.on]
    BY <1>5 DEF Written
  <2>2. g \in FlagsType
    BY <1>5, <2>1, ArgCarries DEF FlagsType
  <2>3. FlagsSay(f, g, more)
    BY <1>1, <1>2, <1>5, <2>1, ArgCarries DEF FlagsSay, FlagsType
  <2> QED BY <2>2, <2>3 DEF more
<1>6. CASE arg.flag = "force"
  <2>1. g = [h EXCEPT !.force = arg.on]
    BY <1>6 DEF Written
  <2>2. g \in FlagsType
    BY <1>6, <2>1, ArgCarries DEF FlagsType
  <2>3. FlagsSay(f, g, more)
    BY <1>1, <1>2, <1>6, <2>1, ArgCarries DEF FlagsSay, FlagsType
  <2> QED BY <2>2, <2>3 DEF more
<1>7. CASE arg.flag = "help"
  <2>1. g = [h EXCEPT !.help = arg.on]
    BY <1>7 DEF Written
  <2>2. g \in FlagsType
    BY <1>7, <2>1, ArgCarries DEF FlagsType
  <2>3. FlagsSay(f, g, more)
    BY <1>1, <1>2, <1>7, <2>1, ArgCarries DEF FlagsSay, FlagsType
  <2> QED BY <2>2, <2>3 DEF more
<1>8. CASE arg.flag \in {"unknown", "word"}
  <2>1. g = h
    BY <1>8 DEF Written
  <2>2. FlagsSay(f, g, more)
    BY <1>1, <1>2, <1>8, <2>1 DEF FlagsSay
  <2> QED BY <2>1, <2>2 DEF more
<1> QED BY <1>3, <1>4, <1>5, <1>6, <1>7, <1>8, ArgCarries

-----------------------------------------------------------------------------
(* Parse. *)

(* The arguments Parse reaches are the first of the line's. *)
LEMMA ReachedArgs ==
  ASSUME NEW args \in Seq(Args)
  PROVE  \E n \in 0..Len(args) : Reached(args) = SubSeq(args, 1, n)
<1> DEFINE bad == {i \in 1..Len(args) : ~args[i].ok}
           Stop(n) == /\ \A i \in 1..(n - 1) : args[i].ok
                      /\ n = Len(args) \/ (n > 0 /\ ~args[n].ok)
<1>1. Len(args) \in Nat
  OBVIOUS
<1>2. \E n \in 0..Len(args) : Stop(n)
  <2>1. CASE bad = {}
    <3>1. Stop(Len(args))
      BY <1>1, <2>1
    <3> QED BY <1>1, <3>1
  <2>2. CASE bad # {}
    <3>1. PICK m \in bad : \A k \in bad : m =< k
      <4> bad \subseteq Nat
        OBVIOUS
      <4> HIDE DEF bad
      <4> QED BY <2>2, LeastElement
    <3>2. Stop(m) /\ m \in 0..Len(args)
      BY <1>1, <3>1
    <3> QED BY <3>2
  <2> QED BY <2>1, <2>2
<1>3. Reached(args) = SubSeq(args, 1, CHOOSE n \in 0..Len(args) : Stop(n))
  BY DEF Reached
<1> HIDE DEF Stop
<1> QED BY <1>2, <1>3

(* Of a line that parses it reaches all. *)
LEMMA ReachedAll ==
  ASSUME NEW args \in Seq(Args), ~ParseFails(args)
  PROVE  Reached(args) = args
<1> DEFINE Stop(n) == /\ \A i \in 1..(n - 1) : args[i].ok
                      /\ n = Len(args) \/ (n > 0 /\ ~args[n].ok)
           last == CHOOSE n \in 0..Len(args) : Stop(n)
<1>1. Len(args) \in Nat /\ \A i \in 1..Len(args) : args[i].ok
  BY DEF ParseFails
<1>2. Len(args) \in 0..Len(args) /\ Stop(Len(args))
  BY <1>1
<1>3. \A n \in 0..Len(args) : Stop(n) => n = Len(args)
  BY <1>1
<1>4. last = Len(args)
  <2> HIDE DEF Stop
  <2> QED BY <1>2, <1>3
<1>5. Reached(args) = SubSeq(args, 1, last)
  BY DEF Reached
<1> QED BY <1>4, <1>5, SubSeqFull

(* The recursion of AfterArgs has a solution, so it is one. *)
LEMMA AfterArgsDefined ==
  ASSUME NEW f, NEW args \in Seq(Args)
  PROVE  LET after == AfterArgs(f, args) IN
         after = [n \in 0..Len(args) |->
                    IF n = 0 THEN f ELSE Written(after[n - 1], args[n])]
<1> DEFINE Run(g, m) == [n \in 0..m |-> IF n = 0 THEN f ELSE Written(g[n - 1], args[n])]
           without == {m \in Nat : ~\E g : g = Run(g, m)}
<1>1. without = {}
  <2>1. SUFFICES ASSUME without # {} PROVE FALSE
    OBVIOUS
  <2>2. PICK m \in without : \A k \in without : m =< k
    <3>1. without \subseteq Nat
      OBVIOUS
    <3> HIDE DEF without
    <3> QED BY <2>1, <3>1, LeastElement
  <2>3. m \in Nat /\ ~\E g : g = Run(g, m)
    BY <2>2
  <2>4. CASE m = 0
    <3>1. [n \in 0..m |-> f] = Run([n \in 0..m |-> f], m)
      BY <2>4
    <3> QED BY <2>3, <3>1
  <2>5. CASE m # 0
    <3>1. m - 1 \in Nat /\ ~(m =< m - 1)
      BY <2>3, <2>5
    <3>2. PICK g : g = Run(g, m - 1)
      BY <2>2, <3>1
    <3> DEFINE h == [n \in 0..m |-> IF n = m THEN Written(g[m - 1], args[m]) ELSE g[n]]
    <3>3. ASSUME NEW n \in 0..m
          PROVE  h[n] = IF n = 0 THEN f ELSE Written(h[n - 1], args[n])
      <4>1. n # 0 => n - 1 \in 0..m /\ h[n - 1] = g[n - 1]
        BY <2>3
      <4>2. CASE n = m
        BY <2>5, <4>1, <4>2
      <4>3. CASE n # m
        <5>1. n \in 0..(m - 1) /\ h[n] = g[n]
          BY <2>3, <4>3
        <5>2. g[n] = IF n = 0 THEN f ELSE Written(g[n - 1], args[n])
          BY <3>2, <5>1
        <5> QED BY <4>1, <5>1, <5>2
      <4> QED BY <4>2, <4>3
    <3>4. h = Run(h, m)
      <4> DEFINE r == Run(h, m)
      <4>1. /\ r = [n \in 0..m |-> r[n]] /\ h = [n \in 0..m |-> h[n]]
        OBVIOUS
      <4>2. \A n \in 0..m : r[n] = h[n]
        BY <3>3
      <4> HIDE DEF r, h
      <4>3. h = r
        BY <4>1, <4>2
      <4> QED BY <4>3 DEF r
    <3> QED BY <2>3, <3>4
  <2> QED BY <2>4, <2>5
<1>2. Len(args) \in Nat
  OBVIOUS
<1>3. \E g : g = Run(g, Len(args))
  BY <1>1, <1>2
<1>4. AfterArgs(f, args) = CHOOSE g : g = Run(g, Len(args))
  BY DEF AfterArgs
<1> DEFINE Solves(g) == g = Run(g, Len(args))
<1>5. \E g : Solves(g)
  BY <1>3
<1>6. Solves(CHOOSE g : Solves(g))
  <2> HIDE DEF Solves
  <2> QED BY <1>5
<1> QED BY <1>4, <1>6

(* What a line's arguments write, the flags hold. *)
LEMMA ArgsAreWritten ==
  ASSUME NEW f \in FlagsType, NEW args \in Seq(Args), NEW n \in 0..Len(args)
  PROVE  /\ AfterArgs(f, args)[n] \in FlagsType
         /\ FlagsSay(f, AfterArgs(f, args)[n], SubSeq(args, 1, n))
<1> DEFINE after == AfterArgs(f, args)
           Holds(m) == /\ after[m] \in FlagsType
                       /\ FlagsSay(f, after[m], SubSeq(args, 1, m))
           amiss == {m \in 0..Len(args) : ~Holds(m)}
<1>1. Len(args) \in Nat
  OBVIOUS
<1>2. \A m \in 0..Len(args) :
        after[m] = IF m = 0 THEN f ELSE Written(after[m - 1], args[m])
  <2>1. after = [m \in 0..Len(args) |-> IF m = 0 THEN f ELSE Written(after[m - 1], args[m])]
    BY AfterArgsDefined
  <2> HIDE DEF after
  <2> QED BY <2>1
<1> HIDE DEF after
<1>3. Holds(0)
  <2>1. after[0] = f
    BY <1>1, <1>2
  <2>2. SubSeq(args, 1, 0) = <<>>
    BY SubSeqEmpty
  <2>3. FlagsSay(f, f, <<>>)
    BY DEF FlagsSay, LastOf, IsGraced, FlagsType
  <2> QED BY <2>1, <2>2, <2>3
<1>4. ASSUME NEW m \in 1..Len(args), Holds(m - 1)
      PROVE  Holds(m)
  <2> DEFINE now == SubSeq(args, 1, m - 1)
  <2>1. now \in Seq(Args) /\ args[m] \in Args
    BY <1>1
  <2>2. SubSeq(args, 1, m) = Append(now, args[m])
    <3>1. SubSeq(args, 1, m) = now \o <<args[m]>>
      BY <1>1, SubSeqRecursiveSecond
    <3> HIDE DEF now
    <3> QED BY <2>1, <3>1, AppendIsConcat
  <2>3. after[m] = Written(after[m - 1], args[m])
    BY <1>1, <1>2
  <2> HIDE DEF now
  <2>4. after[m - 1] \in FlagsType /\ FlagsSay(f, after[m - 1], now)
    BY <1>4 DEF now
  <2>5. /\ Written(after[m - 1], args[m]) \in FlagsType
        /\ FlagsSay(f, Written(after[m - 1], args[m]), Append(now, args[m]))
    BY <2>1, <2>4, WrittenSays
  <2> QED BY <2>2, <2>3, <2>5
<1>5. amiss = {}
  <2>1. SUFFICES ASSUME amiss # {} PROVE FALSE
    OBVIOUS
  <2>2. PICK m \in amiss : \A k \in amiss : m =< k
    <3>1. amiss \subseteq Nat
      BY <1>1
    <3> HIDE DEF amiss
    <3> QED BY <2>1, <3>1, LeastElement
  <2>3. m \in 0..Len(args) /\ ~Holds(m)
    BY <2>2
  <2> HIDE DEF Holds
  <2>4. m \in 1..Len(args)
    BY <1>1, <1>3, <2>3
  <2>5. m - 1 \in 0..Len(args) /\ ~(m =< m - 1)
    BY <1>1, <2>4
  <2>6. Holds(m - 1)
    BY <2>2, <2>5
  <2> QED BY <1>4, <2>3, <2>4, <2>6
<1>6. Holds(n)
  <2> HIDE DEF Holds
  <2> QED BY <1>5
<1> QED BY <1>6 DEF after

LEMMA ParseSays ==
  ASSUME NEW f \in FlagsType, NEW args \in Seq(Args)
  PROVE  /\ Parse(f, args) \in FlagsType
         /\ ~ParseFails(args) => FlagsSay(f, Parse(f, args), args)
<1> DEFINE reached == Reached(args)
<1>1. reached \in Seq(Args)
  BY ReachedArgs
<1>2. ~ParseFails(args) => reached = args
  BY ReachedAll
<1> HIDE DEF reached
<1>3. Len(reached) \in 0..Len(reached) /\ SubSeq(reached, 1, Len(reached)) = reached
  BY <1>1, SubSeqFull
<1>4. /\ AfterArgs(f, reached)[Len(reached)] \in FlagsType
      /\ FlagsSay(f, AfterArgs(f, reached)[Len(reached)], reached)
  BY <1>1, <1>3, ArgsAreWritten
<1>5. Parse(f, args) = AfterArgs(f, reached)[Len(reached)]
  BY DEF Parse, reached
<1> QED BY <1>2, <1>4, <1>5

-----------------------------------------------------------------------------
(* The answer. *)

LEMMA AnswerType ==
  ASSUME NEW f \in FlagsType, NEW args, NEW selected
  PROVE  Answer(f, args, selected) \in Answers
<1>1. \A why \in Outcomes : Refused(why) \in Answers
  BY DEF Refused, Answers, Unset
<1>2. PolicyValid(f) =>
        [outcome |-> "request", grace |-> GraceOf(f), policy |-> f.cascade] \in Answers
  <2>1. GraceOf(f) \in Graces \cup {-1, 0, 1}
    BY DEF FlagsType, GraceOf, Unset
  <2> QED BY <2>1 DEF PolicyValid, Answers, Outcomes
<1> QED BY <1>1, <1>2 DEF Answer, Outcomes

(* What holds when a request is made. *)
LEMMA RequestMeans ==
  ASSUME NEW f \in FlagsType, NEW args, NEW selected,
         Answer(f, args, selected).outcome = "request"
  PROVE  /\ ~ParseFails(args)
         /\ Answer(f, args, selected).grace = GraceOf(f)
         /\ Answer(f, args, selected).policy = f.cascade
         /\ ~f.help
         /\ f.graceChanged => ~f.now /\ ~f.force /\ f.gracePeriod >= 0
         /\ ~(f.now /\ f.force)
<1>1. \A why : why # "request" => Answer(f, args, selected) # Refused(why)
  BY DEF Refused
<1>2. /\ ~ParseFails(args) /\ ~f.help /\ ~Exclusive(f) /\ ~(f.graceChanged /\ f.gracePeriod < 0)
      /\ Answer(f, args, selected) =
           [outcome |-> "request", grace |-> GraceOf(f), policy |-> f.cascade]
  <2>1. /\ Answer(f, args, selected) # Refused("parse error")
        /\ Answer(f, args, selected) # Refused("help")
        /\ Answer(f, args, selected) # Refused("usage error")
        /\ Answer(f, args, selected) # Refused("exclusive")
        /\ Answer(f, args, selected) # Refused("bad grace")
        /\ Answer(f, args, selected) # Refused("bad cascade")
        /\ Answer(f, args, selected) # Refused("no object")
    BY <1>1
  <2> QED BY <2>1 DEF Answer
<1>3. /\ f.graceChanged => "grace" \in WaysSet(f)
      /\ f.now => "now" \in WaysSet(f)
      /\ f.force => "force" \in WaysSet(f)
  BY DEF WaysSet
<1>4. /\ ~(f.graceChanged /\ f.now)
      /\ ~(f.graceChanged /\ f.force)
      /\ ~(f.now /\ f.force)
  BY <1>2, <1>3 DEF Exclusive
<1>5. f.gracePeriod \in Int
  <2>1. f.gracePeriod \in Graces \cup {-1, 0}
    BY DEF FlagsType
  <2>2. ASSUME NEW x \in Graces PROVE x \in Int
    BY DeleteFlagsAssumption
  <2>3. CASE f.gracePeriod \in Graces
    BY <2>2, <2>3
  <2>4. CASE f.gracePeriod \in {-1, 0}
    BY <2>4
  <2> QED BY <2>1, <2>3, <2>4
<1> QED BY <1>2, <1>4, <1>5

-----------------------------------------------------------------------------
(* A request that the flags of a line make is what the line says of it. *)
LEMMA RequestObeys ==
  ASSUME NEW f \in FlagsType, NEW args \in Seq(Args), NEW selected,
         NEW request, request = Answer(Parse(f, args), args, selected),
         request.outcome = "request"
  PROVE  /\ ~IsOn(args, "help")
         /\ request.policy = LastOf(args, "cascade", request).policy
         /\ request.grace = LastOf(args, "gracePeriod", [seconds |-> request.grace]).seconds
         /\ IsOn(args, "now") => request.grace = 1
         /\ IsOn(args, "force") => request.grace = 0
<1> DEFINE g == Parse(f, args)
<1>1. g \in FlagsType /\ (~ParseFails(args) => FlagsSay(f, g, args))
  BY ParseSays
<1> HIDE DEF g
<1>2. /\ ~ParseFails(args)
      /\ request.grace = GraceOf(g) /\ request.policy = g.cascade
      /\ ~g.help
      /\ g.graceChanged => ~g.now /\ ~g.force /\ g.gracePeriod >= 0
      /\ ~(g.now /\ g.force)
  BY <1>1, RequestMeans DEF g
<1>3. FlagsSay(f, g, args)
  BY <1>1, <1>2
<1>4. ASSUME NEW flag, NEW on \in BOOLEAN, IsOn(args, flag)
      PROVE  LastOf(args, flag, [on |-> on]).on
  <2>1. \/ LastOf(args, flag, [on |-> FALSE]) = [on |-> FALSE]
        \/ LastOf(args, flag, [on |-> FALSE]) = LastOf(args, flag, [on |-> on])
    BY LastOfDefault
  <2> QED BY <1>4, <2>1 DEF IsOn
<1>5. f.now \in BOOLEAN /\ f.force \in BOOLEAN /\ f.help \in BOOLEAN
  BY DEF FlagsType
<1>6. /\ IsOn(args, "now") => g.now
      /\ IsOn(args, "force") => g.force
      /\ IsOn(args, "help") => g.help
  BY <1>3, <1>4, <1>5 DEF FlagsSay
<1>7. request.policy = LastOf(args, "cascade", request).policy
  <2>1. \/ LastOf(args, "cascade", request) = request
        \/ LastOf(args, "cascade", request) = LastOf(args, "cascade", [policy |-> f.cascade])
    BY LastOfDefault
  <2> QED BY <1>2, <1>3, <2>1 DEF FlagsSay
<1>8. request.grace = LastOf(args, "gracePeriod", [seconds |-> request.grace]).seconds
  <2> DEFINE own    == LastOf(args, "gracePeriod", [seconds |-> request.grace])
             before == LastOf(args, "gracePeriod", [seconds |-> f.gracePeriod])
  <2>1. \/ own = [seconds |-> request.grace]
        \/ own = before /\ \E i \in DOMAIN args : args[i].flag = "gracePeriod"
    BY LastOfDefault
  <2>2. CASE own = [seconds |-> request.grace]
    BY <2>2
  <2>3. CASE own = before /\ \E i \in DOMAIN args : args[i].flag = "gracePeriod"
    <3>1. IsGraced(args)
      BY <1>2, <2>3 DEF IsGraced, ParseFails
    <3>2. g.graceChanged /\ g.gracePeriod = before.seconds
      BY <1>3, <3>1 DEF FlagsSay
    <3> QED BY <1>2, <2>3, <3>2 DEF GraceOf
  <2> QED BY <2>1, <2>2, <2>3
<1>9. /\ IsOn(args, "now") => request.grace = 1
      /\ IsOn(args, "force") => request.grace = 0
  BY <1>2, <1>6 DEF GraceOf
<1> QED BY <1>2, <1>6, <1>7, <1>8, <1>9

-----------------------------------------------------------------------------
LEMMA InitEstablishes == Init => IInv
<1> SUFFICES ASSUME Init PROVE IInv
  OBVIOUS
<1>1. TypeOK
  BY DEF Init, TypeOK, Defaults, Refused, Answers, Outcomes, Unset
<1>2. RequestsObeyTheirLine
  BY DEF Init, Refused, RequestsObeyTheirLine
<1> QED BY <1>1, <1>2 DEF IInv

LEMMA ExecutePreserves ==
  ASSUME IInv, NEW args \in Seq(Args), NEW selected \in BOOLEAN,
         Execute(args, selected)
  PROVE  IInv'
<1>1. flags \in FlagsType
  BY DEF IInv, TypeOK, FlagsType
<1>2. /\ flags' = Parse(flags, args)
      /\ answer' = Answer(flags', args, selected)
      /\ line' = [args |-> args, selected |-> selected]
  BY DEF Execute
<1>3. TypeOK'
  <2>1. flags' \in FlagsType
    BY <1>1, <1>2, ParseSays
  <2>2. answer' \in Answers
    BY <1>2, <2>1, AnswerType
  <2>3. line' \in [args : Seq(Args), selected : BOOLEAN]
    BY <1>2
  <2> QED BY <2>1, <2>2, <2>3 DEF TypeOK, FlagsType
<1>4. RequestsObeyTheirLine'
  <2>1. line'.args = args
    BY <1>2
  <2>2. answer' = Answer(Parse(flags, args), args, selected)
    BY <1>2
  <2>3. SUFFICES ASSUME answer'.outcome = "request"
                 PROVE  /\ ~IsOn(args, "help")
                        /\ answer'.policy = LastOf(args, "cascade", answer').policy
                        /\ answer'.grace =
                             LastOf(args, "gracePeriod", [seconds |-> answer'.grace]).seconds
                        /\ IsOn(args, "now") => answer'.grace = 1
                        /\ IsOn(args, "force") => answer'.grace = 0
    BY <2>1 DEF RequestsObeyTheirLine, LastOf, IsOn
  <2> QED BY <1>1, <2>2, <2>3, RequestObeys
<1> QED BY <1>3, <1>4 DEF IInv

LEMMA NextExecutes ==
  ASSUME Next
  PROVE  \E args \in Seq(Args), selected \in BOOLEAN : Execute(args, selected)
<1>1. PICK args \in BoundedSeq(Args, MaxArgs), selected \in BOOLEAN : Execute(args, selected)
  BY DEF Next
<1>2. PICK m \in 0..MaxArgs : args \in [1..m -> Args]
  BY DEF BoundedSeq, SeqOf
<1>3. args \in Seq(Args)
  BY <1>2, DeleteFlagsAssumption
<1> QED BY <1>1, <1>3

LEMMA StepPreserves == IInv /\ [Next]_vars => IInv'
<1> SUFFICES ASSUME IInv, [Next]_vars PROVE IInv'
  OBVIOUS
<1>1. CASE Next
  BY <1>1, NextExecutes, ExecutePreserves
<1>2. CASE UNCHANGED vars
  BY <1>2 DEF vars, IInv, TypeOK, RequestsObeyTheirLine, LastOf, IsOn
<1> QED BY <1>1, <1>2

-----------------------------------------------------------------------------
(* The types are right, and requests obey their line, after every line.    *)
THEOREM Invariant == Spec => []IInv
BY InitEstablishes, StepPreserves, PTL DEF Spec

(* The types are right: above all, no request has a policy that does not   *)
(* exist, whatever --cascade is given.                                     *)
THEOREM TypeCorrect == Spec => []TypeOK
<1>1. IInv => TypeOK
  BY DEF IInv
<1> QED BY <1>1, Invariant, PTL

(* A request never goes against its line (delete.go:73-106), however long  *)
(* the line is and whatever earlier lines, refused or rejected half-way,   *)
(* have left in the flags: a line that asks for help, or names two ways to *)
(* shorten the end, makes none, and each flag the line gives is obeyed.    *)
THEOREM RequestsObeyLines == Spec => []RequestsObeyTheirLine
<1>1. IInv => RequestsObeyTheirLine
  BY DEF IInv
<1> QED BY <1>1, Invariant, PTL

=============================================================================
