-------------------------------- MODULE MCEnv --------------------------------
(***************************************************************************)
(* Env on two contexts and two namespaces.  Every resource type has an     *)
(* object, so every list command finds something; pods have namesakes in   *)
(* the two namespaces.  MaxInt is 7, so 16 wraps around to row 0 and a     *)
(* range from 8 to a negative row.                                         *)
(***************************************************************************)
EXTENDS Env, TLC

CONSTANTS c1, c2, n1, n2, widget, zone, a, b, c

MCNamespaces == {n1, n2}

Obj(kind, res, ns) == [kind |-> kind, res |-> res, name |-> a, ns |-> ns]

MCObjects ==
  {Obj("Pod", NONE, ns) : ns \in MCNamespaces}
    \cup {[Obj("Pod", NONE, n1) EXCEPT !.name = b]}
    \cup {Obj(kind, NONE, n1) : kind \in BuiltinKinds \ (ClusterScopedKinds \cup {"Pod"})}
    \cup {Obj(kind, NONE, NONE) : kind \in ClusterScopedKinds}
    \cup {Obj("Dynamic", widget, n2), Obj("Dynamic", zone, NONE)}

MCInputLines ==
  {[form |-> "list", parts |-> p] : p \in {<<0>>, <<1>>, <<1, 0, 0>>, <<0, 5>>, <<16>>}}
    \cup {[form |-> "range", start |-> Blank, end |-> Blank, eq |-> FALSE],
          [form |-> "range", start |-> 8, end |-> Blank, eq |-> FALSE]}

(* For the selection syntax: one scope, up to three rows, all tokens. *)
InputObjects == {[Obj("Pod", NONE, n1) EXCEPT !.name = n] : n \in {a, b, c}}

InputTokens == {0, 1, 2, 5, MaxInt, MaxInt + 1, 2 * MaxInt + 2, Blank, Word}

AllInputLines ==
  [form : {"range"}, start : InputTokens, end : InputTokens, eq : BOOLEAN]
    \cup [form : {"list"}, parts : UNION {[1..n -> InputTokens] : n \in 1..2}]
    \cup {[form |-> "list", parts |-> p] : p \in {<<2, 0, 1>>, <<1, 1, 1>>, <<2, 5, 0>>}}

(* Pods are interchangeable as far as the selection syntax goes. *)
PodSymmetry == Permutations({a, b, c})

=============================================================================
