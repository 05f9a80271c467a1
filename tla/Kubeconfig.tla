----------------------------- MODULE Kubeconfig -----------------------------
(***************************************************************************)
(* The part of a kubeconfig that krepl reads and writes: the contexts with *)
(* their namespaces, and the name of the current context.  The operators   *)
(* are the three edits pkg/config makes to the configuration it has just   *)
(* read; each needs the context it names to be present.                    *)
(***************************************************************************)
CONSTANTS
  Contexts,    (* names a context may have *)
  Namespaces,  (* names a namespace may have: RFC 1123 labels *)
  NONE         (* Go's empty string where a context or a namespace is absent *)

ASSUME NoneAssumption == NONE \notin Contexts \cup Namespaces

NamespaceOrNone == Namespaces \cup {NONE}
ContextOrNone   == Contexts \cup {NONE}

(* contexts maps each context's name to the namespace saved with it; the   *)
(* current context may be unset, or name a context that does not exist.    *)
Configs ==
  [contexts : UNION {[C -> NamespaceOrNone] : C \in SUBSET Contexts},
   current  : ContextOrNone]

HasContext(cfg, name) == name \in DOMAIN cfg.contexts

WithCurrent(cfg, name) == [cfg EXCEPT !.current = name]

WithNamespace(cfg, name, ns) == [cfg EXCEPT !.contexts[name] = ns]

WithoutContext(cfg, name) ==
  [cfg EXCEPT !.contexts =
     [c \in DOMAIN cfg.contexts \ {name} |-> cfg.contexts[c]]]

=============================================================================
