-------------------------- MODULE KubeconfigProofs --------------------------
(***************************************************************************)
(* Lemmas about the three edits of a kubeconfig, for any contexts and      *)
(* namespaces.                                                             *)
(***************************************************************************)
EXTENDS Kubeconfig, TLAPS

(* The three edits of a kubeconfig yield a kubeconfig. *)
LEMMA ConfigEdits ==
  ASSUME NEW cfg \in Configs
  PROVE  /\ cfg.contexts \in [DOMAIN cfg.contexts -> NamespaceOrNone]
         /\ DOMAIN cfg.contexts \subseteq Contexts
         /\ cfg.current \in ContextOrNone
         /\ \A name \in ContextOrNone : WithCurrent(cfg, name) \in Configs
         /\ \A name \in Contexts :
              /\ WithoutContext(cfg, name) \in Configs
              /\ \A ns \in NamespaceOrNone :
                   HasContext(cfg, name) => WithNamespace(cfg, name, ns) \in Configs
<1>1. PICK C \in SUBSET Contexts : cfg.contexts \in [C -> NamespaceOrNone]
  BY DEF Configs
<1>2. cfg.current \in ContextOrNone
  BY DEF Configs
<1>3. ASSUME NEW name \in ContextOrNone
      PROVE  WithCurrent(cfg, name) \in Configs
  BY <1>3 DEF WithCurrent, Configs
<1>4. ASSUME NEW name \in Contexts
      PROVE  WithoutContext(cfg, name) \in Configs
  <2> DEFINE rest == [c \in DOMAIN cfg.contexts \ {name} |-> cfg.contexts[c]]
  <2>1. rest \in [C \ {name} -> NamespaceOrNone]
    BY <1>1
  <2>2. rest \in UNION {[D -> NamespaceOrNone] : D \in SUBSET Contexts}
    BY <2>1
  <2> HIDE DEF rest
  <2>3. [cfg EXCEPT !.contexts = rest] \in Configs
    BY <2>2 DEF Configs
  <2> QED BY <2>3 DEF WithoutContext, rest
<1>5. ASSUME NEW name \in Contexts, NEW ns \in NamespaceOrNone, HasContext(cfg, name)
      PROVE  WithNamespace(cfg, name, ns) \in Configs
  <2> DEFINE saved == [cfg.contexts EXCEPT ![name] = ns]
  <2>1. saved \in [C -> NamespaceOrNone]
    BY <1>1
  <2>2. saved \in UNION {[D -> NamespaceOrNone] : D \in SUBSET Contexts}
    BY <2>1
  <2>3. WithNamespace(cfg, name, ns) = [cfg EXCEPT !.contexts = saved]
    BY DEF WithNamespace, Configs
  <2> HIDE DEF saved
  <2> QED BY <2>2, <2>3 DEF Configs
<1> QED BY <1>1, <1>2, <1>3, <1>4, <1>5

(* What each edit does to the contexts and to the current one. *)
LEMMA EditEffects ==
  ASSUME NEW cfg \in Configs
  PROVE  /\ \A name : /\ WithCurrent(cfg, name).current = name
                      /\ WithCurrent(cfg, name).contexts = cfg.contexts
                      /\ ~HasContext(WithoutContext(cfg, name), name)
         /\ \A name, ns : HasContext(cfg, name) =>
              /\ HasContext(WithNamespace(cfg, name, ns), name)
              /\ WithNamespace(cfg, name, ns).contexts[name] = ns
<1>1. cfg.contexts \in [DOMAIN cfg.contexts -> NamespaceOrNone]
  BY ConfigEdits
<1>2. ASSUME NEW name
      PROVE  /\ WithCurrent(cfg, name).current = name
             /\ WithCurrent(cfg, name).contexts = cfg.contexts
             /\ ~HasContext(WithoutContext(cfg, name), name)
  BY DEF WithCurrent, WithoutContext, HasContext, Configs
<1>3. ASSUME NEW name, NEW ns, HasContext(cfg, name)
      PROVE  /\ HasContext(WithNamespace(cfg, name, ns), name)
             /\ WithNamespace(cfg, name, ns).contexts[name] = ns
  <2>1. WithNamespace(cfg, name, ns).contexts = [cfg.contexts EXCEPT ![name] = ns]
    BY DEF WithNamespace, Configs
  <2> QED BY <1>1, <1>3, <2>1 DEF HasContext
<1> QED BY <1>2, <1>3

=============================================================================
