-------------------------- MODULE ParentTreeProofs --------------------------
(* Facts about the parent graph, for every finite or infinite set of ids:    *)
(* what each kind of write to parent_id does to the forest, and that the     *)
(* walk up (the cycle check) and the walk down (the hold) agree.             *)
EXTENDS ParentTree, TLAPS

(* The walk up starts with the proposed parent, so an item proposed as its   *)
(* own parent is found without a case of its own.                            *)
LEMMA AncestorsHasSelf ==
    ASSUME NEW par \in Graphs, NEW p \in Items
    PROVE  p \in Ancestors(par, p)
BY DEF Ancestors

(* An up-closed set that holds p holds all the ancestors of p.               *)
LEMMA AncestorsLeast ==
    ASSUME NEW par \in Graphs, NEW p \in Items, NEW S \in SUBSET Items,
           p \in S, UpClosed(par, S)
    PROVE  Ancestors(par, p) \subseteq S
BY DEF Ancestors

(* A move that passes the cycle check keeps the forest.                      *)
LEMMA MoveKeepsForest ==
    ASSUME NEW par \in Graphs, NEW i \in Items, NEW p \in Items,
           Acyclic(par), i \notin Ancestors(par, p)
    PROVE  Acyclic([par EXCEPT ![i] = p])
<1> DEFINE moved == [par EXCEPT ![i] = p]
<1>1. PICK T \in SUBSET Items : p \in T /\ UpClosed(par, T) /\ i \notin T
  BY DEF Ancestors
<1> SUFFICES ASSUME NEW S \in SUBSET Items, S # {}, \A j \in S : moved[j] \in S
             PROVE  FALSE
  BY DEF Acyclic
<1>2. \A j \in Items : j # i => moved[j] = par[j]
  BY DEF Graphs
<1>3. moved[i] = p
  BY DEF Graphs
<1>4. i \in S
  <2> SUFFICES ASSUME i \notin S PROVE FALSE
    OBVIOUS
  <2>1. \A j \in S : par[j] \in S
    BY <1>2
  <2> QED BY <2>1 DEF Acyclic
<1>5. p \in S \cap T
  BY <1>1, <1>3, <1>4
<1>6. \A j \in S \cap T : par[j] \in S \cap T
  <2> TAKE j \in S \cap T
  <2>1. j # i
    BY <1>1
  <2>2. par[j] \in S
    BY <1>2, <2>1
  <2>3. par[j] # NoItem
    BY <2>2, NoItemAssumption
  <2> QED BY <1>1, <2>2, <2>3 DEF UpClosed
<1> QED BY <1>5, <1>6 DEF Acyclic

(* Fewer edges: a detach, or a purge, whose children keep a parent_id that   *)
(* leads nowhere.                                                            *)
LEMMA FewerEdgesKeepForest ==
    ASSUME NEW par \in Graphs, NEW less \in Graphs, Acyclic(par),
           \A i \in Items : less[i] \in {par[i], NoItem}
    PROVE  Acyclic(less)
<1> SUFFICES ASSUME NEW S \in SUBSET Items, S # {}, \A j \in S : less[j] \in S
             PROVE  FALSE
  BY DEF Acyclic
<1>1. \A j \in S : par[j] \in S
  BY NoItemAssumption
<1> QED BY <1>1 DEF Acyclic

LEMMA FewerEdgesFewerAncestors ==
    ASSUME NEW par \in Graphs, NEW less \in Graphs, NEW p \in Items,
           \A i \in Items : less[i] \in {par[i], NoItem}
    PROVE  Ancestors(less, p) \subseteq Ancestors(par, p)
<1> SUFFICES ASSUME NEW T \in SUBSET Items, p \in T, UpClosed(par, T)
             PROVE  UpClosed(less, T)
  BY DEF Ancestors
<1> QED BY DEF UpClosed

(* An item that is nobody's parent, like one just created, gets a parent     *)
(* other than itself.                                                        *)
LEMMA BirthKeepsForest ==
    ASSUME NEW par \in Graphs, NEW i \in Items, NEW p \in Items \cup {NoItem}, p # i,
           \A j \in Items : par[j] # i, Acyclic(par)
    PROVE  Acyclic([par EXCEPT ![i] = p])
<1> DEFINE grown == [par EXCEPT ![i] = p]
<1> SUFFICES ASSUME NEW S \in SUBSET Items, S # {}, \A j \in S : grown[j] \in S
             PROVE  FALSE
  BY DEF Acyclic
<1>1. \A j \in S \ {i} : par[j] \in S \ {i}
  BY DEF Graphs
<1>2. i \in S => p \in S \ {i}
  BY DEF Graphs
<1>3. S \ {i} # {}
  BY <1>2
<1> QED BY <1>1, <1>3 DEF Acyclic

LEMMA BirthKeepsAncestors ==
    ASSUME NEW par \in Graphs, NEW i \in Items, NEW q \in Items \cup {NoItem}, NEW p \in Items,
           p # i, \A j \in Items : par[j] # i
    PROVE  Ancestors([par EXCEPT ![i] = q], p) \subseteq Ancestors(par, p)
<1> DEFINE grown == [par EXCEPT ![i] = q]
<1> SUFFICES ASSUME NEW T \in SUBSET Items, p \in T, UpClosed(par, T)
             PROVE  p \in T \ {i} /\ UpClosed(grown, T \ {i})
  BY DEF Ancestors
<1> QED BY DEF UpClosed, Graphs

(* The ancestors of an item other than itself are those of its parent.       *)
LEMMA AncestorsOfParent ==
    ASSUME NEW par \in Graphs, NEW i \in Items, NEW j \in Items,
           i # j, i \in Ancestors(par, j)
    PROVE  par[j] \in Items /\ i \in Ancestors(par, par[j])
<1>1. par[j] \in Items
  <2> SUFFICES ASSUME par[j] = NoItem PROVE FALSE
    BY DEF Graphs
  <2>1. UpClosed(par, {j})
    BY DEF UpClosed
  <2> QED BY <2>1 DEF Ancestors
<1>2. ASSUME NEW T \in SUBSET Items, par[j] \in T, UpClosed(par, T)
      PROVE  i \in T
  <2>1. UpClosed(par, T \cup {j})
    BY <1>2 DEF UpClosed
  <2>2. i \in T \cup {j}
    BY <2>1 DEF Ancestors
  <2> QED BY <2>2
<1> QED BY <1>1, <1>2 DEF Ancestors

LEMMA AncestorsHasParents ==
    ASSUME NEW par \in Graphs, NEW p \in Items, NEW j \in Ancestors(par, p), par[j] # NoItem
    PROVE  par[j] \in Ancestors(par, p)
BY DEF Ancestors, UpClosed, Graphs

(* checkParent refuses exactly the moves that would put an item inside its   *)
(* own ancestry: none that is harmless, and all that are not.                *)
THEOREM CycleCheckExact ==
    ASSUME NEW par \in Graphs, NEW i \in Items, NEW p \in Items, Acyclic(par)
    PROVE  Acyclic([par EXCEPT ![i] = p]) <=> i \notin Ancestors(par, p)
<1> DEFINE moved == [par EXCEPT ![i] = p]
<1>1. ASSUME i \in Ancestors(par, p)
      PROVE  ~Acyclic(moved)
  <2> DEFINE Round == {j \in Ancestors(par, p) : i \in Ancestors(par, j)}
  <2>1. p \in Round
    BY <1>1, AncestorsHasSelf
  <2>2. Round \in SUBSET Items
    BY DEF Ancestors
  <2>3. ASSUME NEW j \in Round PROVE moved[j] \in Round
    <3>1. CASE j = i
      BY <2>1, <3>1 DEF Graphs, Ancestors
    <3>2. CASE j # i
      <4>1. par[j] \in Items /\ i \in Ancestors(par, par[j])
        BY <2>2, <3>2, AncestorsOfParent
      <4>2. par[j] \in Ancestors(par, p)
        BY <4>1, AncestorsHasParents, NoItemAssumption
      <4> QED BY <2>2, <3>2, <4>1, <4>2 DEF Graphs
    <3> QED BY <3>1, <3>2
  <2> QED BY <2>1, <2>2, <2>3 DEF Acyclic
<1> QED BY <1>1, MoveKeepsForest

-----------------------------------------------------------------------------
(* The hold gate: the items that the recursive query withholds from every    *)
(* discovery path are exactly those with a held item among their ancestors,  *)
(* themselves included, tombstones on the way or not.                        *)
THEOREM HeldIffAncestorHeld ==
    ASSUME NEW par \in Graphs, NEW seeds \in SUBSET Items, NEW i \in Items
    PROVE  i \in HeldSubtree(par, seeds) <=> \E s \in seeds : s \in Ancestors(par, i)
<1>1. ASSUME NEW s \in seeds, s \in Ancestors(par, i)
      PROVE  i \in HeldSubtree(par, seeds)
  <2> SUFFICES ASSUME NEW S \in SUBSET Items, seeds \subseteq S, DownClosed(par, S), i \notin S
               PROVE  FALSE
    BY DEF HeldSubtree
  <2> DEFINE T == Items \ S
  <2>1. UpClosed(par, T)
    BY DEF UpClosed, DownClosed, Graphs
  <2>2. s \in T
    BY <1>1, <2>1, AncestorsLeast
  <2> QED BY <2>2
<1>2. ASSUME i \in HeldSubtree(par, seeds)
      PROVE  \E s \in seeds : s \in Ancestors(par, i)
  <2> DEFINE S == {j \in Items : \E s \in seeds : s \in Ancestors(par, j)}
  <2>1. seeds \subseteq S
    BY AncestorsHasSelf
  <2>2. DownClosed(par, S)
    <3> SUFFICES ASSUME NEW j \in Items, par[j] \in S PROVE j \in S
      BY DEF DownClosed
    <3>1. PICK s \in seeds : s \in Ancestors(par, par[j])
      OBVIOUS
    <3>2. \A T \in SUBSET Items : j \in T /\ UpClosed(par, T) => par[j] \in T
      BY NoItemAssumption DEF UpClosed
    <3>3. s \in Ancestors(par, j)
      BY <3>1, <3>2 DEF Ancestors
    <3> QED BY <3>3
  <2>3. i \in S
    BY <1>2, <2>1, <2>2 DEF HeldSubtree
  <2> QED BY <2>3
<1> QED BY <1>1, <1>2

=============================================================================
