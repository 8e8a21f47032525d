----------------------------- MODULE ParentTree -----------------------------
(* The parent_id graph of the items table and the two recursive queries the  *)
(* store asks of it: the ancestors of a proposed parent (checkParent) and    *)
(* the subtree under the held items (heldSubtreeCTE).                        *)
(*                                                                           *)
(* SQLite evaluates WITH RECURSIVE ... UNION as a least fixpoint.  Here a    *)
(* least fixpoint is the set of the items that are in every set closed under *)
(* the query's step, which needs no recursive operator.                      *)
EXTENDS Naturals

CONSTANTS
    Items,      \* the ids uuid.New can give
    NoItem      \* parent_id is NULL or ''

ASSUME NoItemAssumption == NoItem \notin Items

(* A parent graph: for each id the parent_id of its row, NoItem when the row *)
(* has none or there is no row.                                              *)
Graphs == [Items -> Items \cup {NoItem}]

UpClosed(par, S) == \A i \in S : par[i] # NoItem => par[i] \in S

(* WITH RECURSIVE ancestors(id): the proposed parent itself, then the        *)
(* parent_id of every row already in the set.  Tombstones are walked like    *)
(* live rows; the walk ends at an id that has no row.                        *)
Ancestors(par, p) ==
    {i \in Items : \A S \in SUBSET Items : p \in S /\ UpClosed(par, S) => i \in S}

DownClosed(par, S) == \A i \in Items : par[i] \in S => i \in S

(* WITH RECURSIVE held_subtree(id): the seeds, then every row whose          *)
(* parent_id is already in the set.                                          *)
HeldSubtree(par, seeds) ==
    {i \in Items : \A S \in SUBSET Items : seeds \subseteq S /\ DownClosed(par, S) => i \in S}

(* No item is inside its own ancestry: every non-empty set of items has a    *)
(* member whose parent is outside the set.                                   *)
Acyclic(par) == \A S \in SUBSET Items : S # {} => \E i \in S : par[i] \notin S

=============================================================================
