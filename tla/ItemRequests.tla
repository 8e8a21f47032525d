---------------------------- MODULE ItemRequests -----------------------------
(* The requests that write items, what they ask of one item, and what every  *)
(* stored item must satisfy.  The detailed store (ItemStore) and what it     *)
(* promises (ItemLedger) are both written with them.                         *)
EXTENDS ParentTree

CONSTANTS
    Contents,       \* values of the snapshotted columns
    Absent          \* there is no row

Rules == {"none", "own", "due"}
DueDates == {"none", "set"}

(* A field a request does not carry, or a PATCH leaves alone.                *)
Keep == "keep"
Ops == {"create", "update", "delete", "purge", "restore", "hold", "unhold", "rerank"}
RequestType ==
    [op : Ops, id : Items \cup {NoItem}, content : Contents \cup {Keep},
     parent : Items \cup {NoItem, Keep}, due : DueDates \cup {Keep}, rule : Rules \cup {Keep},
     hold : BOOLEAN,        \* create it already held
     rank : BOOLEAN,        \* a PATCH of rank or auto_hold_at_usd, which are left out
     negative : BOOLEAN,    \* auto_hold_at_usd is below zero
     ifMatch : BOOLEAN]     \* the PATCH carries an If-Match version

NoRequest == [op |-> "rerank", id |-> NoItem, content |-> Keep, parent |-> Keep, due |-> Keep,
              rule |-> Keep, hold |-> FALSE, rank |-> FALSE, negative |-> FALSE, ifMatch |-> FALSE]

SetsNothing(r) ==
    r.content = Keep /\ r.parent = Keep /\ r.due = Keep /\ r.rule = Keep /\ ~r.rank

NamesParent(r) == r.parent \notin {Keep, NoItem}

(* A rule that counts from the due date needs one: Schedule.Anchor.          *)
Anchored(rule, due) == rule = "due" => due = "set"

ParentsOf(table) == [i \in Items |-> IF table[i] = Absent THEN NoItem ELSE table[i].parent]

(* What a PATCH makes of the columns it names; the others keep their values. *)
Pick(new, old) == IF new = Keep THEN old ELSE new

EveryColumnMerged(row, r) ==
    [row EXCEPT !.content = r.content, !.parent = r.parent, !.due = r.due, !.rule = r.rule]
Merged(row, r) ==
    [row EXCEPT !.content = Pick(r.content, @), !.parent = Pick(r.parent, @),
                !.due = Pick(r.due, @), !.rule = Pick(r.rule, @)]

=============================================================================
