----------------------------- MODULE MCItemStore -----------------------------
(* Small instances of ItemStore: three or four ids, two contents, two or     *)
(* three concurrent calls, and the requests each question needs.             *)
EXTENDS ItemStoreRefinement, FiniteSets, TLC

CONSTANTS a, b, x, y, z,    \* ids: a and b are rows at the start, the others are free
          c1, c2, c3,       \* calls
          draft, final      \* contents

TwoItems == {a, b}
ThreeItems == {a, b, x}
FourItems == {a, b, x, y}
FiveItems == {a, b, x, y, z}
TwoCalls == {c1, c2}
ThreeCalls == {c1, c2, c3}
TwoContents == {draft, final}
Symmetric == Permutations({c1, c2, c3})

StoredRow(parent) ==
    [content |-> draft, parent |-> parent, due |-> "none", rule |-> "none",
     deleted |-> Never, held |-> Never, updated |-> FirstStamp]

Empty == [i \in Items |-> Absent]
OnlyA == [Empty EXCEPT ![a] = StoredRow(NoItem)]
Siblings == [OnlyA EXCEPT ![b] = StoredRow(NoItem)]
Nested == [OnlyA EXCEPT ![b] = StoredRow(a)]
HeldA == [OnlyA EXCEPT ![a].held = FirstStamp]
Dated == [OnlyA EXCEPT ![a].due = "set"]

-----------------------------------------------------------------------------
Request(op, id) == [NoRequest EXCEPT !.op = op, !.id = id]
Save(id, content) == [Request("update", id) EXCEPT !.content = content]
SaveIfMatch(id, content) == [Save(id, content) EXCEPT !.ifMatch = TRUE]
Move(id, parent) == [Request("update", id) EXCEPT !.parent = parent]
Create(parent) == [Request("create", NoItem) EXCEPT !.content = draft, !.parent = parent]
Reschedule(id, due, rule) == [Request("update", id) EXCEPT !.due = due, !.rule = rule]
Lifecycle(id) == {Request(op, id) : op \in {"delete", "restore", "hold", "unhold"}}
Purge(id) == Request("purge", id)

(* Conditional and plain saves of one item, with what can move its version.  *)
SaveRequests ==
    {SaveIfMatch(a, final), SaveIfMatch(a, draft), Save(a, final),
     [Request("update", a) EXCEPT !.ifMatch = TRUE],
     [Request("update", a) EXCEPT !.ifMatch = TRUE, !.rank = TRUE],
     [SaveIfMatch(a, final) EXCEPT !.negative = TRUE],
     Request("rerank", NoItem), Request("hold", a), Request("delete", a), Purge(a)}
SaveStores == {OnlyA}

(* Creates, moves and purges of a small forest.                              *)
TreeRequests ==
    {Create(Keep), Create(a), Create(b), Create(x), Purge(a), Purge(b), Move(a, NoItem)}
    \cup {Move(i, p) : i, p \in {a, b, x}}
TreeStores == {Siblings, Nested}

(* Every operation on one item, the due date and the rule set and cleared    *)
(* apart.                                                                    *)
RuleRequests ==
    {Reschedule(a, due, rule) : due \in DueDates \cup {Keep}, rule \in Rules \cup {Keep}}
    \cup {[Create(Keep) EXCEPT !.due = due, !.rule = rule] :
            due \in DueDates, rule \in Rules}
    \cup {[Create(Keep) EXCEPT !.negative = TRUE]}
EveryRequest ==
    RuleRequests \cup Lifecycle(a)
    \cup {Purge(a), Save(a, final), SaveIfMatch(a, final), Move(a, b),
          [Create(a) EXCEPT !.hold = TRUE], Request("rerank", NoItem)}
EveryStore == {OnlyA, HeldA, Dated}

(* The requests of the runs that show what the documentation does not keep.  *)
PurgeRaceRequests == {Purge(a), Save(a, final)}
StaleRequests == {SaveIfMatch(a, final)} \cup Lifecycle(a) \cup {Request("rerank", NoItem)}

=============================================================================
