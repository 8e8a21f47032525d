----------------------------- MODULE MCItemReads -----------------------------
(* Small instances of ItemReads: one reader beside two writing calls, a chain *)
(* of three items, and the questions a reader may ask.                       *)
EXTENDS ItemReads, TLC

CONSTANTS a, b, d, e, f,    \* ids: d under b under a, e and f free
          c1, c2,           \* calls
          r1,               \* readers
          draft, final      \* contents

FiveItems == {a, b, d, e, f}
TwoCalls == {c1, c2}
OneReader == {r1}
TwoContents == {draft, final}
SymmetricPair == Permutations({c1, c2})

StoredRow(parent) ==
    [content |-> draft, parent |-> parent, due |-> "none", rule |-> "own",
     deleted |-> Never, held |-> Never, updated |-> FirstStamp]

Chain == [i \in Items |-> CASE i = a -> StoredRow(NoItem)
                            [] i = b -> StoredRow(a)
                            [] i = d -> StoredRow(b)
                            [] i \in {e, f} -> Absent]
HeldChain == [Chain EXCEPT ![a].held = FirstStamp]
ShortChain == [Chain EXCEPT ![d] = Absent]
Stores == {Chain, HeldChain, ShortChain}

Request(op, id) == [NoRequest EXCEPT !.op = op, !.id = id]
Writes ==
    {Request(op, b) : op \in {"delete", "restore", "hold", "unhold", "purge"}}
    \cup {Request("hold", a), Request("unhold", a), Request("delete", a),
          [Request("update", b) EXCEPT !.content = final],
          [Request("update", d) EXCEPT !.parent = NoItem],
          [Request("create", NoItem) EXCEPT !.content = draft, !.parent = b]}

Query(ids, wants, limit, offset) ==
    [NoQuestion EXCEPT !.kind = "query", !.ids = ids, !.wants = wants,
                       !.limit = limit, !.offset = offset]
Discover(kind, held, deleted) ==
    [NoQuestion EXCEPT !.kind = kind, !.wants = Contents,
                       !.includeHeld = held, !.includeDeleted = deleted]
Asks ==
    {Query(<<>>, Contents, 0, 0), Query(<<a, b, d>>, Contents, 0, 0), Query(<<b, d>>, {draft}, 0, 0),
     Query(<<a, b, d>>, Contents, 1, 1), Query(<<b, b, d>>, Contents, 2, 0),
     Query(<<d, b, d>>, Contents, 0, 0),
     [Query(<<a, b, d, b>>, Contents, 0, 0) EXCEPT !.kind = "batch"],
     Discover("list", FALSE, FALSE), Discover("list", FALSE, TRUE), Discover("list", TRUE, FALSE),
     [Discover("list", FALSE, FALSE) EXCEPT !.limit = 1, !.offset = 1],
     Discover("search", FALSE, FALSE), Discover("scheduled", FALSE, FALSE)}

=============================================================================
