----------------------------- MODULE OffsetPages ------------------------------
(* A client that pages through an answer with ?limit= and ?offset= while     *)
(* writers go on: the revisions of an item (ListRevisions), a list of items  *)
(* (ListItems) and the matches of a query (QueryItems), each in every order  *)
(* it can be asked for.  A page is one statement; nothing ties it to the     *)
(* page before it.                                                           *)
(*                                                                           *)
(* A row of the answer is reduced to what it is sorted by.  An item keeps    *)
(* its columns while it is out of the answer (deleted, held, not matching),  *)
(* so it comes back to where they put it, be it in the middle.               *)
EXTENDS Integers, Sequences, FiniteSets

CONSTANTS
    Answers,        \* what may be paged, with its sort
    Limits,         \* values of ?limit=, 0 when there is none
    DefaultLimit,   \* of the list, 100 in the code
    Ids,            \* of items, or of revisions, in the order of ORDER BY id
    Sent,           \* the ids of a query as they were sent, duplicates and all
    Values,         \* what a client may set rank, priority, due_at or title to
    MaxStamp,       \* bound on the stamps given out
    MaxWrites       \* bound on the writes while a client pages

ListSorts == {"created_at", "updated_at", "rank", "priority"}
QuerySorts == {"given", "priority", "due_at", "updated_at", "created_at", "title", "updated_asc"}
AllAnswers == {<<"revisions", "id">>} \cup ({"list"} \X ListSorts) \cup ({"query"} \X QuerySorts)

ASSUME PagingAssumption ==
    /\ Answers \subseteq AllAnswers
    /\ Limits \subseteq Nat /\ DefaultLimit \in Nat \ {0}
    /\ Ids \subseteq Nat /\ Sent \in Seq(Ids) /\ Values \subseteq Int
    /\ MaxStamp \in Nat /\ MaxWrites \in Nat

VARIABLES
    answer,     \* what is paged and how it is sorted
    clock,      \* the last stamp: of time.Now, or of AUTOINCREMENT
    items,      \* the ids that have a row in the table
    unborn,     \* the ids that no row has had
    place,      \* what an item is sorted by
    matching,   \* the items that the answer is about at the moment
    limit,      \* the client's limit
    offset,     \* where its next page starts
    collected,  \* the rows on its pages so far
    existing,   \* history: the rows there were at its first page
    removed,    \* history: the rows that have left the answer since then
    finished,   \* it got a page that was not full
    writes      \* how many writes there were

store == <<clock, items, unborn, place, matching>>
client == <<limit, offset, collected, existing, finished>>
vars == <<answer, store, client, removed, writes>>

source == answer[1]
sort == answer[2]

-----------------------------------------------------------------------------
(* The order.  Smaller comes first: a column sorted DESC counts backwards.   *)

Chosen == {"rank", "priority", "due_at", "title"}
NewestFirst == {"id", "created_at", "updated_at"}

(* ORDER BY rank, created_at DESC, id, and so for priority, but in a list    *)
(* only.                                                                     *)
ThenByCreation == source = "list" /\ sort \in Chosen

Spot == [key : Int, then : Int]
NoSpot == [key |-> 0, then |-> 0]
Row == [key : Int, then : Int, tie : Nat]

(* What an item can be sorted by when the last stamp is last.                *)
Spots(last) ==
    [key : IF sort \in Chosen THEN Values
           ELSE IF sort \in NewestFirst THEN (-last)..(-1)
           ELSE IF sort = "updated_asc" THEN 1..last ELSE {0},
     then : IF ThenByCreation THEN (-last)..(-1) ELSE {0}]

(* A query has a row for each place an id was sent at, which breaks ties;    *)
(* the others have one for each id.                                          *)
Slots == IF source = "query" THEN DOMAIN Sent ELSE Ids
ItemAt(k) == IF source = "query" THEN Sent[k] ELSE k

RowAt(k) == [key |-> place[ItemAt(k)].key, then |-> place[ItemAt(k)].then, tie |-> k]

Table == {RowAt(k) : k \in {j \in Slots : ItemAt(j) \in matching}}

BeforeByColumn(r, s) == r.key < s.key
Before(r, s) ==
    \/ r.key < s.key
    \/ r.key = s.key /\ r.then < s.then
    \/ r.key = s.key /\ r.then = s.then /\ r.tie < s.tie

Init ==
    /\ answer \in Answers
    /\ clock \in 0..MaxStamp
    /\ items \in SUBSET (IF source = "revisions" THEN Ids \cap 1..clock ELSE Ids)
    /\ IsFiniteSet(items)
    /\ unborn = IF source = "revisions" THEN {i \in Ids : i > clock} ELSE Ids \ items
    /\ place \in [Ids -> Spots(clock) \cup {NoSpot}]
    /\ \A i \in items : place[i] \in Spots(clock) /\ (source = "revisions" => place[i].key = -i)
    /\ \A i \in Ids \ items : place[i] = NoSpot
    /\ matching \in SUBSET items
    /\ limit \in Limits
    /\ offset = 0
    /\ collected = {} /\ existing = {} /\ removed = {}
    /\ finished = FALSE
    /\ writes = 0

-----------------------------------------------------------------------------
(* What the writers do to the answer.                                        *)

(* The clock may read the same for two writes.                               *)
Tick == clock' \in clock..(clock + 1) /\ 1 <= clock' /\ clock' <= MaxStamp

(* Writers are followed from the client's first page to its last: before it  *)
(* they make one table that Init allows of another, after it nobody looks.   *)
(* What leaves the answer meanwhile is recorded.                             *)
Writing ==
    /\ offset > 0 /\ ~finished
    /\ writes < MaxWrites /\ writes' = writes + 1
    /\ UNCHANGED <<answer, client>>
    /\ removed' = removed \cup (Table \ Table')

(* snapshot, of this item or of another one.                                 *)
Snapshot ==
    /\ source = "revisions"
    /\ clock' = clock + 1 /\ clock' \in unborn
    /\ items' = items \cup {clock'} /\ unborn' = unborn \ {clock'}
    /\ place' = [place EXCEPT ![clock'] = [key |-> -clock', then |-> 0]]
    /\ matching' \in {matching, matching \cup {clock'}}
    /\ Writing

(* A new item: nobody could send its id before.                              *)
Insert(i) ==
    /\ source = "list" /\ i \in unborn
    /\ Tick
    /\ items' = items \cup {i} /\ unborn' = unborn \ {i}
    /\ \E spot \in Spots(clock') :
         /\ sort \in NewestFirst => spot.key = -clock'
         /\ ThenByCreation => spot.then = -clock'
         /\ place' = [place EXCEPT ![i] = spot]
    /\ matching' \in {matching, matching \cup {i}}
    /\ Writing

(* Whether an item is in the answer may change with it: the filter, deleted, *)
(* held.  In a list it may take the subtree under it along, out of the       *)
(* answer or back into it.                                                   *)
Regated(i) ==
    /\ matching' \in SUBSET items'
    /\ IF source = "list"
       THEN matching' \ {i} \subseteq matching \/ matching \ {i} \subseteq matching'
       ELSE matching' \ {i} = matching \ {i}

(* Every write stamps updated_at.                                            *)
Touched(i) ==
    IF sort = "updated_at" THEN -clock' ELSE IF sort = "updated_asc" THEN clock' ELSE place[i].key

(* Any UPDATE of one item: a PATCH, delete, restore, hold, unhold.           *)
Write(i) ==
    /\ source # "revisions" /\ i \in items
    /\ Tick
    /\ \E key \in IF sort \in Chosen THEN Values ELSE {Touched(i)} :
         place' = [place EXCEPT ![i].key = key]
    /\ UNCHANGED <<items, unborn>>
    /\ Regated(i)
    /\ Writing

(* One transaction with one reading of the clock; ranks filter nothing.      *)
Rerank(ranked) ==
    /\ source # "revisions" /\ ranked \subseteq items /\ ranked # {}
    /\ Tick
    /\ \E ranks \in [ranked -> Values] :
         place' = [i \in Ids |->
            IF i \notin ranked THEN place[i]
            ELSE [place[i] EXCEPT !.key = IF sort = "rank" THEN ranks[i] ELSE Touched(i)]]
    /\ UNCHANGED <<items, unborn, matching>>
    /\ Writing

(* DELETE of the row: the subtree may come out from under a hold.            *)
Purge(i) ==
    /\ source # "revisions" /\ i \in items
    /\ items' = items \ {i}
    /\ place' = [place EXCEPT ![i] = NoSpot]
    /\ UNCHANGED <<clock, unborn>>
    /\ Regated(i) /\ matching \ {i} \subseteq matching'
    /\ Writing

-----------------------------------------------------------------------------
(* The pages.                                                                *)

(* How many rows come before this one.                                       *)
Place(r) == Cardinality({s \in Table : Before(s, r)})

(* LIMIT n OFFSET m: no limit is LIMIT -1, and 100 in a list.                *)
Unlimited == limit = 0 /\ source # "list"
PageSize == IF limit > 0 THEN limit ELSE DefaultLimit

OnPageOneLong(r) == Place(r) >= offset /\ (Unlimited \/ Place(r) <= offset + PageSize)
OnPage(r) == Place(r) >= offset /\ (Unlimited \/ Place(r) < offset + PageSize)

NextPage == {r \in Table : OnPage(r)}

(* The client asks for the next page until one is not full.                  *)
FetchPage ==
    /\ ~finished
    /\ collected' = collected \cup NextPage
    /\ existing' = IF offset = 0 THEN Table ELSE existing
    /\ offset' = IF Unlimited THEN offset ELSE offset + PageSize
    /\ finished' = (Unlimited \/ Cardinality(NextPage) < PageSize)
    /\ UNCHANGED <<answer, store, limit, removed, writes>>

Over == finished /\ UNCHANGED vars

Next ==
    \/ Snapshot
    \/ \E i \in unborn : Insert(i)
    \/ \E i \in items : Write(i) \/ Purge(i)
    \/ \E ranked \in SUBSET items : Rerank(ranked)
    \/ FetchPage
    \/ Over

Spec == Init /\ [][Next]_vars

-----------------------------------------------------------------------------
(* A client that pages to the end has seen every row that was there when it  *)
(* began, except those that left or moved, and those that a row ahead of     *)
(* them, leaving or moving, pulled back over a page boundary.  Rows that     *)
(* come only push the others to later pages: revisions, which never leave,   *)
(* are never missed.                                                         *)
NothingSkipped ==
    finished => \A r \in existing \ collected : \E s \in removed : s = r \/ Before(s, r)

CameSince(s) == s \notin existing \/ s \in removed

(* The answer shows an item, or one place of a query, again only for a       *)
(* reason: since the first page it has itself moved or come back, or         *)
(* something has come to stand ahead of it and pushed it over a page         *)
(* boundary.  Rows that only leave repeat none, and an answer that does not  *)
(* change repeats none.                                                      *)
RepeatsWerePushed ==
    [][offset' # offset =>
         \A r \in NextPage, c \in collected :
            r.tie = c.tie => \E s \in Table : CameSince(s) /\ (s = r \/ Before(s, r))]_vars

=============================================================================
