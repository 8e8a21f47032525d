------------------------------ MODULE ItemReads ------------------------------
(* The readers of the store, running beside its writers: POST                *)
(* /api/items/query and /api/items/batch on top of it, which are three       *)
(* statements, the discovery reads GET /api/items and /api/search, and the   *)
(* coordinator's scan, which are one.  Readers use the read-only pool: each  *)
(* statement sees the last committed state of the tables and waits for no    *)
(* writer.                                                                   *)
(*                                                                           *)
(* Any statement of a reader may fail, before its first row or after some    *)
(* of them; it depends on the loop whether the second is noticed.            *)
EXTENDS ItemStore, Sequences, FiniteSets

CONSTANTS
    Readers,        \* the reading handlers; each serves one request
    Questions,      \* what they ask
    DefaultLimit    \* of a list or a search, 100 and 50 in the code

(* kind "query" asks which of ids match, "batch" for the items of ids,       *)
(* "list" and "search" what may be discovered, "scheduled" which items carry *)
(* a rule.  ids are kept as they were sent, duplicates included: each place  *)
(* of the list is joined, counted, paged and reported on its own.  wants     *)
(* abstracts the filter: the contents it accepts.  The order of the answer   *)
(* is left out (it is OffsetPages' matter); a page of limit rows after       *)
(* offset is any set of that many matches.                                   *)
Question == [kind : {"query", "batch", "list", "search", "scheduled"}, ids : Seq(Items),
             wants : SUBSET Contents, includeHeld : BOOLEAN, includeDeleted : BOOLEAN,
             limit : Nat, offset : Nat]

Composed == {"query", "batch"}
Discovery == {"list", "search"}

ASSUME QuestionsAssumption ==
    /\ Questions \subseteq Question
    /\ \A q \in Questions :
          /\ q.kind = "search" => ~q.includeDeleted /\ q.offset = 0
          /\ q.kind = "batch" => q.wants = Contents /\ q.limit = 0 /\ q.offset = 0

ASSUME DiscoveryAssumption == DefaultLimit \in Nat \ {0} /\ IsFiniteSet(Items)

VARIABLES
    stage,      \* the next statement of each reader, or how it was answered
    asked,      \* its question
    missing,    \* the places in ids that MissingIDs repeats
    total,      \* Total
    page,       \* the places in ids that are on the page
    found,      \* the items of a list, a search or a scan
    cut,        \* history: readers one of whose loops ended early, unnoticed
    wasLive,    \* history: ids that were live at some moment since the first statement
    wasGone     \* history: ids that were not live at some moment since then

reading == <<stage, asked, missing, total, page, found, cut, wasLive, wasGone>>
allVars == <<vars, reading>>

Statements == {"missing", "count", "page", "discover", "scheduled"}
ReadStages == {"idle", "answered", "failed"} \cup Statements

NoQuestion == [kind |-> "list", ids |-> <<>>, wants |-> {}, includeHeld |-> FALSE,
               includeDeleted |-> FALSE, limit |-> 0, offset |-> 0]

ReadsInit ==
    /\ Init
    /\ stage = [r \in Readers |-> "idle"]
    /\ asked = [r \in Readers |-> NoQuestion]
    /\ missing = [r \in Readers |-> {}]
    /\ total = [r \in Readers |-> 0]
    /\ page = [r \in Readers |-> {}]
    /\ found = [r \in Readers |-> {}]
    /\ cut = {}
    /\ wasLive = [r \in Readers |-> {}]
    /\ wasGone = [r \in Readers |-> {}]

-----------------------------------------------------------------------------
(* What the statements select.                                               *)

LiveIn(table) == {i \in Items : table[i] # Absent /\ table[i].deleted = Never}

SeedsOfAnyRow(table) == {i \in Items : table[i] # Absent /\ table[i].held # Never}
HeldSeeds(table) == {i \in LiveIn(table) : table[i].held # Never}

Held(table) == HeldSubtree(ParentsOf(table), HeldSeeds(table))

(* json_each AS sent CROSS JOIN items: the places whose id is in S.          *)
WhereByKey(q, S) == {k \in 0..(Len(q.ids) - 1) : q.ids[k + 1] \in S}
Where(q, S) == {k \in DOMAIN q.ids : q.ids[k] \in S}

SentIds(q) == {q.ids[k] : k \in DOMAIN q.ids}

RowsOnly(q, table) == Where(q, {i \in Items : table[i] = Absent})
NamesNoLive(q, table) == Where(q, Items \ LiveIn(table))

Matches(q, table) == Where(q, {i \in LiveIn(table) : table[i].content \in q.wants})

Discovered(q, table) ==
    {i \in Items :
        /\ table[i] # Absent
        /\ q.includeDeleted \/ table[i].deleted = Never
        /\ table[i].content \in q.wants
        /\ q.includeHeld \/ i \notin Held(table)}

WithRule(table) == {i \in LiveIn(table) : table[i].rule # "none"}

(* LIMIT ? OFFSET ? after the ORDER BY: a query without a limit has none.    *)
Unlimited(q) == q.limit = 0 /\ q.kind \notin Discovery
Limit(q) == IF q.limit > 0 THEN q.limit ELSE DefaultLimit

(* The page cannot have left any match out.                                  *)
Whole(q, S) == q.offset = 0 /\ (Unlimited(q) \/ Cardinality(S) < Limit(q))

Pages(q, matches) ==
    LET left == IF Cardinality(matches) > q.offset THEN Cardinality(matches) - q.offset ELSE 0
        size == IF ~Unlimited(q) /\ Limit(q) < left THEN Limit(q) ELSE left
    IN  {S \in SUBSET matches : Cardinality(S) = size}

(* for rows.Next(): an error after some of the rows ends the loop.  Where    *)
(* rows.Err() is looked at next, the handler fails; where it is not, the     *)
(* rows so far are the answer.                                               *)
ErrorOverlooked(S) == SUBSET S
CheckedLoop(S) == {S}
UncheckedLoop(S) == SUBSET S

-----------------------------------------------------------------------------
(* The readers' statements.                                                  *)

(* The history of the ids asked for, kept in every state from the first      *)
(* statement of a query to its last.                                         *)
Observed(r) == stage[r] \in {"count", "page"}

Watch(table) ==
    /\ wasLive' = [r \in Readers |->
            IF Observed(r) THEN wasLive[r] \cup (SentIds(asked[r]) \cap LiveIn(table)) ELSE wasLive[r]]
    /\ wasGone' = [r \in Readers |->
            IF Observed(r) THEN wasGone[r] \cup (SentIds(asked[r]) \ LiveIn(table)) ELSE wasGone[r]]

Move(r, to) == stage' = [stage EXCEPT ![r] = to]

CutIf(r, short) == cut' = IF short THEN cut \cup {r} ELSE cut

(* Without ids there is nothing to ask the table.                            *)
FirstStatement(q) ==
    CASE q.kind \in Discovery -> "discover"
      [] q.kind = "scheduled" -> "scheduled"
      [] q.kind \in Composed -> IF q.ids = <<>> THEN "answered" ELSE "missing"

Ask(r) ==
    /\ stage[r] = "idle"
    /\ \E q \in Questions :
         /\ asked' = [asked EXCEPT ![r] = q]
         /\ Move(r, FirstStatement(q))
    /\ UNCHANGED <<vars, missing, total, page, found, cut, wasLive, wasGone>>

(* missing.Close() after the loop does not report the error that ended it.   *)
ReadMissing(r) ==
    /\ stage[r] = "missing"
    /\ LET gone == NamesNoLive(asked[r], rows)
       IN  \E S \in UncheckedLoop(gone) :
             missing' = [missing EXCEPT ![r] = S] /\ CutIf(r, S # gone)
    /\ wasLive' = [wasLive EXCEPT ![r] = SentIds(asked[r]) \cap LiveIn(rows)]
    /\ wasGone' = [wasGone EXCEPT ![r] = SentIds(asked[r]) \ LiveIn(rows)]
    /\ Move(r, "count")
    /\ UNCHANGED <<vars, asked, total, page, found>>

ReadCount(r) ==
    /\ stage[r] = "count"
    /\ total' = [total EXCEPT ![r] = Cardinality(Matches(asked[r], rows))]
    /\ Move(r, "page")
    /\ UNCHANGED <<vars, asked, missing, page, found, cut, wasLive, wasGone>>

ReadPage(r) ==
    /\ stage[r] = "page"
    /\ \E full \in Pages(asked[r], Matches(asked[r], rows)) : \E S \in CheckedLoop(full) :
         page' = [page EXCEPT ![r] = S]
    /\ Move(r, "answered")
    /\ UNCHANGED <<vars, asked, missing, total, found, cut, wasLive, wasGone>>

(* ListItems and Search: one statement, the hold filter inside it.           *)
ListOrSearch(r) ==
    /\ stage[r] = "discover"
    /\ \E full \in Pages(asked[r], Discovered(asked[r], rows)) : \E S \in UncheckedLoop(full) :
         found' = [found EXCEPT ![r] = S] /\ CutIf(r, S # full)
    /\ Move(r, "answered")
    /\ UNCHANGED <<vars, asked, missing, total, page, wasLive, wasGone>>

ListScheduled(r) ==
    /\ stage[r] = "scheduled"
    /\ \E S \in CheckedLoop(WithRule(rows)) : found' = [found EXCEPT ![r] = S]
    /\ Move(r, "answered")
    /\ UNCHANGED <<vars, asked, missing, total, page, cut, wasLive, wasGone>>

(* An error that is noticed is a 500, whatever was read before.              *)
ReadFails(r) ==
    /\ stage[r] \in Statements
    /\ Move(r, "failed")
    /\ UNCHANGED <<vars, asked, missing, total, page, found, cut, wasLive, wasGone>>

ReaderStep(r) ==
    \/ Ask(r) \/ ReadMissing(r) \/ ReadCount(r) \/ ReadPage(r)
    \/ ListOrSearch(r) \/ ListScheduled(r) \/ ReadFails(r)

WriterStep ==
    /\ \E c \in Calls : Begin(c) \/ Step(c)
    /\ Watch(rows')
    /\ UNCHANGED <<stage, asked, missing, total, page, found, cut>>

AllServed ==
    /\ \A c \in Calls : pc[c] = "done"
    /\ \A r \in Readers : stage[r] \in {"answered", "failed"}
    /\ UNCHANGED allVars

ReadsNext == WriterStep \/ (\E r \in Readers : ReaderStep(r)) \/ AllServed

ReadsSpec == ReadsInit /\ [][ReadsNext]_allVars

-----------------------------------------------------------------------------
(* Every reader's variables hold values of their types; what a query or a    *)
(* batch answers is about the places of the ids it was sent.                 *)
ReadsTypeOK ==
    /\ stage \in [Readers -> ReadStages]
    /\ asked \in [Readers -> Questions \cup {NoQuestion}]
    /\ missing \in [Readers -> SUBSET Nat]
    /\ total \in [Readers -> Nat]
    /\ page \in [Readers -> SUBSET Nat]
    /\ \A r \in Readers : missing[r] \cup page[r] \subseteq DOMAIN asked[r].ids
    /\ found \in [Readers -> SUBSET Items]
    /\ cut \subseteq Readers
    /\ wasLive \in [Readers -> SUBSET Items]
    /\ wasGone \in [Readers -> SUBSET Items]

Answered(r, kind) == stage[r] = "answered" /\ asked[r].kind = kind

(* The places whose id was gone, or live, at no moment of the query.         *)
AlwaysLive(r) == Where(asked[r], Items \ wasGone[r])
AlwaysGone(r) == Where(asked[r], Items \ wasLive[r])

(* An id whose item does not come or go while the query runs is accounted    *)
(* for at each place it was sent at: one that is gone throughout is not on   *)
(* the page, and it is missing unless the list of the missing was cut; one   *)
(* that is live throughout is not missing, and if the filter cannot refuse   *)
(* it, it is counted and is on a page that leaves no match out.              *)
SteadyIdsAccountedFor ==
    \A r \in Readers : Answered(r, "query") =>
        /\ page[r] \subseteq Where(asked[r], wasLive[r])
        /\ missing[r] \subseteq Where(asked[r], wasGone[r])
        /\ r \notin cut => AlwaysGone(r) \subseteq missing[r]
        /\ total[r] <= Cardinality(Where(asked[r], wasLive[r]))
        /\ asked[r].wants = Contents =>
              /\ Cardinality(AlwaysLive(r)) <= total[r]
              /\ Whole(asked[r], page[r]) => AlwaysLive(r) \subseteq page[r]

(* byID: the items of the page fill every slot of their id.                  *)
Filled(q, onPage, k) == \E j \in onPage : q.ids[j] = q.ids[k]

(* A batch has an item or null for each place of the ids sent.  Whatever     *)
(* fails on the way, a null says that the item was not there at some moment  *)
(* of the read, and an item that it was.                                     *)
NullSlotsWereGone ==
    \A r \in Readers : Answered(r, "batch") => \A k \in DOMAIN asked[r].ids :
        IF Filled(asked[r], page[r], k) THEN asked[r].ids[k] \in wasLive[r]
                                        ELSE asked[r].ids[k] \in wasGone[r]

UnderLiveHold(table, i) ==
    \E s \in Ancestors(ParentsOf(table), i) :
        table[s] # Absent /\ table[s].deleted = Never /\ table[s].held # Never

Discoverable(q, table, i) ==
    /\ table[i] # Absent
    /\ q.includeDeleted \/ table[i].deleted = Never
    /\ table[i].content \in q.wants
    /\ ~UnderLiveHold(table, i)

(* Discovery without include_held answers only matches that have no live     *)
(* held item at or above them, and an answer that is not full all of them,   *)
(* unless its loop was cut: the query walks down from the holds, the         *)
(* property walks up from the item, past tombstones and purged parents.      *)
DiscoveryHonoursHolds ==
    [][\A r \in Readers :
         stage[r] = "discover" /\ stage'[r] = "answered" /\ ~asked[r].includeHeld =>
         \A i \in Items :
            /\ i \in found'[r] => Discoverable(asked[r], rows, i)
            /\ r \notin cut' /\ Whole(asked[r], found'[r]) /\ Discoverable(asked[r], rows, i) =>
                  i \in found'[r]]_allVars

=============================================================================
