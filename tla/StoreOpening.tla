---------------------------- MODULE StoreOpening -----------------------------
(* db.New: processes that open one database file, convert it to WAL and      *)
(* migrate it, statement by statement and without a transaction, while       *)
(* others open it too, statements fail and processes die and start again.    *)
(*                                                                           *)
(* A row of items is a member of Rows; its title and body are left out, and  *)
(* with them what an edit does to the search index.                          *)
EXTENDS Naturals, Sequences

CONSTANTS
    Processes,      \* the processes that open the file
    Rows,           \* rows of items
    LegacyRows,     \* the rows of a file written before deletes were reversible
    Patience,       \* bound on the tries before switchJournalMode's deadline
    MaxFailures,    \* bound on statements that fail
    MaxCrashes      \* bound on processes that die

ASSUME OpeningAssumption ==
    /\ LegacyRows \subseteq Rows
    /\ Patience \in Nat \ {0} /\ MaxFailures \in Nat /\ MaxCrashes \in Nat

VARIABLES
    journal,    \* the journal mode of the file
    columns,    \* columns of items added since the first schema
    tables,     \* tables and triggers of the file
    stored,     \* rows of items
    indexed,    \* rows of items_fts
    busy,       \* something outside has the file locked
    at,         \* the next statement of each process, an index of Opening
    waited,     \* tries of switchJournalMode, counted up to its deadline
    outcome,    \* what New did in each process
    failures, crashes

file == <<journal, columns, tables, stored, indexed>>
vars == <<file, busy, at, waited, outcome, failures, crashes>>

Columns == {"deleted_at", "schedule", "held_at", "hold_reason", "auto_hold_at_usd"}
Triggers == {"items_ai", "items_ad", "items_au"}
Tables == {"items", "item_revisions", "items_fts"}

(* The statements of New and migrate, in order.  "verify" is the CREATE      *)
(* INDEX over columns that proves the ALTERs before it.                      *)
Do(kind, on) == [kind |-> kind, on |-> on]
OpeningOfOneColumn ==
    << Do("convert", {}), Do("create", {"items"}),
       Do("add", {"deleted_at"}), Do("verify", {"deleted_at"}),
       Do("add", {"schedule"}), Do("verify", {"schedule"}),
       Do("add", {"held_at"}), Do("add", {"hold_reason"}), Do("verify", {"held_at"}),
       Do("add", {"auto_hold_at_usd"}), Do("verify", {"auto_hold_at_usd"}),
       Do("create", {"item_revisions"}),
       Do("look", {"items_fts"}), Do("create index", {"items_fts"}), Do("populate", {"items_fts"}),
       Do("trigger", {"items_ai"}), Do("trigger", {"items_ad"}), Do("trigger", {"items_au"}),
       Do("readers", {}) >>
Opening ==
    << Do("convert", {}), Do("create", {"items"}),
       Do("add", {"deleted_at"}), Do("verify", {"deleted_at"}),
       Do("add", {"schedule"}), Do("verify", {"schedule"}),
       Do("add", {"held_at"}), Do("add", {"hold_reason"}), Do("verify", {"held_at", "hold_reason"}),
       Do("add", {"auto_hold_at_usd"}), Do("verify", {"auto_hold_at_usd"}),
       Do("create", {"item_revisions"}),
       Do("look", {"items_fts"}), Do("create index", {"items_fts"}), Do("populate", {"items_fts"}),
       Do("trigger", {"items_ai"}), Do("trigger", {"items_ad"}), Do("trigger", {"items_au"}),
       Do("readers", {}) >>

PastTriggers == Len(Opening)
FirstTable == CHOOSE n \in DOMAIN Opening : Opening[n].on = {"items"}
FirstTrigger == CHOOSE n \in DOMAIN Opening : Opening[n].on = {"items_ai"}

(* No file yet, or one of the first schema.                                  *)
Init ==
    /\ journal = "rollback" /\ columns = {} /\ indexed = {}
    /\ \/ tables = {} /\ stored = {}
       \/ tables = {"items"} /\ stored = LegacyRows
    /\ busy \in BOOLEAN
    /\ at = [p \in Processes |-> 1]
    /\ waited = [p \in Processes |-> 0]
    /\ outcome = [p \in Processes |-> "not started"]
    /\ failures = 0 /\ crashes = 0

-----------------------------------------------------------------------------
Doing(p, kind) == outcome[p] = "opening" /\ Opening[at[p]].kind = kind
On(p) == Opening[at[p]].on

GoTo(p, n) == at' = [at EXCEPT ![p] = n] /\ UNCHANGED outcome
Continue(p) ==
    IF at[p] = Len(Opening)
    THEN outcome' = [outcome EXCEPT ![p] = "open"] /\ UNCHANGED at
    ELSE GoTo(p, at[p] + 1)
GiveUp(p) == outcome' = [outcome EXCEPT ![p] = "failed"] /\ UNCHANGED at

Start(p) ==
    /\ outcome[p] = "not started"
    /\ outcome' = [outcome EXCEPT ![p] = "opening"]
    /\ at' = [at EXCEPT ![p] = 1]
    /\ waited' = [waited EXCEPT ![p] = 0]
    /\ UNCHANGED <<file, busy, failures, crashes>>

(* The first conversion needs the file for itself; SQLite does not wait for  *)
(* it.  A race can be lost with an error or quietly, which is the same to    *)
(* the loop: it tries again until the deadline.                              *)
Contended(p) ==
    journal # "wal" /\ (busy \/ \E q \in Processes \ {p} : Doing(q, "convert"))

NeverGivesUp(p) == FALSE
OutOfPatience(p) == waited[p] + 1 >= Patience

QuietLossAccepted(p) == TRUE
Settled(p) == journal' = "wal"

Convert(p) ==
    /\ Doing(p, "convert")
    /\ \/ ~(journal # "wal" /\ busy) /\ journal' = "wal"
       \/ Contended(p) /\ UNCHANGED journal
    /\ IF Settled(p)
       THEN Continue(p) /\ UNCHANGED waited
       ELSE /\ waited' = [waited EXCEPT ![p] = IF @ < Patience THEN @ + 1 ELSE @]
            /\ IF OutOfPatience(p) THEN GiveUp(p) ELSE UNCHANGED <<at, outcome>>
    /\ UNCHANGED <<columns, tables, stored, indexed, busy, failures, crashes>>

CreateTable(p) ==
    /\ Doing(p, "create")
    /\ tables' = tables \cup On(p)
    /\ Continue(p)
    /\ UNCHANGED <<journal, columns, stored, indexed, busy, waited, failures, crashes>>

(* ALTER TABLE: a duplicate column is an error, and the error is ignored.    *)
AddColumn(p) ==
    /\ Doing(p, "add")
    /\ columns' = columns \cup On(p)
    /\ Continue(p)
    /\ UNCHANGED <<journal, tables, stored, indexed, busy, waited, failures, crashes>>

VerifyColumns(p) ==
    /\ Doing(p, "verify")
    /\ IF On(p) \subseteq columns THEN Continue(p) ELSE GiveUp(p)
    /\ UNCHANGED <<file, busy, waited, failures, crashes>>

LookForIndex(p) ==
    /\ Doing(p, "look")
    /\ IF On(p) \subseteq tables THEN GoTo(p, FirstTrigger) ELSE Continue(p)
    /\ UNCHANGED <<file, busy, waited, failures, crashes>>

(* No IF NOT EXISTS: a process that another one overtook fails here.         *)
CreateIndex(p) ==
    /\ Doing(p, "create index")
    /\ IF On(p) \subseteq tables
       THEN GiveUp(p) /\ UNCHANGED tables
       ELSE Continue(p) /\ tables' = tables \cup On(p)
    /\ UNCHANGED <<journal, columns, stored, indexed, busy, waited, failures, crashes>>

PopulatesNothing == indexed
Populated == indexed \cup stored

PopulateIndex(p) ==
    /\ Doing(p, "populate")
    /\ indexed' = Populated
    /\ Continue(p)
    /\ UNCHANGED <<journal, columns, tables, stored, busy, waited, failures, crashes>>

CreateTrigger(p) ==
    /\ Doing(p, "trigger")
    /\ tables' = tables \cup On(p)
    /\ Continue(p)
    /\ UNCHANGED <<journal, columns, stored, indexed, busy, waited, failures, crashes>>

OpenReaders(p) ==
    /\ Doing(p, "readers")
    /\ Continue(p)
    /\ UNCHANGED <<file, busy, waited, failures, crashes>>

(* A statement fails.  New returns the error of those it looks at; of an     *)
(* ALTER or a trigger it ignores it, and a failed look reads as no index.    *)
Ignored == {"add", "trigger", "look"}

StatementFails(p) ==
    /\ outcome[p] = "opening" /\ ~Doing(p, "convert")
    /\ failures < MaxFailures
    /\ failures' = failures + 1
    /\ IF Opening[at[p]].kind \in Ignored THEN Continue(p) ELSE GiveUp(p)
    /\ UNCHANGED <<file, busy, waited, crashes>>

(* The process dies, or ends after New failed, and is started again.         *)
Dies(p) ==
    /\ outcome[p] # "not started"
    /\ crashes < MaxCrashes
    /\ crashes' = crashes + 1
    /\ outcome' = [outcome EXCEPT ![p] = "not started"]
    /\ UNCHANGED <<file, busy, at, waited, failures>>

(* Another connection takes the file or lets it go.                          *)
OutsideLock == busy' = ~busy /\ UNCHANGED <<file, at, waited, outcome, failures, crashes>>

(* CreateItem and a purge in an open store, with the triggers they fire.     *)
InsertRow(p, row) ==
    /\ outcome[p] = "open" /\ row \notin stored
    /\ stored' = stored \cup {row}
    /\ indexed' = IF "items_ai" \in tables THEN indexed \cup {row} ELSE indexed
    /\ UNCHANGED <<journal, columns, tables, busy, at, waited, outcome, failures, crashes>>

DeleteRow(p, row) ==
    /\ outcome[p] = "open" /\ row \in stored
    /\ stored' = stored \ {row}
    /\ indexed' = IF "items_ad" \in tables THEN indexed \ {row} ELSE indexed
    /\ UNCHANGED <<journal, columns, tables, busy, at, waited, outcome, failures, crashes>>

Step(p) ==
    \/ Convert(p) \/ CreateTable(p) \/ AddColumn(p) \/ VerifyColumns(p)
    \/ LookForIndex(p) \/ CreateIndex(p) \/ PopulateIndex(p)
    \/ CreateTrigger(p) \/ OpenReaders(p)

Next ==
    \/ \E p \in Processes : Start(p) \/ Step(p) \/ StatementFails(p) \/ Dies(p)
    \/ \E p \in Processes, row \in Rows : InsertRow(p, row) \/ DeleteRow(p, row)
    \/ OutsideLock

Spec == Init /\ [][Next]_vars

(* A process that is opening the store goes on; nobody has to start one, and *)
(* whoever has the file locked need not let it go.                           *)
FairSpec == Spec /\ \A p \in Processes : WF_vars(Step(p))

-----------------------------------------------------------------------------
(* Every variable holds a value of its type, and no process that goes on     *)
(* opening has waited for the conversion up to the deadline.                 *)
TypeOK ==
    /\ journal \in {"rollback", "wal"}
    /\ columns \subseteq Columns
    /\ tables \subseteq Tables \cup Triggers
    /\ stored \subseteq Rows /\ indexed \subseteq Rows
    /\ busy \in BOOLEAN
    /\ at \in [Processes -> DOMAIN Opening]
    /\ waited \in [Processes -> 0..Patience]
    /\ outcome \in [Processes -> {"not started", "opening", "open", "failed"}]
    /\ \A p \in Processes : outcome[p] \in {"opening", "open"} => waited[p] < Patience
    /\ failures \in 0..MaxFailures /\ crashes \in 0..MaxCrashes

SomeOpen == \E p \in Processes : outcome[p] = "open"

(* A store that opened has every column it writes, although the ALTERs'      *)
(* errors are ignored and other processes migrate the same file.             *)
OpenStoreHasColumns == SomeOpen => Columns \subseteq columns /\ Tables \subseteq tables

(* A store that opened is on the write-ahead log, whether it won the race    *)
(* for the first conversion, lost it, or lost it quietly.                    *)
OpenStoreIsWAL == SomeOpen => journal = "wal"

(* When no statement failed, no process died and no process is half way, the *)
(* search index holds every row of the table, whoever created and filled it. *)
IndexCompleteWhenQuiet ==
    /\ SomeOpen /\ failures = 0 /\ crashes = 0
    /\ \A p \in Processes : outcome[p] # "opening"
    => stored \subseteq indexed

(* A row that an open store created is in the index from then on, whoever    *)
(* opens the file, fails to or dies meanwhile; as long as no statement fails *)
(* only a row of a legacy file can be missing from a search.                 *)
OnlyLegacyRowsUnsearchable == failures = 0 => stored \ indexed \subseteq LegacyRows

Further(p) ==
    \/ outcome'[p] # "opening"
    \/ at'[p] > at[p]
    \/ at'[p] = at[p] /\ waited'[p] > waited[p]

OnlyFurther ==
    \A p \in Processes : outcome[p] = "opening" =>
        /\ Step(p) => Further(p)
        /\ Further(p) \/ UNCHANGED <<at[p], waited[p], outcome[p]>>

(* No statement of New is run twice by one opening, whatever other processes *)
(* do to the file: each step of its own brings it on, or uses up one of the  *)
(* tries before the deadline, so it has a bounded number of them.            *)
OpeningGoesFurther == [][OnlyFurther]_vars

(* New returns: however long another connection keeps the file, the retry of *)
(* the conversion ends at its deadline.                                      *)
EveryOpenEnds == \A p \in Processes : outcome[p] = "opening" ~> outcome[p] # "opening"

-----------------------------------------------------------------------------
(* migrate: "Populate FTS from existing data": when no process is half way,  *)
(* the index of a store that opened holds every row of the table, also when  *)
(* an earlier process died between two statements.                           *)
SearchIndexComplete ==
    SomeOpen /\ (\A p \in Processes : outcome[p] # "opening") => stored \subseteq indexed

=============================================================================
