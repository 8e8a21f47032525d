# noteboard: models, checks and proofs

noteboard is an HTTP service over one SQLite file: notes, todos and lists, kept
as rows of `items`, with every replaced state in `item_revisions`. It is small
and mostly sequential to read, and concurrent to run: each request is a
goroutine that executes several SQL statements with no transaction around them.
This directory models that, checks it with TLC and proves the core of it with
TLAPS.

`batch.go` is `internal/api/items_batch.go`, `db.go` is `internal/db/db.go`, `items_query.go` is `internal/db/items_query.go`,
`api.go` is `internal/api/api.go`, `schedule.go` is `model/schedule.go`.

## Inventory

| Component | State | Operations | Modelled in |
|---|---|---|---|
| Item writes (`db.go`, `api.go`, `model/model.go`) | tables `items`, `item_revisions`; `itemUpdateMutex` | create, PATCH (plain or If-Match), delete, purge, restore, hold, unhold, rerank | `ItemStore`, promised in `ItemLedger` |
| Parent tree (`db.go` 404-507) | `items.parent_id` | ancestors of a proposed parent, subtree under the holds | `ParentTree` |
| Reads (`db.go`, `items_query.go`, `batch.go`) | none, on a read-only pool | list, search, query, batch, scheduled | `ItemReads` |
| Paging (`db.go` 643-709, 1048-1075, `items_query.go` 11-26) | none: the client's offset | pages of revisions, lists and queries | `OffsetPages` |
| Opening and migration (`db.go` 52-283) | the file: journal mode, schema, search index | `New`, `switchJournalMode`, `migrate`, triggers | `StoreOpening` |
| Schedules (`schedule.go`, `api.go` 385-461) | `items.schedule`, `due_at` | validate, anchor, expand, next occurrence, preview | `Schedule` |
| Reminder leads (`schedule.go` 339-436) | none | read an ISO 8601 duration, apply it to a due date | `Leads` |
| Error text, settings, start-up, counts, case folding, TypeScript types, scripts | - | - | not modelled, see the end |

How they interact. A handler of `api.go` decodes and validates a request, then
calls the store. Writes and single-item reads share one connection
(`SetMaxOpenConns(1)`), so each *statement* is atomic and each *handler* is not:
between two statements of one handler any other handler may run. `UpdateItem`
alone holds `itemUpdateMutex`, so updates exclude each other and nothing else.
Lists, searches, queries and revision pages run on a pool of four read-only
connections; with WAL each statement reads the last committed state and blocks
nobody. Schedules are data to the store and code to the reminder coordinator,
another program, that completes items and moves `due_at`.

The hard behaviours, and what makes each component correct:

* a check in one statement and the write it licenses in another (version,
  parent, cycle, anchor, held, deleted): versions are won once, the parents stay
  a forest, every rule keeps its anchor, no replaced state is lost;
* a failed statement or a death between the snapshot and the write: whatever is
  gone is on record;
* a mutex with eight ways out: every request is answered;
* answers put together from several statements: what they still mean;
* loops that end at an error without noticing it: what a short answer may still
  be trusted for;
* holds inherited through tombstones, moves and purges: held work is not
  discovered;
* a page position that counts from a moving end, in an order with ties: nothing
  is skipped or shown twice but for a reason;
* several processes migrating one file, with ignored errors: an open store is
  complete;
* windows and ends of recurrence: a rolling item neither skips nor retires early;
* a preview that is cut at a cap, of a due date that goes on moving: it hides
  nothing and comes true;
* clocks that change between a due date and the reminder ahead of it.

## Modules

* **ParentTree** - the two `WITH RECURSIVE ... UNION` queries as least fixpoints
  (the members of every closed set), so no recursive operator is needed and
  theorems about them can be proved.
* **ItemRequests** - the requests that write, what each asks of one item, and
  what every stored item must satisfy. Both stores below are written with it.
* **ItemLedger** - the abstract store: a request arrives, takes effect in one
  step (`Create`, `Apply`) whose conditions are the promises (a forest, anchors,
  the replaced state on record, one winner per version, nothing back from a
  purge), and is answered. No statements, no mutex, no stamps.
* **ItemStore** - one process per handler goroutine (`Calls`), one action per
  statement, each with the local code up to the next statement. `pc` is the
  statement to run next, `seen` the row the handler read (`existing`),
  `expected` the If-Match version, `mutex` the lock, `answer` the status. All
  calls share `Read`, `Snapshot` and `Reread`; the writes are an action each.
* **ItemStoreRefinement** - the mapping: a row without its stamps is an entry,
  the place in the handler says whether the effect took place. The effect is
  at the writing statement, except for a delete that read a tombstone: that one
  had its effect when it read it, since a restore may come before its answer.
* **ItemReads** - extends ItemStore with readers: a query or a batch is three
  statements (missing ids, count, page), a list or search one with the hold
  filter inside, a scan of the scheduled items one. The ids of a query are a
  list, duplicates retained: what it counts and pages are places in that list
  (`SentIds`, `Where`). A statement may fail before
  its rows, or in their middle; only some loops look at `rows.Err()`
  (`CheckedLoop`, `UncheckedLoop`).
* **OffsetPages** - a client paging through revisions, a list in each of its four
  orders, or the matches of a query in each of its seven, while rows come, go
  and move. An item keeps its columns while it is deleted, held or not matching
  (`place` beside `matching`), so it comes back where they put it; a query has a
  row for each place at which an id was sent.
* **StoreOpening** - `New` in several processes: the list `Opening` is the
  sequence of statements in the source, `at[p]` the next one.
* **Leads** - the reading of a reminder lead, and its application by the
  calendar of a zone whose clocks change; beside it what is written, as a
  reference (`WellFormed`, `Written`).
* **Schedule** - extends Leads: validation, expansion, the preview, the walk of
  a rolling item, and reminders ahead of its due date.
* **ParentTreeProofs, ItemStoreProofs, ItemStoreRefinementProofs,
  ItemReadsProofs, OffsetPagesProofs, StoreOpeningProofs, LeadsProofs,
  ScheduleProofs** - the theorems.
* **MCItemStore, MCItemReads, MCOffsetPages, MCStoreOpening, MCSchedule** -
  instances for TLC.

Operators named like a wrong version of another one (`NeverCloses` beside
`ClosesCycle`, `MutexKept` beside `MutexAfter`, ...) are plausible bugs of the
definition that follows; putting one in its place must break a property.
`PROJECT.json` says which. They are used by nothing else.

### What is abstracted, and why it is enough

* **Columns.** The columns a snapshot keeps, other than `parent_id`, are one
  value (`content`): every write replaces some of them and no property tells
  them apart. `due_at` is set or not; a rule is absent, brings its own
  `dtstart`, or counts from the due date. `rank` and `auto_hold_at_usd` have no
  value, since no revision keeps them, but a PATCH of them (`rank`) still moves
  the version, and a negative ceiling is still refused (`negative`).
* **Stamps.** `deleted_at`, `held_at` and `updated_at` are only compared for
  equality or with NULL, so each write takes a fresh number. This assumes that
  `time.Now` never reads the same twice; a clock that steps back could repeat a
  version, and that is outside the model.
* **Revisions** are a set of states, without the number and time of each:
  properties ask whether a state is on record. Paging, which needs the order,
  has its own module.
* **Ids.** `uuid.New` is any id that was never a row, chosen at the INSERT.
* **Init** of ItemStore is any table that creates alone can build from nothing,
  given by the instance; the assumption `BuiltByCreates` says so.
* **Failures.** Any statement may fail and change nothing; `Crash` is the death
  of the process: calls in flight are lost, the mutex is free again, later
  requests go to the restarted process.
* **Answers.** `lost` is no answer at all; the bodies are left out.
* **Reads.** The filter is the set of contents it accepts. In `ItemReads` the
  order of the answer is left out, so a page is any set of the right size of the
  matching places; `OffsetPages` has the order and leaves out the filter, so a row
  is what it is sorted by, and any write may make an item match or not. Both have
  the limits and their defaults. Each statement is one step, which is what WAL
  gives it.
* **Orders.** A column sorted DESC is counted backwards. `rank`, `priority`,
  `due_at` and `title` are numbers that a client may choose; no due date is the
  largest of them, since such rows come last. Dates of creation and change are
  readings of a clock that may stand still between two writes and does not step
  back. Between a client's first page and its last every write of an item is an
  action; before, they would only make another of the tables that `Init` has.
* **Opening.** The rows of `items` have no columns, so what an edit does to the
  index is left out; the retries before the deadline are counted (`Patience`).
* **Schedule.** Instants are half seconds, because stored instants are whole
  seconds and "now" is not. One rule is an instant every so many seconds, for
  ever or a number of times; the RRULE library is external. The two years of
  `NextDueOccurrence` are `Horizon`, the year of a preview `Year`, its 500 are
  `MaxOccurrences`. The coordinator that rolls items and reminds is another
  program: its actions are `Roll...` and `Remind`, at any moment.
* **Leads.** A lead is its numbers and unit letters; the text around them, and a
  number too large for an int, are left out. A zone is one change of the clocks,
  forwards or backwards, by less than a day (a move across the date line is left
  out); `time.AddDate` is modelled by the clock reading it
  keeps, and where no instant or two have that reading it may answer either of
  what Go's documentation allows. Widths do not matter at the sizes modelled.

## Runs

Properties that hold:

| Run | Instance | Shows |
|---|---|---|
| `saves` | 3 calls, 3 ids, one fault | types; one winner per version; every overwrite on record; a purge is final |
| `tree` | 3 calls, 5 ids, two start tables | `Forest`, `ParentWasReal` under overlapping creates, moves and purges |
| `faults` | 2 calls, every operation, one fault, fair | `PurgeOnRecord`, `RuleHasAnchor`, the inductive invariant `IInv`, `MutexHeldByEditor`, `CallsGoOnward`, `EveryCallAnswered`; `LedgerSpec`: ItemStore implements ItemLedger |
| `reads` | 1 reader that may fail anywhere, lists of ids with duplicates, 2 calls, 5 ids | `SteadyIdsAccountedFor`, `NullSlotsWereGone`, `DiscoveryHonoursHolds` |
| `pages` | 3 ids, one of them sent twice; every order but one (see the bounds); pages of 1, of the default 2, or all; two writes | `NothingSkipped`; an item is shown again only if it moved or came back itself, or something came ahead of it (`RepeatsWerePushed`) |
| `opening` | 2 processes, 1 failure, 1 death, fair | columns, WAL and search index of an open store; what an open store created is searchable (`OnlyLegacyRowsUnsearchable`); `OpeningGoesFurther`, `EveryOpenEnds` |
| `rolling` | 1023 schedules, completed at any moment, previewed from now or later, with leads over either change of the clocks | the walk visits the series and ends with it; previews hide nothing (`PreviewHidesNothing`) and come true (`PreviewForetellsRolls`); a lead falls where it is written (`LeadsFallAsWritten`) |

Statements of the documentation or comments that the code does not keep; TLC
shows how in a few steps:

| Run | Statement | What happens |
|---|---|---|
| `purge_race` | a purge leaves the content recoverable (`db.go` 853) | a save lands between the snapshot and the DELETE |
| `stale_save` | a save made before a hold, delete, ... is refused (README 232) | the hold lands between check and write |
| `search_index` | populated from existing data (`db.go` 263) | a death before the populate is never made good |
| `rare_rule` | nil when the series has ended (`schedule.go` 323) | a gap longer than two years |
| `no_zone` | an invalid rule is rejected when written (README 261) | extra dates alone need no zone to be stored |

Nothing in the first three is reached by a handler or a process running alone
and to its end, which is how the repository's tests run them (or PATCH against
PATCH, which the mutex makes safe). The same gaps have other effects, which the
models have and no run is spent on: two overlapping holds move the stamp of the
first (`db.go` 902 says re-holding does not), a save can write a tombstone
(`db.go` 881: restored in exactly the state it was deleted in), a parent can be
deleted between its check and the write that names it (README 149), an applied
save can be answered 404, an item deleted in the middle of a query can be
neither on the page nor missing (`model/items_query.go` 135), a query whose
first loop stops at an error answers 200 with a short `missing_ids`
(`items_query.go` 47), a list or a search stops short the same way (`db.go`
1083, 1238), a page of revisions can repeat one when a snapshot is taken in
between (`db.go` 655), an occurrence less than a second after a fractional
instant is passed over (`schedule.go` 323, "strictly after"), a lead may name a
unit twice and only the last counts (the grammar at `schedule.go` 339), and a
lead of hours alone still goes through the clock reading (`AddDate(0, 0, 0)`),
so for a due date in the hour that the clocks show twice it need not "move by
elapsed time" (`schedule.go` 354). What does hold in their place is
`PurgeIsFinal`, `LedgerSpec`, `ParentWasReal`, `SteadyIdsAccountedFor`,
`NullSlotsWereGone`, `NothingSkipped`, `RollsThroughTheSeries` and
`LeadsFallAsWritten`.

**Bounds.** A violation of the store's properties needs a handler stopped
between two statements and one or two others to change the row meanwhile, so
three calls are enough for each two-sided race plus a third party; `tree` gives
three free ids so that a create can add a level, and a cycle needs two moves.
`faults` puts the one fault at any statement of any operation; two calls are
enough there, because what a fault leaves behind is met by one other call. Two
processes are enough for the opening, since each step depends only on whether
*some* other process has done it. In `rolling` the horizon of three seconds is
shorter than the gap of the rarest rule and longer than the others; a cap of two
is met by most series, a day has two hours of two minutes, and the clocks change
by an hour, forwards or backwards, between the two due dates. In `pages` three
rows over pages of one leave a row to skip, one to pull it back and one to come,
and the three places of a query the same with an id sent twice; a skip or a
repeat takes one write, so two let one undo or join the other. Two values and two
stamps for three rows make ties. A list by priority is left out of the run: its
second and third column are those of a list by rank, and fewer writes change its
first; the proofs include it. Calls are
symmetric; symmetry is not used where liveness is checked. What three calls
cannot show, the proofs do: they are for any number.

**Deadlock** is checked. Where all requests are answered, or all pages read, an
explicit stuttering step says that this is the end. The schedule runs turn the
check off: a refused or retired item stays as it is.

**Fairness.** A handler goroutine that can run runs (weak fairness of `Step`).
`sync.Mutex` hands the lock over to a waiter that has been passed over for a
millisecond (its starvation mode), so each waiter gets it: strong fairness of
`Lock`. Nothing makes a client send a request or a statement fail. In
`StoreOpening` a process that opens the store goes on (weak fairness of `Step`);
whoever else has the file locked need not ever let go.

## Proofs

For any sets of ids, contents, calls, requests and readers, any bound on faults
and any initial table built by creates:

* `ParentTreeProofs`: `CycleCheckExact` - in a forest, the move that
  `checkParent` allows keeps the forest, and the one it refuses would break it;
  `HeldIffAncestorHeld` - walking down from the holds reaches an item exactly
  when walking up from it meets a hold.
* `ItemStoreProofs`: `Spec => []IInv`, hence `TypeOK`, `Forest`,
  `PurgeOnRecord`, `ParentWasReal`, `RuleHasAnchor`, `OneWinner`,
  `MutexHeldByEditor`, and the action properties `PurgeIsFinal`,
  `OverwriteOnRecord` and `CallsGoOnward`.
* `ItemStoreRefinementProofs`: `StoreImplementsLedger`, that is
  `Spec => LedgerSpec`.
* `ItemReadsProofs`: `ReadsTypeOK`, `SteadyIdsAccountedFor`, `NullSlotsWereGone`
  and `DiscoveryHonoursHolds` for readers that send any lists of ids, with or
  without duplicates, beside any writers, and
  `ReadersLeaveTheStoreBe`, that is `ReadsSpec => Spec`: with readers present all
  of the above stays true.

And, for any values of their constants:

* `OffsetPagesProofs`: `NothingSkipped` and `RepeatsWerePushed`, for revisions and
  for every order of a list or a query.
* `StoreOpeningProofs`: `TypeOK`, `OpenStoreHasColumns`, `OpenStoreIsWAL`,
  `IndexCompleteWhenQuiet`, `OnlyLegacyRowsUnsearchable` and
  `OpeningGoesFurther`, for any number of processes, failures and deaths.
* `ScheduleProofs`: `RollsThroughTheSeries`, `RetiresAtTheEnd`,
  `PreviewHidesNothing`, `PreviewForetellsRolls` and, with the lemmas of
  `LeadsProofs`, `LeadsFallAsWritten`.

**How far the documentation does hold.** For each of the five statements above
that the code does not keep, a theorem says what is enough for it to hold: the
condition is an assumption on the constants (the requests clients send, the
schedules they write), and the conclusion the very property that the run
violates. So the run shows that the statement fails and the theorem that nothing
but the cause named makes it fail.

| Statement | Holds where | Theorem |
|---|---|---|
| `PurgeKeepsContent` | items that are purged are not patched | `OnlyPatchesOutrunPurges` |
| `StaleSaveRefused` | items saved conditionally are otherwise only patched, and no list is reranked | `OnlyOthersMakeSavesStale` |
| `SearchIndexComplete` | no statement fails and no row is older than the index | `OnlyLegacyFilesMissRows` |
| `NilMeansEnded` | no gap of a series is longer than the window searched | `OnlyLongGapsLookEnded` |
| `StoredScheduleExpands` | extra dates come with a known zone | `OnlyExtraDatesNeedAZone` |

The instance of each violating run breaks its condition: a purge beside a PATCH,
a hold beside a save, a legacy row and a death, a rule with a long gap, an extra
date without a zone.

**The argument.** None of the safety properties is inductive: whether a write
keeps the forest depends on a check made earlier on a table that others have
changed since. `IInv` therefore adds, for each call, what it carries from one
statement to the next (`CallOK`): what it read is still what an UPDATE would
overwrite (`SeenFits`), what it replaces is on record (`SnapshotTaken`), its
parent was a row once and still does not close a cycle (`ParentChecked`), its
version was the row's when it was checked (`VersionFits`). The proof is by rely
and guarantee. `GuaranteeStep` says what any step of any call does to the shared
tables: rows are only added or purged, revisions only added, and only the holder
of the mutex changes the content, parent, due date or rule of a row. `RelyStep`
shows that every fact another call carries survives such a step: a create adds a
leaf nobody points at yet (`BirthKeepsAncestors`), a purge removes an edge
(`FewerEdgesFewerAncestors`), and an update cannot happen while this call holds
the mutex. The `Own...` lemmas show that a call's own step establishes the facts
of its next statement. The cycle check stays valid up to the UPDATE for this
reason alone, and that is why the mutex carries more than the version check its
comment names it for. `OneWinner` needs the pair of facts in `IInv` that of two
rivals on one version one has not been checked when the other is applied.

*The refinement* is proved under `IInv`: each action of ItemStore is matched to
the step of the ledger at its writing statement, or to none (`Unseen`). `IInv`
gives the conditions of that step: `SnapshotTaken` the record, `VersionFits` that
no rival was applied, the parts on parents and anchors that the forest is sound
afterwards. An effect that finds nothing to do (`NothingToDo`) is a step of the
ledger that changes only the phase.

*The mutex and progress.* That every request is answered needs fairness, and is
left to TLC; the two halves of it that do not are proved. `MutexHeldByEditor`:
the mutex is locked only while its holder is inside `UpdateItem`, so a waiter
waits for a call that does not wait. `CallsGoOnward`: the steps of a handler have
a measure (`Place`) that every step of it raises and no step of another lowers,
failures included. `OpeningGoesFurther` is the same for `New`, with the tries of
the conversion as the second part of the measure.

*The documentation's statements.* `OnlyOthersMakeSavesStale` adds to `IInv` that
the version of a row that a conditional save is about to write is still the one
that it checked (`VersionStands`): the mutex keeps the other updates out, the
assumption the rest. `OnlyPatchesOutrunPurges` adds that a row to be purged is
still what its purge put on record (`PurgeFits`).

*Paging.* The core is `Ranks`: because the order is total, the rows have the
places 0, 1, 2, ... without a gap, so a page that has a row behind it is full
and the client goes on (`FullPage`). The inductive invariant says that each row
of the first page's table is collected, or pulled back, or has a place at or
behind the offset; rows that are added only raise places. For repeats it is the
other way round: a collected row has a place below the offset unless a row that
came since the first page is ahead of it. An item has at most one row for each
place (`tie`), so if it is shown again its row is either the one that was shown,
and then something pushed it, or one that came since, and then it has moved or
come back.

*Opening.* The list of statements is fixed (`Statements`), so the invariant says
what each statement that a process has behind it has left in the file (`Done`):
columns, tables, the journal mode. Files only gain, so this is stable under all
others' steps. For the index, `IndexFits`: as long as nothing went wrong, an
index that lacks a row has a process that is about to fill it. That a row created
through an open store is searchable needs less, and survives deaths: no store is
open without the trigger `items_ai`, and nothing takes it away.

*Schedule.* `Walked` strengthens `RollsThroughTheSeries` with what is true
before the first roll and with the due date being set; it needs that the series
does not depend on the due date (`SeriesIsDueSeries`), which holds since
`Validate` asks for a `dtstart` wherever there is a due rule, and that the next
due date is the first of the series in its window (`NextIsFirst`). Previews
follow from the fact that a cap leaves a head of the list (`CappedIsAHead`).

*Leads.* The reference adds up the components as they are written; the code
keeps one value per unit. A well-formed lead names a unit once and in order, so
it has at most two components of the date and three of the time, and the
reference can be unfolded: no induction is needed (`DateIsRead`, `TimeIsRead`).
`AddDateFacts` is the calendar: what `AddDate` may answer shows the clock reading
asked for, wherever an instant does, and is at most the change of the clocks
away from so many whole days; a day outweighs that change, so `LeadFalls` can
put the reminder on its side of the due date.

The proofs assume what the ASSUMEs of the modules say, which TLC evaluates on
every instance, and nothing else.

**Only model-checked**: the liveness properties `EveryCallAnswered` and
`EveryOpenEnds`, because the prover has no reasoning about fairness and ENABLED.
Every invariant and action property of a passing run is proved.

## Not modelled

* **`internal/boundedtext`**, **`internal/db/unicode.go`**: pure string
  functions without state.
* **`internal/settings`**, **`cmd/noteboard`**: read the environment once and
  start the server.
* **health, lists, tags**: single counting statements.
* **Full text**: what a search string matches, its rank, the SQL of the filters.
* **Schedules**: the channels of reminders, the RRULE grammar and its expansion
  (a library), the change of the clocks inside a series, and
  `last_materialized_at` and `last_nagged_at`, which are stored here and used by
  the coordinator only.
* **`ts/`, `scripts/`, `deploy/`, `deploy.sh`**: generated types and tooling.

## Plan

Done: the store, its ledger and the refinement between them; the parent tree;
reads that fail and page; paging in every order; the opening; schedules,
previews and leads; and the safety proofs of all of them. What would come next:

1. columns of StoreOpening's rows, so that an edit and the `items_au` trigger
   are steps too;
2. the search index as readers see it: `Search` on an index that an opening
   process is about to fill;
3. a coordinator, when its code is at hand: `last_materialized_at` under two of
   them, and clients that replace a whole schedule meanwhile;
4. clocks that step back, as a second way of giving out versions.
