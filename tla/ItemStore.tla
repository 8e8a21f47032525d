------------------------------ MODULE ItemStore ------------------------------
(* The items table, its revision log, and the calls that write them: one     *)
(* HTTP handler goroutine of internal/api per call, running the statements   *)
(* of internal/db one at a time.                                             *)
(*                                                                           *)
(* Every writing statement goes through one connection (MaxOpenConns(1)), so *)
(* a statement is atomic and a handler of several statements is not.  Only   *)
(* UpdateItem holds itemUpdateMutex; every other handler interleaves with it *)
(* between any two statements.  An action is one statement together with the *)
(* local code up to the next one.                                            *)
(*                                                                           *)
(* Data is abstracted to what the properties tell apart:                     *)
(*   - content: the snapshot's columns other than parent_id (title, body,    *)
(*     tags, status, priority, list_id, links), one value of Contents;       *)
(*   - due: whether due_at is set; rule: no schedule, a schedule that brings *)
(*     its own dtstart, or one that counts from the item's due_at;           *)
(*   - deleted, held, updated: deleted_at, held_at and updated_at.  The code *)
(*     only compares these stamps for equality, so each write takes a fresh  *)
(*     one, which assumes that time.Now never reads the same twice.          *)
EXTENDS ItemRequests

CONSTANTS
    Calls,          \* the handler goroutines; each serves one request
    Requests,       \* the requests clients send
    InitialStores,  \* the tables the run may start from
    MaxFaults,      \* bound on failed statements and crashes
    Free            \* itemUpdateMutex is unlocked

Never == 0              \* a NULL stamp
FirstStamp == 1

Stamps == Nat
Row == [content : Contents, parent : Items \cup {NoItem}, due : DueDates, rule : Rules,
        deleted : Stamps, held : Stamps, updated : Stamps]

Revision == [item : Items, content : Contents, parent : Items \cup {NoItem},
             deleted : Stamps, reason : {"update", "delete", "purge", "restore", "hold", "unhold"}]

(* A table that CreateItem calls alone can have built.                       *)
BuiltByCreates(table) ==
    /\ \A i \in Items : table[i] # Absent =>
          /\ table[i].deleted = Never
          /\ table[i].held \in {Never, FirstStamp}
          /\ table[i].updated = FirstStamp
          /\ table[i].parent # NoItem => table[table[i].parent] # Absent
          /\ Anchored(table[i].rule, table[i].due)
    /\ Acyclic(ParentsOf(table))

ASSUME ConstantsAssumption ==
    /\ Keep \notin Contents \cup Items \cup {NoItem}
    /\ Free \notin Calls
    /\ Absent \notin Row
    /\ MaxFaults \in Nat
    /\ Requests \subseteq RequestType
    /\ \A r \in Requests : r.op = "create" => r.content # Keep
    /\ \A r \in Requests : r.op \notin {"create", "rerank"} => r.id \in Items
    /\ InitialStores \subseteq [Items -> Row \cup {Absent}]
    /\ \A table \in InitialStores : BuiltByCreates(table)

VARIABLES
    rows,       \* table items
    revisions,  \* table item_revisions, as the set of the states on record
    born,       \* ids that have been a row
    mutex,      \* the call that holds itemUpdateMutex
    pc,         \* the next step of each call
    req,        \* the request of each call
    expected,   \* the If-Match version, Never when there is none
    seen,       \* the row the handler read
    answer,     \* the HTTP answer
    clock,      \* the last stamp taken
    faults      \* failed statements and crashes so far

local == <<pc, req, expected, seen, answer>>
vars == <<rows, revisions, born, mutex, local, clock, faults>>

Stages == {"idle", "alive", "cycle", "insert", "lock", "read", "snapshot", "write",
           "reread", "explain", "rerank", "done"}
Statuses == {"none", "ok", "bad_request", "not_found", "changed", "failed", "lost"}

(* The mutex belongs to the database handle, so it is free when the program  *)
(* starts; the calls have not been made yet.                                 *)
Init ==
    /\ rows \in InitialStores
    /\ revisions = {}
    /\ born = {i \in Items : rows[i] # Absent}
    /\ mutex = Free
    /\ pc = [c \in Calls |-> "idle"]
    /\ req = [c \in Calls |-> NoRequest]
    /\ expected = [c \in Calls |-> Never]
    /\ seen = [c \in Calls |-> Absent]
    /\ answer = [c \in Calls |-> "none"]
    /\ clock = FirstStamp
    /\ faults = 0

-----------------------------------------------------------------------------
(* What the statements read and write.                                       *)

Live(i) == rows[i] # Absent /\ rows[i].deleted = Never

(* UPDATE items SET ... WHERE id = ?: no row, no effect.                     *)
Upserted(i, row) ==
    IF rows[i] = Absent
    THEN [rows EXCEPT ![i] = [content |-> CHOOSE x \in Contents : TRUE, parent |-> NoItem,
                              due |-> "none", rule |-> "none", deleted |-> Never,
                              held |-> Never, updated |-> clock + 1]]
    ELSE [rows EXCEPT ![i] = row]
Overwritten(i, row) == IF rows[i] = Absent THEN rows ELSE [rows EXCEPT ![i] = row]

(* snapshot: the row as it was read, with the reason of the write to come.   *)
SnapshotOf(i, row, reason) ==
    [item |-> i, content |-> row.content, parent |-> row.parent,
     deleted |-> row.deleted, reason |-> reason]

ReasonAlwaysDelete(op) == IF op = "purge" THEN "delete" ELSE op
Reason(op) == op

NotRecorded(c) == revisions
Recorded(c) == revisions \cup {SnapshotOf(req[c].id, seen[c], Reason(req[c].op))}

Tick == clock' = clock + 1
now == clock + 1

-----------------------------------------------------------------------------
(* How a handler moves on.                                                   *)

Goto(c, stage) == pc' = [pc EXCEPT ![c] = stage]

(* defer s.itemUpdateMutex.Unlock(): on every return of UpdateItem.          *)
MutexKept(c) == mutex
MutexAfter(c) == IF mutex = c THEN Free ELSE mutex

Respond(c, status) ==
    /\ Goto(c, "done")
    /\ answer' = [answer EXCEPT ![c] = status]
    /\ seen' = [seen EXCEPT ![c] = Absent]
    /\ mutex' = MutexAfter(c)

(* A handler whose store call returned an error.  PATCH reads the item once  *)
(* more to choose between 404 and 400, after UpdateItem let go of the mutex. *)
StoreFailedAgain(c, status) ==
    IF req[c].op = "update"
    THEN /\ Goto(c, "explain")
         /\ mutex' = MutexAfter(c)
         /\ UNCHANGED <<answer, seen>>
    ELSE Respond(c, status)
StoreFailed(c, status) ==
    IF req[c].op = "update" /\ pc[c] # "explain"
    THEN /\ Goto(c, "explain")
         /\ mutex' = MutexAfter(c)
         /\ UNCHANGED <<answer, seen>>
    ELSE Respond(c, status)

Continue(c, stage) == Goto(c, stage) /\ UNCHANGED <<answer, seen, mutex>>

-----------------------------------------------------------------------------
(* A request arrives.                                                        *)

(* CreateItemRequest.Validate, UpdateItemRequest.Validate: what is refused   *)
(* before the store is called.                                               *)
Invalid(r) ==
    r.op = "create" /\ (r.negative \/ ~Anchored(Pick(r.rule, "none"), Pick(r.due, "none")))

FirstStage(r) ==
    CASE r.op = "create" -> IF r.parent \in {Keep, NoItem} THEN "insert" ELSE "alive"
      [] r.op = "update" -> "lock"
      [] r.op = "rerank" -> "rerank"
      [] OTHER -> "read"

(* The version a PATCH is made against: one the client was shown, so any     *)
(* stamp so far, or none when there is no If-Match or it is "*".             *)
VersionsNamed(r) == IF r.ifMatch THEN FirstStamp..clock ELSE {Never}

Begin(c) ==
    /\ pc[c] = "idle"
    /\ \E r \in Requests :
         /\ req' = [req EXCEPT ![c] = r]
         /\ \E v \in VersionsNamed(r) :
               expected' = [expected EXCEPT ![c] = v]
         /\ IF Invalid(r) THEN Respond(c, "bad_request") ELSE Continue(c, FirstStage(r))
    /\ UNCHANGED <<rows, revisions, born, clock, faults>>

-----------------------------------------------------------------------------
(* checkParent: two statements.                                              *)

AnyParent(p) == TRUE
ParentAccepted(p) == p \in Items /\ Live(p)

CheckParentAlive(c) ==
    /\ pc[c] = "alive"
    /\ IF ParentAccepted(req[c].parent)
       THEN Continue(c, IF req[c].op = "create" THEN "insert" ELSE "cycle")
       ELSE StoreFailed(c, "bad_request")
    /\ UNCHANGED <<rows, revisions, born, req, expected, clock, faults>>

NeverCloses(i, p) == FALSE
ClosesCycle(i, p) == i \in Ancestors(ParentsOf(rows), p)

CheckCycle(c) ==
    /\ pc[c] = "cycle"
    /\ IF ClosesCycle(req[c].id, req[c].parent)
       THEN StoreFailed(c, "bad_request")
       ELSE Continue(c, "write")
    /\ UNCHANGED <<rows, revisions, born, req, expected, clock, faults>>

-----------------------------------------------------------------------------
(* CreateItem: one INSERT of a fresh id, born held if the request asks so.   *)

NewRow(r) ==
    [content |-> r.content, parent |-> Pick(r.parent, NoItem), due |-> Pick(r.due, "none"),
     rule |-> Pick(r.rule, "none"), deleted |-> Never,
     held |-> IF r.hold THEN now ELSE Never, updated |-> now]

Insert(c) ==
    /\ pc[c] = "insert"
    /\ \E i \in Items \ born :
         /\ rows' = [rows EXCEPT ![i] = NewRow(req[c])]
         /\ born' = born \cup {i}
    /\ Tick
    /\ Respond(c, "ok")
    /\ UNCHANGED <<revisions, req, expected, faults>>

-----------------------------------------------------------------------------
(* UpdateItem and the handlers that read, snapshot and write a row.          *)

EnterAnyway(c) == TRUE
MayEnter(c) == mutex = Free

Lock(c) ==
    /\ pc[c] = "lock"
    /\ MayEnter(c)
    /\ mutex' = c
    /\ Goto(c, "read")
    /\ UNCHANGED <<rows, revisions, born, req, expected, seen, answer, clock, faults>>

(* GetItem for update, hold and unhold; GetItemIncludingDeleted for delete,  *)
(* purge and restore.                                                        *)
Readable(r) ==
    IF r.op \in {"delete", "purge", "restore"} THEN rows[r.id] # Absent ELSE Live(r.id)

(* The early return of an operation that has nothing to do.                  *)
SettledWhenHeld(r) ==
    \/ r.op = "restore" /\ rows[r.id].deleted = Never
    \/ r.op \in {"hold", "unhold"} /\ rows[r.id].held # Never
Settled(r) ==
    \/ r.op = "restore" /\ rows[r.id].deleted = Never
    \/ r.op = "hold" /\ rows[r.id].held # Never
    \/ r.op = "unhold" /\ rows[r.id].held = Never

AnyVersion(c) == TRUE
VersionMatches(c) == expected[c] = Never \/ rows[req[c].id].updated = expected[c]

Read(c) ==
    /\ pc[c] = "read"
    /\ \/ ~Readable(req[c]) /\ StoreFailed(c, "not_found")
       \/ Readable(req[c]) /\ ~VersionMatches(c) /\ Respond(c, "changed")
       \/ Readable(req[c]) /\ VersionMatches(c) /\ Settled(req[c]) /\ Respond(c, "ok")
       \/ /\ Readable(req[c]) /\ VersionMatches(c) /\ ~Settled(req[c])
          /\ seen' = [seen EXCEPT ![c] = rows[req[c].id]]
          /\ Goto(c, "snapshot")
          /\ UNCHANGED <<answer, mutex>>
    /\ UNCHANGED <<rows, revisions, born, req, expected, clock, faults>>

Snapshot(c) ==
    /\ pc[c] = "snapshot"
    /\ revisions' = Recorded(c)
    /\ Continue(c, IF req[c].op = "update" /\ NamesParent(req[c]) THEN "alive" ELSE "write")
    /\ UNCHANGED <<rows, born, req, expected, clock, faults>>

(* The anchor is checked on the request merged with the row that was read;   *)
(* a negative ceiling is refused after it.                                   *)
AnchorOfRequest(c) == ~Anchored(Pick(req[c].rule, "none"), Pick(req[c].due, "set"))
Stranded(c) == ~Anchored(Merged(seen[c], req[c]).rule, Merged(seen[c], req[c]).due)

RefuseUpdate(c) ==
    /\ pc[c] = "write" /\ req[c].op = "update"
    /\ Stranded(c) \/ req[c].negative
    /\ StoreFailed(c, "bad_request")
    /\ UNCHANGED <<rows, revisions, born, req, expected, clock, faults>>

NothingToSet(c) ==
    /\ pc[c] = "write" /\ req[c].op = "update"
    /\ ~Stranded(c) /\ ~req[c].negative /\ SetsNothing(req[c])
    /\ Respond(c, "ok")
    /\ UNCHANGED <<rows, revisions, born, req, expected, clock, faults>>

(* One UPDATE of the columns the operation sets, then the handler goes on to *)
(* read the item back, or answers.                                           *)
Write(c, row) ==
    /\ rows' = Overwritten(req[c].id, row)
    /\ Tick
    /\ UNCHANGED <<revisions, born, req, expected, faults>>

WriteUpdate(c) ==
    /\ pc[c] = "write" /\ req[c].op = "update"
    /\ ~Stranded(c) /\ ~req[c].negative /\ ~SetsNothing(req[c])
    /\ Write(c, [Merged(rows[req[c].id], req[c]) EXCEPT !.updated = now])
    /\ Continue(c, "reread")

WriteRestore(c) ==
    /\ pc[c] = "write" /\ req[c].op = "restore"
    /\ Write(c, [rows[req[c].id] EXCEPT !.deleted = Never, !.updated = now])
    /\ Continue(c, "reread")

WriteHold(c) ==
    /\ pc[c] = "write" /\ req[c].op = "hold"
    /\ Write(c, [rows[req[c].id] EXCEPT !.held = now, !.updated = now])
    /\ Continue(c, "reread")

WriteUnhold(c) ==
    /\ pc[c] = "write" /\ req[c].op = "unhold"
    /\ Write(c, [rows[req[c].id] EXCEPT !.held = Never, !.updated = now])
    /\ Continue(c, "reread")

WriteTombstone(c) ==
    /\ pc[c] = "write" /\ req[c].op = "delete" /\ seen[c].deleted = Never
    /\ Write(c, [rows[req[c].id] EXCEPT !.deleted = now, !.updated = now])
    /\ Respond(c, "ok")

(* Deleted before it was read: the tombstone's stamp is not moved.           *)
AlreadyDeleted(c) ==
    /\ pc[c] = "write" /\ req[c].op = "delete" /\ seen[c].deleted # Never
    /\ Respond(c, "ok")
    /\ UNCHANGED <<rows, revisions, born, req, expected, clock, faults>>

(* DELETE FROM items WHERE id = ?: the children keep their parent_id.        *)
WritePurge(c) ==
    /\ pc[c] = "write" /\ req[c].op = "purge"
    /\ rows' = [rows EXCEPT ![req[c].id] = Absent]
    /\ Respond(c, "ok")
    /\ UNCHANGED <<revisions, born, req, expected, clock, faults>>

Reread(c) ==
    /\ pc[c] = "reread"
    /\ IF Live(req[c].id) THEN Respond(c, "ok") ELSE StoreFailed(c, "not_found")
    /\ UNCHANGED <<rows, revisions, born, req, expected, clock, faults>>

(* The PATCH handler's own look at the item after UpdateItem failed.         *)
Explain(c) ==
    /\ pc[c] = "explain"
    /\ Respond(c, IF Live(req[c].id) THEN "bad_request" ELSE "not_found")
    /\ UNCHANGED <<rows, revisions, born, req, expected, clock, faults>>

(* Rerank: one transaction on the only write connection; it moves the        *)
(* updated_at of every listed row, tombstones included.  Ranks are left out. *)
Rerank(c) ==
    /\ pc[c] = "rerank"
    /\ \E listed \in SUBSET Items :
         rows' = [i \in Items |-> IF i \in listed /\ rows[i] # Absent
                                  THEN [rows[i] EXCEPT !.updated = now] ELSE rows[i]]
    /\ Tick
    /\ Respond(c, "ok")
    /\ UNCHANGED <<revisions, born, req, expected, faults>>

-----------------------------------------------------------------------------
(* A statement fails (disk full, busy, closed), or the process dies.         *)

StatementStages == Stages \ {"idle", "lock", "done"}

(* create, delete and rerank answer 500; restore, hold and unhold answer 404 *)
(* whatever the error was; a PATCH whose last look fails answers 404.        *)
FailureAnswer(op) ==
    IF op \in {"create", "delete", "purge", "rerank"} THEN "failed" ELSE "not_found"

StatementFails(c) ==
    /\ pc[c] \in StatementStages
    /\ faults < MaxFaults
    /\ faults' = faults + 1
    /\ StoreFailed(c, FailureAnswer(req[c].op))
    /\ UNCHANGED <<rows, revisions, born, req, expected, clock>>

InFlight(c) == pc[c] \notin {"idle", "done"}

Crash ==
    /\ faults < MaxFaults
    /\ faults' = faults + 1
    /\ pc' = [c \in Calls |-> IF InFlight(c) THEN "done" ELSE pc[c]]
    /\ answer' = [c \in Calls |-> IF InFlight(c) THEN "lost" ELSE answer[c]]
    /\ seen' = [c \in Calls |-> Absent]
    /\ mutex' = Free
    /\ UNCHANGED <<rows, revisions, born, req, expected, clock>>

-----------------------------------------------------------------------------
Step(c) ==
    \/ CheckParentAlive(c) \/ CheckCycle(c) \/ Insert(c)
    \/ Lock(c) \/ Read(c) \/ Snapshot(c)
    \/ RefuseUpdate(c) \/ NothingToSet(c) \/ WriteUpdate(c)
    \/ WriteRestore(c) \/ WriteHold(c) \/ WriteUnhold(c)
    \/ WriteTombstone(c) \/ AlreadyDeleted(c) \/ WritePurge(c)
    \/ Reread(c) \/ Explain(c) \/ Rerank(c)

(* Every call is answered: the run is over.                                  *)
AllDone == (\A c \in Calls : pc[c] = "done") /\ UNCHANGED vars

Next ==
    \/ \E c \in Calls : Begin(c) \/ Step(c) \/ StatementFails(c)
    \/ Crash
    \/ AllDone

Spec == Init /\ [][Next]_vars

(* A handler that has something to do does it; sync.Mutex hands the lock to  *)
(* a waiter that has been passed over (starvation mode), so every waiter     *)
(* gets it in the end.  Requests need not arrive, and nothing has to fail.   *)
Fairness == \A c \in Calls : WF_vars(Step(c)) /\ SF_vars(Lock(c))

FairSpec == Spec /\ Fairness

-----------------------------------------------------------------------------
(* Properties.                                                               *)

(* Every variable holds a value of its type.                                 *)
TypeOK ==
    /\ rows \in [Items -> Row \cup {Absent}]
    /\ revisions \subseteq Revision
    /\ born \subseteq Items
    /\ mutex \in Calls \cup {Free}
    /\ pc \in [Calls -> Stages]
    /\ req \in [Calls -> Requests \cup {NoRequest}]
    /\ expected \in [Calls -> Stamps]
    /\ seen \in [Calls -> Row \cup {Absent}]
    /\ answer \in [Calls -> Statuses]
    /\ clock \in Nat
    /\ faults \in 0..MaxFaults

(* No item is ever inside its own ancestry, whatever moves, creates and      *)
(* purges overlap: checkParent runs its two statements apart from the UPDATE *)
(* that they license.                                                        *)
Forest == Acyclic(ParentsOf(rows))

(* An id that was a row and is no longer one has a revision that says purge, *)
(* the only thing that tells a purge from a delete (model.Revision.Reason),  *)
(* also when the handler fails or the process dies half way.                 *)
PurgeOnRecord ==
    \A i \in born : rows[i] = Absent =>
        \E rev \in revisions : rev.item = i /\ rev.reason = "purge"

(* A parent_id that matches no row is the trace of a purge: no create and no *)
(* move ever stores a parent that never was an item, although the check and  *)
(* the write are separate statements.                                        *)
ParentWasReal ==
    \A i \in Items : rows[i] # Absent /\ rows[i].parent # NoItem =>
        \/ rows[rows[i].parent] # Absent
        \/ \E rev \in revisions : rev.item = rows[i].parent /\ rev.reason = "purge"

(* No stored rule is left without the due date it counts from, however the   *)
(* PATCH that clears the date and the PATCH that brings the rule overlap.    *)
RuleHasAnchor ==
    \A i \in Items : rows[i] # Absent => Anchored(rows[i].rule, rows[i].due)

ConditionalSave(c) == req[c].op = "update" /\ req[c].ifMatch /\ ~SetsNothing(req[c])

(* Of all the conditional saves made against one version of an item at most  *)
(* one is answered with success.                                             *)
OneWinner ==
    \A c, d \in Calls :
        /\ ConditionalSave(c) /\ answer[c] = "ok"
        /\ ConditionalSave(d) /\ answer[d] = "ok"
        /\ req[c].id = req[d].id /\ expected[c] = expected[d]
        => c = d

OnRecord(i, row, revs) ==
    \E rev \in revs : rev.item = i /\ rev.content = row.content /\ rev.parent = row.parent

(* A write that changes the content or the parent of a row leaves the state  *)
(* it replaced in item_revisions, also when other handlers wrote the row     *)
(* between this handler's read, its snapshot and its write.                  *)
OverwriteOnRecord ==
    [][\A i \in Items :
         /\ rows[i] # Absent /\ rows'[i] # Absent
         /\ <<rows'[i].content, rows'[i].parent>> # <<rows[i].content, rows[i].parent>>
         => OnRecord(i, rows[i], revisions)]_vars

(* A purged id never becomes a row again: no hold, restore or save that was  *)
(* under way when the row went brings it back, and no create takes the id.   *)
PurgeIsFinal == [][\A i \in born : rows[i] = Absent => rows'[i] = Absent]_vars

(* Every request that arrives is answered: no path of UpdateItem keeps the   *)
(* mutex, and no handler waits for another for ever.                         *)
EveryCallAnswered == \A c \in Calls : pc[c] # "idle" ~> pc[c] = "done"

(* How far along a handler is.                                               *)
Place(stage) ==
    CASE stage = "idle" -> 0 [] stage = "lock" -> 1 [] stage = "read" -> 2
      [] stage = "snapshot" -> 3 [] stage = "alive" -> 4 [] stage = "cycle" -> 5
      [] stage \in {"insert", "rerank", "write"} -> 6 [] stage = "reread" -> 7
      [] stage = "explain" -> 8 [] stage = "done" -> 9

OnlyOnward ==
    /\ \A c \in Calls : pc'[c] # pc[c] => Place(pc'[c]) > Place(pc[c])
    /\ pc' # pc \/ \A c \in Calls : ~InFlight(c)

(* No handler goes back, neither when a check or a statement fails nor when  *)
(* PATCH looks for the reason: every step brings a call nearer its answer,   *)
(* so a call is over after nine steps of its own, however many interleave.   *)
CallsGoOnward == [][OnlyOnward]_vars

-----------------------------------------------------------------------------
(* The inductive invariant: why the safety properties above hold.  A call    *)
(* carries facts about the shared tables from one statement to the next, and *)
(* these stay true because the only handler that changes what they are about *)
(* is UpdateItem, which holds the mutex.                                     *)

Editing(c) == req[c].op = "update" /\ pc[c] \in {"read", "snapshot", "alive", "cycle", "write", "reread"}

(* Whoever holds the mutex is inside UpdateItem: no return of it, early, by  *)
(* an error or by the death of the process, leaves the mutex locked, and its *)
(* holder never waits for it, so waiting goes no further than one call.      *)
MutexHeldByEditor == mutex # Free => Editing(mutex)

StageFits(c) ==
    /\ pc[c] = "insert" => req[c].op = "create"
    /\ pc[c] = "rerank" => req[c].op = "rerank"
    /\ pc[c] = "alive" => req[c].op \in {"create", "update"}
    /\ pc[c] \in {"cycle", "lock", "explain"} => req[c].op = "update"
    /\ pc[c] \in {"read", "snapshot", "write", "reread"} => req[c].op \notin {"create", "rerank"}
    /\ pc[c] \in {"alive", "cycle"} => NamesParent(req[c])
    /\ pc[c] # "idle" => req[c] \in Requests
    /\ req[c].op = "create" /\ pc[c] \in {"alive", "insert"} => ~Invalid(req[c])

SameEdit(row, other) ==
    /\ row.content = other.content
    /\ row.parent = other.parent
    /\ row.due = other.due
    /\ row.rule = other.rule

HasRead(c) == req[c].op # "create" /\ pc[c] \in {"snapshot", "alive", "cycle", "write"}

(* What the handler read is still what an UPDATE would overwrite.            *)
SeenFits(c) ==
    HasRead(c) =>
        /\ req[c].id \in born
        /\ seen[c] \in Row
        /\ req[c].op = "update" =>
              rows[req[c].id] = Absent \/ SameEdit(rows[req[c].id], seen[c])

SnapshotTaken(c) ==
    /\ req[c].op = "update" /\ pc[c] \in {"alive", "cycle", "write"} =>
          OnRecord(req[c].id, seen[c], revisions)
    /\ req[c].op = "purge" /\ pc[c] = "write" =>
          \E rev \in revisions : rev.item = req[c].id /\ rev.reason = "purge"

ParentChecked(c) ==
    /\ pc[c] \in {"insert", "cycle", "write"} /\ NamesParent(req[c]) /\ req[c].op \in {"create", "update"} =>
          req[c].parent \in born
    /\ pc[c] = "write" /\ NamesParent(req[c]) /\ req[c].op = "update" =>
          ~ClosesCycle(req[c].id, req[c].parent)

(* A conditional save that was applied moved the version past the one it was *)
(* made against.                                                             *)
Applied(c) == ConditionalSave(c) /\ (pc[c] = "reread" \/ answer[c] = "ok")

VersionChecked(c) ==
    ConditionalSave(c) /\ (pc[c] \in {"snapshot", "alive", "cycle", "write", "reread"} \/ answer[c] = "ok")

VersionFits(c) ==
    /\ expected[c] <= clock
    /\ pc[c] # "done" => answer[c] = "none"
    /\ ConditionalSave(c) => expected[c] # Never
    /\ Applied(c) =>
          /\ req[c].id \in born
          /\ rows[req[c].id] = Absent \/ rows[req[c].id].updated > expected[c]

Rival(c, d) == c # d /\ req[c].id = req[d].id /\ expected[c] = expected[d]

CallOK(c) ==
    /\ Editing(c) => mutex = c
    /\ StageFits(c)
    /\ SeenFits(c)
    /\ SnapshotTaken(c)
    /\ ParentChecked(c)
    /\ VersionFits(c)

RowsOK ==
    \A i \in Items : rows[i] # Absent =>
        /\ i \in born
        /\ rows[i].parent # NoItem => rows[i].parent \in born
        /\ rows[i].updated <= clock

IInv ==
    /\ TypeOK
    /\ \A c \in Calls : CallOK(c)
    /\ \A c, d \in Calls : Rival(c, d) => ~(VersionChecked(c) /\ Applied(d))
    /\ RowsOK
    /\ Forest
    /\ PurgeOnRecord
    /\ RuleHasAnchor

-----------------------------------------------------------------------------
(* Statements of the documentation that the code does not keep; each is the  *)
(* subject of a run that shows how.                                          *)

(* DeleteItem: "even a purge leaves the content recoverable from             *)
(* item_revisions".                                                          *)
PurgeKeepsContent ==
    [][\A i \in Items : rows[i] # Absent /\ rows'[i] = Absent =>
          OnRecord(i, rows[i], revisions)]_vars

(* README, conditional saves: hold, unhold, delete, restore and rerank move  *)
(* updated_at too, "so a save made before one of those is refused".          *)
StaleSaveRefused ==
    [][\A c \in Calls :
         /\ ConditionalSave(c) /\ pc[c] = "write" /\ pc'[c] = "reread"
         /\ rows[req[c].id] # Absent
         => rows[req[c].id].updated = expected[c]]_vars

=============================================================================
