---------------------- MODULE ItemStoreRefinementProofs -----------------------
(* ItemStore implements ItemLedger, for any set of ids, calls, contents and  *)
(* requests: the initial states map to initial states, and under the         *)
(* invariant of ItemStoreProofs every step maps to a step of the ledger or   *)
(* leaves it as it is.                                                       *)
EXTENDS ItemStoreRefinement, ItemStoreProofs

-----------------------------------------------------------------------------
(* The mapping of the rows.                                                  *)

LEMMA EntryTyped ==
    ASSUME NEW row \in Row
    PROVE  /\ EntryOf(row) \in Ledger!Entry
           /\ EntryOf(row) # Absent
<1>1. row # Absent
  BY ConstantsAssumption
<1>2. EntryOf(row) \in Ledger!Entry
  BY <1>1 DEF EntryOf, Row, Ledger!Entry, Ledger!DueDates, Ledger!Rules, DueDates, Rules
<1> QED BY <1>2, EntryAssumption

LEMMA EntriesTyped ==
    ASSUME NEW table \in [Items -> Row \cup {Absent}]
    PROVE  /\ Entries(table) \in [Items -> Ledger!Entry \cup {Absent}]
           /\ \A i \in Items : Entries(table)[i] = EntryOf(table[i])
           /\ \A i \in Items : Entries(table)[i] = Absent <=> table[i] = Absent
           /\ Ledger!ParentsOf(Entries(table)) = ParentsOf(table)
<1>1. \A i \in Items : Entries(table)[i] = EntryOf(table[i])
  BY DEF Entries
<1>2. \A i \in Items :
        \/ table[i] = Absent /\ EntryOf(table[i]) = Absent
        \/ /\ table[i] # Absent /\ EntryOf(table[i]) # Absent
           /\ EntryOf(table[i]) \in Ledger!Entry
           /\ EntryOf(table[i]).parent = table[i].parent
  <2> TAKE i \in Items
  <2>1. CASE table[i] = Absent
    BY <2>1 DEF EntryOf
  <2>2. CASE table[i] # Absent
    BY <2>2, EntryTyped DEF EntryOf
  <2> QED BY <2>1, <2>2
<1>3. Ledger!ParentsOf(Entries(table)) = ParentsOf(table)
  BY <1>1, <1>2 DEF Ledger!ParentsOf, ParentsOf
<1> QED BY <1>1, <1>2, <1>3 DEF Entries

(* What the invariant says of the rows, said of the entries.                 *)
LEMMA EntriesSound ==
    ASSUME TypeOK, RowsOK, Forest, RuleHasAnchor
    PROVE  Ledger!Sound(Entries(rows), born)
<1>1. rows \in [Items -> Row \cup {Absent}]
  BY DEF TypeOK
<1>2. Ledger!Acyclic(Ledger!ParentsOf(Entries(rows)))
  BY <1>1, EntriesTyped DEF Forest, Acyclic, Ledger!Acyclic
<1>3. ASSUME NEW i \in Items, Entries(rows)[i] # Absent
      PROVE  /\ i \in born
             /\ Entries(rows)[i].parent \in born \cup {NoItem}
             /\ Ledger!Anchored(Entries(rows)[i].rule, Entries(rows)[i].due)
  <2>1. rows[i] # Absent /\ Entries(rows)[i] = EntryOf(rows[i])
    BY <1>1, <1>3, EntriesTyped
  <2> QED BY <2>1 DEF EntryOf, RowsOK, RuleHasAnchor, Anchored, Ledger!Anchored
<1> QED BY <1>2, <1>3 DEF Ledger!Sound

-----------------------------------------------------------------------------
(* The mapping of the calls.                                                 *)

LEMMA ProgressStep ==
    ASSUME NEW c \in Calls, OthersUntouched(c)
    PROVE  /\ Progress' = [Progress EXCEPT ![c] = PhaseOf(c)']
           /\ PhaseOf(c)' = PhaseOf(c) => Progress' = Progress
<1>1. \A d \in Calls : d # c => PhaseOf(d)' = PhaseOf(d)
  BY DEF OthersUntouched, PhaseOf, FoundDeleted
<1> HIDE DEF PhaseOf
<1> QED BY <1>1 DEF Progress

LEMMA PhaseOfAnswer ==
    ASSUME TypeOK, NEW c \in Calls, NEW status, Respond(c, status)
    PROVE  PhaseOf(c)' = IF status \in {"ok", "changed"} THEN status ELSE "failed"
<1>1. pc'[c] = "done" /\ answer'[c] = status
  BY DEF TypeOK, Respond, Goto
<1> QED BY <1>1 DEF PhaseOf, FoundDeleted

LEMMA PhaseOfFailure ==
    ASSUME TypeOK, NEW c \in Calls, NEW status, StoreFailed(c, status), status \notin {"ok", "changed"}
    PROVE  PhaseOf(c)' = "failed"
<1>1. CASE req[c].op = "update" /\ pc[c] # "explain"
  <2>1. pc'[c] = "explain"
    BY <1>1 DEF TypeOK, StoreFailed, Goto
  <2> QED BY <2>1 DEF PhaseOf, FoundDeleted
<1>2. CASE ~(req[c].op = "update" /\ pc[c] # "explain")
  BY <1>2, PhaseOfAnswer DEF StoreFailed
<1> QED BY <1>1, <1>2

LEMMA PhaseInFlight ==
    ASSUME NEW c \in Calls, TypeOK, pc[c] \notin {"idle", "done", "explain"}
    PROVE  PhaseOf(c) = IF pc[c] = "reread" \/ FoundDeleted(c) THEN "applied" ELSE "pending"
BY DEF PhaseOf

(* A step that changes neither the tables nor the phase of its call.         *)
LEMMA Unseen ==
    ASSUME NEW c \in Calls, OthersUntouched(c), PhaseOf(c)' = PhaseOf(c),
           UNCHANGED <<rows, revisions, born, req, expected>>
    PROVE  UNCHANGED Ledger!ledger
<1>1. Progress' = Progress
  BY ProgressStep
<1> QED BY <1>1 DEF Ledger!ledger, Entries, EntryOf

LEMMA CallFails ==
    ASSUME NEW c \in Calls, OthersUntouched(c), PhaseOf(c)' = "failed",
           PhaseOf(c) \in {"pending", "applied"},
           UNCHANGED <<rows, revisions, born, req, expected>>
    PROVE  Ledger!Fail
<1>1. Progress' = [Progress EXCEPT ![c] = "failed"]
  BY ProgressStep
<1>2. Progress[c] \in {"pending", "applied"} /\ DOMAIN Progress = Calls
  BY DEF Progress
<1>3. /\ {c} \in SUBSET {d \in Calls : Progress[d] \in {"pending", "applied"}}
      /\ Progress' = [d \in Calls |-> IF d \in {c} THEN "failed" ELSE Progress[d]]
  BY <1>1, <1>2
<1>4. Entries(rows)' = Entries(rows)
  BY DEF Entries, EntryOf
<1> QED BY <1>3, <1>4 DEF Ledger!Fail

-----------------------------------------------------------------------------
(* The effects.                                                              *)

LEMMA AfterCases ==
    ASSUME NEW r \in RequestType, NEW entry \in Ledger!Entry
    PROVE  /\ r.op = "update"  => Ledger!After(r, entry) = Ledger!Merged(entry, r)
           /\ r.op = "delete"  => Ledger!After(r, entry) = [entry EXCEPT !.deleted = TRUE]
           /\ r.op = "restore" => Ledger!After(r, entry) = [entry EXCEPT !.deleted = FALSE]
           /\ r.op = "hold"    => Ledger!After(r, entry) = [entry EXCEPT !.held = TRUE]
           /\ r.op = "unhold"  => Ledger!After(r, entry) = [entry EXCEPT !.held = FALSE]
           /\ r.op = "rerank"  => Ledger!After(r, entry) = entry
           /\ r.op = "purge"   => Ledger!After(r, entry) = Absent
<1>1. entry # Absent
  BY EntryAssumption
<1> QED BY <1>1, Zenon DEF Ledger!After

LEMMA AfterAbsent ==
    ASSUME NEW r
    PROVE  Ledger!After(r, Absent) = Absent
BY DEF Ledger!After

(* Taking the entry of a row commutes with what the statements set.          *)
LEMMA EntryOfSet ==
    ASSUME NEW row \in Row, NEW s \in Stamps
    PROVE  /\ EntryOf([row EXCEPT !.updated = s]) = EntryOf(row)
           /\ EntryOf([row EXCEPT !.deleted = Never, !.updated = s]) = [EntryOf(row) EXCEPT !.deleted = FALSE]
           /\ EntryOf([row EXCEPT !.held = Never, !.updated = s]) = [EntryOf(row) EXCEPT !.held = FALSE]
           /\ s # Never =>
                 /\ EntryOf([row EXCEPT !.deleted = s, !.updated = s]) = [EntryOf(row) EXCEPT !.deleted = TRUE]
                 /\ EntryOf([row EXCEPT !.held = s, !.updated = s]) = [EntryOf(row) EXCEPT !.held = TRUE]
<1>1. row # Absent /\ Never \in Stamps
  BY ConstantsAssumption DEF Stamps, Never
<1>2. /\ [row EXCEPT !.updated = s] \in Row
      /\ [row EXCEPT !.deleted = Never, !.updated = s] \in Row
      /\ [row EXCEPT !.held = Never, !.updated = s] \in Row
      /\ [row EXCEPT !.deleted = s, !.updated = s] \in Row
      /\ [row EXCEPT !.held = s, !.updated = s] \in Row
  BY <1>1 DEF Row
<1>3. \A other \in Row : other # Absent
  BY ConstantsAssumption
<1>4. EntryOf([row EXCEPT !.updated = s]) = EntryOf(row)
  <2>1. /\ [row EXCEPT !.updated = s].content = row.content
        /\ [row EXCEPT !.updated = s].parent = row.parent
        /\ [row EXCEPT !.updated = s].due = row.due
        /\ [row EXCEPT !.updated = s].rule = row.rule
        /\ [row EXCEPT !.updated = s].deleted = row.deleted
        /\ [row EXCEPT !.updated = s].held = row.held
    BY DEF Row
  <2> QED BY <1>1, <1>2, <1>3, <2>1, Zenon DEF EntryOf
<1>5. ASSUME NEW d \in Stamps
      PROVE  EntryOf([row EXCEPT !.deleted = d, !.updated = s]) = [EntryOf(row) EXCEPT !.deleted = (d # Never)]
  <2> DEFINE new == [row EXCEPT !.deleted = d, !.updated = s]
  <2>1. /\ new.content = row.content /\ new.parent = row.parent /\ new.due = row.due
        /\ new.rule = row.rule /\ new.deleted = d /\ new.held = row.held
    BY DEF Row
  <2>2. new # Absent
    BY <1>3 DEF Row
  <2> HIDE DEF new
  <2>3. EntryOf(new) = [content |-> row.content, parent |-> row.parent, due |-> row.due, rule |-> row.rule,
                        deleted |-> d # Never, held |-> row.held # Never]
    BY <2>1, <2>2, Zenon DEF EntryOf
  <2> QED BY <1>1, <2>3 DEF EntryOf, new
<1>6. ASSUME NEW h \in Stamps
      PROVE  EntryOf([row EXCEPT !.held = h, !.updated = s]) = [EntryOf(row) EXCEPT !.held = (h # Never)]
  <2> DEFINE new == [row EXCEPT !.held = h, !.updated = s]
  <2>1. /\ new.content = row.content /\ new.parent = row.parent /\ new.due = row.due
        /\ new.rule = row.rule /\ new.deleted = row.deleted /\ new.held = h
    BY DEF Row
  <2>2. new # Absent
    BY <1>3 DEF Row
  <2> HIDE DEF new
  <2>3. EntryOf(new) = [content |-> row.content, parent |-> row.parent, due |-> row.due, rule |-> row.rule,
                        deleted |-> row.deleted # Never, held |-> h # Never]
    BY <2>1, <2>2, Zenon DEF EntryOf
  <2> QED BY <1>1, <2>3 DEF EntryOf, new
<1>10. /\ EntryOf([row EXCEPT !.deleted = Never, !.updated = s]) = [EntryOf(row) EXCEPT !.deleted = FALSE]
       /\ EntryOf([row EXCEPT !.held = Never, !.updated = s]) = [EntryOf(row) EXCEPT !.held = FALSE]
  <2>1. (Never # Never) = FALSE
    OBVIOUS
  <2> QED BY <1>1, <1>5, <1>6, <2>1, Zenon
<1>11. s # Never =>
        /\ EntryOf([row EXCEPT !.deleted = s, !.updated = s]) = [EntryOf(row) EXCEPT !.deleted = TRUE]
        /\ EntryOf([row EXCEPT !.held = s, !.updated = s]) = [EntryOf(row) EXCEPT !.held = TRUE]
  <2>1. ASSUME s # Never PROVE (s # Never) = TRUE
    BY <2>1
  <2> QED BY <1>5, <1>6, <2>1, Zenon
<1> QED BY <1>4, <1>10, <1>11

LEMMA EntryOfMerged ==
    ASSUME NEW row \in Row, NEW s \in Stamps, NEW r \in RequestType
    PROVE  EntryOf([Merged(row, r) EXCEPT !.updated = s]) = Ledger!Merged(EntryOf(row), r)
<1> DEFINE m == Merged(row, r)
           new == [m EXCEPT !.updated = s]
           e == EntryOf(row)
<1>0. m \in Row /\ new \in Row
  BY MergedTyped DEF Row
<1>1. /\ m.content = Pick(r.content, row.content) /\ m.parent = Pick(r.parent, row.parent)
      /\ m.due = Pick(r.due, row.due) /\ m.rule = Pick(r.rule, row.rule)
      /\ m.deleted = row.deleted /\ m.held = row.held
  BY DEF Row, Merged
<1>2. /\ new.content = m.content /\ new.parent = m.parent /\ new.due = m.due
      /\ new.rule = m.rule /\ new.deleted = m.deleted /\ new.held = m.held
  BY <1>0 DEF Row
<1>3. new # Absent
  BY <1>0, ConstantsAssumption
<1> HIDE DEF new, m
<1>4. EntryOf(new) = [content |-> Pick(r.content, row.content), parent |-> Pick(r.parent, row.parent),
                      due |-> Pick(r.due, row.due), rule |-> Pick(r.rule, row.rule),
                      deleted |-> row.deleted # Never, held |-> row.held # Never]
  BY <1>1, <1>2, <1>3, Zenon DEF EntryOf
<1>5. /\ e.content = row.content /\ e.parent = row.parent /\ e.due = row.due /\ e.rule = row.rule
      /\ e.deleted = (row.deleted # Never) /\ e.held = (row.held # Never)
  BY ConstantsAssumption, Zenon DEF EntryOf
<1>6. Ledger!Merged(e, r) = [content |-> Pick(r.content, e.content), parent |-> Pick(r.parent, e.parent),
                             due |-> Pick(r.due, e.due), rule |-> Pick(r.rule, e.rule),
                             deleted |-> e.deleted, held |-> e.held]
  <2>1. e \in Ledger!Entry
    BY EntryTyped
  <2>2. \A old, other : Ledger!Pick(old, other) = Pick(old, other)
    BY DEF Ledger!Pick, Pick, Keep, Ledger!Keep
  <2> DEFINE M == Ledger!Merged(e, r)
  <2> HIDE DEF e
  <2>3. /\ M.content = Pick(r.content, e.content) /\ M.parent = Pick(r.parent, e.parent)
        /\ M.due = Pick(r.due, e.due) /\ M.rule = Pick(r.rule, e.rule)
        /\ M.deleted = e.deleted /\ M.held = e.held
    BY <2>1, <2>2 DEF Ledger!Merged, Ledger!Entry
  <2>4. M \in Ledger!Entry
    BY <2>1 DEF Ledger!Merged, Ledger!Entry, Ledger!Pick, RequestType, Ledger!DueDates, Ledger!Rules,
       DueDates, Rules, Keep, Ledger!Keep
  <2> HIDE DEF M
  <2>5. M = [content |-> M.content, parent |-> M.parent, due |-> M.due, rule |-> M.rule,
             deleted |-> M.deleted, held |-> M.held]
    BY <2>4 DEF Ledger!Entry
  <2> QED BY <2>3, <2>5, Zenon DEF M
<1> HIDE DEF e
<1>7. EntryOf(new) = Ledger!Merged(e, r)
  BY <1>4, <1>5, <1>6, Zenon
<1> QED BY <1>7 DEF new, m, e

(* An effect that has nothing to do changes nothing.                         *)
LEMMA NothingToDo ==
    ASSUME NEW row \in Row, NEW r \in RequestType
    PROVE  /\ r.op = "delete" /\ row.deleted # Never => Ledger!After(r, EntryOf(row)) = EntryOf(row)
           /\ r.op = "restore" /\ row.deleted = Never => Ledger!After(r, EntryOf(row)) = EntryOf(row)
           /\ r.op = "hold" /\ row.held # Never => Ledger!After(r, EntryOf(row)) = EntryOf(row)
           /\ r.op = "unhold" /\ row.held = Never => Ledger!After(r, EntryOf(row)) = EntryOf(row)
           /\ r.op = "update" /\ SetsNothing(r) => Ledger!After(r, EntryOf(row)) = EntryOf(row)
<1>1. row # Absent /\ EntryOf(row) \in Ledger!Entry
  BY EntryTyped, ConstantsAssumption
<1>2. /\ row.deleted # Never => [EntryOf(row) EXCEPT !.deleted = TRUE] = EntryOf(row)
      /\ row.deleted = Never => [EntryOf(row) EXCEPT !.deleted = FALSE] = EntryOf(row)
      /\ row.held # Never => [EntryOf(row) EXCEPT !.held = TRUE] = EntryOf(row)
      /\ row.held = Never => [EntryOf(row) EXCEPT !.held = FALSE] = EntryOf(row)
  <2> DEFINE e == EntryOf(row)
  <2>1. /\ row.deleted # Never => e.deleted = TRUE
        /\ row.deleted = Never => e.deleted = FALSE
        /\ row.held # Never => e.held = TRUE
        /\ row.held = Never => e.held = FALSE
    BY <1>1 DEF EntryOf
  <2> HIDE DEF e
  <2>2. ASSUME e \in Ledger!Entry
        PROVE  /\ e.deleted = TRUE => [e EXCEPT !.deleted = TRUE] = e
               /\ e.deleted = FALSE => [e EXCEPT !.deleted = FALSE] = e
               /\ e.held = TRUE => [e EXCEPT !.held = TRUE] = e
               /\ e.held = FALSE => [e EXCEPT !.held = FALSE] = e
    BY <2>2 DEF Ledger!Entry
  <2> QED BY <1>1, <2>1, <2>2, Zenon DEF e
<1>3. SetsNothing(r) => Ledger!Merged(EntryOf(row), r) = EntryOf(row)
  BY <1>1 DEF SetsNothing, Ledger!Merged, Ledger!Pick, Keep, Ledger!Keep, Ledger!Entry
<1> QED BY <1>1, <1>2, <1>3, AfterCases

(* A conditional save that is about to be applied has no rival that was.     *)
LEMMA NoRivalSucceeded ==
    ASSUME IInv, NEW c \in Calls, req[c].op = "update" => VersionChecked(c) \/ SetsNothing(req[c]) \/ ~req[c].ifMatch
    PROVE  Ledger!Unrivalled(c)
<1> SUFFICES ASSUME NEW d \in Calls, d # c,
                    Ledger!Conditional(c), Ledger!Conditional(d), Ledger!Succeeded(d),
                    req[c].id = req[d].id, expected[c] = expected[d]
             PROVE  FALSE
  BY DEF Ledger!Unrivalled
<1>1. ConditionalSave(c) /\ ConditionalSave(d)
  BY DEF Ledger!Conditional, ConditionalSave, SetsNothing, Ledger!SetsNothing, Keep, Ledger!Keep
<1>2. VersionChecked(c) /\ Rival(c, d)
  BY <1>1 DEF ConditionalSave, Rival
<1>3. PhaseOf(d) \in {"applied", "ok"}
  BY DEF Ledger!Succeeded, Progress
<1>4. Applied(d)
  <2>1. CASE PhaseOf(d) = "applied"
    BY <1>1, <2>1, Zenon DEF PhaseOf, FoundDeleted, Applied, ConditionalSave
  <2>2. CASE PhaseOf(d) = "ok"
    BY <1>1, <2>2, Zenon DEF PhaseOf, Applied
  <2> QED BY <1>3, <2>1, <2>2
<1> QED BY <1>2, <1>4 DEF IInv

(* When a step of a call is the effect of its request.                       *)
LEMMA TakesEffect ==
    ASSUME IInv, IInv', NEW c \in Calls, OthersUntouched(c),
           UNCHANGED <<born, revisions, req, expected>>,
           req[c].op # "create",
           PhaseOf(c) = "pending", PhaseOf(c)' \in {"applied", "ok"},
           \A i \in Items : EntryOf(rows'[i]) =
                IF i = req[c].id THEN Ledger!After(req[c], EntryOf(rows[i])) ELSE EntryOf(rows[i]),
           req[c].op = "update" => VersionChecked(c) \/ SetsNothing(req[c]) \/ ~req[c].ifMatch,
           req[c].op = "update" /\ ~SetsNothing(req[c]) /\ req[c].id \in Items /\ rows[req[c].id] # Absent =>
                OnRecord(req[c].id, rows[req[c].id], revisions),
           req[c].op = "purge" => \E rev \in revisions : rev.item = req[c].id /\ rev.reason = "purge"
    PROVE  Ledger!Apply(c)
<1>1. rows \in [Items -> Row \cup {Absent}] /\ rows' \in [Items -> Row \cup {Absent}]
  BY DEF IInv, TypeOK
<1>2. req[c] \in RequestType
  BY RequestsTyped DEF IInv
<1>3. Progress[c] = "pending"
  BY DEF Progress
<1>4. Progress' = [Progress EXCEPT ![c] = "applied"] \/ Progress' = [Progress EXCEPT ![c] = "ok"]
  BY ProgressStep
<1>5. Ledger!Unrivalled(c)
  BY NoRivalSucceeded
<1>6. Ledger!Sound(Entries(rows'), born)
  <2>1. Ledger!Sound(Entries(rows), born)'
    BY EntriesSound, PTL DEF IInv
  <2> QED BY <2>1
<1>7. Entries(rows') = [i \in Items |-> IF i = req[c].id THEN Ledger!After(req[c], Entries(rows)[i])
                                       ELSE Entries(rows)[i]]
  BY <1>1 DEF Entries
<1>8. \A i \in Items : i = req[c].id => Ledger!OnRecord(i, Entries(rows)[i], req[c])
  <2> SUFFICES ASSUME NEW i \in Items, i = req[c].id, rows[i] # Absent
               PROVE  Ledger!OnRecord(i, EntryOf(rows[i]), req[c])
    BY <1>1, EntriesTyped DEF Ledger!OnRecord
  <2>1. EntryOf(rows[i]).content = rows[i].content /\ EntryOf(rows[i]).parent = rows[i].parent
    BY DEF EntryOf
  <2>2. CASE req[c].op = "update" /\ ~SetsNothing(req[c])
    BY <2>1, <2>2 DEF Ledger!OnRecord, Ledger!Recorded, OnRecord
  <2>3. CASE req[c].op = "update" /\ SetsNothing(req[c])
    <3>1. rows[i] \in Row /\ EntryOf(rows[i]) \in Ledger!Entry
      BY <1>1, EntryTyped
    <3>2. Ledger!Merged(EntryOf(rows[i]), req[c]) = EntryOf(rows[i])
      BY <1>2, <2>3, <3>1, NothingToDo, AfterCases
    <3> QED BY <2>3, <3>2 DEF Ledger!OnRecord, Ledger!Edited
  <2>4. CASE req[c].op # "update"
    BY <2>4 DEF Ledger!OnRecord
  <2> QED BY <2>2, <2>3, <2>4
<1> QED BY <1>3, <1>4, <1>5, <1>6, <1>7, <1>8 DEF Ledger!Apply, Ledger!Becomes

-----------------------------------------------------------------------------
(* The steps, one lemma per kind.                                            *)

LedgerStep == Ledger!Next \/ UNCHANGED Ledger!ledger

LEMMA BeginStep ==
    ASSUME IInv, NEW c \in Calls, Begin(c)
    PROVE  Ledger!Arrive(c)
<1> PICK r \in Requests :
       /\ req' = [req EXCEPT ![c] = r]
       /\ \E v \in VersionsNamed(r) : expected' = [expected EXCEPT ![c] = v]
       /\ IF Invalid(r) THEN Respond(c, "bad_request") ELSE Continue(c, FirstStage(r))
  BY DEF Begin
<1>1. /\ pc[c] = "idle" /\ UNCHANGED <<rows, revisions, born>>
      /\ req \in [Calls -> Requests \cup {NoRequest}] /\ expected \in [Calls -> Stamps]
      /\ pc \in [Calls -> Stages] /\ clock \in Nat
  BY DEF Begin, IInv, TypeOK
<1>2. PICK v \in VersionsNamed(r) : expected' = [expected EXCEPT ![c] = v]
  OBVIOUS
<1>3. r \in RequestType /\ v \in Nat
  BY <1>1, ConstantsAssumption DEF VersionsNamed, FirstStamp, Never
<1>4. /\ req' = [req EXCEPT ![c] = req'[c]] /\ req'[c] = r
      /\ expected' = [expected EXCEPT ![c] = expected'[c]] /\ expected'[c] = v
  BY <1>1, <1>2
<1>5. Progress' = [Progress EXCEPT ![c] = PhaseOf(c)']
  <2>1. \A d \in Calls : d # c =>
            /\ pc'[d] = pc[d] /\ req'[d] = req[d] /\ seen'[d] = seen[d] /\ answer'[d] = answer[d]
    BY <1>1 DEF Respond, Continue, Goto, IInv, TypeOK
  <2>2. \A d \in Calls : d # c => PhaseOf(d)' = PhaseOf(d)
    BY <2>1 DEF PhaseOf, FoundDeleted
  <2> HIDE DEF PhaseOf
  <2> QED BY <2>2 DEF Progress
<1>6. PhaseOf(c)' \in {"pending", "failed"}
  <2>1. CASE Invalid(r)
    BY <2>1, PhaseOfAnswer DEF IInv
  <2>2. CASE ~Invalid(r)
    <3>1. pc'[c] = FirstStage(r)
      BY <1>1, <2>2 DEF Continue, Goto
    <3>2. FirstStage(r) \in {"insert", "alive", "lock", "rerank", "read"}
      BY Zenon DEF FirstStage
    <3> QED BY <3>1, <3>2, Zenon DEF PhaseOf, FoundDeleted
  <2> QED BY <2>1, <2>2
<1>7. Progress[c] = "idle"
  BY <1>1, Zenon DEF Progress, PhaseOf, FoundDeleted
<1>8. Ledger!Becomes(c, "pending") \/ Ledger!Becomes(c, "failed")
  BY <1>5, <1>6 DEF Ledger!Becomes
<1>9. req'[c] \in Ledger!RequestType
  BY <1>3, <1>4 DEF RequestType, Ledger!RequestType, Ops, Ledger!Ops, DueDates, Ledger!DueDates,
     Rules, Ledger!Rules, Keep, Ledger!Keep
<1>10. Entries(rows)' = Entries(rows)
  BY <1>1 DEF Entries, EntryOf
<1> QED BY <1>1, <1>3, <1>4, <1>7, <1>8, <1>9, <1>10 DEF Ledger!Arrive

(* The steps that move a call on, within its phase.                          *)
LEMMA WaitingStep ==
    ASSUME IInv, NEW c \in Calls, NEW stage, OthersUntouched(c), Continue(c, stage) \/ Goto(c, stage),
           pc[c] \in {"alive", "cycle", "lock", "read"}, stage \in {"insert", "cycle", "write", "read"},
           req[c].op # "delete",
           UNCHANGED <<rows, revisions, born, req, expected>>
    PROVE  UNCHANGED Ledger!ledger
<1>1. pc'[c] = stage
  BY DEF Continue, Goto, IInv, TypeOK
<1>2. PhaseOf(c) = "pending" /\ PhaseOf(c)' = "pending"
  BY <1>1, Zenon DEF PhaseOf, FoundDeleted
<1> QED BY <1>2, Unseen

LEMMA FailureStep ==
    ASSUME IInv, NEW c \in Calls, NEW status, OthersUntouched(c), StoreFailed(c, status),
           status \notin {"ok", "changed"}, pc[c] \notin {"idle", "done"},
           UNCHANGED <<rows, revisions, born, req, expected>>
    PROVE  LedgerStep
<1>1. PhaseOf(c)' = "failed"
  BY PhaseOfFailure DEF IInv
<1>2. CASE pc[c] = "explain"
  <2>1. PhaseOf(c) = "failed"
    BY <1>2, Zenon DEF PhaseOf, FoundDeleted
  <2> QED BY <1>1, <2>1, Unseen DEF LedgerStep
<1>3. CASE pc[c] # "explain"
  <2>1. PhaseOf(c) \in {"pending", "applied"}
    BY <1>3, PhaseInFlight DEF IInv
  <2> QED BY <1>1, <2>1, CallFails DEF LedgerStep, Ledger!Next
<1> QED BY <1>2, <1>3

LEMMA AnswerStep ==
    ASSUME IInv, NEW c \in Calls, OthersUntouched(c), Respond(c, "ok"), PhaseOf(c) = "applied",
           UNCHANGED <<rows, revisions, born, req, expected>>
    PROVE  Ledger!Answer(c)
<1>1. PhaseOf(c)' = "ok"
  BY PhaseOfAnswer DEF IInv
<1>2. Progress' = [Progress EXCEPT ![c] = "ok"] /\ Progress[c] = "applied"
  BY <1>1, ProgressStep DEF Progress
<1>3. Entries(rows)' = Entries(rows)
  BY DEF Entries, EntryOf
<1> QED BY <1>2, <1>3 DEF Ledger!Answer, Ledger!Becomes

(* A Read that settles the request: answered, or a tombstone to be deleted.  *)
LEMMA ReadStep ==
    ASSUME IInv, IInv', NEW c \in Calls, OthersUntouched(c), Read(c)
    PROVE  LedgerStep
<1> USE DEF IInv
<1>1. pc[c] = "read" /\ UNCHANGED <<rows, revisions, born, req, expected>>
  BY DEF Read
<1>2. req[c] \in RequestType /\ req[c].op \notin {"create", "rerank"} /\ req[c].id \in Items
  BY <1>1, RequestsTyped, ConstantsAssumption DEF CallOK, StageFits
<1>3. PhaseOf(c) = "pending"
  BY <1>1, Zenon DEF PhaseOf, FoundDeleted
<1>4. \A i \in Items : rows[i] # Absent => rows[i] \in Row
  BY RowTyped
<1>5. CASE StoreFailed(c, "not_found")
  BY <1>1, <1>5, FailureStep
<1>6. CASE ~VersionMatches(c) /\ Respond(c, "changed")
  <2>1. PhaseOf(c)' = "changed"
    BY <1>6, PhaseOfAnswer
  <2>2. Progress' = [Progress EXCEPT ![c] = "changed"] /\ Progress[c] = "pending"
    BY <1>3, <2>1, ProgressStep DEF Progress
  <2>3. expected[c] # 0 /\ Entries(rows)' = Entries(rows)
    BY <1>1, <1>6 DEF VersionMatches, Never, Entries, EntryOf
  <2>4. Ledger!Refuse(c)
    BY <1>1, <2>2, <2>3 DEF Ledger!Refuse, Ledger!Becomes
  <2> QED BY <2>4 DEF LedgerStep, Ledger!Next
<1>7. ASSUME Readable(req[c]), req[c].op # "update", req[c].op # "purge",
             Ledger!After(req[c], EntryOf(rows[req[c].id])) = EntryOf(rows[req[c].id]),
             PhaseOf(c)' \in {"applied", "ok"}
      PROVE  LedgerStep
  <2>1. \A i \in Items : EntryOf(rows'[i]) =
            IF i = req[c].id THEN Ledger!After(req[c], EntryOf(rows[i])) ELSE EntryOf(rows[i])
    BY <1>1, <1>7
  <2>2. Ledger!Apply(c)
    BY <1>1, <1>2, <1>3, <1>7, <2>1, TakesEffect
  <2> QED BY <2>2 DEF LedgerStep, Ledger!Next
<1>8. CASE Readable(req[c]) /\ Settled(req[c]) /\ Respond(c, "ok")
  <2>1. rows[req[c].id] \in Row
    BY <1>2, <1>4, <1>8 DEF Readable, Live
  <2>2. Ledger!After(req[c], EntryOf(rows[req[c].id])) = EntryOf(rows[req[c].id])
    BY <1>2, <1>8, <2>1, NothingToDo DEF Settled
  <2>3. PhaseOf(c)' = "ok"
    BY <1>8, PhaseOfAnswer
  <2> QED BY <1>7, <1>8, <2>2, <2>3 DEF Settled
<1>9. CASE /\ Readable(req[c])
           /\ seen' = [seen EXCEPT ![c] = rows[req[c].id]]
           /\ Goto(c, "snapshot")
  <2>1. pc'[c] = "snapshot" /\ seen'[c] = rows[req[c].id]
    BY <1>9 DEF Goto, TypeOK
  <2>2. CASE req[c].op = "delete" /\ rows[req[c].id].deleted # Never
    <3>1. rows[req[c].id] \in Row
      BY <1>2, <1>4, <1>9 DEF Readable, Live
    <3>2. PhaseOf(c)' = "applied"
      BY <1>1, <2>1, <2>2, Zenon DEF PhaseOf, FoundDeleted
    <3>3. Ledger!After(req[c], EntryOf(rows[req[c].id])) = EntryOf(rows[req[c].id])
      BY <1>2, <2>2, <3>1, NothingToDo
    <3> QED BY <1>7, <1>9, <2>2, <3>2, <3>3
  <2>3. CASE ~(req[c].op = "delete" /\ rows[req[c].id].deleted # Never)
    <3>1. PhaseOf(c)' = "pending"
      BY <1>1, <2>1, <2>3, Zenon DEF PhaseOf, FoundDeleted
    <3> QED BY <1>1, <1>3, <3>1, Unseen DEF LedgerStep
  <2> QED BY <2>2, <2>3
<1> QED BY <1>5, <1>6, <1>8, <1>9 DEF Read

LEMMA SnapshotStep ==
    ASSUME IInv, NEW c \in Calls, OthersUntouched(c), Snapshot(c)
    PROVE  Ledger!Record
<1> USE DEF IInv
<1> DEFINE rev == SnapshotOf(req[c].id, seen[c], req[c].op)
<1>1. /\ pc[c] = "snapshot" /\ UNCHANGED <<rows, born, req, expected, seen>>
      /\ revisions' = revisions \cup {rev}
      /\ pc'[c] \in {"alive", "write"}
      /\ req[c].op = "delete" => pc'[c] = "write"
  BY DEF Snapshot, Recorded, Reason, Continue, Goto, TypeOK
<1>2. PhaseOf(c)' = PhaseOf(c) /\ PhaseOf(c) \in {"pending", "applied"}
  <2>1. FoundDeleted(c)' <=> FoundDeleted(c)
    BY <1>1 DEF FoundDeleted
  <2> QED BY <1>1, <2>1, Zenon DEF PhaseOf
<1>3. Progress' = Progress /\ Progress[c] \in {"pending", "applied"}
  BY <1>2, ProgressStep DEF Progress
<1>4. rev.item = req[c].id /\ rev.reason = req[c].op /\ rev \in revisions'
  BY <1>1 DEF SnapshotOf
<1>5. req[c].id \in born
  BY <1>1 DEF CallOK, SeenFits, HasRead, StageFits
<1>6. Entries(rows)' = Entries(rows)
  BY <1>1 DEF Entries, EntryOf
<1> HIDE DEF rev
<1> QED BY <1>1, <1>3, <1>4, <1>5, <1>6 DEF Ledger!Record

(* An UPDATE of one row has the effect of the request on that item.          *)
LEMMA OverwriteEffect ==
    ASSUME TypeOK, NEW c \in Calls, NEW row, Write(c, row), req[c].id \in Items,
           rows[req[c].id] # Absent =>
              EntryOf(row) = Ledger!After(req[c], EntryOf(rows[req[c].id]))
    PROVE  \A i \in Items : EntryOf(rows'[i]) =
              IF i = req[c].id THEN Ledger!After(req[c], EntryOf(rows[i])) ELSE EntryOf(rows[i])
<1>1. CASE rows[req[c].id] = Absent
  <2>1. rows' = rows
    BY <1>1 DEF Write, Overwritten
  <2>2. EntryOf(Absent) = Absent
    BY DEF EntryOf
  <2> QED BY <1>1, <2>1, <2>2, AfterAbsent
<1>2. CASE rows[req[c].id] # Absent
  <2>1. rows' = [rows EXCEPT ![req[c].id] = row]
    BY <1>2 DEF Write, Overwritten
  <2> QED BY <1>2, <2>1 DEF TypeOK
<1> QED BY <1>1, <1>2

LEMMA UpdateEffect ==
    ASSUME IInv, NEW c \in Calls,
           WriteUpdate(c) \/ WriteRestore(c) \/ WriteHold(c) \/ WriteUnhold(c) \/ WriteTombstone(c)
    PROVE  /\ req[c].id \in Items
           /\ \A i \in Items : EntryOf(rows'[i]) =
                 IF i = req[c].id THEN Ledger!After(req[c], EntryOf(rows[i])) ELSE EntryOf(rows[i])
<1> DEFINE old == rows[req[c].id]
<1> USE DEF IInv
<1>1. req[c].id \in Items
  BY ConstantsAssumption
  DEF WriteUpdate, WriteRestore, WriteHold, WriteUnhold, WriteTombstone, CallOK, StageFits
<1>2. req[c] \in RequestType /\ now \in Stamps /\ now # Never
  BY RequestsTyped DEF TypeOK, Stamps, Never, now
<1>3. old # Absent => old \in Row /\ EntryOf(old) \in Ledger!Entry
  BY <1>1, RowTyped, EntryTyped
<1> HIDE DEF old
<1>4. old # Absent => EntryOf([Merged(old, req[c]) EXCEPT !.updated = now]) = Ledger!Merged(EntryOf(old), req[c])
  BY <1>2, <1>3, EntryOfMerged, Zenon
<1>5. old # Absent =>
        /\ EntryOf([old EXCEPT !.deleted = Never, !.updated = now]) = [EntryOf(old) EXCEPT !.deleted = FALSE]
        /\ EntryOf([old EXCEPT !.held = Never, !.updated = now]) = [EntryOf(old) EXCEPT !.held = FALSE]
        /\ EntryOf([old EXCEPT !.deleted = now, !.updated = now]) = [EntryOf(old) EXCEPT !.deleted = TRUE]
        /\ EntryOf([old EXCEPT !.held = now, !.updated = now]) = [EntryOf(old) EXCEPT !.held = TRUE]
  BY <1>2, <1>3, EntryOfSet, Zenon
<1>6. CASE WriteUpdate(c)
  <2>1. /\ Write(c, [Merged(old, req[c]) EXCEPT !.updated = now])
        /\ req[c].op = "update"
    BY <1>6 DEF WriteUpdate, old
  <2>2. old # Absent => EntryOf([Merged(old, req[c]) EXCEPT !.updated = now]) = Ledger!After(req[c], EntryOf(old))
    BY <1>2, <1>3, <1>4, <2>1, AfterCases, Zenon
  <2> QED BY <1>1, <2>1, <2>2, OverwriteEffect, Zenon DEF old
<1>7. CASE WriteRestore(c)
  <2>1. /\ Write(c, [old EXCEPT !.deleted = Never, !.updated = now])
        /\ req[c].op = "restore"
    BY <1>7 DEF WriteRestore, old
  <2>2. old # Absent => EntryOf([old EXCEPT !.deleted = Never, !.updated = now]) = Ledger!After(req[c], EntryOf(old))
    BY <1>2, <1>3, <1>5, <2>1, AfterCases, Zenon
  <2> QED BY <1>1, <2>1, <2>2, OverwriteEffect, Zenon DEF old
<1>8. CASE WriteHold(c)
  <2>1. /\ Write(c, [old EXCEPT !.held = now, !.updated = now])
        /\ req[c].op = "hold"
    BY <1>8 DEF WriteHold, old
  <2>2. old # Absent => EntryOf([old EXCEPT !.held = now, !.updated = now]) = Ledger!After(req[c], EntryOf(old))
    BY <1>2, <1>3, <1>5, <2>1, AfterCases, Zenon
  <2> QED BY <1>1, <2>1, <2>2, OverwriteEffect, Zenon DEF old
<1>9. CASE WriteUnhold(c)
  <2>1. /\ Write(c, [old EXCEPT !.held = Never, !.updated = now])
        /\ req[c].op = "unhold"
    BY <1>9 DEF WriteUnhold, old
  <2>2. old # Absent => EntryOf([old EXCEPT !.held = Never, !.updated = now]) = Ledger!After(req[c], EntryOf(old))
    BY <1>2, <1>3, <1>5, <2>1, AfterCases, Zenon
  <2> QED BY <1>1, <2>1, <2>2, OverwriteEffect, Zenon DEF old
<1>10. CASE WriteTombstone(c)
  <2>1. /\ Write(c, [old EXCEPT !.deleted = now, !.updated = now])
        /\ req[c].op = "delete"
    BY <1>10 DEF WriteTombstone, old
  <2>2. old # Absent => EntryOf([old EXCEPT !.deleted = now, !.updated = now]) = Ledger!After(req[c], EntryOf(old))
    BY <1>2, <1>3, <1>5, <2>1, AfterCases, Zenon
  <2> QED BY <1>1, <2>1, <2>2, OverwriteEffect, Zenon DEF old
<1> QED BY <1>1, <1>6, <1>7, <1>8, <1>9, <1>10

LEMMA UpdateStep ==
    ASSUME IInv, IInv', NEW c \in Calls, OthersUntouched(c),
           WriteUpdate(c) \/ WriteRestore(c) \/ WriteHold(c) \/ WriteUnhold(c) \/ WriteTombstone(c)
    PROVE  Ledger!Apply(c)
<1> USE DEF IInv
<1>1. /\ pc[c] = "write" /\ req[c].op \in {"update", "restore", "hold", "unhold", "delete"}
      /\ req[c].op = "update" => WriteUpdate(c)
      /\ req[c].op = "delete" => seen[c].deleted = Never
      /\ UNCHANGED <<born, revisions, req, expected>>
      /\ Continue(c, "reread") \/ Respond(c, "ok")
  BY DEF WriteUpdate, WriteRestore, WriteHold, WriteUnhold, WriteTombstone, Write
<1>2. PhaseOf(c) = "pending"
  BY <1>1, Zenon DEF PhaseOf, FoundDeleted
<1>3. PhaseOf(c)' \in {"applied", "ok"}
  <2>1. CASE Respond(c, "ok")
    BY <2>1, PhaseOfAnswer
  <2>2. CASE Continue(c, "reread")
    <3>1. pc'[c] = "reread"
      BY <2>2 DEF Continue, Goto, TypeOK
    <3> QED BY <3>1, Zenon DEF PhaseOf, FoundDeleted
  <2> QED BY <1>1, <2>1, <2>2
<1>4. req[c].op = "update" => VersionChecked(c) \/ SetsNothing(req[c]) \/ ~req[c].ifMatch
  BY <1>1, Zenon DEF VersionChecked, ConditionalSave
<1>5. req[c].op = "update" /\ rows[req[c].id] # Absent => OnRecord(req[c].id, rows[req[c].id], revisions)
  <2> SUFFICES ASSUME req[c].op = "update", rows[req[c].id] # Absent
               PROVE  OnRecord(req[c].id, rows[req[c].id], revisions)
    OBVIOUS
  <2>1. SameEdit(rows[req[c].id], seen[c]) /\ OnRecord(req[c].id, seen[c], revisions)
    BY <1>1 DEF CallOK, SeenFits, HasRead, SnapshotTaken
  <2> QED BY <2>1 DEF SameEdit, OnRecord
<1>6. \A i \in Items : EntryOf(rows'[i]) =
          IF i = req[c].id THEN Ledger!After(req[c], EntryOf(rows[i])) ELSE EntryOf(rows[i])
  BY UpdateEffect
<1> HIDE DEF IInv
<1> QED BY <1>1, <1>2, <1>3, <1>4, <1>5, <1>6, TakesEffect

LEMMA NothingToSetStep ==
    ASSUME IInv, IInv', NEW c \in Calls, OthersUntouched(c), NothingToSet(c)
    PROVE  Ledger!Apply(c)
<1>1. /\ pc[c] = "write" /\ req[c].op = "update" /\ SetsNothing(req[c]) /\ Respond(c, "ok")
      /\ UNCHANGED <<rows, born, revisions, req, expected>>
  BY DEF NothingToSet
<1>2. PhaseOf(c) = "pending"
  BY <1>1, Zenon DEF PhaseOf, FoundDeleted
<1>3. PhaseOf(c)' = "ok"
  BY <1>1, PhaseOfAnswer DEF IInv
<1>4. req[c] \in RequestType
  BY RequestsTyped DEF IInv
<1>5. \A i \in Items : Ledger!After(req[c], EntryOf(rows[i])) = EntryOf(rows[i])
  <2> TAKE i \in Items
  <2>1. CASE rows[i] = Absent
    BY <2>1, AfterAbsent DEF EntryOf
  <2>2. CASE rows[i] # Absent
    <3>1. rows[i] \in Row
      BY <2>2, RowTyped DEF IInv
    <3> QED BY <1>1, <1>4, <3>1, NothingToDo
  <2> QED BY <2>1, <2>2
<1> QED BY <1>1, <1>2, <1>3, <1>5, TakesEffect

LEMMA PurgeEffect ==
    ASSUME IInv, IInv', NEW c \in Calls, OthersUntouched(c), WritePurge(c)
    PROVE  Ledger!Apply(c)
<1> USE DEF IInv
<1>1. /\ pc[c] = "write" /\ req[c].op = "purge" /\ Respond(c, "ok")
      /\ rows' = [rows EXCEPT ![req[c].id] = Absent]
      /\ UNCHANGED <<born, revisions, req, expected>>
  BY DEF WritePurge
<1>2. PhaseOf(c) = "pending"
  BY <1>1, Zenon DEF PhaseOf, FoundDeleted
<1>3. PhaseOf(c)' = "ok"
  BY <1>1, PhaseOfAnswer
<1>4. \E rev \in revisions : rev.item = req[c].id /\ rev.reason = "purge"
  BY <1>1 DEF CallOK, SnapshotTaken
<1>5. \A entry : Ledger!After(req[c], entry) = Absent
  BY <1>1 DEF Ledger!After
<1>6. EntryOf(Absent) = Absent
  BY DEF EntryOf
<1>7. \A i \in Items : EntryOf(rows'[i]) =
          IF i = req[c].id THEN Ledger!After(req[c], EntryOf(rows[i])) ELSE EntryOf(rows[i])
  BY <1>1, <1>5, <1>6 DEF TypeOK
<1> HIDE DEF IInv
<1> QED BY <1>1, <1>2, <1>3, <1>4, <1>7, TakesEffect

LEMMA RerankStep ==
    ASSUME IInv, IInv', NEW c \in Calls, OthersUntouched(c), Rerank(c)
    PROVE  Ledger!Apply(c)
<1> USE DEF IInv
<1>1. /\ pc[c] = "rerank" /\ Respond(c, "ok")
      /\ UNCHANGED <<born, revisions, req, expected>>
  BY DEF Rerank
<1>2. req[c].op = "rerank" /\ req[c] \in RequestType
  BY <1>1, RequestsTyped DEF CallOK, StageFits
<1>3. PhaseOf(c) = "pending"
  BY <1>1, Zenon DEF PhaseOf, FoundDeleted
<1>4. PhaseOf(c)' = "ok"
  BY <1>1, PhaseOfAnswer
<1>5. now \in Stamps
  BY DEF now, TypeOK, Stamps
<1>6. \A i \in Items : EntryOf(rows'[i]) = EntryOf(rows[i])
  <2> TAKE i \in Items
  <2>1. CASE rows[i] = Absent
    BY <2>1 DEF Rerank
  <2>2. CASE rows[i] # Absent
    <3>1. rows'[i] = [rows[i] EXCEPT !.updated = now] \/ rows'[i] = rows[i]
      BY <2>2 DEF Rerank
    <3>2. rows[i] \in Row
      BY <2>2, RowTyped
    <3>3. EntryOf([rows[i] EXCEPT !.updated = now]) = EntryOf(rows[i])
      BY <1>2, <1>5, <3>2, EntryOfSet, Zenon
    <3> QED BY <3>1, <3>3, Zenon
  <2> QED BY <2>1, <2>2
<1>7. \A i \in Items : Ledger!After(req[c], EntryOf(rows[i])) = EntryOf(rows[i])
  <2> TAKE i \in Items
  <2>1. CASE rows[i] = Absent
    BY <2>1, AfterAbsent DEF EntryOf
  <2>2. CASE rows[i] # Absent
    <3>1. EntryOf(rows[i]) \in Ledger!Entry
      BY <2>2, RowTyped, EntryTyped
    <3> QED BY <1>2, <3>1, AfterCases
  <2> QED BY <2>1, <2>2
<1> HIDE DEF IInv
<1> QED BY <1>1, <1>2, <1>3, <1>4, <1>6, <1>7, TakesEffect

LEMMA NewEntry ==
    ASSUME TypeOK, NEW r \in Requests, r.op = "create"
    PROVE  EntryOf(NewRow(r)) = Ledger!Created(r)
<1>1. NewRow(r) # Absent
  BY NewRowTyped, ConstantsAssumption
<1>2. r \in RequestType /\ now # Never
  BY ConstantsAssumption DEF TypeOK, now, Never
<1>3. /\ NewRow(r).content = r.content /\ NewRow(r).parent = Pick(r.parent, NoItem)
      /\ NewRow(r).due = Pick(r.due, "none") /\ NewRow(r).rule = Pick(r.rule, "none")
      /\ NewRow(r).deleted = Never /\ NewRow(r).held = IF r.hold THEN now ELSE Never
  BY DEF NewRow
<1>4. /\ Pick(r.parent, NoItem) = Ledger!Pick(r.parent, NoItem)
      /\ Pick(r.due, "none") = Ledger!Pick(r.due, "none")
      /\ Pick(r.rule, "none") = Ledger!Pick(r.rule, "none")
  BY DEF Pick, Ledger!Pick, Keep, Ledger!Keep
<1>5. (NewRow(r).deleted # Never) = FALSE
  BY <1>3
<1>6. (NewRow(r).held # Never) = r.hold
  <2>1. r.hold \in BOOLEAN
    BY <1>2 DEF RequestType
  <2>2. CASE r.hold = TRUE
    <3>1. NewRow(r).held # Never
      BY <1>2, <1>3, <2>2
    <3> QED BY <2>2, <3>1
  <2>3. CASE r.hold = FALSE
    <3>1. NewRow(r).held = Never
      BY <1>3, <2>3
    <3> QED BY <2>3, <3>1
  <2> QED BY <2>1, <2>2, <2>3
<1> QED BY <1>1, <1>3, <1>4, <1>5, <1>6, Zenon DEF EntryOf, Ledger!Created

LEMMA InsertStep ==
    ASSUME IInv, IInv', NEW c \in Calls, OthersUntouched(c), Insert(c)
    PROVE  Ledger!Create(c)
<1>1. PICK i \in Items \ born : rows' = [rows EXCEPT ![i] = NewRow(req[c])] /\ born' = born \cup {i}
  BY DEF Insert
<1>2. /\ pc[c] = "insert" /\ Respond(c, "ok") /\ UNCHANGED <<revisions, req, expected>>
      /\ req[c] \in Requests /\ req[c].op = "create"
  BY DEF Insert, IInv, CallOK, StageFits
<1>3. PhaseOf(c) = "pending"
  BY <1>2, Zenon DEF PhaseOf, FoundDeleted
<1>4. PhaseOf(c)' = "ok"
  BY <1>2, PhaseOfAnswer DEF IInv
<1>5. Progress' = [Progress EXCEPT ![c] = "ok"] /\ Progress[c] = "pending"
  BY <1>3, <1>4, ProgressStep DEF Progress
<1>6. EntryOf(NewRow(req[c])) = Ledger!Created(req[c])
  BY <1>2, NewEntry DEF IInv
<1>7. Entries(rows') = [Entries(rows) EXCEPT ![i] = Ledger!Created(req[c])]
  <2>1. \A j \in Items : EntryOf(rows'[j]) = IF j = i THEN EntryOf(NewRow(req[c])) ELSE EntryOf(rows[j])
    BY <1>1 DEF IInv, TypeOK
  <2> HIDE DEF EntryOf
  <2> QED BY <1>6, <2>1 DEF Entries
<1>8. Ledger!Sound(Entries(rows), born)'
  BY EntriesSound, PTL DEF IInv
<1>9. Ledger!Sound(Entries(rows'), born')
  BY <1>8
<1> QED BY <1>1, <1>2, <1>5, <1>7, <1>9 DEF Ledger!Create, Ledger!Becomes

(* The remaining steps of a handler: they move it on, fail it or answer it.  *)
LEMMA QuietStep ==
    ASSUME IInv, NEW c \in Calls, OthersUntouched(c),
           \/ CheckParentAlive(c) \/ CheckCycle(c) \/ Lock(c) \/ RefuseUpdate(c)
           \/ AlreadyDeleted(c) \/ Reread(c) \/ Explain(c) \/ StatementFails(c)
    PROVE  LedgerStep
<1>1. UNCHANGED <<rows, revisions, born, req, expected>>
  BY DEF CheckParentAlive, CheckCycle, Lock, RefuseUpdate, AlreadyDeleted, Reread, Explain, StatementFails
<1>2. CallOK(c)
  BY DEF IInv
<1>3. CASE CheckParentAlive(c)
  <2>1. pc[c] = "alive" /\ req[c].op # "delete"
    BY <1>2, <1>3 DEF CheckParentAlive, CallOK, StageFits
  <2>2. StoreFailed(c, "bad_request") \/ Continue(c, "insert") \/ Continue(c, "cycle")
    BY <1>3 DEF CheckParentAlive
  <2> QED BY <1>1, <2>1, <2>2, WaitingStep, FailureStep DEF LedgerStep
<1>4. CASE CheckCycle(c)
  <2>1. pc[c] = "cycle" /\ req[c].op # "delete"
    BY <1>2, <1>4 DEF CheckCycle, CallOK, StageFits
  <2>2. StoreFailed(c, "bad_request") \/ Continue(c, "write")
    BY <1>4 DEF CheckCycle
  <2> QED BY <1>1, <2>1, <2>2, WaitingStep, FailureStep DEF LedgerStep
<1>5. CASE Lock(c)
  <2>1. pc[c] = "lock" /\ req[c].op # "delete" /\ Goto(c, "read")
    BY <1>2, <1>5 DEF Lock, CallOK, StageFits
  <2> QED BY <1>1, <2>1, WaitingStep DEF LedgerStep
<1>6. CASE RefuseUpdate(c)
  BY <1>1, <1>6, FailureStep DEF RefuseUpdate
<1>7. CASE AlreadyDeleted(c)
  <2>1. PhaseOf(c) = "applied"
    BY <1>7, Zenon DEF AlreadyDeleted, PhaseOf, FoundDeleted
  <2> QED BY <1>1, <1>7, <2>1, AnswerStep DEF AlreadyDeleted, LedgerStep, Ledger!Next
<1>8. CASE Reread(c)
  <2>1. pc[c] = "reread"
    BY <1>8 DEF Reread
  <2>2. PhaseOf(c) = "applied"
    BY <2>1, Zenon DEF PhaseOf, FoundDeleted
  <2>3. CASE Respond(c, "ok")
    BY <1>1, <2>2, <2>3, AnswerStep DEF LedgerStep, Ledger!Next
  <2>4. CASE StoreFailed(c, "not_found")
    BY <1>1, <2>1, <2>4, FailureStep
  <2> QED BY <1>8, <2>3, <2>4 DEF Reread
<1>9. CASE Explain(c)
  <2>1. pc[c] = "explain"
    BY <1>9 DEF Explain
  <2>2. PhaseOf(c) = "failed"
    BY <2>1, Zenon DEF PhaseOf, FoundDeleted
  <2>3. PhaseOf(c)' = "failed"
    BY <1>9, PhaseOfAnswer DEF Explain, IInv
  <2> QED BY <1>1, <2>2, <2>3, Unseen DEF LedgerStep
<1>10. CASE StatementFails(c)
  <2>1. pc[c] \notin {"idle", "done"} /\ StoreFailed(c, FailureAnswer(req[c].op))
    BY <1>10 DEF StatementFails, StatementStages
  <2>2. FailureAnswer(req[c].op) \notin {"ok", "changed"}
    BY DEF FailureAnswer
  <2> QED BY <1>1, <2>1, <2>2, FailureStep
<1> QED BY <1>3, <1>4, <1>5, <1>6, <1>7, <1>8, <1>9, <1>10

LEMMA CrashFails ==
    ASSUME IInv, Crash
    PROVE  Ledger!Fail
<1> DEFINE lost == {c \in Calls : Progress[c] \in {"pending", "applied"}}
<1>1. UNCHANGED <<rows, revisions, born, req, expected>> /\ Entries(rows)' = Entries(rows)
  BY DEF Crash, Entries, EntryOf
<1>2. \A c \in Calls : PhaseOf(c)' = IF c \in lost THEN "failed" ELSE PhaseOf(c)
  <2> TAKE c \in Calls
  <2>1. CASE pc[c] \in {"idle", "done"}
    <3>1. pc'[c] = pc[c] /\ answer'[c] = answer[c]
      BY <2>1 DEF Crash, InFlight
    <3>2. ~FoundDeleted(c) /\ ~FoundDeleted(c)'
      BY <2>1, <3>1 DEF FoundDeleted
    <3>3. PhaseOf(c) \notin {"pending", "applied"}
      BY <2>1, <3>2, Zenon DEF PhaseOf
    <3>4. PhaseOf(c)' = PhaseOf(c)
      BY <3>1, <3>2 DEF PhaseOf
    <3> QED BY <3>3, <3>4 DEF Progress
  <2>2. CASE pc[c] \notin {"idle", "done"}
    <3>1. pc'[c] = "done" /\ answer'[c] = "lost"
      BY <2>2 DEF Crash, InFlight
    <3>2. PhaseOf(c)' = "failed"
      BY <3>1, Zenon DEF PhaseOf, FoundDeleted
    <3>3. CASE pc[c] = "explain"
      <4>1. PhaseOf(c) = "failed"
        BY <3>3, Zenon DEF PhaseOf, FoundDeleted
      <4> QED BY <3>2, <4>1 DEF Progress
    <3>4. CASE pc[c] # "explain"
      <4>1. PhaseOf(c) \in {"pending", "applied"}
        BY <2>2, <3>4, PhaseInFlight DEF IInv
      <4> QED BY <3>2, <4>1 DEF Progress
    <3> QED BY <3>3, <3>4
  <2> QED BY <2>1, <2>2
<1> HIDE DEF PhaseOf
<1>3. Progress' = [c \in Calls |-> IF c \in lost THEN "failed" ELSE Progress[c]]
  BY <1>2 DEF Progress
<1>4. lost \in SUBSET {c \in Calls : Progress[c] \in {"pending", "applied"}}
  OBVIOUS
<1> HIDE DEF lost
<1> QED BY <1>1, <1>3, <1>4 DEF Ledger!Fail

-----------------------------------------------------------------------------
(* The refinement.                                                           *)

LEMMA InitLedger ==
    ASSUME Init
    PROVE  Ledger!Init
<1>1. rows \in [Items -> Row \cup {Absent}] /\ BuiltByCreates(rows)
  BY ConstantsAssumption DEF Init
<1>2. IInv
  BY InitInvariant
<1>3. Entries(rows) \in [Items -> Ledger!Entry \cup {Absent}] /\ Ledger!Sound(Entries(rows), born)
  BY <1>1, <1>2, EntriesTyped, EntriesSound DEF IInv
<1>4. born = {i \in Items : Entries(rows)[i] # Absent}
  BY <1>1, EntriesTyped DEF Init
<1>5. \A i \in born : ~Entries(rows)[i].deleted
  <2> TAKE i \in born
  <2>1. rows[i] # Absent /\ rows[i].deleted = Never /\ Entries(rows)[i] = EntryOf(rows[i])
    BY <1>1, EntriesTyped DEF Init, BuiltByCreates
  <2>2. EntryOf(rows[i]).deleted = (rows[i].deleted # Never)
    BY <2>1 DEF EntryOf
  <2> QED BY <2>1, <2>2, Zenon
<1>6. req = [c \in Calls |-> Ledger!NoRequest] /\ revisions = {} /\ expected = [c \in Calls |-> 0]
  BY DEF Init, NoRequest, Ledger!NoRequest, Keep, Ledger!Keep, Never
<1>7. Progress = [c \in Calls |-> "idle"]
  <2>1. \A c \in Calls : pc[c] = "idle"
    BY DEF Init
  <2>2. \A c \in Calls : PhaseOf(c) = "idle"
    BY <2>1, Zenon DEF PhaseOf, FoundDeleted
  <2> HIDE DEF PhaseOf
  <2> QED BY <2>2 DEF Progress
<1> QED BY <1>3, <1>4, <1>5, <1>6, <1>7 DEF Ledger!Init

LEMMA StepSimulated ==
    ASSUME IInv, [Next]_vars
    PROVE  LedgerStep
<1>1. IInv'
  BY InvariantStep
<1>2. ASSUME NEW c \in Calls, Begin(c) PROVE LedgerStep
  BY <1>2, BeginStep DEF LedgerStep, Ledger!Next
<1>3. ASSUME NEW c \in Calls, Step(c) \/ StatementFails(c) PROVE LedgerStep
  <2>1. OthersUntouched(c)
    BY <1>3, GuaranteeStep DEF Moves, Guarantee
  <2>2. CASE Insert(c)
    BY <1>1, <2>1, <2>2, InsertStep DEF LedgerStep, Ledger!Next
  <2>3. CASE Read(c)
    BY <1>1, <2>1, <2>3, ReadStep
  <2>4. CASE Snapshot(c)
    BY <2>1, <2>4, SnapshotStep DEF LedgerStep, Ledger!Next
  <2>5. CASE WriteUpdate(c) \/ WriteRestore(c) \/ WriteHold(c) \/ WriteUnhold(c) \/ WriteTombstone(c)
    BY <1>1, <2>1, <2>5, UpdateStep DEF LedgerStep, Ledger!Next
  <2>6. CASE NothingToSet(c) \/ WritePurge(c) \/ Rerank(c)
    BY <1>1, <2>1, <2>6, NothingToSetStep, PurgeEffect, RerankStep DEF LedgerStep, Ledger!Next
  <2>7. CASE \/ CheckParentAlive(c) \/ CheckCycle(c) \/ Lock(c) \/ RefuseUpdate(c)
             \/ AlreadyDeleted(c) \/ Reread(c) \/ Explain(c) \/ StatementFails(c)
    BY <2>1, <2>7, QuietStep
  <2> QED BY <1>3, <2>2, <2>3, <2>4, <2>5, <2>6, <2>7 DEF Step
<1>4. CASE Crash
  BY <1>4, CrashFails DEF LedgerStep, Ledger!Next
<1>5. CASE AllDone \/ UNCHANGED vars
  <2>1. UNCHANGED vars
    BY <1>5 DEF AllDone
  <2> QED BY <2>1 DEF LedgerStep, Ledger!ledger, vars, local, Entries, EntryOf, Progress, PhaseOf, FoundDeleted
<1> QED BY <1>2, <1>3, <1>4, <1>5 DEF Next

(* The store implements the ledger: every request answered with success had  *)
(* its effect once, at one moment, whatever ran between its statements.      *)
THEOREM StoreImplementsLedger == Spec => LedgerSpec
<1>1. Init => Ledger!Init
  BY InitLedger
<1>2. IInv /\ [Next]_vars => [Ledger!Next]_(Ledger!ledger)
  BY StepSimulated DEF LedgerStep
<1> QED BY <1>1, <1>2, Invariant, PTL DEF Spec, LedgerSpec, Ledger!Spec

=============================================================================
