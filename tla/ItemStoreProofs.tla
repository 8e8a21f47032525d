--------------------------- MODULE ItemStoreProofs ---------------------------
(* The safety properties of ItemStore, proved for any set of ids, calls,     *)
(* contents and requests and any number of faults.                           *)
EXTENDS ItemStore, ParentTreeProofs

(* What a step of one call may do: the actions of Next, named by their call. *)
Moves(c) == Begin(c) \/ Step(c) \/ StatementFails(c)

LEMMA RequestsTyped ==
    ASSUME TypeOK, NEW c \in Calls
    PROVE  req[c] \in RequestType
<1>1. NoRequest \in RequestType
  <2>1. /\ NoRequest.op \in Ops
        /\ NoRequest.id \in Items \cup {NoItem}
        /\ NoRequest.content \in Contents \cup {Keep}
        /\ NoRequest.parent \in Items \cup {NoItem, Keep}
        /\ NoRequest.due \in DueDates \cup {Keep}
        /\ NoRequest.rule \in Rules \cup {Keep}
    BY DEF NoRequest, Ops
  <2> QED BY <2>1 DEF NoRequest, RequestType
<1> QED BY <1>1, ConstantsAssumption DEF TypeOK

LEMMA RowTyped ==
    ASSUME TypeOK, NEW i \in Items, rows[i] # Absent
    PROVE  rows[i] \in Row
BY DEF TypeOK

LEMMA NewRowTyped ==
    ASSUME TypeOK, NEW r \in Requests, r.op = "create"
    PROVE  NewRow(r) \in Row
<1>1. r \in RequestType /\ r.content # Keep
  BY ConstantsAssumption
<1>2. clock + 1 \in Nat
  BY DEF TypeOK
<1> QED BY <1>1, <1>2 DEF NewRow, Row, RequestType, Pick, now, Never, Stamps, Rules, DueDates, Keep

LEMMA MergedTyped ==
    ASSUME NEW r \in RequestType, NEW row \in Row
    PROVE  Merged(row, r) \in Row
BY DEF Merged, Row, RequestType, Pick

(* How a call ends or moves on keeps the types of what those operators set.  *)
LEMMA RespondTyped ==
    ASSUME TypeOK, NEW c \in Calls, NEW status \in Statuses, Respond(c, status)
    PROVE  /\ pc' \in [Calls -> Stages]
           /\ answer' \in [Calls -> Statuses]
           /\ seen' \in [Calls -> Row \cup {Absent}]
           /\ mutex' \in Calls \cup {Free}
BY DEF TypeOK, Respond, Goto, MutexAfter, Stages

LEMMA StoreFailedTyped ==
    ASSUME TypeOK, NEW c \in Calls, NEW status \in Statuses, StoreFailed(c, status)
    PROVE  /\ pc' \in [Calls -> Stages]
           /\ answer' \in [Calls -> Statuses]
           /\ seen' \in [Calls -> Row \cup {Absent}]
           /\ mutex' \in Calls \cup {Free}
<1>1. CASE req[c].op = "update" /\ pc[c] # "explain"
  BY <1>1 DEF TypeOK, StoreFailed, Goto, MutexAfter, Stages
<1>2. CASE ~(req[c].op = "update" /\ pc[c] # "explain")
  BY <1>2, RespondTyped DEF StoreFailed
<1> QED BY <1>1, <1>2

LEMMA ContinueTyped ==
    ASSUME TypeOK, NEW c \in Calls, NEW stage \in Stages, Continue(c, stage)
    PROVE  /\ pc' \in [Calls -> Stages]
           /\ answer' \in [Calls -> Statuses]
           /\ seen' \in [Calls -> Row \cup {Absent}]
           /\ mutex' \in Calls \cup {Free}
BY DEF TypeOK, Continue, Goto

LEMMA WriteTyped ==
    ASSUME TypeOK, NEW c \in Calls, NEW row, Write(c, row),
           rows[req[c].id] # Absent => row \in Row
    PROVE  /\ rows' \in [Items -> Row \cup {Absent}]
           /\ clock' \in Nat
<1>1. CASE rows[req[c].id] = Absent
  BY <1>1 DEF TypeOK, Write, Overwritten, Tick
<1>2. CASE rows[req[c].id] # Absent
  <2>1. rows' = [rows EXCEPT ![req[c].id] = row] /\ row \in Row
    BY <1>2 DEF Write, Overwritten
  <2>2. rows \in [Items -> Row \cup {Absent}] /\ clock \in Nat
    BY DEF TypeOK
  <2>3. rows' \in [Items -> Row \cup {Absent}]
    BY <2>1, <2>2
  <2>4. clock' \in Nat
    BY <2>2 DEF Write, Tick
  <2> QED BY <2>3, <2>4
<1> QED BY <1>1, <1>2

(* TypeOK is not inductive alone: that an INSERT stores a content needs the  *)
(* stage of the call to fit its request.                                     *)
LEMMA TypeStep ==
    ASSUME IInv, NEW c \in Calls, Moves(c)
    PROVE  TypeOK'
<1> USE DEF IInv
<1> req[c] \in RequestType
  BY RequestsTyped
<1>0. \A s \in {"ok", "bad_request", "not_found", "changed", "failed"} : s \in Statuses
  BY DEF Statuses
<1>1. CASE Begin(c)
  <2> PICK r \in Requests :
         /\ req' = [req EXCEPT ![c] = r]
         /\ \E v \in VersionsNamed(r) :
               expected' = [expected EXCEPT ![c] = v]
         /\ IF Invalid(r) THEN Respond(c, "bad_request") ELSE Continue(c, FirstStage(r))
    BY <1>1 DEF Begin
  <2>1. req' \in [Calls -> Requests \cup {NoRequest}] /\ expected' \in [Calls -> Stamps]
    BY DEF TypeOK, Stamps, VersionsNamed, FirstStamp, Never
  <2>2. FirstStage(r) \in Stages
    BY DEF FirstStage, Stages
  <2>3. /\ pc' \in [Calls -> Stages]
        /\ answer' \in [Calls -> Statuses]
        /\ seen' \in [Calls -> Row \cup {Absent}]
        /\ mutex' \in Calls \cup {Free}
    BY <1>0, <2>2, RespondTyped, ContinueTyped
  <2> QED BY <1>1, <2>1, <2>3 DEF TypeOK, Begin
<1>2. CASE CheckParentAlive(c)
  BY <1>0, <1>2, StoreFailedTyped, ContinueTyped DEF CheckParentAlive, TypeOK, Stages
<1>3. CASE CheckCycle(c)
  BY <1>0, <1>3, StoreFailedTyped, ContinueTyped DEF CheckCycle, TypeOK, Stages
<1>4. CASE Insert(c)
  <2>1. req[c] \in Requests /\ req[c].op = "create"
    BY <1>4 DEF Insert, CallOK, StageFits
  <2>2. NewRow(req[c]) \in Row
    BY <2>1, NewRowTyped
  <2>3. rows' \in [Items -> Row \cup {Absent}] /\ born' \subseteq Items /\ clock' \in Nat
    BY <1>4, <2>2 DEF Insert, TypeOK, Tick
  <2> QED BY <1>0, <1>4, <2>3, RespondTyped DEF Insert, TypeOK
<1>5. CASE Lock(c)
  BY <1>5 DEF Lock, Goto, TypeOK, Stages
<1>6. CASE Read(c)
  <2>1. CASE seen' = [seen EXCEPT ![c] = rows[req[c].id]] /\ Goto(c, "snapshot") /\ UNCHANGED <<answer, mutex>>
    <3>1. rows[req[c].id] \in Row \cup {Absent}
      <4>1. req[c].id \in Items
        BY <1>6, ConstantsAssumption DEF Read, CallOK, StageFits
      <4> QED BY <4>1 DEF TypeOK
    <3> QED BY <1>6, <2>1, <3>1 DEF Read, Goto, TypeOK, Stages
  <2>2. CASE StoreFailed(c, "not_found") \/ Respond(c, "changed") \/ Respond(c, "ok")
    <3>1. /\ pc' \in [Calls -> Stages]
          /\ answer' \in [Calls -> Statuses]
          /\ seen' \in [Calls -> Row \cup {Absent}]
          /\ mutex' \in Calls \cup {Free}
      BY <1>0, <2>2, StoreFailedTyped, RespondTyped
    <3> QED BY <1>6, <3>1 DEF Read, TypeOK
  <2> QED BY <1>6, <2>1, <2>2 DEF Read
<1>7. CASE Snapshot(c)
  <2>1. /\ pc' \in [Calls -> Stages]
        /\ answer' \in [Calls -> Statuses]
        /\ seen' \in [Calls -> Row \cup {Absent}]
        /\ mutex' \in Calls \cup {Free}
    BY <1>7, ContinueTyped DEF Snapshot, Stages
  <2>2. SnapshotOf(req[c].id, seen[c], Reason(req[c].op)) \in Revision
    <3>1. seen[c] \in Row
      BY <1>7 DEF Snapshot, CallOK, SeenFits, HasRead, StageFits
    <3>2. req[c].id \in Items
      BY <1>7, ConstantsAssumption DEF Snapshot, CallOK, StageFits
    <3>3. req[c].op \in {"update", "delete", "purge", "restore", "hold", "unhold"}
      BY <1>7 DEF Snapshot, CallOK, StageFits, RequestType, Ops
    <3> QED BY <3>1, <3>2, <3>3 DEF SnapshotOf, Revision, Row, Reason
  <2>3. revisions' \subseteq Revision
    BY <1>7, <2>2 DEF Snapshot, Recorded, TypeOK
  <2> QED BY <1>7, <2>1, <2>3 DEF Snapshot, TypeOK
<1>8. CASE RefuseUpdate(c) \/ Explain(c) \/ Reread(c) \/ NothingToSet(c) \/ AlreadyDeleted(c)
  <2>1. UNCHANGED <<rows, revisions, born, req, expected, clock, faults>>
    BY <1>8 DEF RefuseUpdate, Explain, Reread, NothingToSet, AlreadyDeleted
  <2>2. \E status \in Statuses : Respond(c, status) \/ StoreFailed(c, status)
    BY <1>0, <1>8 DEF RefuseUpdate, Explain, Reread, NothingToSet, AlreadyDeleted
  <2>3. /\ pc' \in [Calls -> Stages]
        /\ answer' \in [Calls -> Statuses]
        /\ seen' \in [Calls -> Row \cup {Absent}]
        /\ mutex' \in Calls \cup {Free}
    BY <2>2, RespondTyped, StoreFailedTyped
  <2> QED BY <2>1, <2>3 DEF TypeOK
<1>9. CASE WriteUpdate(c) \/ WriteRestore(c) \/ WriteHold(c) \/ WriteUnhold(c) \/ WriteTombstone(c)
  <2>1. PICK row :
           /\ Write(c, row)
           /\ rows[req[c].id] # Absent => row \in Row
    <3>1. clock + 1 \in Stamps
      BY DEF TypeOK, Stamps
    <3>2. req[c].id \in Items
      BY <1>9, ConstantsAssumption
      DEF WriteUpdate, WriteRestore, WriteHold, WriteUnhold, WriteTombstone, CallOK, StageFits
    <3>3. rows[req[c].id] # Absent => rows[req[c].id] \in Row
      BY <3>2, RowTyped
    <3>4. rows[req[c].id] # Absent => Merged(rows[req[c].id], req[c]) \in Row
      BY <3>3, MergedTyped
    <3>5. \A row \in Row, d, h \in Stamps : [row EXCEPT !.deleted = d, !.updated = h] \in Row
      BY DEF Row
    <3>6. \A row \in Row, d, h \in Stamps : [row EXCEPT !.held = d, !.updated = h] \in Row
      BY DEF Row
    <3>7. \A row \in Row, h \in Stamps : [row EXCEPT !.updated = h] \in Row
      BY DEF Row
    <3>8. Never \in Stamps
      BY DEF Never, Stamps
    <3>9. CASE WriteUpdate(c)
      BY <3>1, <3>4, <3>7, <3>9 DEF WriteUpdate, now
    <3>10. CASE WriteRestore(c)
      BY <3>1, <3>3, <3>5, <3>8, <3>10 DEF WriteRestore, now
    <3>11. CASE WriteHold(c)
      BY <3>1, <3>3, <3>6, <3>11 DEF WriteHold, now
    <3>12. CASE WriteUnhold(c)
      BY <3>1, <3>3, <3>6, <3>8, <3>12 DEF WriteUnhold, now
    <3>13. CASE WriteTombstone(c)
      BY <3>1, <3>3, <3>5, <3>13 DEF WriteTombstone, now
    <3> QED BY <1>9, <3>9, <3>10, <3>11, <3>12, <3>13
  <2>2. rows' \in [Items -> Row \cup {Absent}] /\ clock' \in Nat
    BY <2>1, WriteTyped
  <2>3. Continue(c, "reread") \/ Respond(c, "ok")
    BY <1>9 DEF WriteUpdate, WriteRestore, WriteHold, WriteUnhold, WriteTombstone
  <2>4. /\ pc' \in [Calls -> Stages]
        /\ answer' \in [Calls -> Statuses]
        /\ seen' \in [Calls -> Row \cup {Absent}]
        /\ mutex' \in Calls \cup {Free}
    BY <1>0, <2>3, RespondTyped, ContinueTyped DEF Stages
  <2> QED BY <2>1, <2>2, <2>4 DEF TypeOK, Write
<1>10. CASE WritePurge(c)
  <2>1. rows' \in [Items -> Row \cup {Absent}]
    BY <1>10 DEF WritePurge, TypeOK
  <2> QED BY <1>0, <1>10, <2>1, RespondTyped DEF WritePurge, TypeOK
<1>11. CASE Rerank(c)
  <2>1. clock + 1 \in Stamps /\ clock' \in Nat
    BY <1>11 DEF TypeOK, Stamps, Rerank, Tick
  <2>2. \A row \in Row : [row EXCEPT !.updated = now] \in Row
    BY <2>1 DEF Row, now
  <2>3. rows' \in [Items -> Row \cup {Absent}]
    BY <1>11, <2>2 DEF Rerank, TypeOK
  <2> QED BY <1>0, <1>11, <2>1, <2>3, RespondTyped DEF Rerank, TypeOK
<1>12. CASE StatementFails(c)
  <2>1. FailureAnswer(req[c].op) \in Statuses
    BY DEF FailureAnswer, Statuses
  <2>2. faults' \in 0..MaxFaults
    BY <1>12, ConstantsAssumption DEF StatementFails, TypeOK
  <2> QED BY <1>12, <2>1, <2>2, StoreFailedTyped DEF StatementFails, TypeOK
<1> QED BY <1>1, <1>2, <1>3, <1>4, <1>5, <1>6, <1>7, <1>8, <1>9, <1>10, <1>11, <1>12 DEF Moves, Step

-----------------------------------------------------------------------------
(* What a step of one call guarantees to the other calls.                    *)

OthersUntouched(c) ==
    \A d \in Calls : d # c =>
        /\ pc'[d] = pc[d]
        /\ req'[d] = req[d]
        /\ expected'[d] = expected[d]
        /\ seen'[d] = seen[d]
        /\ answer'[d] = answer[d]

MutexHandled(c) ==
    \/ mutex' = mutex
    \/ mutex = c /\ mutex' = Free
    \/ mutex = Free /\ mutex' = c

RowHandled(c, i) ==
    \/ rows'[i] = rows[i]
    \/ /\ rows'[i] = Absent /\ i \in born
       /\ \E rev \in revisions : rev.item = i /\ rev.reason = "purge"
    \/ /\ rows[i] # Absent /\ rows'[i] # Absent
       /\ rows'[i].updated = clock + 1 /\ clock' = clock + 1
       /\ SameEdit(rows'[i], rows[i]) \/ Editing(c)
    \/ /\ i \notin born /\ i \in born' /\ rows'[i] # Absent
       /\ rows'[i].updated = clock + 1 /\ clock' = clock + 1

Guarantee(c) ==
    /\ OthersUntouched(c)
    /\ MutexHandled(c)
    /\ revisions \subseteq revisions'
    /\ born \subseteq born'
    /\ clock <= clock'
    /\ \A i \in Items : RowHandled(c, i)
    /\ \A i \in born' \ born : rows'[i] # Absent

LEMMA RespondGuarantee ==
    ASSUME TypeOK, NEW c \in Calls, NEW status, Respond(c, status),
           UNCHANGED <<req, expected>>
    PROVE  OthersUntouched(c) /\ MutexHandled(c)
BY DEF TypeOK, Respond, Goto, MutexAfter, OthersUntouched, MutexHandled

LEMMA StoreFailedGuarantee ==
    ASSUME TypeOK, NEW c \in Calls, NEW status, StoreFailed(c, status),
           UNCHANGED <<req, expected>>
    PROVE  OthersUntouched(c) /\ MutexHandled(c)
<1>1. CASE req[c].op = "update" /\ pc[c] # "explain"
  BY <1>1 DEF TypeOK, StoreFailed, Goto, MutexAfter, OthersUntouched, MutexHandled
<1>2. CASE ~(req[c].op = "update" /\ pc[c] # "explain")
  BY <1>2, RespondGuarantee DEF StoreFailed
<1> QED BY <1>1, <1>2

LEMMA ContinueGuarantee ==
    ASSUME TypeOK, NEW c \in Calls, NEW stage, Continue(c, stage),
           UNCHANGED <<req, expected>>
    PROVE  OthersUntouched(c) /\ MutexHandled(c)
BY DEF TypeOK, Continue, Goto, OthersUntouched, MutexHandled

LEMMA WriteGuarantee ==
    ASSUME TypeOK, RowsOK, NEW c \in Calls, NEW row, Write(c, row), req[c].id \in Items,
           rows[req[c].id] # Absent =>
              row # Absent /\ row.updated = clock + 1 /\ (SameEdit(row, rows[req[c].id]) \/ Editing(c))
    PROVE  /\ revisions \subseteq revisions' /\ born \subseteq born' /\ clock <= clock'
           /\ \A i \in Items : RowHandled(c, i)
           /\ born' = born
<1>1. clock \in Nat /\ clock' = clock + 1
  BY DEF TypeOK, Write, Tick
<1>2. UNCHANGED <<revisions, born>>
  BY DEF Write
<1>3. CASE rows[req[c].id] = Absent
  <2>1. rows' = rows
    BY <1>3 DEF Write, Overwritten
  <2> QED BY <1>1, <1>2, <2>1 DEF RowHandled
<1>4. CASE rows[req[c].id] # Absent
  <2>1. rows' = [rows EXCEPT ![req[c].id] = row]
    BY <1>4 DEF Write, Overwritten
  <2>2. \A i \in Items : rows'[i] = IF i = req[c].id THEN row ELSE rows[i]
    BY <2>1 DEF TypeOK
  <2> QED BY <1>1, <1>2, <1>4, <2>2 DEF RowHandled
<1> QED BY <1>3, <1>4

(* The rows that the five UPDATE statements write.                           *)
LEMMA UpdateStatements ==
    ASSUME IInv, NEW c \in Calls,
           WriteUpdate(c) \/ WriteRestore(c) \/ WriteHold(c) \/ WriteUnhold(c) \/ WriteTombstone(c)
    PROVE  /\ req[c].id \in Items
           /\ \E row :
                /\ Write(c, row)
                /\ rows[req[c].id] # Absent =>
                      /\ row # Absent
                      /\ row \in Row
                      /\ row.updated = clock + 1
                      /\ \/ SameEdit(row, rows[req[c].id])
                         \/ WriteUpdate(c) /\ SameEdit(row, Merged(rows[req[c].id], req[c]))
<1> DEFINE old == rows[req[c].id]
<1> USE DEF IInv
<1>1. req[c].id \in Items
  BY ConstantsAssumption
  DEF WriteUpdate, WriteRestore, WriteHold, WriteUnhold, WriteTombstone, CallOK, StageFits
<1>2. clock + 1 \in Stamps /\ Never \in Stamps
  BY DEF TypeOK, Stamps, Never
<1>3. old # Absent => old \in Row
  BY <1>1, RowTyped
<1>4. old # Absent => Merged(old, req[c]) \in Row
  BY <1>3, MergedTyped, RequestsTyped
<1> HIDE DEF old
<1>5. \A row \in Row : row # Absent
  BY ConstantsAssumption
<1>6. \A row \in Row, d, h \in Stamps :
        LET new == [row EXCEPT !.deleted = d, !.updated = h]
        IN  new \in Row /\ new.updated = h /\ SameEdit(new, row)
  BY DEF Row, SameEdit
<1>7. \A row \in Row, d, h \in Stamps :
        LET new == [row EXCEPT !.held = d, !.updated = h]
        IN  new \in Row /\ new.updated = h /\ SameEdit(new, row)
  BY DEF Row, SameEdit
<1>8. \A row \in Row, h \in Stamps :
        LET new == [row EXCEPT !.updated = h]
        IN  new \in Row /\ new.updated = h /\ SameEdit(new, row)
  BY DEF Row, SameEdit
<1>9. CASE WriteUpdate(c)
  <2> DEFINE new == [Merged(old, req[c]) EXCEPT !.updated = clock + 1]
  <2>1. Write(c, new)
    BY <1>9 DEF WriteUpdate, now, old
  <2>2. old # Absent =>
          new # Absent /\ new \in Row /\ new.updated = clock + 1 /\ SameEdit(new, Merged(old, req[c]))
    BY <1>2, <1>3, <1>4, <1>5, <1>8
  <2> HIDE DEF new
  <2> QED BY <1>1, <1>9, <2>1, <2>2 DEF old
<1>10. CASE WriteRestore(c)
  <2> DEFINE new == [old EXCEPT !.deleted = Never, !.updated = clock + 1]
  <2>1. Write(c, new)
    BY <1>10 DEF WriteRestore, now, old
  <2>2. old # Absent =>
          new # Absent /\ new \in Row /\ new.updated = clock + 1 /\ SameEdit(new, old)
    BY <1>2, <1>3, <1>5, <1>6
  <2> HIDE DEF new
  <2> QED BY <1>1, <2>1, <2>2 DEF old
<1>11. CASE WriteHold(c)
  <2> DEFINE new == [old EXCEPT !.held = clock + 1, !.updated = clock + 1]
  <2>1. Write(c, new)
    BY <1>11 DEF WriteHold, now, old
  <2>2. old # Absent =>
          new # Absent /\ new \in Row /\ new.updated = clock + 1 /\ SameEdit(new, old)
    BY <1>2, <1>3, <1>5, <1>7
  <2> HIDE DEF new
  <2> QED BY <1>1, <2>1, <2>2 DEF old
<1>12. CASE WriteUnhold(c)
  <2> DEFINE new == [old EXCEPT !.held = Never, !.updated = clock + 1]
  <2>1. Write(c, new)
    BY <1>12 DEF WriteUnhold, now, old
  <2>2. old # Absent =>
          new # Absent /\ new \in Row /\ new.updated = clock + 1 /\ SameEdit(new, old)
    BY <1>2, <1>3, <1>5, <1>7
  <2> HIDE DEF new
  <2> QED BY <1>1, <2>1, <2>2 DEF old
<1>13. CASE WriteTombstone(c)
  <2> DEFINE new == [old EXCEPT !.deleted = clock + 1, !.updated = clock + 1]
  <2>1. Write(c, new)
    BY <1>13 DEF WriteTombstone, now, old
  <2>2. old # Absent =>
          new # Absent /\ new \in Row /\ new.updated = clock + 1 /\ SameEdit(new, old)
    BY <1>2, <1>3, <1>5, <1>6
  <2> HIDE DEF new
  <2> QED BY <1>1, <2>1, <2>2 DEF old
<1> QED BY <1>9, <1>10, <1>11, <1>12, <1>13

(* The steps that touch no table.                                            *)
LEMMA ReadingSteps ==
    ASSUME TypeOK, NEW c \in Calls,
           \/ CheckParentAlive(c) \/ CheckCycle(c) \/ Lock(c) \/ Read(c) \/ RefuseUpdate(c)
           \/ NothingToSet(c) \/ AlreadyDeleted(c) \/ Reread(c) \/ Explain(c)
           \/ StatementFails(c) \/ Begin(c)
    PROVE  /\ OthersUntouched(c) /\ MutexHandled(c)
           /\ UNCHANGED <<rows, revisions, born, clock>>
<1>1. CASE CheckParentAlive(c)
  BY <1>1, StoreFailedGuarantee, ContinueGuarantee DEF CheckParentAlive
<1>2. CASE CheckCycle(c)
  BY <1>2, StoreFailedGuarantee, ContinueGuarantee DEF CheckCycle
<1>3. CASE Lock(c)
  BY <1>3 DEF Lock, MayEnter, Goto, OthersUntouched, MutexHandled, TypeOK
<1>4. CASE Read(c)
  <2>1. UNCHANGED <<rows, revisions, born, req, expected, clock>>
    BY <1>4 DEF Read
  <2>2. CASE seen' = [seen EXCEPT ![c] = rows[req[c].id]] /\ Goto(c, "snapshot") /\ UNCHANGED <<answer, mutex>>
    BY <2>1, <2>2 DEF Goto, OthersUntouched, MutexHandled, TypeOK
  <2> QED BY <1>4, <2>1, <2>2, StoreFailedGuarantee, RespondGuarantee DEF Read
<1>5. CASE RefuseUpdate(c)
  BY <1>5, StoreFailedGuarantee DEF RefuseUpdate
<1>6. CASE NothingToSet(c) \/ AlreadyDeleted(c)
  BY <1>6, RespondGuarantee DEF NothingToSet, AlreadyDeleted
<1>7. CASE Reread(c)
  BY <1>7, StoreFailedGuarantee, RespondGuarantee DEF Reread
<1>8. CASE Explain(c)
  BY <1>8, RespondGuarantee DEF Explain
<1>9. CASE StatementFails(c)
  BY <1>9, StoreFailedGuarantee DEF StatementFails
<1>10. CASE Begin(c)
  <2> PICK r \in Requests :
         /\ req' = [req EXCEPT ![c] = r]
         /\ \E v \in VersionsNamed(r) : expected' = [expected EXCEPT ![c] = v]
         /\ IF Invalid(r) THEN Respond(c, "bad_request") ELSE Continue(c, FirstStage(r))
    BY <1>10 DEF Begin
  <2>1. UNCHANGED <<rows, revisions, born, clock>>
    BY <1>10 DEF Begin
  <2>2. \A d \in Calls : d # c => req'[d] = req[d] /\ expected'[d] = expected[d]
    BY DEF TypeOK
  <2> QED BY <2>1, <2>2 DEF Respond, Continue, Goto, MutexAfter, OthersUntouched, MutexHandled, TypeOK
<1> QED BY <1>1, <1>2, <1>3, <1>4, <1>5, <1>6, <1>7, <1>8, <1>9, <1>10

LEMMA GuaranteeStep ==
    ASSUME IInv, NEW c \in Calls, Moves(c)
    PROVE  Guarantee(c)
<1> USE DEF IInv
<1>0. clock \in Nat
  BY DEF TypeOK
<1>1. CASE \/ CheckParentAlive(c) \/ CheckCycle(c) \/ Lock(c) \/ Read(c) \/ RefuseUpdate(c)
           \/ NothingToSet(c) \/ AlreadyDeleted(c) \/ Reread(c) \/ Explain(c)
           \/ StatementFails(c) \/ Begin(c)
  <2>1. OthersUntouched(c) /\ MutexHandled(c) /\ UNCHANGED <<rows, revisions, born, clock>>
    BY <1>1, ReadingSteps
  <2> QED BY <1>0, <2>1 DEF Guarantee, RowHandled
<1>2. CASE Insert(c)
  <2>1. OthersUntouched(c) /\ MutexHandled(c)
    BY <1>2, RespondGuarantee DEF Insert
  <2>2. PICK i \in Items \ born : rows' = [rows EXCEPT ![i] = NewRow(req[c])] /\ born' = born \cup {i}
    BY <1>2 DEF Insert
  <2>3. NewRow(req[c]) \in Row /\ NewRow(req[c]).updated = clock + 1
    <3>1. req[c] \in Requests /\ req[c].op = "create"
      BY <1>2 DEF Insert, CallOK, StageFits
    <3> QED BY <3>1, NewRowTyped DEF NewRow, now
  <2>4. clock' = clock + 1 /\ revisions' = revisions
    BY <1>2 DEF Insert, Tick
  <2>5. \A j \in Items : rows'[j] = IF j = i THEN NewRow(req[c]) ELSE rows[j]
    BY <2>2 DEF TypeOK
  <2>6. \A j \in Items : RowHandled(c, j)
    BY <2>2, <2>3, <2>4, <2>5, ConstantsAssumption DEF RowHandled
  <2> QED BY <1>0, <2>1, <2>2, <2>3, <2>4, <2>5, <2>6, ConstantsAssumption DEF Guarantee
<1>3. CASE Snapshot(c)
  <2>1. OthersUntouched(c) /\ MutexHandled(c)
    BY <1>3, ContinueGuarantee DEF Snapshot
  <2> QED BY <1>0, <1>3, <2>1 DEF Guarantee, RowHandled, Snapshot, Recorded
<1>4. CASE WriteUpdate(c) \/ WriteRestore(c) \/ WriteHold(c) \/ WriteUnhold(c) \/ WriteTombstone(c)
  <2>1. OthersUntouched(c) /\ MutexHandled(c)
    <3>1. UNCHANGED <<req, expected>>
      BY <1>4 DEF WriteUpdate, WriteRestore, WriteHold, WriteUnhold, WriteTombstone, Write
    <3>2. Continue(c, "reread") \/ Respond(c, "ok")
      BY <1>4 DEF WriteUpdate, WriteRestore, WriteHold, WriteUnhold, WriteTombstone
    <3> QED BY <3>1, <3>2, ContinueGuarantee, RespondGuarantee
  <2>2. WriteUpdate(c) => Editing(c)
    BY DEF WriteUpdate, Editing
  <2> QED BY <1>4, <2>1, <2>2, UpdateStatements, WriteGuarantee DEF Guarantee
<1>5. CASE WritePurge(c)
  <2>1. OthersUntouched(c) /\ MutexHandled(c)
    BY <1>5, RespondGuarantee DEF WritePurge
  <2>2. /\ req[c].id \in born
        /\ \E rev \in revisions : rev.item = req[c].id /\ rev.reason = "purge"
    BY <1>5 DEF WritePurge, CallOK, SeenFits, HasRead, StageFits, SnapshotTaken
  <2>3. rows' = [rows EXCEPT ![req[c].id] = Absent] /\ UNCHANGED <<revisions, born, clock>>
    BY <1>5 DEF WritePurge
  <2>4. \A i \in Items : rows'[i] = IF i = req[c].id THEN Absent ELSE rows[i]
    BY <2>3 DEF TypeOK
  <2> QED BY <1>0, <2>1, <2>2, <2>3, <2>4 DEF Guarantee, RowHandled
<1>6. CASE Rerank(c)
  <2>1. OthersUntouched(c) /\ MutexHandled(c)
    BY <1>6, RespondGuarantee DEF Rerank
  <2>2. PICK listed \in SUBSET Items :
          rows' = [i \in Items |-> IF i \in listed /\ rows[i] # Absent
                                   THEN [rows[i] EXCEPT !.updated = now] ELSE rows[i]]
    BY <1>6 DEF Rerank
  <2>3. clock' = clock + 1 /\ UNCHANGED <<revisions, born>>
    BY <1>6 DEF Rerank, Tick
  <2>4. \A row \in Row :
          LET new == [row EXCEPT !.updated = now]
          IN  new \in Row /\ new # Absent /\ new.updated = clock + 1 /\ SameEdit(new, row)
    BY <1>0, ConstantsAssumption DEF Row, SameEdit, now, Stamps
  <2>5. \A i \in Items : RowHandled(c, i)
    <3> TAKE i \in Items
    <3>1. CASE i \in listed /\ rows[i] # Absent
      BY <2>2, <2>3, <2>4, <3>1, RowTyped DEF RowHandled
    <3>2. CASE ~(i \in listed /\ rows[i] # Absent)
      BY <2>2, <3>2 DEF RowHandled
    <3> QED BY <3>1, <3>2
  <2> QED BY <1>0, <2>1, <2>3, <2>5 DEF Guarantee
<1> QED BY <1>1, <1>2, <1>3, <1>4, <1>5, <1>6 DEF Moves, Step

-----------------------------------------------------------------------------
(* What a step does to the parent graph: it loses edges, grows by an item    *)
(* that was nowhere in it, or changes by a move that passed the cycle check. *)

GraphHandled(c) ==
    \/ \A i \in Items : ParentsOf(rows')[i] \in {ParentsOf(rows)[i], NoItem}
    \/ \E i \in Items \ born, q \in born \cup {NoItem} :
          ParentsOf(rows') = [ParentsOf(rows) EXCEPT ![i] = q]
    \/ /\ Editing(c)
       /\ \E i \in Items, p \in born :
             /\ i \notin Ancestors(ParentsOf(rows), p)
             /\ ParentsOf(rows') = [ParentsOf(rows) EXCEPT ![i] = p]

LEMMA ParentsTyped ==
    ASSUME NEW table \in [Items -> Row \cup {Absent}]
    PROVE  ParentsOf(table) \in Graphs
BY DEF ParentsOf, Graphs, Row

LEMMA NobodysParent ==
    ASSUME IInv, NEW i \in Items \ born
    PROVE  \A j \in Items : ParentsOf(rows)[j] # i
BY NoItemAssumption DEF IInv, RowsOK, ParentsOf

LEMMA GraphStep ==
    ASSUME IInv, NEW c \in Calls, Moves(c)
    PROVE  GraphHandled(c)
<1> DEFINE par == ParentsOf(rows)
           new == ParentsOf(rows')
<1> USE DEF IInv
<1>1. CASE \/ CheckParentAlive(c) \/ CheckCycle(c) \/ Lock(c) \/ Read(c) \/ RefuseUpdate(c)
           \/ NothingToSet(c) \/ AlreadyDeleted(c) \/ Reread(c) \/ Explain(c)
           \/ StatementFails(c) \/ Begin(c) \/ Snapshot(c)
  <2>1. rows' = rows
    BY <1>1, ReadingSteps DEF Snapshot
  <2> QED BY <2>1 DEF GraphHandled
<1>2. CASE Insert(c)
  <2>1. PICK i \in Items \ born : rows' = [rows EXCEPT ![i] = NewRow(req[c])]
    BY <1>2 DEF Insert
  <2>2. req[c] \in Requests /\ req[c].op = "create"
    BY <1>2 DEF Insert, CallOK, StageFits
  <2>3. NewRow(req[c]) \in Row /\ NewRow(req[c]) # Absent
    BY <2>2, NewRowTyped, ConstantsAssumption
  <2>4. NewRow(req[c]).parent \in born \cup {NoItem}
    BY <1>2, <2>2 DEF Insert, CallOK, ParentChecked, NamesParent, NewRow, Pick
  <2>5. new = [par EXCEPT ![i] = NewRow(req[c]).parent]
    BY <2>1, <2>3 DEF ParentsOf, TypeOK
  <2> QED BY <2>4, <2>5 DEF GraphHandled
<1>3. CASE WriteUpdate(c) \/ WriteRestore(c) \/ WriteHold(c) \/ WriteUnhold(c) \/ WriteTombstone(c)
  <2> DEFINE id == req[c].id
  <2>1. PICK row :
           /\ Write(c, row)
           /\ rows[id] # Absent =>
                 /\ row # Absent
                 /\ row \in Row
                 /\ SameEdit(row, rows[id]) \/ (WriteUpdate(c) /\ SameEdit(row, Merged(rows[id], req[c])))
    BY <1>3, UpdateStatements
  <2>2. id \in Items
    BY <1>3, UpdateStatements
  <2>3. CASE rows[id] = Absent
    BY <2>1, <2>3 DEF Write, Overwritten, GraphHandled
  <2>4. CASE rows[id] # Absent
    <3>1. rows' = [rows EXCEPT ![id] = row]
      BY <2>1, <2>4 DEF Write, Overwritten
    <3>2. new = [par EXCEPT ![id] = row.parent]
      BY <2>1, <2>2, <2>4, <3>1 DEF ParentsOf, TypeOK
    <3>3. par[id] = rows[id].parent
      BY <2>2, <2>4 DEF ParentsOf
    <3>4. CASE row.parent \in {rows[id].parent, NoItem}
      BY <2>2, <3>2, <3>3, <3>4 DEF GraphHandled, ParentsOf
    <3>5. CASE row.parent \notin {rows[id].parent, NoItem}
      <4>1. WriteUpdate(c) /\ row.parent = Pick(req[c].parent, rows[id].parent)
        <5>1. rows[id] \in Row
          BY <2>2, <2>4, RowTyped
        <5> QED BY <2>1, <2>4, <3>5, <5>1 DEF SameEdit, Merged, Row
      <4>2. row.parent = req[c].parent /\ NamesParent(req[c])
        BY <3>5, <4>1 DEF Pick, NamesParent
      <4>3. id \notin Ancestors(par, row.parent)
        BY <4>1, <4>2 DEF WriteUpdate, CallOK, ParentChecked, ClosesCycle
      <4>4. row.parent \in born /\ Editing(c)
        BY <4>1, <4>2 DEF WriteUpdate, Editing, CallOK, ParentChecked
      <4> QED BY <2>2, <3>2, <4>3, <4>4 DEF GraphHandled
    <3> QED BY <3>4, <3>5
  <2> QED BY <2>3, <2>4
<1>4. CASE WritePurge(c)
  <2>1. \A i \in Items : rows'[i] \in {rows[i], Absent}
    BY <1>4 DEF WritePurge, TypeOK
  <2> QED BY <2>1 DEF GraphHandled, ParentsOf
<1>5. CASE Rerank(c)
  <2>1. PICK listed \in SUBSET Items :
          rows' = [i \in Items |-> IF i \in listed /\ rows[i] # Absent
                                   THEN [rows[i] EXCEPT !.updated = now] ELSE rows[i]]
    BY <1>5 DEF Rerank
  <2>2. \A row \in Row : LET stamped == [row EXCEPT !.updated = now]
                        IN  stamped \in Row /\ stamped # Absent /\ stamped.parent = row.parent
    <3>1. now \in Stamps
      BY DEF TypeOK, Stamps, now
    <3> QED BY <3>1, ConstantsAssumption DEF Row
  <2>3. \A i \in Items : new[i] = par[i]
    BY <2>1, <2>2, RowTyped DEF ParentsOf
  <2> QED BY <2>3 DEF GraphHandled
<1> QED BY <1>1, <1>2, <1>3, <1>4, <1>5 DEF Moves, Step

LEMMA ForestStep ==
    ASSUME IInv, TypeOK', NEW c \in Calls, GraphHandled(c)
    PROVE  Forest'
<1> DEFINE par == ParentsOf(rows)
           new == ParentsOf(rows')
<1>1. par \in Graphs /\ new \in Graphs
  BY ParentsTyped DEF IInv, TypeOK
<1>2. Acyclic(par)
  BY DEF IInv, Forest
<1> SUFFICES Acyclic(new)
  BY DEF Forest
<1> HIDE DEF par, new
<1>3. CASE \A i \in Items : new[i] \in {par[i], NoItem}
  BY <1>1, <1>2, <1>3, FewerEdgesKeepForest
<1>4. CASE \E i \in Items \ born, q \in born \cup {NoItem} : new = [par EXCEPT ![i] = q]
  <2>1. PICK i \in Items \ born, q \in born \cup {NoItem} : new = [par EXCEPT ![i] = q]
    BY <1>4
  <2>2. q \in Items \cup {NoItem} /\ q # i
    BY NoItemAssumption DEF IInv, TypeOK
  <2>3. \A j \in Items : par[j] # i
    BY NobodysParent DEF par
  <2> QED BY <1>1, <1>2, <2>1, <2>2, <2>3, BirthKeepsForest
<1>5. CASE \E i \in Items, p \in born : i \notin Ancestors(par, p) /\ new = [par EXCEPT ![i] = p]
  <2>1. born \subseteq Items
    BY DEF IInv, TypeOK
  <2> QED BY <1>1, <1>2, <1>5, <2>1, MoveKeepsForest
<1> QED BY <1>3, <1>4, <1>5 DEF GraphHandled, par, new

-----------------------------------------------------------------------------
(* What the other calls rely on: a step of one call leaves every fact        *)
(* another call carries true.                                                *)

LEMMA RelyStep ==
    ASSUME IInv, TypeOK', NEW c \in Calls, Guarantee(c), GraphHandled(c), NEW d \in Calls, d # c
    PROVE  CallOK(d)'
<1> USE DEF IInv
<1>0. CallOK(d) /\ req[d] \in RequestType
  BY RequestsTyped
<1>1. /\ pc'[d] = pc[d] /\ req'[d] = req[d] /\ expected'[d] = expected[d]
      /\ seen'[d] = seen[d] /\ answer'[d] = answer[d]
  BY DEF Guarantee, OthersUntouched
<1>2. revisions \subseteq revisions' /\ born \subseteq born' /\ clock <= clock'
  BY DEF Guarantee
<1>3. Editing(d) => mutex = d /\ mutex' = d /\ ~Editing(c)
  <2>1. Editing(d) => mutex = d
    BY <1>0 DEF CallOK
  <2>2. Editing(c) => mutex = c
    BY DEF CallOK
  <2> QED BY <2>1, <2>2, ConstantsAssumption DEF Guarantee, MutexHandled
<1>4. (Editing(d) => mutex = d)'
  BY <1>1, <1>3 DEF Editing
<1>5. StageFits(d)'
  BY <1>0, <1>1 DEF CallOK, StageFits, NamesParent, Invalid
<1>6. SeenFits(d)'
  <2> SUFFICES ASSUME HasRead(d)
               PROVE  /\ req[d].id \in born'
                      /\ seen[d] \in Row
                      /\ req[d].op = "update" =>
                           rows'[req[d].id] = Absent \/ SameEdit(rows'[req[d].id], seen[d])
    BY <1>1 DEF SeenFits, HasRead
  <2>1. /\ req[d].id \in born /\ seen[d] \in Row
        /\ req[d].op = "update" =>
              rows[req[d].id] = Absent \/ SameEdit(rows[req[d].id], seen[d])
    BY <1>0 DEF CallOK, SeenFits
  <2>2. req[d].id \in Items
    BY <2>1 DEF TypeOK
  <2>3. ASSUME req[d].op = "update"
        PROVE  rows'[req[d].id] = Absent \/ SameEdit(rows'[req[d].id], seen[d])
    <3>1. ~Editing(c)
      BY <1>3, <2>3 DEF HasRead, Editing
    <3>2. RowHandled(c, req[d].id)
      BY <2>2 DEF Guarantee
    <3> QED BY <2>1, <2>3, <3>1, <3>2 DEF RowHandled, SameEdit
  <2> QED BY <1>2, <2>1, <2>3
<1>7. SnapshotTaken(d)'
  BY <1>0, <1>1, <1>2 DEF CallOK, SnapshotTaken, OnRecord
<1>8. ParentChecked(d)'
  <2>1. /\ pc[d] \in {"insert", "cycle", "write"} /\ NamesParent(req[d]) /\ req[d].op \in {"create", "update"} =>
             req[d].parent \in born
        /\ pc[d] = "write" /\ NamesParent(req[d]) /\ req[d].op = "update" =>
             req[d].id \notin Ancestors(ParentsOf(rows), req[d].parent)
    BY <1>0 DEF CallOK, ParentChecked, ClosesCycle
  <2>2. ASSUME pc[d] = "write", NamesParent(req[d]), req[d].op = "update"
        PROVE  req[d].id \notin Ancestors(ParentsOf(rows'), req[d].parent)
    <3> DEFINE par == ParentsOf(rows)
               new == ParentsOf(rows')
               p == req[d].parent
    <3>1. par \in Graphs /\ new \in Graphs
      BY ParentsTyped DEF TypeOK
    <3>2. p \in born /\ p \in Items
      BY <2>1, <2>2 DEF TypeOK
    <3>3. ~Editing(c)
      BY <1>3, <2>2 DEF Editing
    <3>4. CASE \A i \in Items : new[i] \in {par[i], NoItem}
      <4> HIDE DEF par, new
      <4>1. Ancestors(new, p) \subseteq Ancestors(par, p)
        BY <3>1, <3>2, <3>4, FewerEdgesFewerAncestors
      <4> QED BY <2>1, <2>2, <4>1 DEF par, new
    <3>5. CASE \E i \in Items \ born, q \in born \cup {NoItem} : new = [par EXCEPT ![i] = q]
      <4>1. PICK i \in Items \ born, q \in born \cup {NoItem} : new = [par EXCEPT ![i] = q]
        BY <3>5
      <4>2. \A j \in Items : par[j] # i
        BY NobodysParent
      <4>3. q \in Items \cup {NoItem} /\ p # i
        BY <3>2 DEF TypeOK
      <4> HIDE DEF par, new, p
      <4>4. Ancestors(new, p) \subseteq Ancestors(par, p)
        BY <3>1, <3>2, <4>1, <4>2, <4>3, BirthKeepsAncestors
      <4> QED BY <2>1, <2>2, <4>4 DEF par, new, p
    <3> QED BY <3>3, <3>4, <3>5 DEF GraphHandled
  <2> QED BY <1>1, <1>2, <2>1, <2>2 DEF ParentChecked, ClosesCycle
<1>9. VersionFits(d)'
  <2>1. VersionFits(d)
    BY <1>0 DEF CallOK
  <2>2. clock \in Nat /\ clock' \in Nat /\ expected[d] \in Nat
    BY DEF TypeOK, Stamps
  <2>3. ASSUME Applied(d)
        PROVE  /\ req[d].id \in born'
               /\ rows'[req[d].id] = Absent \/ rows'[req[d].id].updated > expected[d]
    <3>1. /\ req[d].id \in born
          /\ rows[req[d].id] = Absent \/ rows[req[d].id].updated > expected[d]
      BY <2>1, <2>3 DEF VersionFits
    <3>2. RowHandled(c, req[d].id)
      BY <3>1 DEF Guarantee, TypeOK
    <3> QED BY <1>2, <2>1, <2>2, <3>1, <3>2 DEF RowHandled, VersionFits
  <2>4. Applied(d)' <=> Applied(d)
    BY <1>1 DEF Applied, ConditionalSave, SetsNothing
  <2>5. ConditionalSave(d)' <=> ConditionalSave(d)
    BY <1>1 DEF ConditionalSave, SetsNothing
  <2> QED BY <1>1, <1>2, <2>1, <2>2, <2>3, <2>4, <2>5 DEF VersionFits
<1> QED BY <1>4, <1>5, <1>6, <1>7, <1>8, <1>9 DEF CallOK

-----------------------------------------------------------------------------
(* What a step does to the facts its own call carries.                       *)

LEMMA RespondOwn ==
    ASSUME IInv, TypeOK', NEW c \in Calls, NEW status, Respond(c, status), pc[c] # "idle",
           UNCHANGED <<req, expected>>, clock <= clock',
           status = "ok" /\ ConditionalSave(c) => Applied(c) /\ UNCHANGED <<rows, born>>
    PROVE  CallOK(c)'
<1> USE DEF IInv
<1>1. /\ pc'[c] = "done" /\ answer'[c] = status
      /\ req'[c] = req[c] /\ expected'[c] = expected[c]
  BY DEF TypeOK, Respond, Goto
<1>2. CallOK(c)
  OBVIOUS
<1>3. StageFits(c)' /\ SeenFits(c)' /\ SnapshotTaken(c)' /\ ParentChecked(c)' /\ ~Editing(c)'
  BY <1>1, <1>2 DEF StageFits, SeenFits, HasRead, SnapshotTaken, ParentChecked, Editing, CallOK
<1>4. VersionFits(c)'
  <2>1. VersionFits(c)
    BY <1>2 DEF CallOK
  <2>2. clock \in Nat /\ clock' \in Nat /\ expected[c] \in Nat
    BY DEF TypeOK, Stamps
  <2>3. ConditionalSave(c)' <=> ConditionalSave(c)
    BY <1>1 DEF ConditionalSave, SetsNothing
  <2>4. Applied(c)' => Applied(c) /\ UNCHANGED <<rows, born>>
    BY <1>1, <2>3 DEF Applied
  <2> QED BY <1>1, <2>1, <2>2, <2>3, <2>4 DEF VersionFits
<1> QED BY <1>3, <1>4 DEF CallOK

LEMMA StoreFailedOwn ==
    ASSUME IInv, TypeOK', NEW c \in Calls, NEW status, StoreFailed(c, status), pc[c] \notin {"idle", "done"},
           UNCHANGED <<req, expected>>, clock <= clock', status # "ok"
    PROVE  CallOK(c)'
<1>1. CASE req[c].op = "update" /\ pc[c] # "explain"
  <2> USE DEF IInv
  <2>1. /\ pc'[c] = "explain" /\ answer'[c] = answer[c]
        /\ req'[c] = req[c] /\ expected'[c] = expected[c]
    BY <1>1 DEF TypeOK, StoreFailed, Goto
  <2>2. CallOK(c)
    OBVIOUS
  <2>3. StageFits(c)' /\ SeenFits(c)' /\ SnapshotTaken(c)' /\ ParentChecked(c)' /\ ~Editing(c)'
    BY <1>1, <2>1, <2>2 DEF StageFits, SeenFits, HasRead, SnapshotTaken, ParentChecked, Editing, CallOK
  <2>4. VersionFits(c)'
    <3>1. VersionFits(c)
      BY <2>2 DEF CallOK
    <3>2. clock \in Nat /\ clock' \in Nat /\ expected[c] \in Nat
      BY DEF TypeOK, Stamps
    <3>3. ConditionalSave(c)' <=> ConditionalSave(c)
      BY <2>1 DEF ConditionalSave, SetsNothing
    <3>4. answer[c] = "none"
      BY <1>1, <3>1 DEF VersionFits
    <3>5. ~Applied(c)'
      BY <2>1, <3>4 DEF Applied
    <3> QED BY <2>1, <3>1, <3>2, <3>3, <3>4, <3>5 DEF VersionFits
  <2> QED BY <2>3, <2>4 DEF CallOK
<1>2. CASE Respond(c, status)
  BY <1>2, RespondOwn
<1> QED BY <1>1, <1>2 DEF StoreFailed

(* A step that goes on to the next statement: what is left to show is what   *)
(* the new stage asks for.                                                   *)
LEMMA ContinueOwn ==
    ASSUME IInv, TypeOK', NEW c \in Calls, NEW stage \in Stages \ {"idle", "done"},
           pc[c] \notin {"idle", "done"}, Goto(c, stage), UNCHANGED <<req, expected, answer>>,
           clock <= clock',
           Editing(c)' => mutex' = c,
           StageFits(c)', SeenFits(c)', SnapshotTaken(c)', ParentChecked(c)',
           stage = "reread" /\ ConditionalSave(c) =>
              /\ req[c].id \in born'
              /\ rows'[req[c].id] = Absent \/ rows'[req[c].id].updated > expected[c]
    PROVE  CallOK(c)'
<1> USE DEF IInv
<1>1. pc'[c] = stage /\ answer'[c] = answer[c] /\ req'[c] = req[c] /\ expected'[c] = expected[c]
  BY DEF TypeOK, Goto
<1>2. VersionFits(c)
  BY DEF CallOK
<1>3. clock \in Nat /\ clock' \in Nat /\ expected[c] \in Nat
  BY DEF TypeOK, Stamps
<1>4. ConditionalSave(c)' <=> ConditionalSave(c)
  BY <1>1 DEF ConditionalSave, SetsNothing
<1>5. answer[c] = "none"
  BY <1>2 DEF VersionFits
<1>6. Applied(c)' => stage = "reread" /\ ConditionalSave(c)
  BY <1>1, <1>4, <1>5 DEF Applied
<1>7. VersionFits(c)'
  BY <1>1, <1>2, <1>3, <1>4, <1>5, <1>6 DEF VersionFits
<1> QED BY <1>7 DEF CallOK

LEMMA OwnBegin ==
    ASSUME IInv, TypeOK', NEW c \in Calls, Begin(c)
    PROVE  CallOK(c)'
<1> PICK r \in Requests :
       /\ req' = [req EXCEPT ![c] = r]
       /\ \E v \in VersionsNamed(r) :
             expected' = [expected EXCEPT ![c] = v]
       /\ IF Invalid(r) THEN Respond(c, "bad_request") ELSE Continue(c, FirstStage(r))
  BY DEF Begin
<1> PICK v \in VersionsNamed(r) : expected' = [expected EXCEPT ![c] = v]
  OBVIOUS
<1> USE DEF IInv
<1>1. req'[c] = r /\ expected'[c] = v /\ clock' = clock /\ clock \in Nat /\ pc[c] = "idle"
  BY DEF TypeOK, Begin
<1>2. v <= clock /\ (r.ifMatch => v # Never)
  BY <1>1 DEF VersionsNamed, FirstStamp, Never
<1>3. VersionFits(c)
  BY DEF CallOK
<1>4. r \in RequestType
  BY ConstantsAssumption
<1>5. CASE Invalid(r)
  <2>1. pc'[c] = "done" /\ answer'[c] = "bad_request"
    BY <1>5 DEF TypeOK, Respond, Goto
  <2> QED BY <1>1, <1>2, <2>1
    DEF CallOK, Editing, StageFits, SeenFits, HasRead, SnapshotTaken, ParentChecked, VersionFits,
        Applied, ConditionalSave
<1>6. CASE ~Invalid(r)
  <2>1. pc'[c] = FirstStage(r) /\ answer'[c] = "none"
    BY <1>1, <1>3, <1>6 DEF TypeOK, Continue, Goto, VersionFits
  <2>2. /\ FirstStage(r) = "insert" => r.op = "create" /\ ~NamesParent(r)
        /\ FirstStage(r) = "alive" => r.op = "create" /\ NamesParent(r)
        /\ FirstStage(r) = "lock" => r.op = "update"
        /\ FirstStage(r) = "read" => r.op \notin {"create", "rerank", "update"}
        /\ FirstStage(r) = "rerank" => r.op = "rerank"
        /\ FirstStage(r) \in {"insert", "alive", "lock", "read", "rerank"}
    BY DEF FirstStage, NamesParent
  <2>3. StageFits(c)'
    BY <1>1, <1>6, <2>1, <2>2 DEF StageFits
  <2>4. SeenFits(c)' /\ SnapshotTaken(c)' /\ ParentChecked(c)' /\ (Editing(c) => mutex = c)'
    BY <1>1, <2>1, <2>2 DEF SeenFits, HasRead, SnapshotTaken, ParentChecked, Editing
  <2>5. VersionFits(c)'
    BY <1>1, <1>2, <2>1, <2>2 DEF VersionFits, Applied, ConditionalSave
  <2> QED BY <2>3, <2>4, <2>5 DEF CallOK
<1> QED BY <1>5, <1>6

LEMMA OwnUpdateStatement ==
    ASSUME IInv, TypeOK', NEW c \in Calls,
           WriteUpdate(c) \/ WriteRestore(c) \/ WriteHold(c) \/ WriteUnhold(c) \/ WriteTombstone(c)
    PROVE  CallOK(c)'
<1> USE DEF IInv
<1>1. PICK row :
         /\ Write(c, row)
         /\ rows[req[c].id] # Absent => row # Absent /\ row.updated = clock + 1
  BY UpdateStatements
<1>2. req[c].id \in Items /\ pc[c] = "write"
  BY UpdateStatements DEF WriteUpdate, WriteRestore, WriteHold, WriteUnhold, WriteTombstone
<1>3. UNCHANGED <<revisions, born, req, expected>> /\ clock' = clock + 1 /\ clock \in Nat /\ expected[c] \in Nat
  BY <1>1 DEF Write, Tick, TypeOK, Stamps
<1>4. rows'[req[c].id] = Absent \/ rows'[req[c].id].updated = clock + 1
  BY <1>1, <1>2 DEF Write, Overwritten, TypeOK
<1>5. CASE WriteTombstone(c)
  <2>1. Respond(c, "ok") /\ ~ConditionalSave(c)
    BY <1>5 DEF WriteTombstone, ConditionalSave
  <2> QED BY <1>2, <1>3, <2>1, RespondOwn
<1>6. CASE ~WriteTombstone(c)
  <2>1. Continue(c, "reread")
    BY <1>6 DEF WriteUpdate, WriteRestore, WriteHold, WriteUnhold
  <2>2. pc'[c] = "reread" /\ req'[c] = req[c] /\ mutex' = mutex /\ answer' = answer
    BY <1>3, <2>1 DEF Continue, Goto, TypeOK
  <2>3. CallOK(c)
    OBVIOUS
  <2>4. (Editing(c) => mutex = c)'
    BY <1>2, <2>2, <2>3 DEF CallOK, Editing
  <2>5. StageFits(c)' /\ SeenFits(c)' /\ SnapshotTaken(c)' /\ ParentChecked(c)'
    BY <1>2, <2>2, <2>3 DEF CallOK, StageFits, SeenFits, HasRead, SnapshotTaken, ParentChecked
  <2>6. ConditionalSave(c) =>
          /\ req[c].id \in born'
          /\ rows'[req[c].id] = Absent \/ rows'[req[c].id].updated > expected[c]
    <3>1. expected[c] <= clock
      BY <2>3 DEF CallOK, VersionFits
    <3>2. ConditionalSave(c) => req[c].id \in born
      BY <1>2, <2>3 DEF CallOK, SeenFits, HasRead, ConditionalSave
    <3> QED BY <1>3, <1>4, <3>1, <3>2
  <2> QED BY <1>2, <1>3, <2>1, <2>2, <2>4, <2>5, <2>6, ContinueOwn DEF Continue, Stages
<1> QED BY <1>5, <1>6

LEMMA OwnSnapshot ==
    ASSUME IInv, TypeOK', NEW c \in Calls, Snapshot(c)
    PROVE  CallOK(c)'
<1> USE DEF IInv
<1> DEFINE stage == IF req[c].op = "update" /\ NamesParent(req[c]) THEN "alive" ELSE "write"
           rev == SnapshotOf(req[c].id, seen[c], req[c].op)
<1>1. /\ pc[c] = "snapshot" /\ Continue(c, stage) /\ stage \in Stages
      /\ UNCHANGED <<rows, born, req, expected, clock>>
      /\ rev \in revisions'
  BY DEF Snapshot, Recorded, Reason, Stages
<1>2. pc'[c] = stage /\ UNCHANGED <<mutex, answer, seen>>
  BY <1>1 DEF Continue, Goto, TypeOK
<1>3. CallOK(c)
  OBVIOUS
<1>4. (Editing(c) => mutex = c)'
  BY <1>1, <1>2, <1>3 DEF CallOK, Editing
<1>5. StageFits(c)' /\ ParentChecked(c)'
  BY <1>1, <1>2, <1>3 DEF CallOK, StageFits, ParentChecked
<1>6. SeenFits(c)'
  BY <1>1, <1>2, <1>3 DEF CallOK, SeenFits, HasRead, StageFits
<1>7. SnapshotTaken(c)'
  <2>1. rev.item = req[c].id /\ rev.reason = req[c].op /\ rev.content = seen[c].content /\ rev.parent = seen[c].parent
    BY DEF SnapshotOf
  <2> QED BY <1>1, <1>2, <2>1 DEF SnapshotTaken, OnRecord
<1>8. clock <= clock'
  BY <1>1 DEF TypeOK
<1> QED BY <1>1, <1>2, <1>4, <1>5, <1>6, <1>7, <1>8, ContinueOwn DEF Continue

LEMMA OwnRead ==
    ASSUME IInv, TypeOK', NEW c \in Calls, Read(c)
    PROVE  CallOK(c)'
<1> USE DEF IInv
<1>1. pc[c] = "read" /\ UNCHANGED <<rows, revisions, born, req, expected, clock>> /\ clock <= clock'
  BY DEF Read, TypeOK
<1>2. CASE StoreFailed(c, "not_found")
  BY <1>1, <1>2, StoreFailedOwn
<1>3. CASE Respond(c, "changed")
  BY <1>1, <1>3, RespondOwn
<1>4. CASE Settled(req[c]) /\ Respond(c, "ok")
  BY <1>1, <1>4, RespondOwn DEF Settled, ConditionalSave
<1>5. CASE /\ Readable(req[c])
           /\ seen' = [seen EXCEPT ![c] = rows[req[c].id]]
           /\ Goto(c, "snapshot")
           /\ UNCHANGED <<answer, mutex>>
  <2>1. CallOK(c) /\ req[c].id \in Items
    BY <1>1, ConstantsAssumption DEF CallOK, StageFits
  <2>2. rows[req[c].id] # Absent
    BY <1>5 DEF Readable, Live
  <2>3. pc'[c] = "snapshot" /\ seen'[c] = rows[req[c].id] /\ req'[c] = req[c]
    BY <1>1, <1>5 DEF Goto, TypeOK
  <2>4. (Editing(c) => mutex = c)'
    BY <1>1, <1>5, <2>1, <2>3 DEF CallOK, Editing
  <2>5. StageFits(c)' /\ SnapshotTaken(c)' /\ ParentChecked(c)'
    BY <1>1, <2>1, <2>3 DEF CallOK, StageFits, SnapshotTaken, ParentChecked
  <2>6. SeenFits(c)'
    BY <1>1, <2>1, <2>2, <2>3, RowTyped DEF SeenFits, HasRead, SameEdit, RowsOK
  <2> QED BY <1>1, <1>5, <2>4, <2>5, <2>6, ContinueOwn DEF Stages
<1> QED BY <1>2, <1>3, <1>4, <1>5 DEF Read

LEMMA OwnParentChecks ==
    ASSUME IInv, TypeOK', NEW c \in Calls, CheckParentAlive(c) \/ CheckCycle(c)
    PROVE  CallOK(c)'
<1> USE DEF IInv
<1>1. /\ pc[c] \in {"alive", "cycle"} /\ UNCHANGED <<rows, revisions, born, req, expected, clock>>
      /\ clock <= clock'
  BY DEF CheckParentAlive, CheckCycle, TypeOK
<1>2. CASE StoreFailed(c, "bad_request")
  BY <1>1, <1>2, StoreFailedOwn
<1>3. ASSUME NEW stage \in {"insert", "cycle", "write"}, Continue(c, stage),
             req[c].parent \in born,
             stage = "insert" <=> req[c].op = "create",
             stage = "write" => ~ClosesCycle(req[c].id, req[c].parent)
      PROVE  CallOK(c)'
  <2>1. CallOK(c)
    OBVIOUS
  <2>2. pc'[c] = stage /\ UNCHANGED <<mutex, answer, seen>> /\ req'[c] = req[c]
    BY <1>1, <1>3 DEF Continue, Goto, TypeOK
  <2>3. (Editing(c) => mutex = c)'
    BY <1>1, <1>3, <2>1, <2>2 DEF CallOK, Editing, StageFits
  <2>4. StageFits(c)'
    BY <1>1, <1>3, <2>1, <2>2 DEF CallOK, StageFits
  <2>5. SeenFits(c)'
    BY <1>1, <1>3, <2>1, <2>2 DEF CallOK, SeenFits, HasRead, StageFits
  <2>6. SnapshotTaken(c)'
    BY <1>1, <1>3, <2>1, <2>2 DEF CallOK, SnapshotTaken, StageFits
  <2>7. ParentChecked(c)'
    BY <1>1, <1>3, <2>2 DEF ParentChecked, ClosesCycle
  <2> QED BY <1>1, <1>3, <2>2, <2>3, <2>4, <2>5, <2>6, <2>7, ContinueOwn DEF Continue, Stages
<1>4. CASE CheckParentAlive(c)
  <2>1. ParentAccepted(req[c].parent) => req[c].parent \in born
    BY DEF ParentAccepted, Live, RowsOK
  <2>2. req[c].op \in {"create", "update"}
    BY <1>4 DEF CheckParentAlive, CallOK, StageFits
  <2> QED BY <1>2, <1>3, <1>4, <2>1, <2>2 DEF CheckParentAlive
<1>5. CASE CheckCycle(c)
  <2>1. req[c].op = "update" /\ req[c].parent \in born
    BY <1>5 DEF CheckCycle, CallOK, StageFits, ParentChecked
  <2> QED BY <1>2, <1>3, <1>5, <2>1 DEF CheckCycle
<1> QED BY <1>4, <1>5

LEMMA OwnStep ==
    ASSUME IInv, TypeOK', NEW c \in Calls, Moves(c)
    PROVE  CallOK(c)'
<1> USE DEF IInv
<1>0. Guarantee(c) /\ clock <= clock'
  BY GuaranteeStep DEF Guarantee
<1>1. CASE Begin(c)
  BY <1>1, OwnBegin
<1>2. CASE CheckParentAlive(c) \/ CheckCycle(c)
  BY <1>2, OwnParentChecks
<1>3. CASE Insert(c)
  <2>1. ~ConditionalSave(c)
    BY <1>3 DEF Insert, CallOK, StageFits, ConditionalSave
  <2> QED BY <1>0, <1>3, <2>1, RespondOwn DEF Insert
<1>4. CASE Lock(c)
  <2>1. pc[c] = "lock" /\ pc'[c] = "read" /\ mutex' = c /\ req'[c] = req[c] /\ UNCHANGED <<rows, revisions, born, req, expected, seen, answer, clock>>
    BY <1>4 DEF Lock, Goto, TypeOK
  <2>2. CallOK(c)
    OBVIOUS
  <2>3. StageFits(c)' /\ SeenFits(c)' /\ SnapshotTaken(c)' /\ ParentChecked(c)'
    BY <2>1, <2>2 DEF CallOK, StageFits, SeenFits, HasRead, SnapshotTaken, ParentChecked
  <2> QED BY <1>0, <1>4, <2>1, <2>3, ContinueOwn DEF Lock, Stages
<1>5. CASE Read(c)
  BY <1>5, OwnRead
<1>6. CASE Snapshot(c)
  BY <1>6, OwnSnapshot
<1>7. CASE RefuseUpdate(c)
  BY <1>0, <1>7, StoreFailedOwn DEF RefuseUpdate
<1>8. CASE NothingToSet(c) \/ AlreadyDeleted(c)
  BY <1>0, <1>8, RespondOwn DEF NothingToSet, AlreadyDeleted, ConditionalSave
<1>9. CASE WriteUpdate(c) \/ WriteRestore(c) \/ WriteHold(c) \/ WriteUnhold(c) \/ WriteTombstone(c)
  BY <1>9, OwnUpdateStatement
<1>10. CASE WritePurge(c)
  BY <1>0, <1>10, RespondOwn DEF WritePurge, ConditionalSave
<1>11. CASE Reread(c)
  BY <1>0, <1>11, StoreFailedOwn, RespondOwn DEF Reread, Applied
<1>12. CASE Explain(c)
  BY <1>0, <1>12, RespondOwn DEF Explain
<1>13. CASE Rerank(c)
  <2>1. ~ConditionalSave(c)
    <3>1. pc[c] = "rerank" => req[c].op = "rerank"
      BY DEF CallOK, StageFits
    <3> QED BY <1>13, <3>1 DEF Rerank, ConditionalSave
  <2> QED BY <1>0, <1>13, <2>1, RespondOwn DEF Rerank
<1>14. CASE StatementFails(c)
  <2>1. FailureAnswer(req[c].op) # "ok"
    BY DEF FailureAnswer
  <2> QED BY <1>0, <1>14, <2>1, StoreFailedOwn DEF StatementFails, StatementStages
<1> QED BY <1>1, <1>2, <1>3, <1>4, <1>5, <1>6, <1>7, <1>8, <1>9, <1>10, <1>11, <1>12, <1>13, <1>14
  DEF Moves, Step

-----------------------------------------------------------------------------
(* The conjuncts of the invariant that are about the tables, and the one     *)
(* that is about two calls.                                                  *)

NoRivals == \A c, d \in Calls : Rival(c, d) => ~(VersionChecked(c) /\ Applied(d))

(* Which steps make a call's version checked, or its save applied.           *)
LEMMA NewlyChecked ==
    ASSUME IInv, NEW c \in Calls, Moves(c), VersionChecked(c)'
    PROVE  /\ req'[c] = req[c] /\ expected'[c] = expected[c] /\ ConditionalSave(c)
           /\ VersionChecked(c) \/ (rows[req[c].id] # Absent /\ rows[req[c].id].updated = expected[c])
<1> USE DEF IInv
<1>0. CallOK(c)
  OBVIOUS
<1>1. CASE Begin(c)
  <2> PICK r \in Requests :
         /\ req' = [req EXCEPT ![c] = r]
         /\ IF Invalid(r) THEN Respond(c, "bad_request") ELSE Continue(c, FirstStage(r))
    BY <1>1 DEF Begin
  <2>1. pc'[c] \notin {"snapshot", "alive", "cycle", "write", "reread"} \/ r.op # "update"
    BY DEF FirstStage, Respond, Continue, Goto, TypeOK
  <2>2. answer'[c] # "ok"
    BY <1>0, <1>1 DEF Respond, Continue, TypeOK, CallOK, VersionFits, Begin
  <2>3. req'[c] = r
    BY DEF TypeOK
  <2> QED BY <2>1, <2>2, <2>3 DEF VersionChecked, ConditionalSave
<1>2. CASE ~Begin(c)
  <2>1. UNCHANGED <<req, expected>>
    BY <1>2 DEF Moves, Step, CheckParentAlive, CheckCycle, Insert, Lock, Read, Snapshot, RefuseUpdate,
       NothingToSet, WriteUpdate, WriteRestore, WriteHold, WriteUnhold, WriteTombstone, AlreadyDeleted,
       WritePurge, Reread, Explain, Rerank, StatementFails, Write
  <2>2. ConditionalSave(c)
    BY <2>1 DEF VersionChecked, ConditionalSave, SetsNothing
  <2>3. req[c].op = "update" /\ ~SetsNothing(req[c]) /\ expected[c] # Never
    BY <1>0, <2>2 DEF ConditionalSave, CallOK, VersionFits
  <2>4. CASE pc[c] \in {"snapshot", "alive", "cycle", "write", "reread"}
    BY <2>1, <2>2, <2>4 DEF VersionChecked
  <2>5. CASE pc[c] = "read" /\ Read(c)
    <3>1. Readable(req[c]) /\ VersionMatches(c)
      <4>1. ~Respond(c, "changed")
        BY <2>5 DEF Respond, Goto, VersionChecked, TypeOK
      <4>2. ~StoreFailed(c, "not_found")
        BY <1>0, <2>3, <2>5 DEF StoreFailed, Goto, VersionChecked, TypeOK, CallOK, VersionFits
      <4> QED BY <2>5, <4>1, <4>2 DEF Read
    <3>2. rows[req[c].id] # Absent
      BY <3>1 DEF Readable, Live
    <3> QED BY <2>1, <2>2, <2>3, <3>1, <3>2 DEF VersionMatches
  <2>6. CASE pc[c] \notin {"snapshot", "alive", "cycle", "write", "reread"} /\ ~Read(c)
    <3>1. CASE Lock(c)
      BY <1>0, <3>1 DEF Lock, Goto, VersionChecked, TypeOK, CallOK, VersionFits
    <3>2. CASE StatementFails(c)
      BY <1>0, <2>3, <2>6, <3>2 DEF StatementFails, StoreFailed, Respond, Goto, VersionChecked, TypeOK,
         CallOK, VersionFits, FailureAnswer, StatementStages
    <3>3. CASE Explain(c)
      BY <1>0, <3>3 DEF Explain, Respond, Goto, VersionChecked, TypeOK
    <3>4. ~Insert(c) /\ ~Rerank(c)
      BY <1>0, <2>3 DEF Insert, Rerank, CallOK, StageFits
    <3> QED BY <1>2, <2>6, <3>1, <3>2, <3>3, <3>4
        DEF Moves, Step, CheckParentAlive, CheckCycle, Snapshot, RefuseUpdate, NothingToSet,
            WriteUpdate, WriteRestore, WriteHold, WriteUnhold, WriteTombstone, AlreadyDeleted,
            WritePurge, Reread
  <2> QED BY <2>4, <2>5, <2>6 DEF Read
<1> QED BY <1>1, <1>2

LEMMA NewlyApplied ==
    ASSUME IInv, NEW c \in Calls, Moves(c), Applied(c)'
    PROVE  Applied(c) \/ (Editing(c) /\ VersionChecked(c))
<1>1. VersionChecked(c)'
  BY DEF Applied, VersionChecked
<1>2. /\ req'[c] = req[c] /\ ConditionalSave(c)
      /\ VersionChecked(c) \/ (rows[req[c].id] # Absent /\ rows[req[c].id].updated = expected[c])
  BY <1>1, NewlyChecked
<1>3. CASE VersionChecked(c)
  BY <1>3 DEF VersionChecked, Applied, Editing, ConditionalSave
<1>4. CASE ~VersionChecked(c)
  <2>1. pc[c] \notin {"snapshot", "alive", "cycle", "write", "reread"} /\ answer[c] # "ok"
    BY <1>2, <1>4 DEF VersionChecked
  <2>2. req[c].op = "update" /\ ~SetsNothing(req[c])
    BY <1>2 DEF ConditionalSave
  <2>3. CallOK(c) /\ TypeOK
    BY DEF IInv
  <2>4. CASE Begin(c)
    BY <1>2, <2>1, <2>3, <2>4 DEF Begin, Respond, Continue, Goto, FirstStage, Applied, TypeOK
  <2>5. CASE Lock(c)
    BY <2>1, <2>3, <2>5 DEF Lock, Goto, Applied, TypeOK
  <2>6. CASE Read(c)
    BY <2>1, <2>2, <2>3, <2>6 DEF Read, Settled, StoreFailed, Respond, Goto, Applied, TypeOK
  <2>7. CASE StatementFails(c)
    BY <2>1, <2>2, <2>3, <2>7 DEF StatementFails, StoreFailed, Respond, Goto, Applied, TypeOK, FailureAnswer
  <2>8. CASE Explain(c)
    BY <2>8, <2>3 DEF Explain, Respond, Goto, Applied, TypeOK
  <2>9. ~Insert(c) /\ ~Rerank(c)
    BY <2>2, <2>3 DEF Insert, Rerank, CallOK, StageFits
  <2> QED BY <2>1, <2>4, <2>5, <2>6, <2>7, <2>8, <2>9
      DEF Moves, Step, CheckParentAlive, CheckCycle, Snapshot, RefuseUpdate, NothingToSet,
          WriteUpdate, WriteRestore, WriteHold, WriteUnhold, WriteTombstone, AlreadyDeleted,
          WritePurge, Reread
<1> QED BY <1>3, <1>4

LEMMA RivalStep ==
    ASSUME IInv, NEW c \in Calls, Moves(c)
    PROVE  NoRivals'
<1> USE DEF IInv
<1>0. OthersUntouched(c)
  BY GuaranteeStep DEF Guarantee
<1>1. \A d \in Calls : d # c =>
        /\ req'[d] = req[d] /\ expected'[d] = expected[d]
        /\ VersionChecked(d)' <=> VersionChecked(d)
        /\ Applied(d)' <=> Applied(d)
  BY <1>0 DEF OthersUntouched, VersionChecked, Applied, ConditionalSave, SetsNothing
<1> SUFFICES ASSUME NEW d \in Calls, NEW e \in Calls,
                    Rival(d, e)', VersionChecked(d)', Applied(e)'
             PROVE  FALSE
  BY DEF NoRivals
<1>2. CASE d = c
  <2>1. /\ req'[c] = req[c] /\ expected'[c] = expected[c] /\ ConditionalSave(c)
        /\ VersionChecked(c) \/ (rows[req[c].id] # Absent /\ rows[req[c].id].updated = expected[c])
    BY <1>2, NewlyChecked
  <2>2. Rival(c, e) /\ Applied(e)
    BY <1>1, <1>2, <2>1 DEF Rival
  <2>3. rows[req[e].id] = Absent \/ rows[req[e].id].updated > expected[e]
    BY <2>2 DEF CallOK, VersionFits
  <2>4. expected[c] \in Nat
    BY DEF TypeOK, Stamps
  <2> QED BY <2>1, <2>2, <2>3, <2>4 DEF Rival
<1>3. CASE e = c
  <2>1. VersionChecked(c)'
    BY <1>3 DEF Applied, VersionChecked
  <2>2. req'[c] = req[c] /\ expected'[c] = expected[c]
    BY <2>1, NewlyChecked
  <2>3. Rival(d, c) /\ Rival(c, d) /\ VersionChecked(d)
    BY <1>1, <1>3, <2>2 DEF Rival
  <2>4. Applied(c) \/ (Editing(c) /\ VersionChecked(c))
    BY <1>3, NewlyApplied
  <2>5. Applied(d) \/ Editing(d)
    BY <2>3 DEF VersionChecked, Applied, Editing, ConditionalSave
  <2>6. ~(Editing(c) /\ Editing(d))
    BY <2>3 DEF CallOK, Rival
  <2> QED BY <2>3, <2>4, <2>5, <2>6
<1>4. CASE d # c /\ e # c
  BY <1>1, <1>4 DEF Rival
<1> QED BY <1>2, <1>3, <1>4

LEMMA RowsStep ==
    ASSUME IInv, TypeOK', NEW c \in Calls, Guarantee(c), GraphHandled(c)
    PROVE  RowsOK'
<1> USE DEF IInv
<1> SUFFICES ASSUME NEW i \in Items, rows'[i] # Absent
             PROVE  /\ i \in born'
                    /\ rows'[i].parent # NoItem => rows'[i].parent \in born'
                    /\ rows'[i].updated <= clock'
  BY DEF RowsOK
<1>1. clock \in Nat /\ clock' \in Nat /\ clock <= clock' /\ born \subseteq born'
  BY DEF TypeOK, Guarantee
<1>2. RowHandled(c, i)
  BY DEF Guarantee
<1>3. i \in born'
  BY <1>1, <1>2 DEF RowHandled, RowsOK
<1>4. rows'[i].updated <= clock'
  <2>1. CASE rows'[i] = rows[i]
    <3>1. rows[i].updated <= clock /\ rows[i].updated \in Nat
      BY <2>1, RowTyped DEF RowsOK, Row, Stamps
    <3> QED BY <1>1, <2>1, <3>1
  <2>2. CASE rows'[i] # rows[i]
    BY <1>1, <1>2, <2>2 DEF RowHandled
  <2> QED BY <2>1, <2>2
<1>5. ParentsOf(rows')[i] = rows'[i].parent
  BY DEF ParentsOf
<1>6. ParentsOf(rows)[i] \in born \cup {NoItem}
  BY DEF ParentsOf, RowsOK
<1>7. ParentsOf(rows')[i] \in born \cup {NoItem}
  BY <1>6, ParentsTyped DEF GraphHandled, TypeOK, Graphs
<1> QED BY <1>1, <1>3, <1>4, <1>5, <1>7

LEMMA PurgeStep ==
    ASSUME IInv, NEW c \in Calls, Guarantee(c)
    PROVE  PurgeOnRecord'
<1> SUFFICES ASSUME NEW i \in born', rows'[i] = Absent
             PROVE  \E rev \in revisions' : rev.item = i /\ rev.reason = "purge"
  BY DEF PurgeOnRecord
<1>1. i \in born /\ i \in Items
  BY DEF Guarantee, IInv, TypeOK
<1>2. RowHandled(c, i) /\ revisions \subseteq revisions'
  BY <1>1 DEF Guarantee
<1> QED BY <1>1, <1>2 DEF RowHandled, IInv, PurgeOnRecord

LEMMA AnchorStep ==
    ASSUME IInv, NEW c \in Calls, Moves(c)
    PROVE  RuleHasAnchor'
<1> USE DEF IInv
<1> SUFFICES ASSUME NEW i \in Items, rows'[i] # Absent
             PROVE  Anchored(rows'[i].rule, rows'[i].due)
  BY DEF RuleHasAnchor
<1>1. rows[i] # Absent => Anchored(rows[i].rule, rows[i].due)
  BY DEF RuleHasAnchor
<1>2. CASE Insert(c)
  <2>1. PICK j \in Items \ born : rows' = [rows EXCEPT ![j] = NewRow(req[c])]
    BY <1>2 DEF Insert
  <2>2. Anchored(NewRow(req[c]).rule, NewRow(req[c]).due)
    BY <1>2 DEF Insert, CallOK, StageFits, Invalid, NewRow
  <2> QED BY <1>1, <2>1, <2>2 DEF TypeOK
<1>3. CASE WriteUpdate(c) /\ i = req[c].id /\ rows[i] # Absent
  <2>1. rows'[i] = [Merged(rows[i], req[c]) EXCEPT !.updated = now]
    BY <1>3 DEF WriteUpdate, Write, Overwritten, TypeOK
  <2>2. rows[i] \in Row /\ Merged(rows[i], req[c]) \in Row
    BY <1>3, RowTyped, MergedTyped, RequestsTyped
  <2>3. rows'[i].rule = Merged(rows[i], req[c]).rule /\ rows'[i].due = Merged(rows[i], req[c]).due
    BY <2>1, <2>2 DEF Row
  <2>4. SameEdit(rows[i], seen[c]) /\ seen[c] \in Row
    BY <1>3 DEF WriteUpdate, CallOK, SeenFits, HasRead
  <2>5. /\ Merged(rows[i], req[c]).rule = Merged(seen[c], req[c]).rule
        /\ Merged(rows[i], req[c]).due = Merged(seen[c], req[c]).due
    BY <2>2, <2>4 DEF SameEdit, Merged, Row
  <2>6. ~Stranded(c)
    BY <1>3 DEF WriteUpdate
  <2> QED BY <2>3, <2>5, <2>6 DEF Stranded
<1>4. CASE ~Insert(c) /\ ~(WriteUpdate(c) /\ i = req[c].id /\ rows[i] # Absent)
  <2>1. rows[i] # Absent /\ rows'[i].rule = rows[i].rule /\ rows'[i].due = rows[i].due
    <3>1. CASE UNCHANGED rows
      BY <3>1
    <3>2. CASE WriteUpdate(c) \/ WriteRestore(c) \/ WriteHold(c) \/ WriteUnhold(c) \/ WriteTombstone(c)
      <4>1. PICK row :
               /\ Write(c, row)
               /\ rows[req[c].id] # Absent =>
                     SameEdit(row, rows[req[c].id]) \/ WriteUpdate(c)
        BY <3>2, UpdateStatements
      <4>2. CASE i = req[c].id /\ rows[i] # Absent
        BY <1>4, <4>1, <4>2 DEF Write, Overwritten, TypeOK, SameEdit
      <4>3. CASE ~(i = req[c].id /\ rows[i] # Absent)
        BY <4>1, <4>3 DEF Write, Overwritten, TypeOK
      <4> QED BY <4>2, <4>3
    <3>3. CASE WritePurge(c)
      BY <3>3 DEF WritePurge, TypeOK
    <3>4. CASE Rerank(c)
      <4>1. rows[i] # Absent
        BY <3>4 DEF Rerank
      <4>2. rows[i] \in Row
        BY <4>1, RowTyped
      <4> QED BY <3>4, <4>1, <4>2 DEF Rerank, Row
    <3>5. CASE Snapshot(c)
      BY <3>1, <3>5 DEF Snapshot
    <3> QED BY <1>4, <3>1, <3>2, <3>3, <3>4, <3>5, ReadingSteps DEF Moves, Step
  <2> QED BY <1>1, <2>1
<1> QED BY <1>2, <1>3, <1>4

-----------------------------------------------------------------------------
(* A crash takes every call in flight and the mutex, and leaves the tables.  *)
LEMMA CrashStep ==
    ASSUME IInv, Crash
    PROVE  IInv'
<1> USE DEF IInv
<1>1. UNCHANGED <<rows, revisions, born, req, expected, clock>>
  BY DEF Crash
<1>2. TypeOK'
  BY ConstantsAssumption DEF Crash, TypeOK, Stages, Statuses
<1>3. \A c \in Calls :
        /\ pc'[c] \in {"idle", "done"}
        /\ pc[c] = "idle" <=> pc'[c] = "idle"
        /\ answer'[c] = answer[c] \/ (answer'[c] = "lost" /\ pc'[c] = "done")
  BY DEF Crash, InFlight, TypeOK
<1>4. \A c \in Calls : Applied(c)' => Applied(c)
  BY <1>1, <1>3 DEF Applied, ConditionalSave, SetsNothing
<1>5. \A c \in Calls : VersionChecked(c)' => VersionChecked(c)
  BY <1>1, <1>3 DEF VersionChecked, ConditionalSave, SetsNothing
<1>6. ASSUME NEW c \in Calls
      PROVE  CallOK(c)'
  <2>1. CallOK(c)
    OBVIOUS
  <2>2. StageFits(c)' /\ SeenFits(c)' /\ SnapshotTaken(c)' /\ ParentChecked(c)' /\ ~Editing(c)'
    BY <1>1, <1>3, <2>1 DEF CallOK, StageFits, SeenFits, HasRead, SnapshotTaken, ParentChecked, Editing
  <2>3. ConditionalSave(c)' <=> ConditionalSave(c)
    BY <1>1 DEF ConditionalSave, SetsNothing
  <2>4. pc'[c] # "done" => answer'[c] = "none"
    BY <1>3, <2>1 DEF CallOK, VersionFits
  <2>5. VersionFits(c)'
    BY <1>1, <1>4, <2>1, <2>3, <2>4 DEF VersionFits, CallOK
  <2> QED BY <2>2, <2>5 DEF CallOK
<1>7. NoRivals'
  BY <1>1, <1>4, <1>5 DEF NoRivals, Rival
<1>8. RowsOK' /\ Forest' /\ PurgeOnRecord' /\ RuleHasAnchor'
  BY <1>1 DEF RowsOK, Forest, PurgeOnRecord, RuleHasAnchor
<1> QED BY <1>2, <1>6, <1>7, <1>8 DEF NoRivals

LEMMA StutterStep ==
    ASSUME IInv, UNCHANGED vars
    PROVE  IInv'
<1>1. UNCHANGED <<rows, revisions, born, mutex, pc, req, expected, seen, answer, clock, faults>>
  BY DEF vars, local
<1>2. TypeOK' /\ RowsOK' /\ Forest' /\ PurgeOnRecord' /\ RuleHasAnchor'
  BY <1>1 DEF IInv, TypeOK, RowsOK, Forest, PurgeOnRecord, RuleHasAnchor
<1>3. \A c \in Calls : CallOK(c)'
  BY <1>1 DEF IInv, CallOK, Editing, StageFits, SeenFits, HasRead, SnapshotTaken, OnRecord, ParentChecked,
     ClosesCycle, VersionFits, Applied, ConditionalSave, SetsNothing, NamesParent, Invalid
<1>4. NoRivals'
  BY <1>1 DEF IInv, NoRivals, Rival, VersionChecked, Applied, ConditionalSave, SetsNothing
<1> QED BY <1>2, <1>3, <1>4 DEF IInv, NoRivals

LEMMA InitInvariant == Init => IInv
<1> SUFFICES ASSUME Init PROVE IInv
  OBVIOUS
<1>1. rows \in [Items -> Row \cup {Absent}] /\ BuiltByCreates(rows)
  BY ConstantsAssumption DEF Init
<1>2. TypeOK
  BY <1>1, ConstantsAssumption DEF Init, TypeOK, Stages, Statuses, Stamps, Never, FirstStamp
<1>3. \A c \in Calls : CallOK(c)
  BY DEF Init, CallOK, Editing, StageFits, SeenFits, HasRead, SnapshotTaken, ParentChecked, VersionFits,
     Applied, ConditionalSave, NoRequest, Never, FirstStamp
<1>4. NoRivals
  BY DEF Init, NoRivals, VersionChecked, ConditionalSave, NoRequest
<1>5. RowsOK
  <2> SUFFICES ASSUME NEW i \in Items, rows[i] # Absent
               PROVE  /\ i \in born
                      /\ rows[i].parent # NoItem => rows[i].parent \in born
                      /\ rows[i].updated <= clock
    BY DEF RowsOK
  <2>1. i \in born /\ rows[i].updated = FirstStamp /\ clock = FirstStamp
    BY <1>1 DEF Init, BuiltByCreates
  <2>2. rows[i].parent \in Items \cup {NoItem}
    BY <1>1 DEF Row
  <2>3. rows[i].parent # NoItem => rows[i].parent \in born
    BY <1>1, <2>2 DEF Init, BuiltByCreates
  <2> QED BY <2>1, <2>3 DEF FirstStamp
<1>6. Forest /\ PurgeOnRecord /\ RuleHasAnchor
  BY <1>1 DEF Init, BuiltByCreates, Forest, PurgeOnRecord, RuleHasAnchor
<1> QED BY <1>2, <1>3, <1>4, <1>5, <1>6 DEF IInv, NoRivals

LEMMA InvariantStep ==
    ASSUME IInv, [Next]_vars
    PROVE  IInv'
<1>1. ASSUME NEW c \in Calls, Moves(c) PROVE IInv'
  <2>1. TypeOK'
    BY <1>1, TypeStep
  <2>2. Guarantee(c) /\ GraphHandled(c)
    BY <1>1, GuaranteeStep, GraphStep
  <2>3. \A d \in Calls : CallOK(d)'
    <3> TAKE d \in Calls
    <3>1. CASE d = c
      BY <1>1, <2>1, <3>1, OwnStep
    <3>2. CASE d # c
      BY <2>1, <2>2, <3>2, RelyStep
    <3> QED BY <3>1, <3>2
  <2>4. NoRivals'
    BY <1>1, RivalStep
  <2>5. RowsOK' /\ Forest' /\ PurgeOnRecord' /\ RuleHasAnchor'
    BY <1>1, <2>1, <2>2, RowsStep, ForestStep, PurgeStep, AnchorStep
  <2> QED BY <2>1, <2>3, <2>4, <2>5 DEF IInv, NoRivals
<1>2. CASE Crash
  BY <1>2, CrashStep
<1>3. CASE AllDone \/ UNCHANGED vars
  BY <1>3, StutterStep DEF AllDone
<1> QED BY <1>1, <1>2, <1>3 DEF Next, Moves

(* The inductive invariant holds in every reachable state.                   *)
THEOREM Invariant == Spec => []IInv
<1>1. IInv /\ [Next]_vars => IInv'
  BY InvariantStep
<1> QED BY <1>1, InitInvariant, PTL DEF Spec

-----------------------------------------------------------------------------
(* The results.                                                              *)

(* Every variable keeps its type, whatever requests arrive and fail.         *)
THEOREM TypeCorrect == Spec => []TypeOK
<1>1. IInv => TypeOK
  BY DEF IInv
<1> QED BY <1>1, Invariant, PTL

(* The parent graph is a forest at every moment, although checkParent and    *)
(* the write it licenses are three separate statements.                      *)
THEOREM AlwaysForest == Spec => []Forest
<1>1. IInv => Forest
  BY DEF IInv
<1> QED BY <1>1, Invariant, PTL

(* Nothing leaves the table without a purge revision, crash or no crash.     *)
THEOREM PurgesOnRecord == Spec => []PurgeOnRecord
<1>1. IInv => PurgeOnRecord
  BY DEF IInv
<1> QED BY <1>1, Invariant, PTL

(* A parent that matches no row was purged: it is never an id that was       *)
(* mistyped.                                                                 *)
THEOREM ParentsWereReal == Spec => []ParentWasReal
<1>1. IInv => ParentWasReal
  BY DEF IInv, RowsOK, PurgeOnRecord, ParentWasReal
<1> QED BY <1>1, Invariant, PTL

(* No stored rule loses the due date it counts from.                         *)
THEOREM RulesHaveAnchors == Spec => []RuleHasAnchor
<1>1. IInv => RuleHasAnchor
  BY DEF IInv
<1> QED BY <1>1, Invariant, PTL

(* However many conditional saves race for one version, one wins.            *)
THEOREM OneSaveWins == Spec => []OneWinner
<1>1. IInv => OneWinner
  <2> SUFFICES ASSUME IInv, NEW c \in Calls, NEW d \in Calls, c # d,
                      ConditionalSave(c), answer[c] = "ok",
                      ConditionalSave(d), answer[d] = "ok",
                      req[c].id = req[d].id, expected[c] = expected[d]
               PROVE  FALSE
    BY DEF OneWinner
  <2>1. Rival(c, d) /\ VersionChecked(c) /\ Applied(d)
    BY DEF Rival, VersionChecked, Applied
  <2> QED BY <2>1 DEF IInv
<1> QED BY <1>1, Invariant, PTL

(* A purge is final, whatever was under way when the row went.               *)
THEOREM PurgesAreFinal == Spec => PurgeIsFinal
<1>1. ASSUME IInv, [Next]_vars
      PROVE  [\A i \in born : rows[i] = Absent => rows'[i] = Absent]_vars
  <2>1. ASSUME NEW c \in Calls, Moves(c), NEW i \in born, rows[i] = Absent
        PROVE  rows'[i] = Absent
    <3>1. Guarantee(c) /\ i \in Items
      BY <1>1, <2>1, GuaranteeStep DEF IInv, TypeOK
    <3> QED BY <2>1, <3>1 DEF Guarantee, RowHandled
  <2>2. CASE Crash
    BY <2>2 DEF Crash
  <2>3. CASE AllDone \/ UNCHANGED vars
    BY <2>3 DEF AllDone
  <2> QED BY <1>1, <2>1, <2>2, <2>3 DEF Next, Moves
<1> QED BY <1>1, Invariant, PTL DEF Spec, PurgeIsFinal

(* Whatever a write replaces in content or parent is in item_revisions.      *)
THEOREM OverwritesOnRecord == Spec => OverwriteOnRecord
<1> DEFINE Kept == \A i \in Items :
             /\ rows[i] # Absent /\ rows'[i] # Absent
             /\ <<rows'[i].content, rows'[i].parent>> # <<rows[i].content, rows[i].parent>>
             => OnRecord(i, rows[i], revisions)
<1>1. ASSUME IInv, [Next]_vars PROVE [Kept]_vars
  <2>1. ASSUME NEW c \in Calls, Moves(c), NEW i \in Items, rows[i] # Absent, rows'[i] # Absent,
               <<rows'[i].content, rows'[i].parent>> # <<rows[i].content, rows[i].parent>>
        PROVE  OnRecord(i, rows[i], revisions)
    <3>1. RowHandled(c, i) /\ i \in born
      BY <1>1, <2>1, GuaranteeStep DEF Guarantee, IInv, RowsOK
    <3>2. Editing(c) /\ rows'[i] # rows[i] /\ ~SameEdit(rows'[i], rows[i])
      BY <2>1, <3>1 DEF RowHandled, SameEdit
    <3>3. WriteUpdate(c)
      BY <2>1, <3>2, <1>1 DEF Moves, Step, Begin, CheckParentAlive, CheckCycle, Insert, Lock, Read, Snapshot,
         RefuseUpdate, NothingToSet, WriteRestore, WriteHold, WriteUnhold, WriteTombstone,
         AlreadyDeleted, WritePurge, Reread, Explain, Rerank, StatementFails, Editing, IInv, CallOK, StageFits
    <3>4. i = req[c].id
      BY <1>1, <2>1, <3>3 DEF WriteUpdate, Write, Overwritten, IInv, TypeOK
    <3>5. SameEdit(rows[i], seen[c]) /\ OnRecord(i, seen[c], revisions)
      BY <1>1, <2>1, <3>3, <3>4 DEF WriteUpdate, IInv, CallOK, SeenFits, HasRead, SnapshotTaken
    <3> QED BY <3>5 DEF SameEdit, OnRecord
  <2>2. CASE Crash
    BY <2>2 DEF Crash
  <2>3. CASE AllDone \/ UNCHANGED vars
    BY <2>3 DEF AllDone
  <2> QED BY <1>1, <2>1, <2>2, <2>3 DEF Next, Moves
<1> QED BY <1>1, Invariant, PTL DEF Spec, OverwriteOnRecord

-----------------------------------------------------------------------------
(* Every step leads on, and the mutex is where it should be: the two facts   *)
(* that, with the fairness of the lock, make every call end.                 *)

LEMMA Places ==
    /\ Place("idle") = 0 /\ Place("lock") = 1 /\ Place("read") = 2 /\ Place("snapshot") = 3
    /\ Place("alive") = 4 /\ Place("cycle") = 5 /\ Place("insert") = 6 /\ Place("rerank") = 6
    /\ Place("write") = 6 /\ Place("reread") = 7 /\ Place("explain") = 8 /\ Place("done") = 9
<1>1. Place("idle") = 0 /\ Place("lock") = 1 /\ Place("read") = 2 /\ Place("snapshot") = 3
  BY Zenon DEF Place
<1>2. Place("alive") = 4 /\ Place("cycle") = 5 /\ Place("insert") = 6 /\ Place("rerank") = 6
  BY Zenon DEF Place
<1>3. Place("write") = 6 /\ Place("reread") = 7 /\ Place("explain") = 8 /\ Place("done") = 9
  BY Zenon DEF Place
<1> QED BY <1>1, <1>2, <1>3

LEMMA PlaceOfStage ==
    ASSUME NEW stage \in Stages
    PROVE  /\ Place(stage) \in 0..9
           /\ stage # "done" => Place(stage) < 9
           /\ stage \notin {"explain", "done"} => Place(stage) < 8
BY Places DEF Stages

Onward(c) == Place(pc'[c]) > Place(pc[c])

LEMMA RespondOnward ==
    ASSUME TypeOK, NEW c \in Calls, NEW status, Respond(c, status), pc[c] # "done"
    PROVE  Onward(c) /\ mutex' # c
<1>1. pc'[c] = "done" /\ mutex' # c
  BY ConstantsAssumption DEF Respond, Goto, MutexAfter, TypeOK
<1>2. pc[c] \in Stages
  BY DEF TypeOK
<1>3. Place(pc[c]) \in 0..9 /\ Place(pc[c]) < 9 /\ Place("done") = 9
  BY <1>2, PlaceOfStage, Places
<1> QED BY <1>1, <1>3 DEF Onward

LEMMA StoreFailedOnward ==
    ASSUME TypeOK, NEW c \in Calls, NEW status, StoreFailed(c, status), pc[c] # "done",
           pc[c] = "explain" => req[c].op = "update"
    PROVE  Onward(c) /\ mutex' # c
<1>1. CASE req[c].op = "update" /\ pc[c] # "explain"
  <2>1. pc'[c] = "explain" /\ mutex' # c
    BY <1>1, ConstantsAssumption DEF StoreFailed, Goto, MutexAfter, TypeOK
  <2>2. pc[c] \in Stages
    BY DEF TypeOK
  <2>3. Place(pc[c]) \in 0..9 /\ Place(pc[c]) < 8 /\ Place("explain") = 8
    BY <1>1, <2>2, PlaceOfStage, Places
  <2> QED BY <2>1, <2>3 DEF Onward
<1>2. CASE ~(req[c].op = "update" /\ pc[c] # "explain")
  BY <1>2, RespondOnward DEF StoreFailed
<1> QED BY <1>1, <1>2

LEMMA ContinueOnward ==
    ASSUME TypeOK, NEW c \in Calls, NEW stage, Continue(c, stage), Place(stage) > Place(pc[c]),
           UNCHANGED req, mutex = c => Editing(c),
           req[c].op = "update" => stage \in {"read", "snapshot", "alive", "cycle", "write", "reread"}
    PROVE  Onward(c) /\ (mutex' = c => Editing(c)')
BY DEF TypeOK, Continue, Goto, Onward, Editing

(* Every action of a call leads it on, and it keeps the mutex only inside    *)
(* UpdateItem.                                                               *)
LEMMA OnwardStep ==
    ASSUME IInv, MutexHeldByEditor, NEW c \in Calls, Moves(c)
    PROVE  Onward(c) /\ (mutex' = c => Editing(c)') /\ pc[c] # "done"
<1>1. TypeOK /\ StageFits(c) /\ (mutex = c => Editing(c))
  BY ConstantsAssumption DEF IInv, CallOK, MutexHeldByEditor
<1>2. CASE Begin(c)
  <2>1. PICK r \in Requests :
          /\ req' = [req EXCEPT ![c] = r]
          /\ IF Invalid(r) THEN Respond(c, "bad_request") ELSE Continue(c, FirstStage(r))
    BY <1>2 DEF Begin
  <2>2. pc[c] = "idle" /\ mutex # c
    BY <1>1, <1>2 DEF Begin, Editing
  <2>3. CASE Invalid(r)
    BY <1>1, <2>1, <2>2, <2>3, RespondOnward
  <2>4. CASE ~Invalid(r)
    <3>1. mutex' = mutex /\ pc'[c] = FirstStage(r)
      BY <1>1, <2>1, <2>4 DEF Continue, Goto, TypeOK
    <3>2. FirstStage(r) \in {"insert", "alive", "lock", "rerank", "read"}
      BY <2>1, ConstantsAssumption, Zenon DEF FirstStage, RequestType
    <3>3. Place(FirstStage(r)) > Place("idle")
      BY <3>2, Places
    <3> QED BY <2>2, <3>1, <3>3 DEF Onward
  <2> QED BY <2>2, <2>3, <2>4
<1>3. CASE CheckParentAlive(c)
  <2>1. pc[c] = "alive" /\ UNCHANGED req
    BY <1>3 DEF CheckParentAlive
  <2>2. CASE StoreFailed(c, "bad_request")
    BY <1>1, <2>1, <2>2, StoreFailedOnward
  <2>3. CASE Continue(c, "insert") /\ req[c].op = "create"
    BY <1>1, <2>1, <2>3, ContinueOnward, Places
  <2>4. CASE Continue(c, "cycle")
    BY <1>1, <2>1, <2>4, ContinueOnward, Places
  <2> QED BY <1>3, <2>1, <2>2, <2>3, <2>4 DEF CheckParentAlive
<1>4. CASE CheckCycle(c)
  <2>1. pc[c] = "cycle" /\ UNCHANGED req
    BY <1>4 DEF CheckCycle
  <2>2. CASE StoreFailed(c, "bad_request")
    BY <1>1, <2>1, <2>2, StoreFailedOnward
  <2>3. CASE Continue(c, "write")
    BY <1>1, <2>1, <2>3, ContinueOnward, Places
  <2> QED BY <1>4, <2>1, <2>2, <2>3 DEF CheckCycle
<1>5. CASE Lock(c)
  <2>1. pc[c] = "lock" /\ pc'[c] = "read" /\ UNCHANGED req /\ req[c].op = "update"
    BY <1>1, <1>5 DEF Lock, Goto, TypeOK, StageFits
  <2> QED BY <2>1, Places DEF Onward, Editing
<1>6. CASE Read(c)
  <2>1. pc[c] = "read" /\ UNCHANGED req
    BY <1>6 DEF Read
  <2>2. CASE StoreFailed(c, "not_found")
    BY <1>1, <2>1, <2>2, StoreFailedOnward
  <2>3. CASE Respond(c, "changed") \/ Respond(c, "ok")
    BY <1>1, <2>1, <2>3, RespondOnward
  <2>4. CASE Goto(c, "snapshot") /\ UNCHANGED <<answer, mutex>>
    <3>1. pc'[c] = "snapshot" /\ mutex' = mutex
      BY <1>1, <2>4 DEF Goto, TypeOK
    <3>2. Onward(c)
      BY <2>1, <3>1, Places DEF Onward
    <3> QED BY <1>1, <2>1, <3>1, <3>2 DEF Editing
  <2> QED BY <1>6, <2>1, <2>2, <2>3, <2>4 DEF Read
<1>7. CASE Snapshot(c)
  <2>1. pc[c] = "snapshot" /\ UNCHANGED req
    BY <1>7 DEF Snapshot
  <2>2. CASE Continue(c, "alive")
    BY <1>1, <2>1, <2>2, ContinueOnward, Places
  <2>3. CASE Continue(c, "write")
    BY <1>1, <2>1, <2>3, ContinueOnward, Places
  <2> QED BY <1>7, <2>1, <2>2, <2>3 DEF Snapshot
<1>8. CASE RefuseUpdate(c)
  <2>1. pc[c] = "write" /\ StoreFailed(c, "bad_request")
    BY <1>8 DEF RefuseUpdate
  <2> QED BY <1>1, <2>1, StoreFailedOnward
<1>9. CASE NothingToSet(c) \/ WriteTombstone(c) \/ AlreadyDeleted(c) \/ WritePurge(c)
  <2>1. pc[c] = "write" /\ Respond(c, "ok")
    BY <1>9 DEF NothingToSet, WriteTombstone, AlreadyDeleted, WritePurge
  <2> QED BY <1>1, <2>1, RespondOnward
<1>10. CASE WriteUpdate(c) \/ WriteRestore(c) \/ WriteHold(c) \/ WriteUnhold(c)
  <2>1. pc[c] = "write" /\ Continue(c, "reread") /\ UNCHANGED req
    BY <1>10 DEF WriteUpdate, WriteRestore, WriteHold, WriteUnhold, Write
  <2> QED BY <1>1, <2>1, ContinueOnward, Places
<1>11. CASE Insert(c) \/ Rerank(c) \/ Explain(c)
  <2>1. pc[c] # "done" /\ \E status : Respond(c, status)
    BY <1>11 DEF Insert, Rerank, Explain
  <2> QED BY <1>1, <2>1, RespondOnward
<1>12. CASE Reread(c)
  <2>1. pc[c] = "reread" /\ (Respond(c, "ok") \/ StoreFailed(c, "not_found"))
    BY <1>12 DEF Reread
  <2> QED BY <1>1, <2>1, RespondOnward, StoreFailedOnward
<1>13. CASE StatementFails(c)
  <2>1. pc[c] # "done" /\ StoreFailed(c, FailureAnswer(req[c].op))
    BY <1>13 DEF StatementFails, StatementStages
  <2> QED BY <1>1, <2>1, StoreFailedOnward DEF StageFits
<1> QED BY <1>2, <1>3, <1>4, <1>5, <1>6, <1>7, <1>8, <1>9, <1>10, <1>11, <1>12, <1>13 DEF Moves, Step

(* The mutex is locked only while its holder is inside UpdateItem, and that  *)
(* holder does not wait for it: no chain of waiting calls, no deadlock.      *)
THEOREM MutexWithItsEditor == Spec => []MutexHeldByEditor
<1>1. Init => MutexHeldByEditor
  BY DEF Init, MutexHeldByEditor
<1>2. IInv /\ MutexHeldByEditor /\ [Next]_vars => MutexHeldByEditor'
  <2> SUFFICES ASSUME IInv, MutexHeldByEditor, [Next]_vars, mutex' # Free
               PROVE  Editing(mutex)'
    BY DEF MutexHeldByEditor
  <2>1. ASSUME NEW c \in Calls, Moves(c) PROVE Editing(mutex)'
    <3>1. Guarantee(c) /\ mutex \in Calls \cup {Free}
      BY <2>1, GuaranteeStep DEF IInv, TypeOK
    <3>2. CASE mutex' = c
      BY <2>1, <3>2, OnwardStep DEF Editing
    <3>3. CASE mutex' # c
      <4>1. mutex' = mutex /\ mutex \in Calls /\ mutex # c
        BY <3>1, <3>3 DEF Guarantee, MutexHandled
      <4>2. pc'[mutex] = pc[mutex] /\ req'[mutex] = req[mutex]
        BY <3>1, <4>1 DEF Guarantee, OthersUntouched
      <4>3. Editing(mutex)
        BY <4>1 DEF MutexHeldByEditor
      <4> QED BY <4>1, <4>2, <4>3 DEF Editing
    <3> QED BY <3>2, <3>3
  <2>2. CASE Crash
    BY <2>2 DEF Crash
  <2>3. CASE AllDone \/ UNCHANGED vars
    BY <2>3 DEF AllDone, vars, local, MutexHeldByEditor, Editing
  <2> QED BY <2>1, <2>2, <2>3 DEF Next, Moves
<1> QED BY <1>1, <1>2, Invariant, PTL DEF Spec

(* No step of any interleaving, failure or crash takes a handler back: each  *)
(* call ends after a bounded number of steps of its own.                     *)
THEOREM EveryStepOnward == Spec => CallsGoOnward
<1>1. ASSUME IInv, MutexHeldByEditor, [Next]_vars PROVE [OnlyOnward]_vars
  <2>1. ASSUME NEW c \in Calls, Moves(c) PROVE OnlyOnward
    <3>1. Onward(c)
      BY <1>1, <2>1, OnwardStep
    <3>2. \A d \in Calls : d # c => pc'[d] = pc[d]
      BY <1>1, <2>1, GuaranteeStep DEF Guarantee, OthersUntouched
    <3>3. pc[c] \in Stages
      BY <1>1 DEF IInv, TypeOK
    <3>4. Place(pc[c]) \in 0..9
      BY <3>3, PlaceOfStage
    <3>5. pc' # pc
      BY <3>1, <3>4 DEF Onward
    <3> QED BY <3>1, <3>2, <3>5 DEF Onward, OnlyOnward
  <2>2. CASE Crash
    <3>1. \A d \in Calls : pc'[d] = IF InFlight(d) THEN "done" ELSE pc[d]
      BY <2>2 DEF Crash
    <3>2. \A d \in Calls : InFlight(d) => Place("done") > Place(pc[d])
      <4> SUFFICES ASSUME NEW d \in Calls, InFlight(d) PROVE Place("done") > Place(pc[d])
        OBVIOUS
      <4>1. pc[d] \in Stages /\ pc[d] # "done"
        BY <1>1 DEF IInv, TypeOK, InFlight
      <4>2. Place(pc[d]) \in 0..9 /\ Place(pc[d]) < 9 /\ Place("done") = 9
        BY <4>1, PlaceOfStage, Places
      <4> QED BY <4>2
    <3>3. \A d \in Calls : InFlight(d) => pc'[d] # pc[d]
      BY <3>1 DEF InFlight
    <3> QED BY <3>1, <3>2, <3>3 DEF OnlyOnward
  <2>3. CASE AllDone \/ UNCHANGED vars
    BY <2>3 DEF AllDone
  <2> QED BY <1>1, <2>1, <2>2, <2>3 DEF Next, Moves
<1> QED BY <1>1, Invariant, MutexWithItsEditor, PTL DEF Spec, CallsGoOnward

-----------------------------------------------------------------------------
(* How far the two documented statements that the code does not keep do      *)
(* hold: the runs purge_race and stale_save show them violated by one PATCH  *)
(* beside a purge, and by one other write beside a PATCH; the theorems say   *)
(* that nothing else violates them.                                          *)

(* Who changes a row that stays one: the call whose item it is, with its     *)
(* UPDATE statement, or a rerank.                                            *)
LEMMA WhoWrites ==
    ASSUME IInv, NEW c \in Calls, Moves(c), NEW i \in Items,
           rows[i] # Absent, rows'[i] # Absent, rows'[i] # rows[i]
    PROVE  /\ req[c] \in Requests
           /\ \/ req[c].op = "rerank"
              \/ /\ req[c].op \notin {"create", "rerank"} /\ req[c].id = i
                 /\ pc[c] = "write" /\ pc'[c] \notin {"snapshot", "alive", "cycle", "write"}
           /\ SameEdit(rows'[i], rows[i]) \/ req[c].op = "update"
<1>1. TypeOK /\ StageFits(c) /\ RowHandled(c, i) /\ i \in born
  BY GuaranteeStep DEF IInv, CallOK, Guarantee, RowsOK
<1>2. SameEdit(rows'[i], rows[i]) \/ req[c].op = "update"
  BY <1>1 DEF RowHandled, Editing
<1>3. CASE Rerank(c)
  BY <1>1, <1>2, <1>3 DEF Rerank, StageFits
<1>4. CASE WriteUpdate(c) \/ WriteRestore(c) \/ WriteHold(c) \/ WriteUnhold(c) \/ WriteTombstone(c)
  <2>1. pc[c] = "write" /\ \E row : Write(c, row)
    BY <1>4 DEF WriteUpdate, WriteRestore, WriteHold, WriteUnhold, WriteTombstone
  <2>2. req[c].id = i
    BY <1>1, <2>1 DEF Write, Overwritten, TypeOK
  <2>3. pc'[c] \in {"reread", "done"}
    BY <1>1, <1>4 DEF WriteUpdate, WriteRestore, WriteHold, WriteUnhold, WriteTombstone,
                      Continue, Respond, Goto, TypeOK
  <2> QED BY <1>1, <1>2, <2>1, <2>2, <2>3 DEF StageFits
<1>5. CASE Insert(c)
  BY <1>1, <1>5 DEF Insert, TypeOK
<1>6. CASE WritePurge(c)
  BY <1>1, <1>6 DEF WritePurge, TypeOK
<1>7. CASE \/ CheckParentAlive(c) \/ CheckCycle(c) \/ Lock(c) \/ Read(c) \/ RefuseUpdate(c)
           \/ NothingToSet(c) \/ AlreadyDeleted(c) \/ Reread(c) \/ Explain(c)
           \/ StatementFails(c) \/ Begin(c) \/ Snapshot(c)
  BY <1>1, <1>7, ReadingSteps DEF Snapshot
<1> QED BY <1>3, <1>4, <1>5, <1>6, <1>7 DEF Moves, Step

(* An id that was a row and is none stays none.                              *)
LEMMA RowOfItsOwn ==
    ASSUME IInv, NEW c \in Calls, Moves(c), NEW i \in born
    PROVE  i \in Items /\ (rows[i] = Absent => rows'[i] = Absent)
BY GuaranteeStep DEF Guarantee, RowHandled, IInv, TypeOK

Saving(c) == ConditionalSave(c) /\ pc[c] \in {"snapshot", "alive", "cycle", "write"}

(* The version a conditional save was checked against is still the row's.    *)
VersionStands ==
    \A c \in Calls : Saving(c) =>
        rows[req[c].id] = Absent \/ rows[req[c].id].updated = expected[c]

(* A conditional save is in this stage because it was, or by its read.       *)
LEMMA SavingStep ==
    ASSUME IInv, NEW c \in Calls, Moves(c), Saving(c)'
    PROVE  /\ UNCHANGED <<req[c], expected[c]>>
           /\ \/ Saving(c)
              \/ rows' = rows /\ rows[req[c].id].updated = expected[c]
<1>1. TypeOK /\ StageFits(c) /\ VersionFits(c)
  BY DEF IInv, CallOK
<1>2. pc'[c] \in {"snapshot", "alive", "cycle", "write"}
  BY DEF Saving
<1>3. ~Begin(c)
  <2> SUFFICES ASSUME Begin(c) PROVE FALSE
    OBVIOUS
  <2>1. PICK r \in Requests :
          /\ req' = [req EXCEPT ![c] = r]
          /\ IF Invalid(r) THEN Respond(c, "bad_request") ELSE Continue(c, FirstStage(r))
    BY DEF Begin
  <2>2. r.op = "update"
    BY <1>1, <2>1 DEF Saving, ConditionalSave, TypeOK
  <2>3. FirstStage(r) = "lock"
    BY <2>2, Zenon DEF FirstStage
  <2>4. pc'[c] \in {"done", "lock"}
    BY <1>1, <2>1, <2>3 DEF Respond, Continue, Goto, TypeOK
  <2> QED BY <1>2, <2>4
<1>4. UNCHANGED <<req, expected>>
  BY <1>3 DEF Moves, Step, StatementFails, CheckParentAlive, CheckCycle, Insert, Lock, Read, Snapshot,
     RefuseUpdate, NothingToSet, WriteUpdate, WriteRestore, WriteHold, WriteUnhold, WriteTombstone,
     AlreadyDeleted, WritePurge, Reread, Explain, Rerank, Write
<1>5. ConditionalSave(c)
  BY <1>4 DEF Saving, ConditionalSave, SetsNothing
<1>6. CASE Read(c)
  <2>1. rows' = rows
    BY <1>6 DEF Read
  <2>2. VersionMatches(c)
    BY <1>1, <1>2, <1>6 DEF Read, StoreFailed, Respond, Goto, TypeOK
  <2>3. expected[c] # Never
    BY <1>1, <1>5 DEF VersionFits
  <2> QED BY <1>4, <2>1, <2>2, <2>3 DEF VersionMatches
<1>7. CASE ~Read(c)
  <2>1. pc[c] \in {"snapshot", "alive", "cycle", "write"}
    <3>1. CASE CheckParentAlive(c) \/ CheckCycle(c) \/ Snapshot(c)
      BY <3>1 DEF CheckParentAlive, CheckCycle, Snapshot
    <3>2. CASE RefuseUpdate(c) \/ NothingToSet(c) \/ WriteUpdate(c) \/ WriteRestore(c) \/ WriteHold(c)
               \/ WriteUnhold(c) \/ WriteTombstone(c) \/ AlreadyDeleted(c) \/ WritePurge(c)
      BY <3>2 DEF RefuseUpdate, NothingToSet, WriteUpdate, WriteRestore, WriteHold, WriteUnhold,
                  WriteTombstone, AlreadyDeleted, WritePurge
    <3>3. CASE Lock(c)
      BY <1>1, <1>2, <3>3 DEF Lock, Goto, TypeOK
    <3>4. CASE Insert(c) \/ Rerank(c) \/ Explain(c)
      BY <1>1, <1>2, <3>4 DEF Insert, Rerank, Explain, Respond, Goto, TypeOK
    <3>5. CASE Reread(c) \/ StatementFails(c)
      <4>1. \E status : StoreFailed(c, status) \/ Respond(c, status)
        BY <3>5 DEF Reread, StatementFails
      <4>2. pc'[c] \in {"explain", "done"}
        BY <1>1, <4>1 DEF StoreFailed, Respond, Goto, TypeOK
      <4> QED BY <1>2, <4>2
    <3> QED BY <1>3, <1>7, <3>1, <3>2, <3>3, <3>4, <3>5 DEF Moves, Step
  <2> QED BY <1>4, <1>5, <2>1 DEF Saving
<1> QED BY <1>6, <1>7

(* If items that are saved conditionally are otherwise only patched, no      *)
(* stale save is applied: the mutex covers the whole of UpdateItem, so only  *)
(* the handlers that do not take it can move the version under a save.       *)
THEOREM OnlyOthersMakeSavesStale ==
    ASSUME \A r, s \in Requests :
              r.op = "update" /\ r.ifMatch /\ s.op \notin {"create", "update"} =>
                 s.op # "rerank" /\ s.id # r.id
    PROVE  Spec => StaleSaveRefused
<1>1. Init => VersionStands
  BY DEF Init, VersionStands, Saving
<1>2. IInv /\ VersionStands /\ [Next]_vars => VersionStands'
  <2> SUFFICES ASSUME IInv, VersionStands, [Next]_vars, NEW d \in Calls, Saving(d)',
                      rows'[req'[d].id] # Absent
               PROVE  rows'[req'[d].id].updated = expected'[d]
    BY DEF VersionStands
  <2>1. ASSUME NEW c \in Calls, Moves(c)
        PROVE  rows'[req'[d].id].updated = expected'[d]
    <3>1. /\ UNCHANGED <<req[d], expected[d]>>
          /\ Saving(d) \/ (rows' = rows /\ rows[req[d].id].updated = expected[d])
      <4>1. CASE d = c
        BY <2>1, <4>1, SavingStep
      <4>2. CASE d # c
        <5>1. /\ pc'[d] = pc[d] /\ req'[d] = req[d] /\ expected'[d] = expected[d]
          BY <2>1, <4>2, GuaranteeStep DEF Guarantee, OthersUntouched
        <5> QED BY <5>1 DEF Saving, ConditionalSave, SetsNothing
      <4> QED BY <4>1, <4>2
    <3>2. CASE Saving(d)
      <4> DEFINE i == req[d].id
      <4>1. i \in born /\ req[d] \in Requests /\ req[d].op = "update" /\ req[d].ifMatch /\ mutex = d
        BY <3>2 DEF IInv, CallOK, Saving, ConditionalSave, SeenFits, HasRead, StageFits, Editing
      <4>2. i \in Items /\ rows[i] # Absent /\ rows'[i] # Absent
        BY <2>1, <3>1, <4>1, RowOfItsOwn
      <4>3. rows[i].updated = expected[d]
        BY <3>2, <4>2 DEF VersionStands
      <4>4. ASSUME rows'[i] # rows[i] PROVE FALSE
        <5>1. /\ req[c] \in Requests
              /\ \/ req[c].op = "rerank"
                 \/ /\ req[c].op \notin {"create", "rerank"} /\ req[c].id = i
                    /\ pc[c] = "write" /\ pc'[c] \notin {"snapshot", "alive", "cycle", "write"}
          BY <2>1, <4>2, <4>4, WhoWrites
        <5>2. req[c].op = "update" /\ pc[c] = "write"
          BY <4>1, <5>1
        <5>3. mutex = c
          BY <5>2 DEF IInv, CallOK, Editing
        <5>4. pc'[c] \notin {"snapshot", "alive", "cycle", "write"}
          BY <5>1, <5>2
        <5> QED BY <4>1, <5>3, <5>4 DEF Saving
      <4> QED BY <3>1, <4>3, <4>4
    <3> QED BY <3>1, <3>2
  <2>2. CASE Crash
    <3>1. pc'[d] \in {"idle", "done"}
      BY <2>2 DEF Crash, InFlight
    <3> QED BY <3>1 DEF Saving
  <2>3. CASE AllDone \/ UNCHANGED vars
    BY <2>3 DEF AllDone, vars, local, VersionStands, Saving, ConditionalSave, SetsNothing
  <2> QED BY <2>1, <2>2, <2>3 DEF Next, Moves
<1>3. VersionStands /\ [Next]_vars =>
        [\A c \in Calls :
           /\ ConditionalSave(c) /\ pc[c] = "write" /\ pc'[c] = "reread"
           /\ rows[req[c].id] # Absent
           => rows[req[c].id].updated = expected[c]]_vars
  BY DEF VersionStands, Saving
<1> QED BY <1>1, <1>2, <1>3, Invariant, PTL DEF Spec, StaleSaveRefused

(* Only the DELETE of a purge takes a row away.                              *)
LEMMA WhoPurges ==
    ASSUME IInv, NEW c \in Calls, Moves(c), NEW i \in Items, rows[i] # Absent, rows'[i] = Absent
    PROVE  WritePurge(c) /\ i = req[c].id
<1>1. TypeOK /\ StageFits(c) /\ clock \in Nat
  BY DEF IInv, CallOK, TypeOK
<1>2. CASE Rerank(c)
  <2>1. PICK listed \in SUBSET Items :
          rows' = [j \in Items |-> IF j \in listed /\ rows[j] # Absent
                                   THEN [rows[j] EXCEPT !.updated = now] ELSE rows[j]]
    BY <1>2 DEF Rerank
  <2>2. rows[i] \in Row /\ now \in Stamps
    BY <1>1, RowTyped DEF now, Stamps
  <2>3. [rows[i] EXCEPT !.updated = now] \in Row
    BY <2>2 DEF Row
  <2>4. rows'[i] # Absent
    BY <2>1, <2>3, ConstantsAssumption
  <2> QED BY <2>4
<1>3. CASE WriteUpdate(c) \/ WriteRestore(c) \/ WriteHold(c) \/ WriteUnhold(c) \/ WriteTombstone(c)
  <2>1. PICK row : /\ Write(c, row)
                   /\ rows[req[c].id] # Absent => row # Absent
    BY <1>3, UpdateStatements
  <2>2. rows'[i] # Absent
    BY <1>1, <2>1 DEF Write, Overwritten, TypeOK
  <2> QED BY <2>2
<1>4. CASE Insert(c)
  <2>1. i \in born
    BY DEF IInv, RowsOK
  <2> QED BY <1>1, <1>4, <2>1 DEF Insert, TypeOK
<1>5. CASE WritePurge(c)
  BY <1>1, <1>5 DEF WritePurge, TypeOK
<1>6. CASE \/ CheckParentAlive(c) \/ CheckCycle(c) \/ Lock(c) \/ Read(c) \/ RefuseUpdate(c)
           \/ NothingToSet(c) \/ AlreadyDeleted(c) \/ Reread(c) \/ Explain(c)
           \/ StatementFails(c) \/ Begin(c) \/ Snapshot(c)
  BY <1>1, <1>6, ReadingSteps DEF Snapshot
<1> QED BY <1>2, <1>3, <1>4, <1>5, <1>6 DEF Moves, Step

Purging(c) == req[c].op = "purge" /\ pc[c] \in {"snapshot", "write"}

(* What a purge read, and at its last statement has on record, is what it is *)
(* about to take away.                                                       *)
PurgeFits(c) ==
    Purging(c) =>
        /\ rows[req[c].id] = Absent \/ SameEdit(rows[req[c].id], seen[c])
        /\ pc[c] = "write" => OnRecord(req[c].id, seen[c], revisions)

LEMMA OwnPurge ==
    ASSUME IInv, NEW c \in Calls, Moves(c), PurgeFits(c)
    PROVE  PurgeFits(c)'
<1> SUFFICES ASSUME Purging(c)' PROVE PurgeFits(c)'
  BY DEF PurgeFits
<1>1. TypeOK /\ StageFits(c)
  BY DEF IInv, CallOK
<1>2. pc'[c] \in {"snapshot", "write"} /\ req'[c].op = "purge"
  BY DEF Purging
<1>3. CASE Read(c)
  <2>1. rows' = rows /\ req' = req
    BY <1>3 DEF Read
  <2>2. pc'[c] = "snapshot" /\ seen'[c] = rows[req[c].id]
    BY <1>1, <1>2, <1>3 DEF Read, StoreFailed, Respond, Goto, TypeOK
  <2> QED BY <2>1, <2>2 DEF PurgeFits, SameEdit
<1>4. CASE Snapshot(c)
  <2>1. UNCHANGED <<rows, req, seen>> /\ pc[c] = "snapshot" /\ revisions' = Recorded(c)
    BY <1>4 DEF Snapshot, Continue
  <2>2. SnapshotOf(req[c].id, seen[c], Reason(req[c].op)) \in revisions'
    BY <2>1 DEF Recorded
  <2>3. OnRecord(req[c].id, seen[c], revisions')
    BY <2>2 DEF OnRecord, SnapshotOf
  <2> QED BY <1>2, <2>1, <2>3 DEF PurgeFits, Purging, OnRecord, SameEdit
<1>5. CASE Begin(c)
  <2>1. PICK r \in Requests :
          /\ req' = [req EXCEPT ![c] = r]
          /\ IF Invalid(r) THEN Respond(c, "bad_request") ELSE Continue(c, FirstStage(r))
    BY <1>5 DEF Begin
  <2>2. r.op = "purge"
    BY <1>1, <1>2, <2>1 DEF TypeOK
  <2>3. FirstStage(r) = "read"
    BY <2>2, Zenon DEF FirstStage
  <2>4. pc'[c] \in {"done", "read"}
    BY <1>1, <2>1, <2>3 DEF Respond, Continue, Goto, TypeOK
  <2> QED BY <1>2, <2>4
<1>6. CASE ~(Read(c) \/ Snapshot(c) \/ Begin(c))
  <2>1. req' = req
    BY <1>6 DEF Moves, Step, StatementFails, CheckParentAlive, CheckCycle, Insert, Lock, RefuseUpdate,
       NothingToSet, WriteUpdate, WriteRestore, WriteHold, WriteUnhold, WriteTombstone,
       AlreadyDeleted, WritePurge, Reread, Explain, Rerank, Write
  <2>2. req[c].op = "purge"
    BY <1>2, <2>1
  <2>3. WritePurge(c) \/ Reread(c) \/ StatementFails(c)
    BY <1>1, <1>6, <2>2 DEF Moves, Step, StageFits, CheckParentAlive, CheckCycle, Insert, Lock,
       RefuseUpdate, NothingToSet, WriteUpdate, WriteRestore, WriteHold, WriteUnhold, WriteTombstone,
       AlreadyDeleted, Explain, Rerank
  <2>4. \E status : StoreFailed(c, status) \/ Respond(c, status)
    BY <2>3 DEF WritePurge, Reread, StatementFails
  <2>5. pc'[c] = "done"
    BY <1>1, <2>2, <2>4 DEF StoreFailed, Respond, Goto, TypeOK
  <2> QED BY <1>2, <2>5
<1> QED BY <1>3, <1>4, <1>5, <1>6

(* If items that are purged are not patched, a purge leaves the content that *)
(* it takes away in item_revisions, whatever else is done to them meanwhile. *)
THEOREM OnlyPatchesOutrunPurges ==
    ASSUME \A r, s \in Requests : r.op = "purge" /\ s.op = "update" => r.id # s.id
    PROVE  Spec => PurgeKeepsContent
<1> DEFINE PurgesFit == \A c \in Calls : PurgeFits(c)
<1>1. Init => PurgesFit
  BY DEF Init, PurgeFits, Purging
<1>2. IInv /\ PurgesFit /\ [Next]_vars => PurgesFit'
  <2> SUFFICES ASSUME IInv, PurgesFit, [Next]_vars, NEW d \in Calls
               PROVE  PurgeFits(d)'
    OBVIOUS
  <2>1. ASSUME NEW c \in Calls, Moves(c), c # d PROVE PurgeFits(d)'
    <3> SUFFICES ASSUME Purging(d)' PROVE PurgeFits(d)'
      BY DEF PurgeFits
    <3> DEFINE i == req[d].id
    <3>1. pc'[d] = pc[d] /\ req'[d] = req[d] /\ seen'[d] = seen[d] /\ revisions \subseteq revisions'
      BY <2>1, GuaranteeStep DEF Guarantee, OthersUntouched
    <3>2. Purging(d)
      BY <3>1 DEF Purging
    <3>3. i \in born /\ req[d] \in Requests /\ req[d].op = "purge"
      BY <3>2 DEF IInv, CallOK, Purging, SeenFits, HasRead, StageFits
    <3>4. i \in Items /\ (rows[i] = Absent => rows'[i] = Absent)
      BY <2>1, <3>3, RowOfItsOwn
    <3>5. rows[i] # Absent /\ rows'[i] # Absent => SameEdit(rows'[i], rows[i])
      <4> SUFFICES ASSUME rows[i] # Absent, rows'[i] # Absent, rows'[i] # rows[i]
                   PROVE  SameEdit(rows'[i], rows[i])
        BY DEF SameEdit
      <4>1. /\ req[c] \in Requests /\ (req[c].op = "rerank" \/ req[c].id = i)
            /\ SameEdit(rows'[i], rows[i]) \/ req[c].op = "update"
        BY <2>1, <3>4, WhoWrites
      <4> QED BY <3>3, <4>1
    <3>6. rows[i] = Absent \/ SameEdit(rows[i], seen[d])
      BY <3>2 DEF PurgeFits
    <3>7. rows'[i] = Absent \/ SameEdit(rows'[i], seen[d])
      BY <3>4, <3>5, <3>6 DEF SameEdit
    <3>8. pc[d] = "write" => OnRecord(i, seen[d], revisions)
      BY <3>2 DEF PurgeFits
    <3> QED BY <3>1, <3>7, <3>8 DEF PurgeFits, OnRecord, SameEdit
  <2>2. ASSUME Moves(d) PROVE PurgeFits(d)'
    BY <2>2, OwnPurge
  <2>3. CASE Crash
    <3>1. pc'[d] \in {"idle", "done"}
      BY <2>3 DEF Crash, InFlight
    <3> QED BY <3>1 DEF PurgeFits, Purging
  <2>4. CASE AllDone \/ UNCHANGED vars
    BY <2>4 DEF AllDone, vars, local, PurgeFits, Purging, SameEdit, OnRecord
  <2> QED BY <2>1, <2>2, <2>3, <2>4 DEF Next, Moves
<1>3. IInv /\ PurgesFit /\ [Next]_vars =>
        [\A i \in Items : rows[i] # Absent /\ rows'[i] = Absent =>
            OnRecord(i, rows[i], revisions)]_vars
  <2> SUFFICES ASSUME IInv, PurgesFit, [Next]_vars, NEW i \in Items, rows[i] # Absent, rows'[i] = Absent
               PROVE  OnRecord(i, rows[i], revisions)
    OBVIOUS
  <2>1. ASSUME NEW c \in Calls, Moves(c) PROVE OnRecord(i, rows[i], revisions)
    <3>1. WritePurge(c) /\ i = req[c].id
      BY <2>1, WhoPurges
    <3>2. Purging(c) /\ pc[c] = "write"
      BY <3>1 DEF WritePurge, Purging
    <3>3. PurgeFits(c)
      OBVIOUS
    <3> QED BY <3>1, <3>2, <3>3 DEF PurgeFits, SameEdit, OnRecord
  <2>2. CASE Crash \/ AllDone \/ UNCHANGED vars
    BY <2>2 DEF Crash, AllDone, vars
  <2> QED BY <2>1, <2>2 DEF Next, Moves
<1> HIDE DEF PurgesFit
<1> QED BY <1>1, <1>2, <1>3, Invariant, PTL DEF Spec, PurgeKeepsContent

=============================================================================
