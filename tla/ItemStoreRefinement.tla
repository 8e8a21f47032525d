------------------------- MODULE ItemStoreRefinement --------------------------
(* ItemStore implements ItemLedger: what a handler does in several           *)
(* statements, with other handlers between any two of them, has the effect   *)
(* of one atomic step.                                                       *)
EXTENDS ItemStore

(* A row without its stamps.                                                 *)
EntryOf(row) ==
    IF row = Absent THEN Absent
    ELSE [content |-> row.content, parent |-> row.parent, due |-> row.due, rule |-> row.rule,
          deleted |-> row.deleted # Never, held |-> row.held # Never]

Entries(table) == [i \in Items |-> EntryOf(table[i])]

(* A delete that read a tombstone had its effect when it read it: by the     *)
(* time it is answered the item may have been restored.                      *)
FoundDeleted(c) ==
    req[c].op = "delete" /\ pc[c] \in {"snapshot", "write"} /\ seen[c].deleted # Never

PhaseOf(c) ==
    CASE pc[c] = "idle"                      -> "idle"
      [] pc[c] = "done" /\ answer[c] = "ok"      -> "ok"
      [] pc[c] = "done" /\ answer[c] = "changed" -> "changed"
      [] pc[c] = "done" /\ answer[c] \notin {"ok", "changed"} -> "failed"
      [] pc[c] = "explain"                   -> "failed"
      [] pc[c] = "reread" \/ FoundDeleted(c) -> "applied"
      [] OTHER                               -> "pending"

Progress == [c \in Calls |-> PhaseOf(c)]

Ledger == INSTANCE ItemLedger WITH
    items <- Entries(rows),
    history <- revisions,
    asked <- req,
    version <- expected,
    phase <- Progress

ASSUME EntryAssumption == Absent \notin Ledger!Entry

(* Every request that is answered with success took effect once, as a whole, *)
(* between its arrival and its answer, and no effect breaks the forest, the  *)
(* anchors, the record, the one winner of a version or the end of a purged   *)
(* item, however the statements of the handlers interleave, fail or stop.    *)
LedgerSpec == Ledger!Spec

=============================================================================
