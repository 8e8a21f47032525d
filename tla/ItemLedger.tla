----------------------------- MODULE ItemLedger ------------------------------
(* What the store promises to those who call it: a request that is answered  *)
(* with success took effect exactly once, at one moment between its arrival  *)
(* and its answer, on the item as it was at that moment, and every effect    *)
(* leaves a sound forest and what it replaced on record.  There are no       *)
(* statements, no mutex and no stamps here; ItemStore, where one request is  *)
(* several statements, implements it (ItemStoreRefinement).                  *)
EXTENDS ItemRequests

CONSTANT Calls          \* each makes one request

VARIABLES
    items,      \* what each id is: an entry, or Absent
    born,       \* ids that have been an entry; one that is Absent was purged
    history,    \* the states on record
    asked,      \* the request of each call
    version,    \* the version its If-Match names, 0 when there is none
    phase       \* what became of it

ledger == <<items, born, history, asked, version, phase>>

Entry == [content : Contents, parent : Items \cup {NoItem}, due : DueDates, rule : Rules,
          deleted : BOOLEAN, held : BOOLEAN]

(* "applied": the effect took place and the caller is not told yet.          *)
(* "failed": whatever it is told, it is not success; the effect may have     *)
(* taken place.  "changed": 412, and the effect did not take place.          *)
Phases == {"idle", "pending", "applied", "ok", "changed", "failed"}

Sound(entries, ids) ==
    /\ Acyclic(ParentsOf(entries))
    /\ \A i \in Items : entries[i] # Absent =>
          /\ i \in ids
          /\ entries[i].parent \in ids \cup {NoItem}
          /\ Anchored(entries[i].rule, entries[i].due)

Init ==
    /\ items \in [Items -> Entry \cup {Absent}]
    /\ born = {i \in Items : items[i] # Absent}
    /\ \A i \in born : ~items[i].deleted
    /\ Sound(items, born)
    /\ history = {}
    /\ asked = [c \in Calls |-> NoRequest]
    /\ version = [c \in Calls |-> 0]
    /\ phase = [c \in Calls |-> "idle"]

-----------------------------------------------------------------------------
(* The effects.                                                              *)

Created(r) ==
    [content |-> r.content, parent |-> Pick(r.parent, NoItem), due |-> Pick(r.due, "none"),
     rule |-> Pick(r.rule, "none"), deleted |-> FALSE, held |-> r.hold]

(* Nothing brings a purged item back.                                        *)
After(r, entry) ==
    IF entry = Absent \/ r.op = "purge" THEN Absent
    ELSE CASE r.op = "update"  -> Merged(entry, r)
           [] r.op = "delete"  -> [entry EXCEPT !.deleted = TRUE]
           [] r.op = "restore" -> [entry EXCEPT !.deleted = FALSE]
           [] r.op = "hold"    -> [entry EXCEPT !.held = TRUE]
           [] r.op = "unhold"  -> [entry EXCEPT !.held = FALSE]
           [] r.op = "rerank"  -> entry

Edited(entry, later) == <<later.content, later.parent>> # <<entry.content, entry.parent>>

Recorded(i, entry) ==
    \E rev \in history : rev.item = i /\ rev.content = entry.content /\ rev.parent = entry.parent

(* What an effect replaces is on record: the content and the parent that an  *)
(* edit overwrites, and that it was a purge.                                 *)
OnRecord(i, entry, r) ==
    entry # Absent =>
        /\ r.op = "update" /\ Edited(entry, Merged(entry, r)) => Recorded(i, entry)
        /\ r.op = "purge" => \E rev \in history : rev.item = i /\ rev.reason = "purge"

Succeeded(c) == phase[c] \in {"applied", "ok"}
Conditional(c) == asked[c].op = "update" /\ asked[c].ifMatch /\ ~SetsNothing(asked[c])

(* Of the conditional saves made against one version one wins.               *)
Unrivalled(c) ==
    \A d \in Calls \ {c} :
        ~(/\ Conditional(c) /\ Conditional(d) /\ Succeeded(d)
          /\ asked[c].id = asked[d].id /\ version[c] = version[d])

-----------------------------------------------------------------------------
Becomes(c, next) == phase' = [phase EXCEPT ![c] = next]

(* A request arrives; one that is not valid has failed at once.              *)
Arrive(c) ==
    /\ phase[c] = "idle"
    /\ asked'[c] \in RequestType /\ asked' = [asked EXCEPT ![c] = asked'[c]]
    /\ version'[c] \in Nat /\ version' = [version EXCEPT ![c] = version'[c]]
    /\ Becomes(c, "pending") \/ Becomes(c, "failed")
    /\ UNCHANGED <<items, born, history>>

Create(c) ==
    /\ phase[c] = "pending" /\ asked[c].op = "create"
    /\ \E i \in Items \ born :
         /\ items' = [items EXCEPT ![i] = Created(asked[c])]
         /\ born' = born \cup {i}
    /\ Sound(items', born')
    /\ Becomes(c, "ok")
    /\ UNCHANGED <<history, asked, version>>

(* The effect of every other request, with the answer or before it.          *)
Apply(c) ==
    /\ phase[c] = "pending" /\ asked[c].op # "create"
    /\ \A i \in Items : i = asked[c].id => OnRecord(i, items[i], asked[c])
    /\ Unrivalled(c)
    /\ items' = [i \in Items |-> IF i = asked[c].id THEN After(asked[c], items[i]) ELSE items[i]]
    /\ Sound(items', born)
    /\ Becomes(c, "applied") \/ Becomes(c, "ok")
    /\ UNCHANGED <<born, history, asked, version>>

Answer(c) ==
    /\ phase[c] = "applied"
    /\ Becomes(c, "ok")
    /\ UNCHANGED <<items, born, history, asked, version>>

(* A conditional save of a changed item is refused, and has no effect.       *)
Refuse(c) ==
    /\ phase[c] = "pending" /\ version[c] # 0
    /\ Becomes(c, "changed")
    /\ UNCHANGED <<items, born, history, asked, version>>

(* One call fails, or all that are under way when the process dies.          *)
Fail ==
    /\ \E lost \in SUBSET {c \in Calls : phase[c] \in {"pending", "applied"}} :
         phase' = [c \in Calls |-> IF c \in lost THEN "failed" ELSE phase[c]]
    /\ UNCHANGED <<items, born, history, asked, version>>

(* A state of an item goes on record; nothing ever leaves it.                *)
Record ==
    /\ \E c \in Calls :
         /\ phase[c] \in {"pending", "applied"}
         /\ \E rev \in history' :
              /\ history' = history \cup {rev}
              /\ rev.item = asked[c].id /\ rev.item \in born /\ rev.reason = asked[c].op
    /\ UNCHANGED <<items, born, asked, version, phase>>

Next ==
    \/ \E c \in Calls : Arrive(c) \/ Create(c) \/ Apply(c) \/ Answer(c) \/ Refuse(c)
    \/ Fail \/ Record

Spec == Init /\ [][Next]_ledger

=============================================================================
