-------------------------- MODULE StoreOpeningProofs --------------------------
(* Theorems of StoreOpening, for any number of processes, failures, deaths   *)
(* and outside locks: a store that opened is migrated and on WAL, and its    *)
(* index is complete if nothing went wrong.                                  *)
EXTENDS StoreOpening, TLAPS

-----------------------------------------------------------------------------
(* The list of statements.                                                   *)

LEMMA OpeningLength == Len(Opening) = 19 /\ DOMAIN Opening = 1..19
BY DEF Opening

LEMMA Statements ==
    /\ Opening[1].kind = "convert" /\ Opening[1].on = {}
    /\ Opening[2].kind = "create" /\ Opening[2].on = {"items"}
    /\ Opening[3].kind = "add" /\ Opening[3].on = {"deleted_at"}
    /\ Opening[4].kind = "verify" /\ Opening[4].on = {"deleted_at"}
    /\ Opening[5].kind = "add" /\ Opening[5].on = {"schedule"}
    /\ Opening[6].kind = "verify" /\ Opening[6].on = {"schedule"}
    /\ Opening[7].kind = "add" /\ Opening[7].on = {"held_at"}
    /\ Opening[8].kind = "add" /\ Opening[8].on = {"hold_reason"}
    /\ Opening[9].kind = "verify" /\ Opening[9].on = {"held_at", "hold_reason"}
    /\ Opening[10].kind = "add" /\ Opening[10].on = {"auto_hold_at_usd"}
    /\ Opening[11].kind = "verify" /\ Opening[11].on = {"auto_hold_at_usd"}
    /\ Opening[12].kind = "create" /\ Opening[12].on = {"item_revisions"}
    /\ Opening[13].kind = "look" /\ Opening[13].on = {"items_fts"}
    /\ Opening[14].kind = "create index" /\ Opening[14].on = {"items_fts"}
    /\ Opening[15].kind = "populate" /\ Opening[15].on = {"items_fts"}
    /\ Opening[16].kind = "trigger" /\ Opening[16].on = {"items_ai"}
    /\ Opening[17].kind = "trigger" /\ Opening[17].on = {"items_ad"}
    /\ Opening[18].kind = "trigger" /\ Opening[18].on = {"items_au"}
    /\ Opening[19].kind = "readers" /\ Opening[19].on = {}
<1>1. Opening[1].kind = "convert" /\ Opening[1].on = {}
  BY DEF Opening, Do
<1>2. Opening[2].kind = "create" /\ Opening[2].on = {"items"}
  BY DEF Opening, Do
<1>3. Opening[3].kind = "add" /\ Opening[3].on = {"deleted_at"}
  BY DEF Opening, Do
<1>4. Opening[4].kind = "verify" /\ Opening[4].on = {"deleted_at"}
  BY DEF Opening, Do
<1>5. Opening[5].kind = "add" /\ Opening[5].on = {"schedule"}
  BY DEF Opening, Do
<1>6. Opening[6].kind = "verify" /\ Opening[6].on = {"schedule"}
  BY DEF Opening, Do
<1>7. Opening[7].kind = "add" /\ Opening[7].on = {"held_at"}
  BY DEF Opening, Do
<1>8. Opening[8].kind = "add" /\ Opening[8].on = {"hold_reason"}
  BY DEF Opening, Do
<1>9. Opening[9].kind = "verify" /\ Opening[9].on = {"held_at", "hold_reason"}
  BY DEF Opening, Do
<1>10. Opening[10].kind = "add" /\ Opening[10].on = {"auto_hold_at_usd"}
  BY DEF Opening, Do
<1>11. Opening[11].kind = "verify" /\ Opening[11].on = {"auto_hold_at_usd"}
  BY DEF Opening, Do
<1>12. Opening[12].kind = "create" /\ Opening[12].on = {"item_revisions"}
  BY DEF Opening, Do
<1>13. Opening[13].kind = "look" /\ Opening[13].on = {"items_fts"}
  BY DEF Opening, Do
<1>14. Opening[14].kind = "create index" /\ Opening[14].on = {"items_fts"}
  BY DEF Opening, Do
<1>15. Opening[15].kind = "populate" /\ Opening[15].on = {"items_fts"}
  BY DEF Opening, Do
<1>16. Opening[16].kind = "trigger" /\ Opening[16].on = {"items_ai"}
  BY DEF Opening, Do
<1>17. Opening[17].kind = "trigger" /\ Opening[17].on = {"items_ad"}
  BY DEF Opening, Do
<1>18. Opening[18].kind = "trigger" /\ Opening[18].on = {"items_au"}
  BY DEF Opening, Do
<1>19. Opening[19].kind = "readers" /\ Opening[19].on = {}
  BY DEF Opening, Do
<1> QED BY <1>1, <1>2, <1>3, <1>4, <1>5, <1>6, <1>7, <1>8, <1>9, <1>10,
            <1>11, <1>12, <1>13, <1>14, <1>15, <1>16, <1>17, <1>18, <1>19, Zenon

LEMMA Positions ==
    ASSUME NEW n \in 1..19
    PROVE  \/ n = 1 \/ n = 2 \/ n = 3 \/ n = 4 \/ n = 5 \/ n = 6 \/ n = 7 \/ n = 8 \/ n = 9 \/ n = 10
           \/ n = 11 \/ n = 12 \/ n = 13 \/ n = 14 \/ n = 15 \/ n = 16 \/ n = 17 \/ n = 18 \/ n = 19
OBVIOUS

(* The statements that have one place.                                       *)
LEMMA Kinds ==
    ASSUME NEW n \in 1..19
    PROVE  /\ Opening[n].kind = "look" => n = 13
           /\ Opening[n].kind = "create index" => n = 14
<1> QED BY Positions, Statements

LEMMA Targets ==
    ASSUME NEW n \in 1..19
    PROVE  /\ Opening[n].kind \in {"create", "create index"} => Opening[n].on \subseteq Tables
           /\ Opening[n].kind = "add" => Opening[n].on \subseteq Columns
           /\ Opening[n].kind = "trigger" => Opening[n].on \subseteq Triggers
           /\ Opening[n].kind \in {"create", "trigger"} => "items_fts" \notin Opening[n].on
<1>1. Opening[n].kind \in {"create", "create index"} => n \in {2, 12, 14}
  BY Positions, Statements
<1>2. Opening[n].kind = "add" => n \in {3, 5, 7, 8, 10}
  BY Positions, Statements
<1>3. Opening[n].kind = "trigger" => n \in {16, 17, 18}
  BY Positions, Statements
<1>4. n \in {2, 12, 14} => Opening[n].on \subseteq Tables
  BY Statements DEF Tables
<1>5. n \in {3, 5, 7, 8, 10} => Opening[n].on \subseteq Columns
  BY Statements DEF Columns
<1>6. n \in {16, 17, 18} => Opening[n].on \subseteq Triggers
  BY Statements DEF Triggers
<1>7. Opening[n].kind = "create" => n \in {2, 12}
  BY Positions, Statements
<1>8. n \in {2, 12} => Opening[n].on \subseteq {"items", "item_revisions"}
  BY Statements
<1>9. "items_fts" \notin {"items", "item_revisions"} /\ "items_fts" \notin Triggers
  BY DEF Triggers
<1> QED BY <1>1, <1>2, <1>3, <1>4, <1>5, <1>6, <1>7, <1>8, <1>9

LEMMA TriggersComeAfterTheIndex == FirstTrigger = 16
<1> DEFINE Others == Columns \cup Tables \cup {"items_ad", "items_au"}
<1>1. ASSUME NEW n \in 1..19, n # 16 PROVE "items_ai" \notin Opening[n].on
  <2>1. n \in {3, 4, 5, 6} => Opening[n].on \subseteq Columns
    BY Statements DEF Columns
  <2>2. n \in {7, 8, 9, 10, 11} => Opening[n].on \subseteq Columns
    BY Statements DEF Columns
  <2>3. n \in {1, 2, 12, 13, 14, 15, 19} => Opening[n].on \subseteq Tables
    BY Statements DEF Tables
  <2>4. n \in {17, 18} => Opening[n].on \subseteq {"items_ad", "items_au"}
    BY Statements
  <2>5. "items_ai" \notin Others
    BY DEF Columns, Tables
  <2>6. \/ n \in {3, 4, 5, 6} \/ n \in {7, 8, 9, 10, 11}
        \/ n \in {1, 2, 12, 13, 14, 15, 19} \/ n \in {17, 18}
    BY <1>1, Positions
  <2>7. Opening[n].on \subseteq Others
    BY <2>1, <2>2, <2>3, <2>4, <2>6
  <2> HIDE DEF Others
  <2> QED BY <2>5, <2>7
<1>2. \A n \in 1..19 : Opening[n].on = {"items_ai"} => n = 16
  <2> SUFFICES ASSUME NEW n \in 1..19, Opening[n].on = {"items_ai"}, n # 16 PROVE FALSE
    OBVIOUS
  <2>1. "items_ai" \in Opening[n].on
    OBVIOUS
  <2> QED BY <1>1, <2>1
<1>3. Opening[16].on = {"items_ai"}
  BY Statements
<1>4. 16 \in 1..19
  OBVIOUS
<1> QED BY <1>2, <1>3, <1>4, OpeningLength, Zenon DEF FirstTrigger

-----------------------------------------------------------------------------
(* The inductive invariant.                                                  *)

(* What a statement that a process has behind it has left in the file.       *)
Done(n) ==
    /\ Opening[n].kind = "convert" => journal = "wal"
    /\ Opening[n].kind \in {"create", "create index"} => Opening[n].on \subseteq tables
    /\ Opening[n].kind = "verify" => Opening[n].on \subseteq columns
    /\ Opening[n].kind = "trigger" /\ failures = 0 => Opening[n].on \subseteq tables

Behind(p) ==
    IF outcome[p] = "open" THEN 1..19
    ELSE IF outcome[p] = "opening" THEN 1..(at[p] - 1) ELSE {}

DoneSoFar == \A p \in Processes : \A n \in Behind(p) : Done(n)

(* If nothing went wrong, an index that lacks a row is about to be filled.   *)
Filling == \E p \in Processes : Doing(p, "populate")
IndexFits ==
    failures = 0 /\ crashes = 0 =>
        stored \subseteq indexed \/ "items_fts" \notin tables \/ Filling

OpeningInv == TypeOK /\ DoneSoFar /\ IndexFits

-----------------------------------------------------------------------------
(* What every step has in common.                                            *)

(* The file only gains; a lost conversion leaves the mode as it is.          *)
Gains ==
    /\ journal = "wal" => journal' = "wal"
    /\ columns \subseteq columns' /\ tables \subseteq tables'
    /\ failures = 0 \/ failures' # 0

LEMMA DoneStays ==
    ASSUME Gains, NEW n, Done(n)
    PROVE  Done(n)'
BY DEF Gains, Done

(* One process moves: it keeps what it has behind it or adds what it did.    *)
Moves(p) ==
    /\ \A q \in Processes \ {p} : at'[q] = at[q] /\ outcome'[q] = outcome[q]
    /\ \A n \in Behind(p)' : n \in Behind(p) \/ Done(n)'

LEMMA MovesKeepDone ==
    ASSUME DoneSoFar, Gains, NEW p, Moves(p)
    PROVE  DoneSoFar'
<1> SUFFICES ASSUME NEW q \in Processes, NEW n \in Behind(q)' PROVE Done(n)'
  BY DEF DoneSoFar
<1>1. n \in Behind(q) \/ Done(n)'
  <2>1. CASE q = p
    BY <2>1 DEF Moves
  <2>2. CASE q # p
    BY <2>2 DEF Moves, Behind
  <2> QED BY <2>1, <2>2
<1> QED BY <1>1, DoneStays DEF DoneSoFar

LEMMA ContinueMoves ==
    ASSUME TypeOK, NEW p \in Processes, outcome[p] = "opening", Continue(p),
           NEW m, m = at[p], Done(m)'
    PROVE  /\ Moves(p)
           /\ at' \in [Processes -> DOMAIN Opening]
           /\ outcome' \in [Processes -> {"not started", "opening", "open", "failed"}]
           /\ \A q \in Processes : outcome'[q] \in {"opening", "open"} => outcome[q] \in {"opening", "open"}
<1>1. at[p] \in 1..19 /\ at \in [Processes -> 1..19]
  BY OpeningLength DEF TypeOK
<1>2. CASE at[p] = 19
  <2>1. outcome' = [outcome EXCEPT ![p] = "open"] /\ at' = at
    BY <1>2, OpeningLength DEF Continue
  <2>2. \A n \in 1..19 : n \in 1..(at[p] - 1) \/ n = at[p]
    BY <1>2
  <2>3. \A n \in Behind(p)' : n \in Behind(p) \/ n = at[p]
    BY <2>1, <2>2 DEF Behind, TypeOK
  <2> QED BY <2>1, <2>3 DEF Moves, TypeOK
<1>3. CASE at[p] # 19
  <2>1. at' = [at EXCEPT ![p] = at[p] + 1] /\ outcome' = outcome
    BY <1>3, OpeningLength DEF Continue, GoTo
  <2>2. at[p] + 1 \in 1..19 /\ at'[p] = at[p] + 1
    BY <1>1, <1>3, <2>1
  <2>3. \A n \in 1..(at[p] + 1 - 1) : n \in 1..(at[p] - 1) \/ n = at[p]
    BY <1>1
  <2>4. \A n \in Behind(p)' : n \in Behind(p) \/ n = at[p]
    <3>1. Behind(p) = 1..(at[p] - 1)
      BY DEF Behind
    <3>2. Behind(p)' = 1..(at'[p] - 1)
      BY <2>1 DEF Behind
    <3>3. at'[p] - 1 = at[p] + 1 - 1
      BY <1>1, <2>2
    <3> QED BY <2>3, <3>1, <3>2, <3>3
  <2>5. at' \in [Processes -> DOMAIN Opening]
    BY <1>1, <2>1, <2>2, OpeningLength
  <2>6. \A q \in Processes \ {p} : at'[q] = at[q] /\ outcome'[q] = outcome[q]
    BY <1>1, <2>1
  <2>7. Moves(p)
    BY <2>4, <2>6 DEF Moves
  <2> QED BY <2>1, <2>5, <2>7 DEF TypeOK
<1> QED BY <1>2, <1>3

LEMMA GiveUpMoves ==
    ASSUME TypeOK, NEW p \in Processes, GiveUp(p)
    PROVE  /\ Moves(p)
           /\ at' \in [Processes -> DOMAIN Opening]
           /\ outcome' \in [Processes -> {"not started", "opening", "open", "failed"}]
           /\ \A q \in Processes : outcome'[q] \in {"opening", "open"} => outcome[q] \in {"opening", "open"}
BY DEF GiveUp, Moves, Behind, TypeOK

-----------------------------------------------------------------------------
(* Types, and what the processes have behind them.                           *)

Typed == TypeOK /\ DoneSoFar

(* A statement that a process leaves behind it as Done.                      *)
LEMMA ContinueKeeps ==
    ASSUME Typed, NEW p \in Processes, outcome[p] = "opening", Continue(p) \/ GiveUp(p),
           Continue(p) => \A m : m = at[p] => Done(m)',
           Gains, UNCHANGED <<stored, indexed, busy, waited, crashes>>,
           journal' \in {"rollback", "wal"}, columns' \subseteq Columns,
           tables' \subseteq Tables \cup Triggers, failures' \in 0..MaxFailures
    PROVE  Typed'
<1>1. /\ Moves(p)
      /\ at' \in [Processes -> DOMAIN Opening]
      /\ outcome' \in [Processes -> {"not started", "opening", "open", "failed"}]
      /\ \A q \in Processes : outcome'[q] \in {"opening", "open"} => outcome[q] \in {"opening", "open"}
  <2>1. CASE Continue(p)
    <3>1. PICK m : m = at[p]
      OBVIOUS
    <3>2. Done(m)'
      BY <2>1, <3>1
    <3> QED BY <2>1, <3>1, <3>2, ContinueMoves DEF Typed
  <2>2. CASE GiveUp(p)
    BY <2>2, GiveUpMoves DEF Typed
  <2> QED BY <2>1, <2>2
<1>2. DoneSoFar'
  BY <1>1, MovesKeepDone DEF Typed
<1>3. TypeOK'
  BY <1>1 DEF Typed, TypeOK
<1> QED BY <1>2, <1>3 DEF Typed

LEMMA StartKeeps ==
    ASSUME Typed, NEW p \in Processes, Start(p)
    PROVE  Typed'
<1>1. TypeOK'
  <2>1. 0 \in 0..Patience /\ 0 < Patience
    BY OpeningAssumption
  <2>2. 1 \in DOMAIN Opening
    BY OpeningLength
  <2> QED BY <2>1, <2>2 DEF Typed, TypeOK, Start, file
<1>2. Moves(p)
  <2>1. Behind(p)' = 1..(at'[p] - 1) /\ at'[p] = 1
    BY DEF Typed, TypeOK, Start, Behind
  <2>2. 1..(1 - 1) = {}
    OBVIOUS
  <2> QED BY <2>1, <2>2 DEF Typed, TypeOK, Start, Moves
<1>3. Gains
  BY DEF Start, file, Gains
<1> QED BY <1>1, <1>2, <1>3, MovesKeepDone DEF Typed

LEMMA ConvertKeeps ==
    ASSUME Typed, NEW p \in Processes, Convert(p)
    PROVE  Typed'
<1>1. at[p] \in 1..19 /\ Opening[at[p]].kind = "convert" /\ outcome[p] = "opening"
  BY OpeningLength DEF Typed, TypeOK, Convert, Doing
<1>2. Gains /\ journal' \in {"rollback", "wal"}
  BY DEF Typed, TypeOK, Convert, Gains
<1>3. CASE Settled(p)
  <2>1. ASSUME NEW m, m = at[p] PROVE Done(m)'
    BY <1>1, <1>3, <2>1 DEF Done, Settled
  <2> QED BY <1>1, <1>2, <1>3, <2>1, ContinueKeeps DEF Convert, Typed, TypeOK
<1>4. CASE ~Settled(p)
  <2>1. waited[p] \in 0..Patience /\ waited[p] < Patience /\ Patience \in Nat
    BY <1>1, OpeningAssumption DEF Typed, TypeOK
  <2>2. waited' = [waited EXCEPT ![p] = waited[p] + 1] /\ waited[p] + 1 \in 0..Patience
    BY <1>4, <2>1 DEF Convert
  <2>3. waited' \in [Processes -> 0..Patience] /\ waited'[p] = waited[p] + 1
    BY <2>2 DEF Typed, TypeOK
  <2>4. UNCHANGED <<columns, tables, stored, indexed, busy, failures, crashes>>
    BY DEF Convert
  <2>5. CASE OutOfPatience(p)
    <3>1. GiveUp(p)
      BY <1>4, <2>5 DEF Convert
    <3>2. outcome' = [outcome EXCEPT ![p] = "failed"] /\ at' = at
      BY <3>1 DEF GiveUp
    <3>3. TypeOK'
      BY <1>2, <2>2, <2>3, <2>4, <3>2 DEF Typed, TypeOK
    <3> QED BY <1>2, <3>1, <3>3, GiveUpMoves, MovesKeepDone DEF Typed
  <2>6. CASE ~OutOfPatience(p)
    <3>1. UNCHANGED <<at, outcome>>
      BY <1>4, <2>6 DEF Convert
    <3>2. waited'[p] < Patience
      BY <2>1, <2>3, <2>6 DEF OutOfPatience
    <3>3. TypeOK'
      BY <1>2, <2>2, <2>3, <2>4, <3>1, <3>2 DEF Typed, TypeOK
    <3>4. Moves(p)
      BY <3>1 DEF Moves, Behind
    <3> QED BY <1>2, <3>3, <3>4, MovesKeepDone DEF Typed
  <2> QED BY <2>5, <2>6
<1> QED BY <1>3, <1>4

LEMMA CreateKeeps ==
    ASSUME Typed, NEW p \in Processes, CreateTable(p) \/ CreateTrigger(p) \/ AddColumn(p)
    PROVE  Typed'
<1>1. at[p] \in 1..19 /\ outcome[p] = "opening" /\ Continue(p)
  BY OpeningLength DEF Typed, TypeOK, CreateTable, CreateTrigger, AddColumn, Doing
<1>2. CASE CreateTable(p) \/ CreateTrigger(p)
  <2>1. /\ Opening[at[p]].kind \in {"create", "trigger"}
        /\ tables' = tables \cup Opening[at[p]].on
        /\ UNCHANGED <<journal, columns, stored, indexed, busy, waited, failures, crashes>>
    BY <1>2 DEF CreateTable, CreateTrigger, Doing, On
  <2>2. tables' \subseteq Tables \cup Triggers
    BY <1>1, <2>1, Targets DEF Typed, TypeOK
  <2>3. Gains
    BY <2>1 DEF Gains
  <2>4. ASSUME NEW m, m = at[p] PROVE Done(m)'
    BY <2>1, <2>4 DEF Done
  <2> QED BY <1>1, <2>1, <2>2, <2>3, <2>4, ContinueKeeps DEF Typed, TypeOK
<1>3. CASE AddColumn(p)
  <2>1. /\ Opening[at[p]].kind = "add"
        /\ columns' = columns \cup Opening[at[p]].on
        /\ UNCHANGED <<journal, tables, stored, indexed, busy, waited, failures, crashes>>
    BY <1>3 DEF AddColumn, Doing, On
  <2>2. columns' \subseteq Columns
    BY <1>1, <2>1, Targets DEF Typed, TypeOK
  <2>3. Gains
    BY <2>1 DEF Gains
  <2>4. ASSUME NEW m, m = at[p] PROVE Done(m)'
    BY <2>1, <2>4 DEF Done
  <2> QED BY <1>1, <2>1, <2>2, <2>3, <2>4, ContinueKeeps DEF Typed, TypeOK
<1> QED BY <1>2, <1>3

LEMMA CheckKeeps ==
    ASSUME Typed, NEW p \in Processes, VerifyColumns(p) \/ OpenReaders(p)
    PROVE  Typed'
<1>1. outcome[p] = "opening" /\ Opening[at[p]].kind \in {"verify", "readers"}
  BY DEF VerifyColumns, OpenReaders, Doing
<1>2. UNCHANGED <<file, busy, waited, failures, crashes>> /\ (Continue(p) \/ GiveUp(p))
  BY DEF VerifyColumns, OpenReaders
<1>3. ASSUME NEW m, m = at[p], Continue(p) PROVE Done(m)'
  <2>1. ~GiveUp(p)
    BY <1>1, <1>3 DEF Continue, GiveUp, GoTo, Typed, TypeOK
  <2>2. Opening[m].kind = "verify" => Opening[m].on \subseteq columns
    BY <1>3, <2>1 DEF VerifyColumns, OpenReaders, Doing, On
  <2> QED BY <1>1, <1>2, <1>3, <2>2 DEF Done, file
<1>4. Gains
  BY <1>2 DEF Gains, file
<1> QED BY <1>1, <1>2, <1>3, <1>4, ContinueKeeps DEF file, Typed, TypeOK

(* A process that finds the index jumps over the statements that make it:    *)
(* what they would have left is there.                                       *)
LEMMA LookKeeps ==
    ASSUME Typed, NEW p \in Processes, LookForIndex(p)
    PROVE  Typed'
<1>1. at[p] \in 1..19 /\ outcome[p] = "opening" /\ Opening[at[p]].kind = "look"
  BY OpeningLength DEF Typed, TypeOK, LookForIndex, Doing
<1>2. at[p] = 13
  BY <1>1, Kinds
<1>3. UNCHANGED <<file, busy, waited, failures, crashes>> /\ Gains
  BY DEF LookForIndex, Gains, file
<1>4. CASE On(p) \subseteq tables
  <2>1. at' = [at EXCEPT ![p] = 16] /\ outcome' = outcome
    BY <1>4, TriggersComeAfterTheIndex DEF LookForIndex, GoTo
  <2>2. "items_fts" \in tables'
    BY <1>2, <1>3, <1>4, Statements DEF On, file
  <2>3. Done(13)' /\ Done(14)' /\ Done(15)'
    <3>1. Opening[14].on = {"items_fts"} /\ Opening[13].kind = "look"
          /\ Opening[14].kind = "create index" /\ Opening[15].kind = "populate"
      BY Statements
    <3> QED BY <2>2, <3>1 DEF Done
  <2>4. at'[p] = 16 /\ at' \in [Processes -> DOMAIN Opening]
    <3>1. at \in [Processes -> DOMAIN Opening]
      BY DEF Typed, TypeOK
    <3>2. 16 \in DOMAIN Opening
      BY OpeningLength
    <3> QED BY <2>1, <3>1, <3>2
  <2>5. \A n \in Behind(p)' : n \in Behind(p) \/ Done(n)'
    <3>1. Behind(p)' = 1..(at'[p] - 1) /\ Behind(p) = 1..(at[p] - 1)
      BY <1>1, <2>1 DEF Behind
    <3>2. \A n \in 1..(16 - 1) : n \in 1..(13 - 1) \/ n = 13 \/ n = 14 \/ n = 15
      OBVIOUS
    <3> QED BY <1>2, <2>3, <2>4, <3>1, <3>2
  <2>6. Moves(p)
    BY <2>1, <2>5 DEF Moves, Typed, TypeOK
  <2>7. TypeOK'
    BY <1>3, <2>1, <2>4 DEF Typed, TypeOK, file
  <2> QED BY <1>3, <2>6, <2>7, MovesKeepDone DEF Typed
<1>5. CASE ~(On(p) \subseteq tables)
  <2>1. Continue(p)
    BY <1>5 DEF LookForIndex
  <2>2. ASSUME NEW m, m = at[p] PROVE Done(m)'
    BY <1>1, <2>2 DEF Done
  <2> QED BY <1>1, <1>3, <2>1, <2>2, ContinueKeeps DEF file, Typed, TypeOK
<1> QED BY <1>4, <1>5

LEMMA IndexKeeps ==
    ASSUME Typed, NEW p \in Processes, CreateIndex(p)
    PROVE  Typed'
<1>1. at[p] \in 1..19 /\ outcome[p] = "opening" /\ Opening[at[p]].kind = "create index"
  BY OpeningLength DEF Typed, TypeOK, CreateIndex, Doing
<1>2. UNCHANGED <<journal, columns, stored, indexed, busy, waited, failures, crashes>>
  BY DEF CreateIndex
<1>3. tables' \subseteq Tables \cup Triggers /\ tables \subseteq tables' /\ Opening[at[p]].on \subseteq tables'
  BY <1>1, Targets DEF CreateIndex, On, Typed, TypeOK
<1>4. Gains
  BY <1>2, <1>3 DEF Gains
<1>5. ASSUME NEW m, m = at[p] PROVE Done(m)'
  BY <1>1, <1>3, <1>5 DEF Done
<1>6. Continue(p) \/ GiveUp(p)
  BY DEF CreateIndex
<1> QED BY <1>1, <1>2, <1>3, <1>4, <1>5, <1>6, ContinueKeeps DEF Typed, TypeOK

LEMMA PopulateKeeps ==
    ASSUME Typed, NEW p \in Processes, PopulateIndex(p)
    PROVE  Typed'
<1>1. at[p] \in 1..19 /\ outcome[p] = "opening" /\ Opening[at[p]].kind = "populate" /\ Continue(p)
  BY OpeningLength DEF Typed, TypeOK, PopulateIndex, Doing
<1>2. UNCHANGED <<journal, columns, tables, stored, busy, waited, failures, crashes>>
  BY DEF PopulateIndex
<1>3. Gains
  BY <1>2 DEF Gains
<1>4. PICK m : m = at[p]
  OBVIOUS
<1>5. Done(m)'
  BY <1>1, <1>4 DEF Done
<1>6. /\ Moves(p)
      /\ at' \in [Processes -> DOMAIN Opening]
      /\ outcome' \in [Processes -> {"not started", "opening", "open", "failed"}]
      /\ \A q \in Processes : outcome'[q] \in {"opening", "open"} => outcome[q] \in {"opening", "open"}
  BY <1>1, <1>4, <1>5, ContinueMoves DEF Typed
<1>7. TypeOK'
  BY <1>2, <1>6 DEF Typed, TypeOK, PopulateIndex, Populated
<1> QED BY <1>3, <1>6, <1>7, MovesKeepDone DEF Typed

LEMMA FaultCounts ==
    ASSUME Typed
    PROVE  /\ failures \in Nat /\ MaxFailures \in Nat /\ crashes \in Nat /\ MaxCrashes \in Nat
           /\ \A p : StatementFails(p) => failures < MaxFailures /\ failures' = failures + 1
           /\ \A p : Dies(p) => crashes < MaxCrashes /\ crashes' = crashes + 1
<1>1. failures \in 0..MaxFailures /\ crashes \in 0..MaxCrashes
  BY DEF Typed, TypeOK
<1>2. MaxFailures \in Nat /\ MaxCrashes \in Nat
  BY OpeningAssumption
<1>3. failures \in Nat /\ crashes \in Nat
  BY <1>1, <1>2
<1>4. \A p : StatementFails(p) => failures < MaxFailures /\ failures' = failures + 1
  BY Zenon DEF StatementFails
<1>5. \A p : Dies(p) => crashes < MaxCrashes /\ crashes' = crashes + 1
  BY Zenon DEF Dies
<1> QED BY <1>2, <1>3, <1>4, <1>5

LEMMA FailureKeeps ==
    ASSUME Typed, NEW p \in Processes, StatementFails(p)
    PROVE  Typed'
<1>1. at[p] \in 1..19 /\ outcome[p] = "opening"
  BY OpeningLength DEF Typed, TypeOK, StatementFails
<1>2. UNCHANGED <<file, busy, waited, crashes>>
  BY DEF StatementFails
<1>3. failures' \in 0..MaxFailures /\ failures' # 0
  <2>1. failures \in Nat /\ MaxFailures \in Nat /\ failures < MaxFailures /\ failures' = failures + 1
    BY FaultCounts
  <2> QED BY <2>1
<1>4. Gains
  BY <1>2, <1>3 DEF Gains, file
<1>5. ASSUME NEW m, m = at[p], Continue(p) PROVE Done(m)'
  <2>1. Opening[m].kind \in Ignored
    <3>1. ~GiveUp(p)
      BY <1>1, <1>5 DEF Continue, GiveUp, GoTo, Typed, TypeOK
    <3> QED BY <1>5, <3>1 DEF StatementFails
  <2> QED BY <1>3, <2>1 DEF Done, Ignored
<1>6. Continue(p) \/ GiveUp(p)
  BY DEF StatementFails
<1> QED BY <1>1, <1>2, <1>3, <1>4, <1>5, <1>6, ContinueKeeps DEF file, Typed, TypeOK

(* A process that dies has nothing behind it.                                *)
LEMMA DeathKeeps ==
    ASSUME Typed, NEW p \in Processes, Dies(p)
    PROVE  Typed'
<1>1. UNCHANGED <<journal, columns, tables, stored, indexed, busy, at, waited, failures>>
  BY DEF Dies, file
<1>2. outcome' = [outcome EXCEPT ![p] = "not started"]
  BY DEF Dies
<1>3. crashes' \in 0..MaxCrashes
  <2>1. crashes \in Nat /\ MaxCrashes \in Nat /\ crashes < MaxCrashes /\ crashes' = crashes + 1
    BY FaultCounts
  <2> QED BY <2>1
<1>4. TypeOK'
  BY <1>1, <1>2, <1>3 DEF Typed, TypeOK
<1>5. Gains
  BY <1>1 DEF Gains
<1>6. Moves(p)
  BY <1>1, <1>2 DEF Moves, Behind, Typed, TypeOK
<1> QED BY <1>4, <1>5, <1>6, MovesKeepDone DEF Typed

(* What leaves every process where it is, and the schema.                    *)
LEMMA StillKeepsDone ==
    ASSUME DoneSoFar, UNCHANGED <<journal, columns, tables, at, outcome, failures>>
    PROVE  DoneSoFar'
BY DEF DoneSoFar, Behind, Done

LEMMA RowsKeep ==
    ASSUME Typed, NEW p \in Processes, NEW row \in Rows, InsertRow(p, row) \/ DeleteRow(p, row)
    PROVE  Typed'
<1>1. UNCHANGED <<journal, columns, tables, busy, at, waited, outcome, failures, crashes>>
  BY DEF InsertRow, DeleteRow
<1>2. stored' \subseteq Rows /\ indexed' \subseteq Rows
  BY DEF InsertRow, DeleteRow, Typed, TypeOK
<1>3. TypeOK'
  BY <1>1, <1>2 DEF Typed, TypeOK
<1> QED BY <1>1, <1>3, StillKeepsDone DEF Typed

LEMMA OutsideKeeps ==
    ASSUME Typed, OutsideLock \/ UNCHANGED vars
    PROVE  Typed'
<1>1. UNCHANGED <<journal, columns, tables, stored, indexed, at, waited, outcome, failures, crashes>>
  BY DEF OutsideLock, vars, file
<1>2. busy' \in BOOLEAN
  BY DEF OutsideLock, vars, Typed, TypeOK
<1>3. TypeOK'
  BY <1>1, <1>2 DEF Typed, TypeOK
<1> QED BY <1>1, <1>3, StillKeepsDone DEF Typed

LEMMA StepTyped ==
    ASSUME Typed, [Next]_vars
    PROVE  Typed'
<1>1. ASSUME NEW p \in Processes, Start(p) \/ Step(p) \/ StatementFails(p) \/ Dies(p)
      PROVE  Typed'
  BY <1>1, StartKeeps, ConvertKeeps, CreateKeeps, CheckKeeps, LookKeeps, IndexKeeps, PopulateKeeps,
     FailureKeeps, DeathKeeps DEF Step
<1>2. ASSUME NEW p \in Processes, NEW row \in Rows, InsertRow(p, row) \/ DeleteRow(p, row)
      PROVE  Typed'
  BY <1>2, RowsKeep
<1>3. CASE OutsideLock \/ UNCHANGED vars
  BY <1>3, OutsideKeeps
<1> QED BY <1>1, <1>2, <1>3 DEF Next

-----------------------------------------------------------------------------
(* The index.                                                                *)

(* Who is about to fill the index goes on to do so.                          *)
LEMMA FillingStays ==
    ASSUME NEW p, Filling, ~Doing(p, "populate"),
           \A q \in Processes \ {p} : at'[q] = at[q] /\ outcome'[q] = outcome[q]
    PROVE  Filling'
<1>1. PICK q \in Processes : Doing(q, "populate")
  BY DEF Filling
<1>2. q # p
  BY <1>1
<1>3. Doing(q, "populate")'
  BY <1>1, <1>2 DEF Doing
<1> QED BY <1>3 DEF Filling

LEMMA OthersStand ==
    ASSUME Typed, NEW p \in Processes, Start(p) \/ Step(p) \/ StatementFails(p) \/ Dies(p)
    PROVE  \A q \in Processes \ {p} : at'[q] = at[q] /\ outcome'[q] = outcome[q]
<1>1. at \in [Processes -> DOMAIN Opening]
      /\ outcome \in [Processes -> {"not started", "opening", "open", "failed"}]
  BY DEF Typed, TypeOK
<1>2. CASE Start(p) \/ Dies(p)
  BY <1>1, <1>2 DEF Start, Dies, file
<1>3. CASE Step(p) \/ StatementFails(p)
  <2>1. Continue(p) \/ GiveUp(p) \/ GoTo(p, FirstTrigger) \/ UNCHANGED <<at, outcome>>
    BY <1>3 DEF Step, StatementFails, Convert, CreateTable, AddColumn, VerifyColumns, LookForIndex,
                CreateIndex, PopulateIndex, CreateTrigger, OpenReaders
  <2> QED BY <1>1, <2>1 DEF Continue, GiveUp, GoTo
<1> QED BY <1>2, <1>3

LEMMA StepIndex ==
    ASSUME Typed, IndexFits, [Next]_vars
    PROVE  IndexFits'
<1> SUFFICES ASSUME failures' = 0, crashes' = 0
             PROVE  (stored \subseteq indexed \/ "items_fts" \notin tables \/ Filling)'
  BY DEF IndexFits
<1>1. CASE UNCHANGED vars \/ OutsideLock
  <2>1. UNCHANGED <<stored, indexed, tables, at, outcome, failures, crashes>>
    BY <1>1 DEF vars, file, OutsideLock
  <2> QED BY <2>1 DEF IndexFits, Filling, Doing
<1>2. ASSUME NEW p \in Processes, StatementFails(p) \/ Dies(p) PROVE FALSE
  <2>1. failures' = failures + 1 \/ crashes' = crashes + 1
    BY <1>2, FaultCounts
  <2>2. failures \in Nat /\ crashes \in Nat
    BY FaultCounts
  <2> QED BY <2>1, <2>2
<1>3. ASSUME NEW p \in Processes, Start(p) \/ Step(p)
      PROVE  (stored \subseteq indexed \/ "items_fts" \notin tables \/ Filling)'
  <2>1. failures = 0 /\ crashes = 0
    BY <1>3 DEF Start, Step, Convert, CreateTable, AddColumn, VerifyColumns, LookForIndex,
                CreateIndex, PopulateIndex, CreateTrigger, OpenReaders
  <2>2. stored \subseteq indexed \/ "items_fts" \notin tables \/ Filling
    BY <2>1 DEF IndexFits
  <2>3. ~Doing(p, "populate") /\ Filling => Filling'
    BY <1>3, FillingStays, OthersStand
  <2>4. CASE PopulateIndex(p)
    BY <2>4 DEF PopulateIndex, Populated
  <2>5. CASE CreateIndex(p)
    <3>1. at[p] = 14 /\ outcome[p] = "opening" /\ UNCHANGED <<stored, indexed>>
      BY <2>5, OpeningLength, Kinds DEF CreateIndex, Doing, Typed, TypeOK
    <3>2. ~Doing(p, "populate")
      BY <2>5 DEF CreateIndex, Doing
    <3>3. CASE On(p) \subseteq tables
      <4>1. tables' = tables
        BY <2>5, <3>3 DEF CreateIndex
      <4> QED BY <2>2, <2>3, <3>1, <3>2, <4>1
    <3>4. CASE ~(On(p) \subseteq tables)
      <4>1. at' = [at EXCEPT ![p] = 15] /\ outcome' = outcome
        <5>1. Continue(p)
          BY <2>5, <3>4 DEF CreateIndex
        <5>2. at[p] # Len(Opening) /\ at[p] + 1 = 15
          BY <3>1, OpeningLength
        <5> QED BY <5>1, <5>2 DEF Continue, GoTo
      <4>2. at'[p] = 15 /\ Opening[15].kind = "populate"
        BY <4>1, Statements DEF Typed, TypeOK
      <4>3. Doing(p, "populate")'
        BY <3>1, <4>1, <4>2 DEF Doing
      <4> QED BY <4>3 DEF Filling
    <3> QED BY <3>3, <3>4
  <2>6. CASE CreateTable(p) \/ CreateTrigger(p)
    <3>1. Opening[at[p]].kind \in {"create", "trigger"} /\ at[p] \in 1..19
          /\ tables' = tables \cup Opening[at[p]].on /\ UNCHANGED <<stored, indexed>>
      BY <2>6, OpeningLength DEF CreateTable, CreateTrigger, Doing, On, Typed, TypeOK
    <3>2. "items_fts" \notin Opening[at[p]].on
      BY <3>1, Targets
    <3>3. ~Doing(p, "populate")
      BY <3>1 DEF Doing
    <3> QED BY <2>2, <2>3, <3>1, <3>2, <3>3
  <2>7. CASE Start(p) \/ Convert(p) \/ AddColumn(p) \/ VerifyColumns(p) \/ LookForIndex(p) \/ OpenReaders(p)
    <3>1. ~Doing(p, "populate") /\ UNCHANGED <<stored, indexed, tables>>
      BY <2>7 DEF Start, Convert, AddColumn, VerifyColumns, LookForIndex, OpenReaders, Doing, file
    <3> QED BY <2>2, <2>3, <3>1
  <2> QED BY <1>3, <2>4, <2>5, <2>6, <2>7 DEF Step
<1>4. ASSUME NEW p \in Processes, NEW row \in Rows, InsertRow(p, row) \/ DeleteRow(p, row)
      PROVE  (stored \subseteq indexed \/ "items_fts" \notin tables \/ Filling)'
  <2>1. UNCHANGED <<tables, at, outcome, failures, crashes>> /\ outcome[p] = "open"
    BY <1>4 DEF InsertRow, DeleteRow
  <2>2. stored \subseteq indexed \/ "items_fts" \notin tables \/ Filling
    BY <2>1 DEF IndexFits
  <2>3. Filling' <=> Filling
    BY <2>1 DEF Filling, Doing
  <2>4. "items_ai" \in tables
    <3>1. Done(16)
      BY <2>1 DEF Typed, DoneSoFar, Behind
    <3>2. Opening[16].kind = "trigger" /\ Opening[16].on = {"items_ai"}
      BY Statements
    <3>3. failures = 0
      BY <2>1
    <3> QED BY <3>1, <3>2, <3>3 DEF Done
  <2>5. stored \subseteq indexed => stored' \subseteq indexed'
    BY <1>4, <2>4 DEF InsertRow, DeleteRow
  <2> QED BY <2>1, <2>2, <2>3, <2>5
<1> QED BY <1>1, <1>2, <1>3, <1>4 DEF Next

-----------------------------------------------------------------------------
(* The results.                                                              *)

LEMMA OpeningInvariant == Spec => [](Typed /\ IndexFits)
<1>1. Init => Typed /\ IndexFits
  <2> SUFFICES ASSUME Init PROVE Typed /\ IndexFits
    OBVIOUS
  <2>1. TypeOK
    <3>1. 1 \in DOMAIN Opening /\ 0 \in 0..Patience /\ 0 \in 0..MaxFailures /\ 0 \in 0..MaxCrashes
      BY OpeningLength, OpeningAssumption
    <3> QED BY <3>1, OpeningAssumption DEF Init, TypeOK, Tables
  <2>2. DoneSoFar
    BY DEF Init, DoneSoFar, Behind
  <2>3. IndexFits
    <3>1. "items_fts" \notin tables
      <4>1. tables = {} \/ tables = {"items"}
        BY Zenon DEF Init
      <4> QED BY <4>1
    <3> QED BY <3>1 DEF IndexFits
  <2> QED BY <2>1, <2>2, <2>3 DEF Typed
<1>2. Typed /\ IndexFits /\ [Next]_vars => (Typed /\ IndexFits)'
  BY StepTyped, StepIndex
<1> QED BY <1>1, <1>2, PTL DEF Spec

(* Type correctness, for any number of processes, rows, tries and faults.    *)
THEOREM OpeningTypeCorrect == Spec => []TypeOK
<1>1. Typed => TypeOK
  BY DEF Typed
<1> QED BY <1>1, OpeningInvariant, PTL

LEMMA OpenIsDone ==
    ASSUME Typed, SomeOpen, NEW n \in 1..19
    PROVE  Done(n)
<1>1. PICK p \in Processes : outcome[p] = "open"
  BY DEF SomeOpen
<1>2. Behind(p) = 1..19
  BY <1>1 DEF Behind
<1> QED BY <1>1, <1>2 DEF Typed, DoneSoFar

(* Ignoring the errors of the ALTERs is safe: a store that opened has every  *)
(* column and table, whatever failed, died or overtook it.                   *)
THEOREM OpenStoresAreMigrated == Spec => []OpenStoreHasColumns
<1>1. ASSUME Typed, SomeOpen PROVE Columns \subseteq columns /\ Tables \subseteq tables
  <2>1. Done(2) /\ Done(4) /\ Done(6) /\ Done(9) /\ Done(11) /\ Done(12) /\ Done(14)
    BY <1>1, OpenIsDone
  <2>2. "deleted_at" \in columns /\ "schedule" \in columns
    BY <2>1, Statements DEF Done
  <2>3. "held_at" \in columns /\ "hold_reason" \in columns /\ "auto_hold_at_usd" \in columns
    BY <2>1, Statements DEF Done
  <2>4. "items" \in tables /\ "item_revisions" \in tables /\ "items_fts" \in tables
    BY <2>1, Statements DEF Done
  <2> QED BY <2>2, <2>3, <2>4 DEF Columns, Tables
<1>2. Typed => OpenStoreHasColumns
  BY <1>1 DEF OpenStoreHasColumns
<1> QED BY <1>2, OpeningInvariant, PTL

(* A store that opened runs on the write-ahead log.                          *)
THEOREM OpenStoresAreWAL == Spec => []OpenStoreIsWAL
<1>1. ASSUME Typed, SomeOpen PROVE journal = "wal"
  <2>1. Done(1)
    BY <1>1, OpenIsDone
  <2>2. Opening[1].kind = "convert"
    BY Statements
  <2> QED BY <2>1, <2>2 DEF Done
<1>2. Typed => OpenStoreIsWAL
  BY <1>1 DEF OpenStoreIsWAL
<1> QED BY <1>2, OpeningInvariant, PTL

(* Without failures and deaths the index is complete once everybody is done, *)
(* however many processes created it together.                               *)
THEOREM IndexIsComplete == Spec => []IndexCompleteWhenQuiet
<1>1. ASSUME Typed, IndexFits, SomeOpen, failures = 0, crashes = 0,
             \A p \in Processes : outcome[p] # "opening"
      PROVE  stored \subseteq indexed
  <2>1. Done(14)
    BY <1>1, OpenIsDone
  <2>2. "items_fts" \in tables
    <3>1. Opening[14].kind = "create index" /\ Opening[14].on = {"items_fts"}
      BY Statements
    <3> QED BY <2>1, <3>1 DEF Done
  <2>3. ~Filling
    BY <1>1 DEF Filling, Doing
  <2> QED BY <1>1, <2>2, <2>3 DEF IndexFits
<1>2. Typed /\ IndexFits => IndexCompleteWhenQuiet
  BY <1>1 DEF IndexCompleteWhenQuiet
<1> QED BY <1>2, OpeningInvariant, PTL

-----------------------------------------------------------------------------
(* What deaths can do to the index, and that an opening comes to its end.    *)

LEMMA LegacyStep ==
    ASSUME Typed, OnlyLegacyRowsUnsearchable, [Next]_vars
    PROVE  OnlyLegacyRowsUnsearchable'
<1> SUFFICES ASSUME failures' = 0 PROVE stored' \ indexed' \subseteq LegacyRows
  BY DEF OnlyLegacyRowsUnsearchable
<1>1. failures \in Nat
  BY FaultCounts
<1>2. ASSUME NEW p \in Processes, StatementFails(p) PROVE FALSE
  <2>1. failures' = failures + 1
    BY <1>2, FaultCounts
  <2> QED BY <1>1, <2>1
<1>3. ASSUME UNCHANGED <<stored, failures>>, indexed \subseteq indexed'
      PROVE  stored' \ indexed' \subseteq LegacyRows
  BY <1>3 DEF OnlyLegacyRowsUnsearchable
<1>4. CASE UNCHANGED vars \/ OutsideLock
  BY <1>3, <1>4 DEF vars, file, OutsideLock
<1>5. ASSUME NEW p \in Processes, Start(p) \/ Step(p) \/ Dies(p)
      PROVE  stored' \ indexed' \subseteq LegacyRows
  <2>1. UNCHANGED <<stored, failures>> /\ indexed \subseteq indexed'
    BY <1>5 DEF Start, Dies, Step, Convert, CreateTable, AddColumn, VerifyColumns, LookForIndex,
                CreateIndex, PopulateIndex, Populated, CreateTrigger, OpenReaders, file
  <2> QED BY <1>3, <2>1
<1>6. ASSUME NEW p \in Processes, NEW row \in Rows, InsertRow(p, row)
      PROVE  stored' \ indexed' \subseteq LegacyRows
  <2>1. failures = 0 /\ outcome[p] = "open"
    BY <1>6 DEF InsertRow
  <2>2. "items_ai" \in tables
    <3>1. Done(16)
      BY <2>1 DEF Typed, DoneSoFar, Behind
    <3>2. Opening[16].kind = "trigger" /\ Opening[16].on = {"items_ai"}
      BY Statements
    <3> QED BY <2>1, <3>1, <3>2 DEF Done
  <2>3. stored' = stored \cup {row} /\ indexed' = indexed \cup {row}
    BY <1>6, <2>2 DEF InsertRow
  <2> QED BY <2>1, <2>3 DEF OnlyLegacyRowsUnsearchable
<1>7. ASSUME NEW p \in Processes, NEW row \in Rows, DeleteRow(p, row)
      PROVE  stored' \ indexed' \subseteq LegacyRows
  <2>1. failures = 0 /\ stored' = stored \ {row} /\ (indexed' = indexed \ {row} \/ indexed' = indexed)
    BY <1>7 DEF DeleteRow
  <2> QED BY <2>1 DEF OnlyLegacyRowsUnsearchable
<1> QED BY <1>2, <1>4, <1>5, <1>6, <1>7 DEF Next

(* As long as no statement fails, whatever was created in a store that       *)
(* opened can be found, deaths in the middle of a migration or not.          *)
THEOREM CreatedRowsAreSearchable == Spec => []OnlyLegacyRowsUnsearchable
<1>1. Init => OnlyLegacyRowsUnsearchable
  BY DEF Init, OnlyLegacyRowsUnsearchable
<1>2. Typed /\ IndexFits => Typed
  OBVIOUS
<1>3. Typed /\ OnlyLegacyRowsUnsearchable /\ [Next]_vars => OnlyLegacyRowsUnsearchable'
  BY LegacyStep
<1> QED BY <1>1, <1>2, <1>3, OpeningInvariant, PTL DEF Spec

LEMMA StatementGoesFurther ==
    ASSUME Typed, NEW p \in Processes, outcome[p] = "opening", Step(p) \/ StatementFails(p)
    PROVE  Further(p)
<1>1. /\ at \in [Processes -> 1..19]
      /\ outcome \in [Processes -> {"not started", "opening", "open", "failed"}]
      /\ waited \in [Processes -> 0..Patience] /\ waited[p] < Patience /\ Patience \in Nat
  BY OpeningLength, OpeningAssumption DEF Typed, TypeOK
<1>2. CASE Continue(p)
  <2>1. CASE at[p] = Len(Opening)
    <3>1. outcome'[p] = "open"
      BY <1>1, <1>2, <2>1 DEF Continue
    <3> QED BY <3>1 DEF Further
  <2>2. CASE at[p] # Len(Opening)
    <3>1. at'[p] = at[p] + 1 /\ at[p] \in 1..19
      BY <1>1, <1>2, <2>2 DEF Continue, GoTo
    <3>2. at'[p] > at[p]
      BY <3>1
    <3> QED BY <3>2 DEF Further
  <2> QED BY <2>1, <2>2
<1>3. CASE GiveUp(p)
  <2>1. outcome'[p] = "failed"
    BY <1>1, <1>3 DEF GiveUp
  <2> QED BY <2>1 DEF Further
<1>4. CASE LookForIndex(p)
  <2>1. Continue(p) \/ GoTo(p, 16)
    BY <1>4, TriggersComeAfterTheIndex DEF LookForIndex
  <2>2. at[p] = 13
    BY <1>1, <1>4, Kinds DEF LookForIndex, Doing
  <2>3. CASE GoTo(p, 16)
    <3>1. at'[p] = 16 /\ outcome' = outcome
      BY <1>1, <2>3 DEF GoTo
    <3> QED BY <2>2, <3>1 DEF Further
  <2> QED BY <1>2, <2>1, <2>3
<1>5. CASE Convert(p)
  <2>1. CASE UNCHANGED <<at, outcome>> /\ ~Settled(p)
    <3>1. waited' = [waited EXCEPT ![p] = IF waited[p] < Patience THEN waited[p] + 1 ELSE waited[p]]
      BY <1>5, <2>1 DEF Convert
    <3>2. waited' = [waited EXCEPT ![p] = waited[p] + 1]
      BY <1>1, <3>1
    <3>3. waited'[p] = waited[p] + 1
      BY <1>1, <3>2, Zenon
    <3>4. waited[p] \in Nat
      <4>1. waited[p] \in 0..Patience /\ Patience \in Nat
        BY <1>1
      <4> QED BY <4>1
    <3>5. at'[p] = at[p]
      BY <2>1
    <3> QED BY <3>3, <3>4, <3>5 DEF Further
  <2> QED BY <1>2, <1>3, <1>5, <2>1 DEF Convert
<1>6. CASE CreateTable(p) \/ AddColumn(p) \/ VerifyColumns(p) \/ CreateIndex(p) \/ PopulateIndex(p)
           \/ CreateTrigger(p) \/ OpenReaders(p) \/ StatementFails(p)
  <2>1. Continue(p) \/ GiveUp(p)
    BY <1>6 DEF CreateTable, AddColumn, VerifyColumns, CreateIndex, PopulateIndex, CreateTrigger,
                OpenReaders, StatementFails
  <2> QED BY <1>2, <1>3, <2>1
<1> QED BY <1>4, <1>5, <1>6 DEF Step

LEMMA StatementOfOpening ==
    ASSUME NEW p, Step(p)
    PROVE  outcome[p] = "opening"
BY DEF Step, Doing, Convert, CreateTable, AddColumn, VerifyColumns, LookForIndex, CreateIndex,
       PopulateIndex, CreateTrigger, OpenReaders

(* The tries of the conversion are the process's own.                        *)
LEMMA OthersDoNotWait ==
    ASSUME Typed, NEW q \in Processes, NEW p \in Processes, p # q,
           Start(q) \/ Step(q) \/ StatementFails(q) \/ Dies(q)
    PROVE  waited'[p] = waited[p]
<1>1. waited \in [Processes -> 0..Patience]
  BY DEF Typed, TypeOK
<1> QED BY <1>1 DEF Start, Step, StatementFails, Dies, Convert, CreateTable, AddColumn, VerifyColumns,
           LookForIndex, CreateIndex, PopulateIndex, CreateTrigger, OpenReaders

(* An opening has a bounded number of statements ahead of it, whatever other *)
(* processes and connections do.                                             *)
THEOREM OpeningsGoFurther == Spec => OpeningGoesFurther
<1>1. ASSUME Typed, [Next]_vars PROVE [OnlyFurther]_vars
  <2> SUFFICES ASSUME Next, NEW p \in Processes, outcome[p] = "opening"
               PROVE  (Step(p) => Further(p)) /\ (Further(p) \/ UNCHANGED <<at[p], waited[p], outcome[p]>>)
    BY <1>1 DEF OnlyFurther
  <2>1. Step(p) => Further(p)
    BY <1>1, StatementGoesFurther
  <2>2. CASE Step(p) \/ StatementFails(p)
    BY <1>1, <2>2, StatementGoesFurther
  <2>3. CASE Start(p) \/ Dies(p)
    <3>1. outcome'[p] = "not started"
      BY <1>1, <2>3 DEF Start, Dies, Typed, TypeOK
    <3> QED BY <3>1 DEF Further
  <2>4. ASSUME NEW q \in Processes, q # p, Start(q) \/ Step(q) \/ StatementFails(q) \/ Dies(q)
        PROVE  UNCHANGED <<at[p], waited[p], outcome[p]>>
    BY <1>1, <2>4, OthersStand, OthersDoNotWait
  <2>5. ASSUME NEW q \in Processes, NEW row \in Rows, InsertRow(q, row) \/ DeleteRow(q, row)
        PROVE  UNCHANGED <<at[p], waited[p], outcome[p]>>
    BY <2>5 DEF InsertRow, DeleteRow
  <2>6. CASE OutsideLock
    BY <2>1, <2>6 DEF OutsideLock
  <2> QED BY <2>1, <2>2, <2>3, <2>4, <2>5, <2>6 DEF Next
<1>2. Typed /\ IndexFits => Typed
  OBVIOUS
<1> QED BY <1>1, <1>2, OpeningInvariant, PTL DEF Spec, OpeningGoesFurther

(* How far "Populate FTS from existing data", which the run search_index     *)
(* shows violated by a death between two statements, does hold: a file that  *)
(* began empty has a complete index, whatever processes die over it.         *)
THEOREM OnlyLegacyFilesMissRows ==
    ASSUME LegacyRows = {}, MaxFailures = 0
    PROVE  Spec => []SearchIndexComplete
<1>1. Typed /\ OnlyLegacyRowsUnsearchable => SearchIndexComplete
  <2> SUFFICES ASSUME Typed, OnlyLegacyRowsUnsearchable PROVE SearchIndexComplete
    OBVIOUS
  <2>1. failures \in 0..0
    BY DEF Typed, TypeOK
  <2>2. failures = 0
    BY <2>1
  <2>3. stored \ indexed = {}
    BY <2>2 DEF OnlyLegacyRowsUnsearchable
  <2> QED BY <2>3 DEF SearchIndexComplete
<1>2. Typed /\ IndexFits => Typed
  OBVIOUS
<1> QED BY <1>1, <1>2, OpeningInvariant, CreatedRowsAreSearchable, PTL

=============================================================================
