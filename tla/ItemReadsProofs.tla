--------------------------- MODULE ItemReadsProofs ---------------------------
(* Theorems of ItemReads: the readers see the tables the writers keep sound, *)
(* discovery honours every hold, and a query accounts for every id whose     *)
(* item stays as it is.                                                      *)
EXTENDS ItemReads, ItemStoreProofs, FiniteSetTheorems

(* What a query knows between its statements: the history covers the present *)
(* and the ids it called missing are right for every id that stayed as it    *)
(* was.                                                                      *)
QueryFits(r) ==
    stage[r] \in {"count", "page"} =>
        /\ SentIds(asked[r]) \cap LiveIn(rows) \subseteq wasLive[r]
        /\ SentIds(asked[r]) \ LiveIn(rows) \subseteq wasGone[r]
        /\ r \notin cut => AlwaysGone(r) \subseteq missing[r]
        /\ missing[r] \subseteq Where(asked[r], wasGone[r])

CountFits(r) ==
    /\ total[r] <= Cardinality(Where(asked[r], wasLive[r]))
    /\ asked[r].wants = Contents => Cardinality(AlwaysLive(r)) <= total[r]

StageOfKind(r) ==
    /\ stage[r] \in {"discover", "scheduled"} => asked[r].kind \notin Composed
    /\ stage[r] = "idle" => missing[r] = {} /\ page[r] = {} /\ total[r] = 0
    /\ stage[r] = "page" => CountFits(r)

Accounted(r) ==
    stage[r] = "answered" /\ asked[r].kind \in Composed =>
        /\ page[r] \subseteq Where(asked[r], wasLive[r])
        /\ missing[r] \subseteq Where(asked[r], wasGone[r])
        /\ r \notin cut => AlwaysGone(r) \subseteq missing[r]
        /\ CountFits(r)
        /\ asked[r].wants = Contents /\ Whole(asked[r], page[r]) => AlwaysLive(r) \subseteq page[r]

ReadsInv ==
    /\ IInv
    /\ ReadsTypeOK
    /\ \A r \in Readers : StageOfKind(r) /\ QueryFits(r) /\ Accounted(r)

LEMMA AskedTyped ==
    ASSUME ReadsTypeOK, NEW r \in Readers
    PROVE  asked[r] \in Question
<1>1. NoQuestion \in Question
  BY DEF NoQuestion, Question
<1> QED BY <1>1, QuestionsAssumption DEF ReadsTypeOK

(* The places of ids are finitely many numbers.                              *)
LEMMA PlacesFinite ==
    ASSUME NEW q \in Question, NEW S
    PROVE  /\ Where(q, S) \subseteq DOMAIN q.ids /\ DOMAIN q.ids \subseteq Nat
           /\ IsFiniteSet(Where(q, S)) /\ Cardinality(Where(q, S)) \in Nat
<1>1. q.ids \in Seq(Items)
  BY DEF Question
<1>2. DOMAIN q.ids = 1..Len(q.ids) /\ Len(q.ids) \in Nat
  BY <1>1
<1>3. IsFiniteSet(DOMAIN q.ids) /\ Where(q, S) \in SUBSET DOMAIN q.ids
  BY <1>2, FS_Interval DEF Where
<1> QED BY <1>2, <1>3, FS_Subset, FS_CardinalityType

(* More ids are at more places.                                              *)
LEMMA PlacesGrow ==
    ASSUME NEW q \in Question, NEW S, NEW T, SentIds(q) \cap S \subseteq T
    PROVE  /\ Where(q, S) \subseteq Where(q, T)
           /\ Cardinality(Where(q, S)) <= Cardinality(Where(q, T))
<1>1. Where(q, S) \in SUBSET Where(q, T)
  BY DEF Where, SentIds
<1> QED BY <1>1, PlacesFinite, FS_Subset

LEMMA SentIdsTyped ==
    ASSUME NEW q \in Question
    PROVE  SentIds(q) \subseteq Items
<1>1. q.ids \in Seq(Items)
  BY DEF Question
<1> QED BY <1>1 DEF SentIds

(* A page is a set of matches; if it is not full it is all of them.          *)
LEMMA PagesOfMatches ==
    ASSUME NEW q \in Question, NEW matches, IsFiniteSet(matches), NEW S \in Pages(q, matches)
    PROVE  S \subseteq matches /\ (Whole(q, S) => S = matches)
<1> DEFINE left == IF Cardinality(matches) > q.offset THEN Cardinality(matches) - q.offset ELSE 0
<1>1. S \subseteq matches
  BY DEF Pages
<1>2. Cardinality(S) = IF ~Unlimited(q) /\ Limit(q) < left THEN Limit(q) ELSE left
  BY DEF Pages
<1>3. Cardinality(matches) \in Nat /\ IsFiniteSet(S) /\ Cardinality(S) \in Nat
  BY <1>1, FS_Subset, FS_CardinalityType
<1>4. ASSUME Whole(q, S) PROVE S = matches
  <2>1. q.offset = 0 /\ left = Cardinality(matches)
    BY <1>3, <1>4 DEF Whole
  <2>2. Limit(q) \in Nat
    BY DiscoveryAssumption DEF Limit, Question
  <2>3. Cardinality(S) = Cardinality(matches)
    BY <1>2, <1>3, <1>4, <2>1, <2>2 DEF Whole
  <2> QED BY <1>1, <2>3, FS_Subset
<1> QED BY <1>1, <1>4

(* What a history says grows with it.                                        *)
LEMMA HistoryGrows ==
    ASSUME NEW r, asked[r] \in Question, asked' = asked,
           wasLive[r] \subseteq wasLive'[r], wasGone[r] \subseteq wasGone'[r]
    PROVE  /\ Where(asked[r], wasLive[r]) \subseteq Where(asked[r], wasLive'[r])
           /\ Where(asked[r], wasGone[r]) \subseteq Where(asked[r], wasGone'[r])
           /\ AlwaysLive(r)' \subseteq AlwaysLive(r) /\ AlwaysGone(r)' \subseteq AlwaysGone(r)
           /\ Cardinality(Where(asked[r], wasLive[r])) <= Cardinality(Where(asked[r], wasLive'[r]))
           /\ Cardinality(AlwaysLive(r)') <= Cardinality(AlwaysLive(r))
<1>1. AlwaysLive(r)' = Where(asked[r], Items \ wasGone'[r]) /\ AlwaysGone(r)' = Where(asked[r], Items \ wasLive'[r])
  BY DEF AlwaysLive, AlwaysGone, Where
<1>2. Items \ wasGone'[r] \subseteq Items \ wasGone[r] /\ Items \ wasLive'[r] \subseteq Items \ wasLive[r]
  OBVIOUS
<1>3. /\ Where(asked[r], wasLive[r]) \subseteq Where(asked[r], wasLive'[r])
      /\ Cardinality(Where(asked[r], wasLive[r])) <= Cardinality(Where(asked[r], wasLive'[r]))
      /\ Where(asked[r], wasGone[r]) \subseteq Where(asked[r], wasGone'[r])
  BY PlacesGrow
<1>4. /\ AlwaysLive(r)' \subseteq AlwaysLive(r)
      /\ Cardinality(AlwaysLive(r)') <= Cardinality(AlwaysLive(r))
  BY <1>1, <1>2, PlacesGrow DEF AlwaysLive
<1>5. AlwaysGone(r)' \subseteq AlwaysGone(r)
  BY <1>1, <1>2, PlacesGrow DEF AlwaysGone
<1> QED BY <1>3, <1>4, <1>5

(* What was counted stays between its bounds while the history grows.        *)
LEMMA CountSurvives ==
    ASSUME NEW r, CountFits(r), asked[r] \in Question, total[r] \in Nat,
           asked' = asked, total' = total,
           wasLive[r] \subseteq wasLive'[r], wasGone[r] \subseteq wasGone'[r]
    PROVE  CountFits(r)'
<1>1. /\ Cardinality(Where(asked[r], wasLive[r])) <= Cardinality(Where(asked[r], wasLive'[r]))
      /\ Cardinality(AlwaysLive(r)') <= Cardinality(AlwaysLive(r))
      /\ Cardinality(Where(asked[r], wasLive[r])) \in Nat /\ Cardinality(Where(asked[r], wasLive'[r])) \in Nat
  BY HistoryGrows, PlacesFinite
<1>2. Cardinality(AlwaysLive(r)') \in Nat /\ Cardinality(AlwaysLive(r)) \in Nat
  <2>1. AlwaysLive(r)' = Where(asked[r], Items \ wasGone'[r])
    BY DEF AlwaysLive, Where
  <2> QED BY <2>1, PlacesFinite DEF AlwaysLive
<1>3. Where(asked[r], wasLive[r])' = Where(asked[r], wasLive'[r])
  BY DEF Where
<1>4. Cardinality(AlwaysLive(r))' = Cardinality(AlwaysLive(r)')
  OBVIOUS
<1> QED BY <1>1, <1>2, <1>3, <1>4 DEF CountFits

(* A step of the writers leaves every reader's question and answer alone and *)
(* extends the history of those in the middle of a query.                    *)
LEMMA WriterKeepsReads ==
    ASSUME ReadsInv, WriterStep
    PROVE  ReadsInv'
<1>1. IInv'
  <2>1. Next
    BY DEF WriterStep, Next
  <2> QED BY <2>1, InvariantStep DEF ReadsInv
<1>2. ReadsTypeOK'
  <2>1. UNCHANGED <<stage, asked, missing, total, page, found, cut>> /\ ReadsTypeOK
    BY DEF WriterStep, ReadsInv
  <2>2. \A r \in Readers :
          /\ wasLive[r] \cup (SentIds(asked[r]) \cap LiveIn(rows')) \in SUBSET Items
          /\ wasGone[r] \cup (SentIds(asked[r]) \ LiveIn(rows')) \in SUBSET Items
    BY <2>1, AskedTyped, SentIdsTyped DEF ReadsTypeOK
  <2>3. wasLive' \in [Readers -> SUBSET Items] /\ wasGone' \in [Readers -> SUBSET Items]
    BY <2>1, <2>2 DEF WriterStep, Watch, ReadsTypeOK
  <2> QED BY <2>1, <2>3 DEF ReadsTypeOK
<1>3. ASSUME NEW r \in Readers
      PROVE  (StageOfKind(r) /\ QueryFits(r) /\ Accounted(r))'
  <2>1. StageOfKind(r) /\ QueryFits(r) /\ Accounted(r)
    BY <1>3 DEF ReadsInv
  <2>2. UNCHANGED <<stage, asked, missing, total, page, found, cut>>
    BY DEF WriterStep
  <2>3. /\ wasLive'[r] = IF Observed(r) THEN wasLive[r] \cup (SentIds(asked[r]) \cap LiveIn(rows')) ELSE wasLive[r]
        /\ wasGone'[r] = IF Observed(r) THEN wasGone[r] \cup (SentIds(asked[r]) \ LiveIn(rows')) ELSE wasGone[r]
    BY <1>3 DEF WriterStep, Watch
  <2>c. asked[r] \in Question /\ total[r] \in Nat
    BY AskedTyped DEF ReadsInv, ReadsTypeOK
  <2>w. wasLive[r] \subseteq wasLive'[r] /\ wasGone[r] \subseteq wasGone'[r]
    BY <2>3
  <2>d. CountFits(r) => CountFits(r)'
    BY <2>2, <2>c, <2>w, CountSurvives
  <2>e. /\ Where(asked[r], wasLive[r]) \subseteq Where(asked[r], wasLive'[r])
        /\ Where(asked[r], wasGone[r]) \subseteq Where(asked[r], wasGone'[r])
        /\ AlwaysLive(r)' \subseteq AlwaysLive(r) /\ AlwaysGone(r)' \subseteq AlwaysGone(r)
    BY <2>2, <2>c, <2>w, HistoryGrows
  <2>f. /\ Where(asked[r], wasLive[r])' = Where(asked[r], wasLive'[r])
        /\ Where(asked[r], wasGone[r])' = Where(asked[r], wasGone'[r])
    BY <2>2 DEF Where
  <2>4. StageOfKind(r)'
    BY <2>1, <2>2, <2>d DEF StageOfKind
  <2>5. QueryFits(r)'
    <3> SUFFICES ASSUME stage[r] \in {"count", "page"} PROVE QueryFits(r)'
      BY <2>2 DEF QueryFits
    <3>1. /\ (SentIds(asked[r]) \cap LiveIn(rows))' \subseteq wasLive'[r]
          /\ (SentIds(asked[r]) \ LiveIn(rows))' \subseteq wasGone'[r]
      BY <2>2, <2>3 DEF Observed, SentIds, LiveIn
    <3>2. (r \notin cut => AlwaysGone(r) \subseteq missing[r])'
      BY <2>1, <2>2, <2>e DEF QueryFits
    <3>3. missing'[r] \subseteq Where(asked[r], wasGone'[r])
      BY <2>1, <2>2, <2>e DEF QueryFits
    <3> QED BY <2>f, <3>1, <3>2, <3>3 DEF QueryFits
  <2>6. Accounted(r)'
    <3> SUFFICES ASSUME stage[r] = "answered" /\ asked[r].kind \in Composed PROVE Accounted(r)'
      BY <2>2 DEF Accounted
    <3>1. /\ page'[r] \subseteq Where(asked[r], wasLive'[r])
          /\ missing'[r] \subseteq Where(asked[r], wasGone'[r])
          /\ r \notin cut' => AlwaysGone(r)' \subseteq missing'[r]
          /\ CountFits(r)'
          /\ asked[r].wants = Contents /\ Whole(asked[r], page[r]) => AlwaysLive(r)' \subseteq page'[r]
      BY <2>1, <2>2, <2>d, <2>e DEF Accounted
    <3>2. Whole(asked[r], page[r])' <=> Whole(asked[r], page[r])
      BY <2>2 DEF Whole, Unlimited, Limit
    <3> QED BY <2>2, <2>f, <3>1, <3>2 DEF Accounted
  <2> QED BY <2>4, <2>5, <2>6
<1> QED BY <1>1, <1>2, <1>3 DEF ReadsInv

LEMMA FirstStatementTyped ==
    ASSUME NEW q \in Question
    PROVE  /\ FirstStatement(q) \in {"discover", "scheduled", "answered", "missing"}
           /\ FirstStatement(q) = "answered" => q.ids = <<>>
           /\ FirstStatement(q) \in {"discover", "scheduled"} => q.kind \notin Composed
<1>1. CASE q.kind \in Discovery
  <2>1. FirstStatement(q) = "discover"
    BY <1>1, Zenon DEF FirstStatement, Discovery, Composed
  <2> QED BY <1>1, <2>1 DEF Discovery, Composed
<1>2. CASE q.kind = "scheduled"
  <2>1. FirstStatement(q) = "scheduled"
    BY <1>2, Zenon DEF FirstStatement, Discovery, Composed
  <2> QED BY <1>2, <2>1 DEF Composed
<1>3. CASE q.kind \in Composed
  <2>1. FirstStatement(q) = IF q.ids = <<>> THEN "answered" ELSE "missing"
    BY <1>3, Zenon DEF FirstStatement, Discovery, Composed
  <2> QED BY <2>1
<1> QED BY <1>1, <1>2, <1>3 DEF Question, Discovery, Composed

(* A reader whose own variables stay as they are, over tables that do.       *)
LEMMA Undisturbed ==
    ASSUME NEW q, StageOfKind(q), QueryFits(q), Accounted(q), rows' = rows,
           stage'[q] = stage[q], asked'[q] = asked[q], missing'[q] = missing[q],
           total'[q] = total[q], page'[q] = page[q], q \in cut' <=> q \in cut,
           wasLive'[q] = wasLive[q], wasGone'[q] = wasGone[q]
    PROVE  (StageOfKind(q) /\ QueryFits(q) /\ Accounted(q))'
<1>1. /\ AlwaysLive(q)' = AlwaysLive(q) /\ AlwaysGone(q)' = AlwaysGone(q)
      /\ Where(asked[q], wasLive[q])' = Where(asked[q], wasLive[q])
      /\ Where(asked[q], wasGone[q])' = Where(asked[q], wasGone[q])
  BY DEF AlwaysLive, AlwaysGone, Where
<1>2. SentIds(asked[q])' = SentIds(asked[q]) /\ LiveIn(rows)' = LiveIn(rows)
  BY DEF SentIds, LiveIn
<1>3. CountFits(q)' <=> CountFits(q)
  BY <1>1 DEF CountFits
<1>4. Whole(asked[q], page[q])' <=> Whole(asked[q], page[q])
  BY DEF Whole, Unlimited, Limit
<1>5. StageOfKind(q)'
  BY <1>3 DEF StageOfKind
<1>6. QueryFits(q)'
  BY <1>1, <1>2 DEF QueryFits
<1>7. Accounted(q)'
  BY <1>1, <1>3, <1>4 DEF Accounted
<1> QED BY <1>5, <1>6, <1>7

(* One reader's statement: what it does to the reader itself.                *)
LEMMA ReaderOwn ==
    ASSUME ReadsInv, NEW r \in Readers, ReaderStep(r)
    PROVE  /\ ReadsTypeOK'
           /\ (StageOfKind(r) /\ QueryFits(r) /\ Accounted(r))'
<1> USE DEF ReadStages, Statements, Composed, Discovery
<1>0. /\ ReadsTypeOK /\ TypeOK /\ StageOfKind(r) /\ QueryFits(r)
      /\ asked[r] \in Question
  BY AskedTyped DEF ReadsInv, IInv
<1>1. CASE Ask(r)
  <2>1. PICK q \in Questions : asked' = [asked EXCEPT ![r] = q] /\ Move(r, FirstStatement(q))
    BY <1>1 DEF Ask
  <2>2. q \in Question
    BY QuestionsAssumption
  <2>a. /\ FirstStatement(q) \in {"discover", "scheduled", "answered", "missing"}
        /\ FirstStatement(q) = "answered" => q.ids = <<>>
        /\ FirstStatement(q) \in {"discover", "scheduled"} => q.kind \notin Composed
    BY <2>2, FirstStatementTyped
  <2>3. /\ stage'[r] = FirstStatement(q) /\ stage' \in [Readers -> ReadStages]
    BY <1>0, <2>1, <2>a DEF Move, ReadsTypeOK
  <2>4. /\ UNCHANGED <<missing, total, page, found, cut, wasLive, wasGone>>
        /\ missing[r] = {} /\ page[r] = {} /\ total[r] = 0
    BY <1>0, <1>1 DEF Ask, StageOfKind
  <2>5. asked'[r] = q /\ asked' \in [Readers -> Questions \cup {NoQuestion}]
    BY <1>0, <2>1 DEF ReadsTypeOK
  <2>6. ReadsTypeOK'
    BY <1>0, <2>1, <2>3, <2>4, <2>5 DEF ReadsTypeOK
  <2>7. StageOfKind(r)' /\ QueryFits(r)'
    BY <2>a, <2>3, <2>4, <2>5 DEF StageOfKind, QueryFits
  <2>8. Accounted(r)'
    <3> SUFFICES ASSUME stage'[r] = "answered" PROVE Accounted(r)'
      BY DEF Accounted
    <3>1. q.ids = <<>>
      BY <2>a, <2>3
    <3>2. \A S : Where(q, S) = {} /\ Cardinality({}) = 0
      BY <3>1, FS_EmptySet DEF Where
    <3>3. AlwaysLive(r)' = {} /\ AlwaysGone(r)' = {}
      BY <2>5, <3>2 DEF AlwaysLive, AlwaysGone, Where
    <3>4. Where(asked[r], wasLive[r])' = {}
      BY <2>5, <3>1 DEF Where
    <3>5. CountFits(r)'
      BY <2>4, <3>2, <3>3, <3>4 DEF CountFits
    <3> QED BY <2>4, <3>3, <3>5 DEF Accounted
  <2> QED BY <2>6, <2>7, <2>8
<1>2. CASE ReadMissing(r)
  <2>0. PICK S \in UncheckedLoop(NamesNoLive(asked[r], rows)) :
          /\ missing' = [missing EXCEPT ![r] = S]
          /\ CutIf(r, S # NamesNoLive(asked[r], rows))
    BY <1>2 DEF ReadMissing
  <2>1. /\ missing'[r] = S /\ S \subseteq NamesNoLive(asked[r], rows)
        /\ r \notin cut' => S = NamesNoLive(asked[r], rows)
        /\ cut' \subseteq Readers
        /\ wasLive'[r] = SentIds(asked[r]) \cap LiveIn(rows)
        /\ wasGone'[r] = SentIds(asked[r]) \ LiveIn(rows)
        /\ stage'[r] = "count"
        /\ UNCHANGED <<rows, asked, total, page, found>>
    BY <1>0, <1>2, <2>0 DEF ReadMissing, ReadsTypeOK, Move, vars, UncheckedLoop, CutIf
  <2>2. SentIds(asked[r]) \subseteq Items /\ S \subseteq DOMAIN asked[r].ids /\ S \subseteq Nat
    BY <1>0, <2>1, SentIdsTyped, PlacesFinite DEF NamesNoLive
  <2>3. ReadsTypeOK'
    BY <1>0, <1>2, <2>0, <2>1, <2>2 DEF ReadsTypeOK, ReadMissing, Move
  <2>4. LiveIn(rows)' = LiveIn(rows) /\ SentIds(asked[r])' = SentIds(asked[r])
    BY <2>1 DEF LiveIn, SentIds
  <2>5. NamesNoLive(asked[r], rows) = Where(asked[r], wasGone'[r])
    BY <2>1, <2>2 DEF NamesNoLive, Where, SentIds
  <2>6. AlwaysGone(r)' = NamesNoLive(asked[r], rows)
    BY <2>1, <2>2 DEF AlwaysGone, NamesNoLive, Where, SentIds
  <2>7. Where(asked[r], wasGone[r])' = Where(asked[r], wasGone'[r])
    BY <2>1 DEF Where
  <2>8. QueryFits(r)'
    BY <2>1, <2>4, <2>5, <2>6, <2>7 DEF QueryFits
  <2> QED BY <2>1, <2>3, <2>8 DEF StageOfKind, Accounted
<1>3. CASE ReadCount(r)
  <2>1. /\ stage'[r] = "page" /\ stage[r] = "count"
        /\ total'[r] = Cardinality(Matches(asked[r], rows))
        /\ UNCHANGED <<rows, asked, missing, page, found, cut, wasLive, wasGone>>
    BY <1>0, <1>3 DEF ReadCount, ReadsTypeOK, Move, vars
  <2>2. Cardinality(Matches(asked[r], rows)) \in Nat
    BY <1>0, PlacesFinite DEF Matches
  <2>3. ReadsTypeOK'
    BY <1>0, <1>3, <2>2 DEF ReadsTypeOK, ReadCount, Move
  <2>4. /\ LiveIn(rows)' = LiveIn(rows) /\ SentIds(asked[r])' = SentIds(asked[r])
        /\ AlwaysLive(r)' = AlwaysLive(r) /\ AlwaysGone(r)' = AlwaysGone(r)
        /\ Where(asked[r], wasLive[r])' = Where(asked[r], wasLive[r])
        /\ Where(asked[r], wasGone[r])' = Where(asked[r], wasGone[r])
    BY <2>1 DEF LiveIn, SentIds, AlwaysLive, AlwaysGone, Where
  <2>5. CountFits(r)'
    <3>1. Cardinality(Matches(asked[r], rows)) <= Cardinality(Where(asked[r], wasLive[r]))
      <4>1. SentIds(asked[r]) \cap {i \in LiveIn(rows) : rows[i].content \in asked[r].wants} \subseteq wasLive[r]
        BY <1>0, <2>1 DEF QueryFits
      <4> QED BY <1>0, <4>1, PlacesGrow DEF Matches
    <3>2. asked[r].wants = Contents => Cardinality(AlwaysLive(r)) <= Cardinality(Matches(asked[r], rows))
      <4> SUFFICES ASSUME asked[r].wants = Contents
                   PROVE  Cardinality(AlwaysLive(r)) <= Cardinality(Matches(asked[r], rows))
        OBVIOUS
      <4>1. SentIds(asked[r]) \ LiveIn(rows) \subseteq wasGone[r]
        BY <1>0, <2>1 DEF QueryFits
      <4>2. \A i \in LiveIn(rows) : rows[i].content \in Contents
        BY <1>0 DEF LiveIn, TypeOK, Row
      <4>3. SentIds(asked[r]) \cap (Items \ wasGone[r]) \subseteq {i \in LiveIn(rows) : rows[i].content \in asked[r].wants}
        BY <4>1, <4>2
      <4> QED BY <1>0, <4>3, PlacesGrow DEF Matches, AlwaysLive
    <3> QED BY <2>1, <2>4, <3>1, <3>2 DEF CountFits
  <2>6. QueryFits(r)'
    BY <1>0, <2>1, <2>4 DEF QueryFits
  <2> QED BY <2>1, <2>3, <2>5, <2>6 DEF StageOfKind, Accounted
<1>4. CASE ReadPage(r)
  <2> DEFINE M == Matches(asked[r], rows)
  <2>1. PICK S \in Pages(asked[r], M) : page' = [page EXCEPT ![r] = S]
    BY <1>4 DEF ReadPage, CheckedLoop
  <2>2. S \subseteq M /\ (Whole(asked[r], S) => S = M)
    <3>1. IsFiniteSet(M)
      BY <1>0, PlacesFinite DEF Matches
    <3> QED BY <1>0, <2>1, <3>1, PagesOfMatches
  <2>3. SentIds(asked[r]) \cap LiveIn(rows) \subseteq wasLive[r] /\ SentIds(asked[r]) \ LiveIn(rows) \subseteq wasGone[r]
    BY <1>0, <1>4 DEF QueryFits, ReadPage
  <2>4. M \subseteq Where(asked[r], wasLive[r])
    <3>1. SentIds(asked[r]) \cap {i \in LiveIn(rows) : rows[i].content \in asked[r].wants} \subseteq wasLive[r]
      BY <2>3
    <3> QED BY <1>0, <3>1, PlacesGrow DEF Matches
  <2>5. asked[r].wants = Contents => AlwaysLive(r) \subseteq M
    <3> SUFFICES ASSUME asked[r].wants = Contents PROVE AlwaysLive(r) \subseteq M
      OBVIOUS
    <3>1. \A i \in LiveIn(rows) : rows[i].content \in Contents
      BY <1>0 DEF LiveIn, TypeOK, Row
    <3>2. SentIds(asked[r]) \cap (Items \ wasGone[r]) \subseteq {i \in LiveIn(rows) : rows[i].content \in asked[r].wants}
      BY <2>3, <3>1
    <3> QED BY <1>0, <3>2, PlacesGrow DEF Matches, AlwaysLive
  <2>6. /\ page'[r] = S /\ stage'[r] = "answered" /\ stage[r] = "page"
        /\ UNCHANGED <<rows, asked, missing, total, found, cut, wasLive, wasGone>>
    BY <1>0, <1>4, <2>1 DEF ReadPage, ReadsTypeOK, Move, vars
  <2>7. ReadsTypeOK'
    <3>1. S \subseteq DOMAIN asked[r].ids /\ S \subseteq Nat
      BY <1>0, <2>2, PlacesFinite DEF Matches
    <3> HIDE DEF M
    <3> QED BY <1>0, <1>4, <2>1, <3>1 DEF ReadsTypeOK, ReadPage, Move
  <2>8. Accounted(r)'
    <3>1. /\ r \notin cut => AlwaysGone(r) \subseteq missing[r]
          /\ missing[r] \subseteq Where(asked[r], wasGone[r])
          /\ CountFits(r)
      BY <1>0, <2>6 DEF QueryFits, StageOfKind
    <3>2. /\ AlwaysLive(r)' = AlwaysLive(r) /\ AlwaysGone(r)' = AlwaysGone(r)
          /\ Where(asked[r], wasLive[r])' = Where(asked[r], wasLive[r])
          /\ Where(asked[r], wasGone[r])' = Where(asked[r], wasGone[r])
      BY <2>6 DEF AlwaysLive, AlwaysGone, Where
    <3>3. CountFits(r)'
      BY <2>6, <3>1, <3>2 DEF CountFits
    <3>4. S \subseteq Where(asked[r], wasLive[r])
      BY <2>2, <2>4
    <3>5. asked[r].wants = Contents /\ Whole(asked[r], S) => AlwaysLive(r) \subseteq S
      BY <2>2, <2>5
    <3>6. Whole(asked[r], page[r])' <=> Whole(asked[r], S)
      BY <2>6 DEF Whole, Unlimited, Limit
    <3> HIDE DEF M
    <3> QED BY <2>6, <3>1, <3>2, <3>3, <3>4, <3>5, <3>6 DEF Accounted
  <2> QED BY <2>6, <2>7, <2>8 DEF StageOfKind, QueryFits
<1>5. CASE ListOrSearch(r)
  <2>a. PICK full \in Pages(asked[r], Discovered(asked[r], rows)) : \E S \in UncheckedLoop(full) :
          found' = [found EXCEPT ![r] = S] /\ CutIf(r, S # full)
    BY <1>5 DEF ListOrSearch
  <2>0. PICK S \in UncheckedLoop(full) : found' = [found EXCEPT ![r] = S] /\ CutIf(r, S # full)
    BY <2>a
  <2>1. /\ stage'[r] = "answered" /\ asked[r].kind \notin Composed
        /\ UNCHANGED <<asked, missing, total, page, wasLive, wasGone>>
    BY <1>0, <1>5 DEF ListOrSearch, ReadsTypeOK, Move, StageOfKind
  <2>2. ReadsTypeOK'
    <3>1. S \subseteq Items
      BY <2>0 DEF Discovered, Pages, UncheckedLoop
    <3> QED BY <1>0, <1>5, <2>0, <2>1, <3>1 DEF ListOrSearch, ReadsTypeOK, Move, CutIf
  <2> QED BY <2>1, <2>2 DEF StageOfKind, QueryFits, Accounted
<1>6. CASE ListScheduled(r)
  <2>1. /\ stage'[r] = "answered" /\ asked[r].kind \notin Composed
        /\ UNCHANGED <<asked, missing, total, page, cut, wasLive, wasGone>>
    BY <1>0, <1>6 DEF ListScheduled, ReadsTypeOK, Move, StageOfKind
  <2>2. ReadsTypeOK'
    <3>1. WithRule(rows) \subseteq Items
      BY DEF WithRule, LiveIn
    <3> QED BY <1>0, <1>6, <2>1, <3>1 DEF ListScheduled, ReadsTypeOK, Move, CheckedLoop
  <2> QED BY <2>1, <2>2 DEF StageOfKind, QueryFits, Accounted
<1>7. CASE ReadFails(r)
  <2>1. stage'[r] = "failed" /\ stage' \in [Readers -> ReadStages]
        /\ UNCHANGED <<asked, missing, total, page, found, cut, wasLive, wasGone>>
    BY <1>0, <1>7 DEF ReadFails, ReadsTypeOK, Move
  <2>2. ReadsTypeOK'
    BY <1>0, <2>1 DEF ReadsTypeOK
  <2> QED BY <2>1, <2>2 DEF StageOfKind, QueryFits, Accounted
<1> QED BY <1>1, <1>2, <1>3, <1>4, <1>5, <1>6, <1>7 DEF ReaderStep

LEMMA ReaderKeepsReads ==
    ASSUME ReadsInv, NEW r \in Readers, ReaderStep(r)
    PROVE  ReadsInv'
<1>1. UNCHANGED vars
  BY DEF ReaderStep, Ask, ReadMissing, ReadCount, ReadPage, ListOrSearch, ListScheduled, ReadFails
<1>2. IInv'
  BY <1>1, InvariantStep DEF ReadsInv
<1>3. ReadsTypeOK' /\ (StageOfKind(r) /\ QueryFits(r) /\ Accounted(r))'
  BY ReaderOwn
<1>4. ASSUME NEW q \in Readers, q # r
      PROVE  (StageOfKind(q) /\ QueryFits(q) /\ Accounted(q))'
  <2>1. /\ stage'[q] = stage[q] /\ asked'[q] = asked[q] /\ missing'[q] = missing[q]
        /\ page'[q] = page[q] /\ wasLive'[q] = wasLive[q] /\ wasGone'[q] = wasGone[q]
        /\ total'[q] = total[q] /\ (q \in cut' <=> q \in cut)
    BY <1>4 DEF ReaderStep, Ask, ReadMissing, ReadCount, ReadPage, ListOrSearch, ListScheduled,
                ReadFails, Move, CutIf, ReadsInv, ReadsTypeOK
  <2>2. StageOfKind(q) /\ QueryFits(q) /\ Accounted(q)
    BY <1>4 DEF ReadsInv
  <2>3. rows' = rows
    BY <1>1 DEF vars
  <2> QED BY <2>1, <2>2, <2>3, Undisturbed
<1> QED BY <1>2, <1>3, <1>4 DEF ReadsInv

LEMMA ReadsStep ==
    ASSUME ReadsInv, [ReadsNext]_allVars
    PROVE  ReadsInv'
<1>1. CASE WriterStep
  BY <1>1, WriterKeepsReads
<1>2. CASE \E r \in Readers : ReaderStep(r)
  BY <1>2, ReaderKeepsReads
<1>3. CASE UNCHANGED allVars
  <2>1. IInv'
    BY <1>3, InvariantStep DEF ReadsInv, allVars
  <2>2. UNCHANGED <<rows, stage, asked, missing, total, page, found, cut, wasLive, wasGone>>
    BY <1>3 DEF allVars, reading, vars
  <2>3. ReadsTypeOK'
    BY <2>2 DEF ReadsInv, ReadsTypeOK
  <2>4. ASSUME NEW r \in Readers PROVE (StageOfKind(r) /\ QueryFits(r) /\ Accounted(r))'
    <3>1. StageOfKind(r) /\ QueryFits(r) /\ Accounted(r)
      BY <2>4 DEF ReadsInv
    <3> QED BY <2>2, <3>1, Undisturbed
  <2> QED BY <2>1, <2>3, <2>4 DEF ReadsInv
<1> QED BY <1>1, <1>2, <1>3 DEF ReadsNext, AllServed

LEMMA ReadsStart == ReadsInit => ReadsInv
<1> SUFFICES ASSUME ReadsInit PROVE ReadsInv
  OBVIOUS
<1>1. IInv
  BY InitInvariant DEF ReadsInit
<1>2. ReadsTypeOK
  BY DEF ReadsInit, ReadsTypeOK, ReadStages, NoQuestion
<1>3. ASSUME NEW r \in Readers PROVE StageOfKind(r) /\ QueryFits(r) /\ Accounted(r)
  BY <1>3 DEF ReadsInit, StageOfKind, QueryFits, Accounted
<1> QED BY <1>1, <1>2, <1>3 DEF ReadsInv

LEMMA ReadsInvariant == ReadsSpec => []ReadsInv
<1> QED BY ReadsStart, ReadsStep, PTL DEF ReadsSpec

-----------------------------------------------------------------------------
(* The results.                                                              *)

(* However the writers overlap the three statements of a query, an id whose  *)
(* item neither comes nor goes meanwhile is answered rightly.                *)
THEOREM QueriesAccountForSteadyIds == ReadsSpec => []SteadyIdsAccountedFor
<1>1. ReadsInv => SteadyIdsAccountedFor
  BY DEF ReadsInv, Accounted, CountFits, Answered, Composed, SteadyIdsAccountedFor
<1> QED BY <1>1, ReadsInvariant, PTL

(* A failure never turns into a null record: a batch answered at all says    *)
(* null only of ids that were gone at some moment of the read.               *)
THEOREM NullsAreHonest == ReadsSpec => []NullSlotsWereGone
<1>1. ASSUME ReadsInv, NEW r \in Readers, Answered(r, "batch"), NEW k \in DOMAIN asked[r].ids
      PROVE  IF Filled(asked[r], page[r], k) THEN asked[r].ids[k] \in wasLive[r]
                                             ELSE asked[r].ids[k] \in wasGone[r]
  <2>1. asked[r] \in Questions /\ asked[r] \in Question
    BY <1>1, QuestionsAssumption DEF ReadsInv, ReadsTypeOK, Answered, NoQuestion
  <2>2. asked[r].wants = Contents /\ Whole(asked[r], page[r])
    BY <1>1, <2>1, QuestionsAssumption DEF Answered, Whole, Unlimited, Discovery
  <2>3. page[r] \subseteq Where(asked[r], wasLive[r]) /\ AlwaysLive(r) \subseteq page[r]
    BY <1>1, <2>2 DEF ReadsInv, Accounted, Answered, Composed
  <2>4. CASE Filled(asked[r], page[r], k)
    <3>1. PICK j \in page[r] : asked[r].ids[j] = asked[r].ids[k]
      BY <2>4 DEF Filled
    <3> QED BY <2>3, <2>4, <3>1 DEF Where
  <2>5. CASE ~Filled(asked[r], page[r], k)
    <3>1. k \notin page[r]
      BY <2>5 DEF Filled
    <3>2. asked[r].ids[k] \in Items
      BY <1>1, <2>1, SentIdsTyped DEF SentIds
    <3> QED BY <1>1, <2>3, <2>5, <3>1, <3>2 DEF AlwaysLive, Where
  <2> QED BY <2>4, <2>5
<1>2. ReadsInv => NullSlotsWereGone
  BY <1>1, Zenon DEF NullSlotsWereGone
<1> QED BY <1>2, ReadsInvariant, PTL

(* Type correctness of the readers, for any readers and questions.           *)
THEOREM ReadsTypeCorrect == ReadsSpec => []ReadsTypeOK
<1>1. ReadsInv => ReadsTypeOK
  BY DEF ReadsInv
<1> QED BY <1>1, ReadsInvariant, PTL

(* The recursive query of ListItems and Search withholds exactly the items   *)
(* at or under a live hold, in every parent graph the writers can build.     *)
THEOREM DiscoveryIsGated == ReadsSpec => DiscoveryHonoursHolds
<1>1. ASSUME ReadsInv, [ReadsNext]_allVars, NEW r \in Readers,
             stage[r] = "discover", stage'[r] = "answered", ~asked[r].includeHeld, NEW i \in Items
      PROVE  /\ i \in found'[r] => Discoverable(asked[r], rows, i)
             /\ r \notin cut' /\ Whole(asked[r], found'[r]) /\ Discoverable(asked[r], rows, i) =>
                   i \in found'[r]
  <2>1. ParentsOf(rows) \in Graphs
    BY <1>1, ParentsTyped DEF ReadsInv, IInv, TypeOK
  <2>2. i \in Held(rows) <=> \E s \in HeldSeeds(rows) : s \in Ancestors(ParentsOf(rows), i)
    <3>1. HeldSeeds(rows) \in SUBSET Items
      BY DEF HeldSeeds, LiveIn
    <3> QED BY <1>1, <2>1, <3>1, HeldIffAncestorHeld DEF Held
  <2>3. i \in Held(rows) <=> UnderLiveHold(rows, i)
    BY <2>2 DEF UnderLiveHold, HeldSeeds, LiveIn, Ancestors
  <2>4. i \in Discovered(asked[r], rows) <=> Discoverable(asked[r], rows, i)
    BY <1>1, <2>3 DEF Discovered, Discoverable
  <2>5. PICK q \in Readers : ReaderStep(q)
    BY <1>1 DEF ReadsNext, WriterStep, AllServed, allVars, reading
  <2>6. q = r
    BY <1>1, <2>5 DEF ReaderStep, Ask, ReadMissing, ReadCount, ReadPage, ListOrSearch,
                      ListScheduled, ReadFails, Move, ReadsInv, ReadsTypeOK
  <2>7. ListOrSearch(r)
    BY <1>1, <2>5, <2>6 DEF ReaderStep, Ask, ReadMissing, ReadCount, ReadPage, ListScheduled,
                            ReadFails, Move, ReadsInv, ReadsTypeOK, Statements
  <2>a. PICK full \in Pages(asked[r], Discovered(asked[r], rows)) : \E S \in UncheckedLoop(full) :
          found' = [found EXCEPT ![r] = S] /\ CutIf(r, S # full)
    BY <2>7 DEF ListOrSearch
  <2>8. PICK S \in UncheckedLoop(full) : found' = [found EXCEPT ![r] = S] /\ CutIf(r, S # full)
    BY <2>a
  <2>9. found'[r] = S /\ S \subseteq full /\ (r \notin cut' => S = full)
    BY <1>1, <2>8 DEF ReadsInv, ReadsTypeOK, CutIf, UncheckedLoop
  <2>10. full \subseteq Discovered(asked[r], rows)
         /\ (Whole(asked[r], full) => full = Discovered(asked[r], rows))
    <3>1. IsFiniteSet(Discovered(asked[r], rows))
      BY DiscoveryAssumption, FS_Subset DEF Discovered
    <3> QED BY <1>1, <2>8, <3>1, AskedTyped, PagesOfMatches DEF ReadsInv
  <2> QED BY <2>4, <2>9, <2>10
<1>2. ReadsInv /\ [ReadsNext]_allVars =>
        [\A r \in Readers :
           stage[r] = "discover" /\ stage'[r] = "answered" /\ ~asked[r].includeHeld =>
           \A i \in Items :
              /\ i \in found'[r] => Discoverable(asked[r], rows, i)
              /\ r \notin cut' /\ Whole(asked[r], found'[r]) /\ Discoverable(asked[r], rows, i) =>
                    i \in found'[r]]_allVars
  BY <1>1
<1> QED BY <1>2, ReadsInvariant, PTL DEF ReadsSpec, DiscoveryHonoursHolds

(* The readers write nothing and hold no writer up: the store with readers   *)
(* beside it is a store, so all that is proved of its writers, the forest,   *)
(* the purges on record, the one winner and the ledger it implements, is     *)
(* true beside any readers too.                                              *)
THEOREM ReadersLeaveTheStoreBe == ReadsSpec => Spec
<1>1. ReadsInit => Init
  BY DEF ReadsInit
<1>2. [ReadsNext]_allVars => [Next]_vars
  <2> SUFFICES ASSUME [ReadsNext]_allVars PROVE [Next]_vars
    OBVIOUS
  <2>1. CASE WriterStep
    BY <2>1 DEF WriterStep, Next
  <2>2. ASSUME NEW r \in Readers, ReaderStep(r) PROVE UNCHANGED vars
    BY <2>2 DEF ReaderStep, Ask, ReadMissing, ReadCount, ReadPage, ListOrSearch, ListScheduled, ReadFails
  <2>3. CASE AllServed \/ UNCHANGED allVars
    BY <2>3 DEF AllServed, allVars
  <2> QED BY <2>1, <2>2, <2>3 DEF ReadsNext
<1> QED BY <1>1, <1>2, PTL DEF ReadsSpec, Spec

=============================================================================
