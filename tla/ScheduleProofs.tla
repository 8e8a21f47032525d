---------------------------- MODULE ScheduleProofs ----------------------------
(* Theorems of Schedule, for any schedules, windows, horizon and cap: what a *)
(* rolling item visits, when it retires, what a preview of it is worth, and  *)
(* where its reminders fall.                                                 *)
EXTENDS Schedule, LeadsProofs, FiniteSetTheorems, WellFoundedInduction, TLAPS

-----------------------------------------------------------------------------
(* Instants and their sets.                                                  *)

LEMMA InstantsAreNumbers ==
    /\ Instants \subseteq 0..Last /\ Instants \subseteq Nat /\ None \notin Instants
    /\ \A t, u \in Instants : t < u => t + Second <= u
<1>1. Last \in Nat
  BY ScheduleAssumption
<1>2. \A t \in Instants : t \in Nat /\ t % 2 = 0 /\ t <= Last
  BY <1>1 DEF Instants, Second
<1> QED BY <1>1, <1>2 DEF Instants, None, Second

LEMMA FiniteInstants ==
    ASSUME NEW S, S \subseteq Instants
    PROVE  IsFiniteSet(S)
<1>1. IsFiniteSet(0..Last)
  BY ScheduleAssumption, FS_Interval
<1> QED BY <1>1, InstantsAreNumbers, FS_Subset

(* A set of instants that is not empty has a first one.                      *)
LEMMA FirstIsFirst ==
    ASSUME NEW S, S \subseteq Instants, S # {}
    PROVE  First(S) \in S /\ \A u \in S : First(S) <= u
<1>1. IsWellFoundedOn(OpToRel(<, Nat), Nat)
  BY NatLessThanWellFounded
<1>2. S \subseteq Nat
  BY InstantsAreNumbers
<1>3. PICK x \in S : \A y \in S : ~ (<<y, x>> \in OpToRel(<, Nat))
  BY <1>1, <1>2, WFMin
<1>4. \A y \in S : ~(y < x)
  BY <1>2, <1>3 DEF OpToRel
<1>5. \A y \in S : x <= y
  BY <1>2, <1>4
<1> QED BY <1>3, <1>5, Zenon DEF First

LEMMA FirstOfNone ==
    ASSUME NEW S, S \subseteq Instants
    PROVE  First(S) = None <=> S = {}
BY FirstIsFirst, InstantsAreNumbers DEF First

-----------------------------------------------------------------------------
(* What is expanded.                                                         *)

LEMMA ProposalFacts ==
    ASSUME NEW s \in Proposals
    PROVE  /\ s.dtstart \in Instants \cup {None} /\ s.due \in Instants \cup {None}
           /\ s.rrule.every \in Nat /\ s.nag.every \in Nat
           /\ s.rdate \subseteq Instants /\ s.exdate \subseteq Instants
<1>1. s \in Proposal
  BY ScheduleAssumption
<1> QED BY <1>1 DEF Proposal, RuleType

LEMMA NoRuleNoInstants ==
    ASSUME NEW rule, rule.every \in Nat, ~IsRule(rule), NEW anchor
    PROVE  Recurs(rule, anchor) = {}
BY DEF IsRule, Recurs

(* The due series does not move with the due date: a rule is only accepted   *)
(* with an anchor of its own.                                                *)
LEMMA SeriesIsDueSeries ==
    ASSUME NEW s \in Proposals, Valid(s), NEW d
    PROVE  Series(s.rrule, s.rdate, s.exdate, Anchor(s, d)) = DueSeries(s)
<1>1. Recurs(s.rrule, Anchor(s, d)) = Recurs(s.rrule, s.dtstart)
  <2>1. CASE IsRule(s.rrule)
    BY <2>1 DEF Valid, Anchor
  <2>2. CASE ~IsRule(s.rrule)
    BY <2>2, NoRuleNoInstants, ProposalFacts
  <2> QED BY <2>1, <2>2
<1> QED BY <1>1 DEF Series, DueSeries

LEMMA DueSeriesFacts ==
    ASSUME NEW s \in Proposals
    PROVE  /\ DueSeries(s) \subseteq Instants
           /\ ~HasDueRecurrence(s) => DueSeries(s) = {}
<1>1. Recurs(s.rrule, s.dtstart) \subseteq Instants
  BY DEF Recurs
<1>2. ~HasDueRecurrence(s) => Recurs(s.rrule, s.dtstart) = {} /\ s.rdate = {}
  BY NoRuleNoInstants, ProposalFacts DEF HasDueRecurrence
<1> QED BY <1>1, <1>2, ProposalFacts DEF DueSeries

(* DueOccurrences is the part of the series between from and to.             *)
LEMMA DueOccurrencesOf ==
    ASSUME NEW s \in Proposals, Valid(s), NEW d, NEW from, NEW to
    PROVE  DueOccurrences(s, d, from, to) = {t \in DueSeries(s) : from <= t /\ t <= to}
<1>1. CASE HasDueRecurrence(s)
  BY <1>1, SeriesIsDueSeries DEF DueOccurrences, Expand
<1>2. CASE ~HasDueRecurrence(s)
  BY <1>2, DueSeriesFacts DEF DueOccurrences
<1> QED BY <1>1, <1>2

LEMMA NagOccurrencesOf ==
    ASSUME NEW s \in Proposals, NEW d, NEW from, NEW to
    PROVE  NagOccurrences(s, d, from, to) = {t \in NagSeries(s, d) : from <= t /\ t <= to}
<1>1. CASE IsRule(s.nag)
  BY <1>1 DEF NagOccurrences, Expand, Series, NagSeries
<1>2. CASE ~IsRule(s.nag)
  BY <1>2, NoRuleNoInstants, ProposalFacts DEF NagOccurrences, NagSeries
<1> QED BY <1>1, <1>2

(* The next due date: the first of the series at least a second later, if it *)
(* is not further away than the horizon.                                     *)
LEMMA NextIsFirst ==
    ASSUME NEW s \in Proposals, Valid(s), NEW d, NEW t \in Nat,
           NEW next, next = NextDueOccurrence(s, d, t)
    PROVE  /\ next = None => \A u \in DueSeries(s) : u < t + Second \/ u > t + Horizon
           /\ next # None => /\ next \in DueSeries(s) /\ next \in Instants /\ next >= t + Second
                             /\ \A u \in DueSeries(s) : u >= t + Second => next <= u
<1> DEFINE S == {u \in DueSeries(s) : t + Second <= u /\ u <= t + Horizon}
<1>1. next = First(S)
  BY DueOccurrencesOf DEF NextDueOccurrence
<1>2. S \subseteq Instants /\ DueSeries(s) \subseteq Instants /\ Instants \subseteq Nat
  BY DueSeriesFacts, InstantsAreNumbers
<1>3. Horizon \in Nat /\ Second \in Nat
  BY ScheduleAssumption DEF Second
<1>4. CASE next = None
  <2>1. S = {}
    BY <1>1, <1>2, <1>4, FirstOfNone
  <2>2. ASSUME NEW u \in DueSeries(s) PROVE u < t + Second \/ u > t + Horizon
    <3>1. ~(t + Second <= u /\ u <= t + Horizon)
      BY <2>1
    <3>2. u \in Nat
      BY <1>2
    <3> QED BY <1>3, <3>1, <3>2
  <2> QED BY <1>4, <2>2
<1>5. CASE next # None
  <2>1. S # {}
    BY <1>1, <1>2, <1>5, FirstOfNone
  <2>2. next \in S /\ \A u \in S : next <= u
    BY <1>1, <1>2, <2>1, FirstIsFirst
  <2>3. \A u \in DueSeries(s) : u >= t + Second => next <= u
    <3> SUFFICES ASSUME NEW u \in DueSeries(s), u >= t + Second PROVE next <= u
      OBVIOUS
    <3>1. u \in Nat /\ next \in Nat
      BY <1>2, <2>2
    <3>4. next <= t + Horizon
      BY <2>2
    <3>2. CASE u <= t + Horizon
      BY <2>2, <3>2
    <3>3. CASE ~(u <= t + Horizon)
      BY <1>3, <3>1, <3>3, <3>4
    <3> QED BY <3>2, <3>3
  <2> QED BY <1>2, <1>3, <1>5, <2>2, <2>3
<1> QED BY <1>4, <1>5

-----------------------------------------------------------------------------
(* The inductive invariant.                                                  *)

Typed ==
    /\ sched \in Proposals
    /\ due \in Instants \cup {None}
    /\ now \in Nat /\ late \in Nat \cup {None} /\ late <= now
    /\ state \in {"proposed", "refused", "stored", "retired"}
    /\ state \in {"stored", "retired"} => Valid(sched)

(* What the item has been through.                                           *)
Walked ==
    /\ state \in {"proposed", "refused"} => due = sched.due /\ visited = {}
    /\ visited \subseteq DueSeries(sched)
    /\ HasDueRecurrence(sched) /\ sched.due # None =>
          /\ due # None /\ sched.due <= due
          /\ visited \subseteq LaterThan(sched, sched.due)
          /\ \A t \in LaterThan(sched, sched.due) \ visited : t <= due => t < late + Second

Retired ==
    state = "retired" =>
        after \in Nat /\ \A u \in DueSeries(sched) : u < after + Second \/ u > after + Horizon

ScheduleInv == Typed /\ Walked /\ Retired /\ PreviewHidesNothing

(* The steps that leave the item and its history alone.                      *)
LEMMA StillKeeps ==
    ASSUME Typed, Walked, Retired, UNCHANGED <<sched, due, state, after, late, visited>>,
           now' \in Nat, now <= now'
    PROVE  Typed' /\ Walked' /\ Retired'
<1>1. late' <= now'
  BY DEF Typed, None
<1>2. Typed'
  BY <1>1 DEF Typed
<1>3. Walked'
  BY DEF Walked
<1> QED BY <1>2, <1>3 DEF Retired

LEMMA WriteKeeps ==
    ASSUME Typed, Walked, Write
    PROVE  Typed' /\ Walked' /\ Retired'
<1>1. UNCHANGED <<sched, due, after, late, visited, now>> /\ state = "proposed"
  BY DEF Write
<1>2. state' = "refused" \/ (state' = "stored" /\ Valid(sched))
  BY DEF Write
<1>3. Typed'
  BY <1>1, <1>2 DEF Typed
<1>4. Walked'
  <2>1. due = sched.due /\ visited = {}
    BY <1>1 DEF Walked
  <2> QED BY <1>1, <2>1 DEF Walked
<1> QED BY <1>1, <1>2, <1>3, <1>4 DEF Retired

LEMMA LaterStill ==
    ASSUME NEW u \in Int, NEW t \in Int, NEW v \in Int, t <= v, u < t + Second
    PROVE  u < v + Second
BY DEF Second

(* A roll from t, the due date or a later now.                               *)
LEMMA RollKeeps ==
    ASSUME Typed, Walked, NEW t \in Nat, RollFrom(t),
           \/ t = due /\ late' = late
           \/ t > due /\ t = now /\ late' = now
    PROVE  Typed' /\ Walked' /\ Retired'
<1>1. UNCHANGED <<sched, now>> /\ state = "stored" /\ sched \in Proposals /\ Valid(sched)
  BY DEF RollFrom, Typed
<1>2. PICK next : next = NextDueOccurrence(sched, due, t)
  OBVIOUS
<1>3. late' \in Nat \cup {None} /\ late <= late' /\ late' <= now'
  BY <1>1 DEF Typed, None
<1>6. late \in Int /\ late' \in Int
  BY <1>3 DEF Typed, None
<1>7. ASSUME NEW u \in Nat, u < late + Second PROVE u < late' + Second
  <2>1. late <= late'
    BY <1>3
  <2> QED BY <1>6, <1>7, <2>1, LaterStill
<1>4. CASE next = None
  <2>1. state' = "retired" /\ after' = t /\ UNCHANGED <<due, visited>>
    BY <1>2, <1>4 DEF RollFrom
  <2>2. \A u \in DueSeries(sched) : u < t + Second \/ u > t + Horizon
    BY <1>1, <1>2, <1>4, NextIsFirst
  <2>3. Typed'
    BY <1>1, <1>3, <2>1 DEF Typed
  <2>4. Walked'
    <3>1. \A u \in Instants : u < late + Second => u < late' + Second
      BY <1>7, InstantsAreNumbers
    <3>2. LaterThan(sched, sched.due) \subseteq Instants
      BY <1>1, DueSeriesFacts DEF LaterThan
    <3> QED BY <1>1, <2>1, <3>1, <3>2 DEF Walked
  <2> QED BY <1>1, <2>1, <2>2, <2>3, <2>4 DEF Retired
<1>5. CASE next # None
  <2>1. due' = next /\ visited' = visited \cup {next} /\ UNCHANGED <<state, after>>
    BY <1>2, <1>5 DEF RollFrom
  <2>2. /\ next \in DueSeries(sched) /\ next \in Instants /\ next >= t + Second
        /\ \A u \in DueSeries(sched) : u >= t + Second => next <= u
    BY <1>1, <1>2, <1>5, NextIsFirst
  <2>3. Typed'
    BY <1>1, <1>3, <2>1, <2>2 DEF Typed
  <2>4. visited' \subseteq DueSeries(sched)
    BY <2>1, <2>2 DEF Walked
  <2>5. ASSUME HasDueRecurrence(sched), sched.due # None
        PROVE  /\ next # None /\ sched.due <= next
               /\ visited' \subseteq LaterThan(sched, sched.due)
               /\ \A u \in LaterThan(sched, sched.due) \ visited' : u <= next => u < late' + Second
    <3>1. due \in Instants /\ sched.due \in Instants /\ sched.due <= due
      BY <1>1, <2>5, ProposalFacts DEF Walked, Typed
    <3>2. due \in Nat /\ sched.due \in Nat /\ next \in Nat /\ Second \in Nat \ {0} /\ due <= t
      <4>1. due \in Nat /\ sched.due \in Nat /\ next \in Nat
        BY <2>2, <3>1, InstantsAreNumbers
      <4> QED BY <4>1 DEF Second
    <3>3. sched.due < next
      BY <2>2, <3>1, <3>2
    <3>4. visited' \subseteq LaterThan(sched, sched.due)
      BY <2>1, <2>2, <2>5, <3>3 DEF Walked, LaterThan
    <3>5. ASSUME NEW u \in LaterThan(sched, sched.due) \ visited', u <= next
          PROVE  u < late' + Second
      <4>1. u \in DueSeries(sched) /\ u \in Instants /\ u \in Nat /\ u \notin visited /\ u # next
        BY <1>1, <2>1, <3>5, DueSeriesFacts, InstantsAreNumbers DEF LaterThan
      <4>2. ~(u >= t + Second)
        BY <2>2, <3>2, <3>5, <4>1
      <4>3. CASE u <= due
        <5>1. u < late + Second
          BY <2>5, <3>5, <4>1, <4>3 DEF Walked
        <5> QED BY <1>7, <4>1, <5>1
      <4>4. CASE ~(u <= due)
        <5>1. due + Second <= u
          BY <3>1, <3>2, <4>1, <4>4, InstantsAreNumbers
        <5>2. t # due
          BY <3>2, <4>1, <4>2, <5>1
        <5>3. late' = t
          BY <5>2
        <5> QED BY <3>2, <4>1, <4>2, <5>3
      <4> QED BY <4>3, <4>4
    <3> QED BY <1>5, <3>2, <3>3, <3>4, <3>5
  <2>6. Walked'
    BY <1>1, <2>1, <2>4, <2>5 DEF Walked
  <2> QED BY <1>1, <2>1, <2>3, <2>6 DEF Retired
<1> QED BY <1>4, <1>5

-----------------------------------------------------------------------------
(* The preview.                                                              *)

(* What is cut off a list comes after all that is left.                      *)
LEMMA CappedIsAHead ==
    ASSUME NEW S, S \subseteq Instants
    PROVE  Capped(S) \subseteq S /\ NoneEarlier(S, Capped(S))
<1> DEFINE UpTo(t) == {u \in S : u <= t}
<1>1. ASSUME NEW t \in S \ Capped(S), NEW v \in Capped(S), ~(v < t) PROVE FALSE
  <2>1. v \in S /\ t \in Nat /\ v \in Nat /\ S \subseteq Nat
    BY <1>1, InstantsAreNumbers DEF Capped
  <2>2. UpTo(t) \subseteq UpTo(v)
    <3> SUFFICES ASSUME NEW u \in S, u <= t PROVE u <= v
      OBVIOUS
    <3>1. u \in Nat
      BY <2>1
    <3> QED BY <1>1, <2>1, <3>1
  <2>3. IsFiniteSet(UpTo(v)) /\ IsFiniteSet(UpTo(t))
    BY FiniteInstants
  <2>4. Cardinality(UpTo(t)) <= Cardinality(UpTo(v))
    BY <2>2, <2>3, FS_Subset
  <2>5. Cardinality(UpTo(t)) \in Nat /\ Cardinality(UpTo(v)) \in Nat
    BY <2>3, FS_CardinalityType
  <2>6. Cardinality(UpTo(v)) <= MaxOccurrences /\ ~(Cardinality(UpTo(t)) <= MaxOccurrences)
    BY <1>1 DEF Capped
  <2>7. MaxOccurrences \in Nat
    BY ScheduleAssumption
  <2> HIDE DEF UpTo
  <2> QED BY <2>4, <2>5, <2>6, <2>7
<1> QED BY <1>1 DEF Capped, NoneEarlier

LEMMA PreviewTellsAll ==
    ASSUME Typed, NEW window \in Windows, Preview(window)
    PROVE  PreviewHidesNothing'
<1> DEFINE from == IF window[1] = None THEN now ELSE window[1]
           to == IF window[2] = None THEN from + Year ELSE window[2]
           dues == DueOccurrences(sched, due, from, to)
           nags == NagOccurrences(sched, due, from, to)
<1>1. sched' = sched /\ sched \in Proposals /\ Valid(sched)
  BY DEF Preview, Typed
<1>2. CASE preview'.status # 200
  BY <1>2 DEF PreviewHidesNothing
<1>3. CASE preview'.status = 200
  <2>1. preview' = [status |-> 200, from |-> from, to |-> to, due |-> Capped(dues),
                    nag |-> Capped(nags), truncated |-> Truncated(dues, nags), of |-> due]
    BY <1>3 DEF Preview, NoPreview
  <2>2. dues = {t \in DueSeries(sched) : from <= t /\ t <= to}
    BY <1>1, DueOccurrencesOf
  <2>3. nags = {t \in NagSeries(sched, due) : from <= t /\ t <= to}
    BY <1>1, NagOccurrencesOf
  <2>4. dues \subseteq Instants /\ nags \subseteq Instants
    BY <1>1, <2>2, <2>3, DueSeriesFacts DEF NagSeries, Recurs
  <2> HIDE DEF from, to, dues, nags
  <2>5. /\ preview'.from = from /\ preview'.to = to /\ preview'.due = Capped(dues)
        /\ preview'.nag = Capped(nags) /\ preview'.of = due
    BY <2>1
  <2>6. Within(DueSeries(sched), preview)' = dues
    BY <1>1, <2>2, <2>5 DEF Within, DueSeries
  <2>7. Within(NagSeries(sched, preview.of), preview)' = nags
    BY <1>1, <2>3, <2>5 DEF Within, NagSeries, Anchor
  <2>8. ~preview'.truncated => Capped(dues) = dues /\ Capped(nags) = nags
    <3>1. preview'.truncated = Truncated(dues, nags)
      BY <2>1
    <3> QED BY <3>1, Zenon DEF Truncated
  <2>9. /\ Capped(dues) \subseteq dues /\ NoneEarlier(dues, Capped(dues))
        /\ Capped(nags) \subseteq nags /\ NoneEarlier(nags, Capped(nags))
    BY <2>4, CappedIsAHead
  <2> QED BY <2>5, <2>6, <2>7, <2>8, <2>9 DEF PreviewHidesNothing, NoneEarlier
<1> QED BY <1>2, <1>3

LEMMA PreviewStays ==
    ASSUME PreviewHidesNothing, UNCHANGED <<sched, preview>>
    PROVE  PreviewHidesNothing'
BY DEF PreviewHidesNothing, Within, NoneEarlier, DueSeries, NagSeries, Anchor, Recurs

-----------------------------------------------------------------------------
(* The results.                                                              *)

LEMMA ScheduleInvariant == Spec => []ScheduleInv
<1>1. Init => ScheduleInv
  <2> SUFFICES ASSUME Init PROVE ScheduleInv
    OBVIOUS
  <2>1. sched \in Proposals /\ due = sched.due /\ visited = {} /\ state = "proposed"
        /\ late = None /\ now = 0 /\ preview = NoPreview
    BY Zenon DEF Init
  <2>2. Typed
    BY <2>1, ProposalFacts DEF Typed, None
  <2>3. Walked
    <3>3. sched.due \in Instants \cup {None}
      BY <2>1, ProposalFacts
    <3>4. sched.due # None => sched.due \in Nat
      BY <3>3, InstantsAreNumbers
    <3>1. sched.due # None => sched.due <= sched.due
      BY <3>4
    <3>5. LaterThan(sched, sched.due) \subseteq Nat
      BY <2>1, DueSeriesFacts, InstantsAreNumbers DEF LaterThan
    <3>6. \A t \in LaterThan(sched, sched.due) : t > due
      BY <2>1 DEF LaterThan
    <3>2. sched.due # None => \A t \in LaterThan(sched, sched.due) : ~(t <= due)
      BY <2>1, <3>4, <3>5, <3>6
    <3> QED BY <2>1, <3>1, <3>2 DEF Walked
  <2>4. Retired /\ PreviewHidesNothing
    BY <2>1 DEF Retired, PreviewHidesNothing, NoPreview
  <2> QED BY <2>2, <2>3, <2>4 DEF ScheduleInv
<1>2. ScheduleInv /\ [Next]_vars => ScheduleInv'
  <2> SUFFICES ASSUME Typed, Walked, Retired, PreviewHidesNothing, [Next]_vars
               PROVE  Typed' /\ Walked' /\ Retired' /\ PreviewHidesNothing'
    BY DEF ScheduleInv
  <2>1. CASE Write
    BY <2>1, WriteKeeps, PreviewStays DEF Write
  <2>2. CASE RollFromDue
    <3>1. due \in Nat /\ RollFrom(due) /\ late' = late
      BY <2>2, InstantsAreNumbers DEF RollFromDue, Typed
    <3> QED BY <3>1, RollKeeps, PreviewStays DEF RollFrom
  <2>3. CASE RollFromNow
    <3>1. now \in Nat /\ now > due /\ RollFrom(now) /\ late' = now
      BY <2>3 DEF RollFromNow, Typed
    <3> QED BY <3>1, RollKeeps, PreviewStays DEF RollFrom
  <2>4. CASE Tick
    <3>1. UNCHANGED <<sched, due, state, after, late, visited, preview>> /\ now' = now + 1
      BY <2>4 DEF Tick
    <3>2. now' \in Nat /\ now <= now'
      BY <3>1 DEF Typed
    <3> QED BY <3>1, <3>2, StillKeeps, PreviewStays
  <2>5. ASSUME NEW window \in Windows, Preview(window)
        PROVE  Typed' /\ Walked' /\ Retired' /\ PreviewHidesNothing'
    <3>1. UNCHANGED <<sched, due, state, after, late, visited, now>>
      BY <2>5 DEF Preview
    <3>2. now' \in Nat /\ now <= now'
      BY <3>1 DEF Typed
    <3> QED BY <2>5, <3>1, <3>2, StillKeeps, PreviewTellsAll
  <2>6. CASE (\E lead \in sched.leads : Remind(lead)) \/ UNCHANGED vars
    <3>1. UNCHANGED <<sched, due, state, after, late, visited, now, preview>>
      BY <2>6 DEF Remind, vars
    <3>2. now' \in Nat /\ now <= now'
      BY <3>1 DEF Typed
    <3> QED BY <3>1, <3>2, StillKeeps, PreviewStays
  <2> QED BY <2>1, <2>2, <2>3, <2>4, <2>5, <2>6 DEF Next
<1> QED BY <1>1, <1>2, PTL DEF Spec

(* A rolling item visits its series one by one, whatever makes the series.   *)
THEOREM RollsOneByOne == Spec => []RollsThroughTheSeries
<1>1. ScheduleInv => RollsThroughTheSeries
  BY DEF ScheduleInv, Walked, RollsThroughTheSeries
<1> QED BY <1>1, ScheduleInvariant, PTL

(* It retires only when nothing of the series is left within the horizon.    *)
THEOREM RetiresWhenItMust == Spec => []RetiresAtTheEnd
<1>1. ASSUME Typed, Retired PROVE RetiresAtTheEnd
  <2> SUFFICES ASSUME state = "retired", Ahead(sched, after) # {}
               PROVE  First(Ahead(sched, after)) > after + Horizon
    BY DEF RetiresAtTheEnd
  <2>1. Ahead(sched, after) \subseteq Instants
    BY <1>1, DueSeriesFacts DEF Ahead, Typed
  <2>2. First(Ahead(sched, after)) \in Ahead(sched, after)
    BY <2>1, FirstIsFirst
  <2>3. \A u \in Ahead(sched, after) : u > after + Horizon
    <3> SUFFICES ASSUME NEW u \in Ahead(sched, after) PROVE u > after + Horizon
      OBVIOUS
    <3>1. u \in Nat /\ u \in DueSeries(sched) /\ u >= after + Second /\ after \in Nat
      BY <1>1, <2>1, InstantsAreNumbers DEF Ahead, Retired
    <3>2. u < after + Second \/ u > after + Horizon
      BY <1>1, <3>1 DEF Retired
    <3> QED BY <3>1, <3>2 DEF Second
  <2> QED BY <2>2, <2>3
<1>2. ScheduleInv => RetiresAtTheEnd
  BY <1>1 DEF ScheduleInv
<1> QED BY <1>2, ScheduleInvariant, PTL

(* A preview is complete, or says that it is not and has no hole.            *)
THEOREM PreviewsHideNothing == Spec => []PreviewHidesNothing
<1>1. ScheduleInv => PreviewHidesNothing
  BY DEF ScheduleInv
<1> QED BY <1>1, ScheduleInvariant, PTL

(* No later roll contradicts a preview.                                      *)
THEOREM PreviewsForetell == Spec => []PreviewForetellsRolls
<1>1. ASSUME Typed, Walked, PreviewHidesNothing, preview.status = 200,
             NEW t \in Within(visited, preview), t \notin preview.due
      PROVE  preview.truncated /\ \A u \in preview.due : u < t
  <2>1. t \in Within(DueSeries(sched), preview)
    BY <1>1 DEF Walked, Within
  <2>2. /\ NoneEarlier(Within(DueSeries(sched), preview), preview.due)
        /\ ~preview.truncated => preview.due = Within(DueSeries(sched), preview)
    BY <1>1, Zenon DEF PreviewHidesNothing
  <2> QED BY <1>1, <2>1, <2>2, Zenon DEF NoneEarlier
<1>2. ScheduleInv => PreviewForetellsRolls
  BY <1>1, Zenon DEF ScheduleInv, PreviewForetellsRolls
<1> QED BY <1>2, ScheduleInvariant, PTL

-----------------------------------------------------------------------------
(* Reminders.                                                                *)

(* The last reminder is a lead of the schedule applied to an instant that    *)
(* was the due date.                                                         *)
Reminded ==
    \A lead \in reminder.lead :
        /\ lead \in sched.leads /\ Parses(lead) /\ reminder.of \in Instants
        /\ reminder.at \in ApplyTo(lead, reminder.of, sched.shift)

LEMMA RemindedInvariant == Spec => []Reminded
<1>1. Init => Reminded
  BY DEF Init, Reminded, NoReminder
<1>2. Typed /\ Reminded /\ [Next]_vars => Reminded'
  <2> SUFFICES ASSUME Typed, Reminded, [Next]_vars PROVE Reminded'
    OBVIOUS
  <2>1. CASE UNCHANGED <<sched, reminder>>
    BY <2>1 DEF Reminded
  <2>2. ASSUME NEW lead \in sched.leads, Remind(lead) PROVE Reminded'
    <3>1. state = "stored" /\ due # None /\ UNCHANGED sched
      BY <2>2 DEF Remind
    <3>2. PICK t \in ApplyTo(lead, due, sched.shift) :
            reminder' = [lead |-> {lead}, of |-> due, at |-> t]
      BY <2>2 DEF Remind
    <3>3. reminder'.lead = {lead} /\ reminder'.of = due /\ reminder'.at = t
      BY <3>2
    <3>4. due \in Instants /\ Valid(sched)
      BY <3>1 DEF Typed
    <3>5. Parses(lead)
      BY <3>4 DEF Valid
    <3> QED BY <3>1, <3>2, <3>3, <3>4, <3>5 DEF Reminded
  <2>3. UNCHANGED <<sched, reminder>> \/ \E lead \in sched.leads : Remind(lead)
    <3>1. CASE Write
      BY <3>1 DEF Write
    <3>2. CASE RollFromDue \/ RollFromNow
      BY <3>2 DEF RollFromDue, RollFromNow, RollFrom
    <3>3. CASE Tick
      BY <3>3 DEF Tick
    <3>4. CASE \E window \in Windows : Preview(window)
      BY <3>4 DEF Preview
    <3>5. CASE UNCHANGED vars
      BY <3>5 DEF vars
    <3> QED BY <3>1, <3>2, <3>3, <3>4, <3>5 DEF Next
  <2> QED BY <2>1, <2>2, <2>3
<1>3. ScheduleInv => Typed
  BY DEF ScheduleInv
<1> QED BY <1>1, <1>2, <1>3, ScheduleInvariant, PTL DEF Spec

(* A lead that is written as the documents say is read as it is written, by  *)
(* the calendar for its days, and falls on its side of the due date.         *)
THEOREM RemindsAsWritten == Spec => []LeadsFallAsWritten
<1>1. ASSUME Typed, Reminded PROVE LeadsFallAsWritten
  <2> SUFFICES ASSUME NEW lead \in reminder.lead, WellFormed(lead)
               PROVE  LET day == reminder.at - Sign(lead) * Written(lead.time)
                          clock == Reading(reminder.of, sched.shift)
                                   + Sign(lead) * Written(lead.date) * Day
                      IN  /\ Shows(clock, sched.shift) # {} => Reading(day, sched.shift) = clock
                          /\ Shows(Reading(reminder.of, sched.shift), sched.shift) = {reminder.of} =>
                                (lead.negative <=> reminder.at < reminder.of)
    BY Zenon DEF LeadsFallAsWritten
  <2>1. /\ lead \in sched.leads /\ Parses(lead) /\ reminder.of \in Int
        /\ reminder.at \in ApplyTo(lead, reminder.of, sched.shift)
    <3>1. lead \in sched.leads /\ Parses(lead) /\ reminder.of \in Instants
      BY <1>1, Zenon DEF Reminded
    <3>2. reminder.at \in ApplyTo(lead, reminder.of, sched.shift)
      BY <1>1, Zenon DEF Reminded
    <3>3. reminder.of \in Nat
      BY <3>1, InstantsAreNumbers
    <3> QED BY <3>1, <3>2, <3>3
  <2>2. /\ lead \in LeadType /\ sched.shift \in Int
        /\ -Day < sched.shift /\ sched.shift < Day
    BY <1>1, <2>1, ScheduleAssumption DEF Typed, Proposal
  <2> QED BY <2>1, <2>2, LeadFalls
<1>2. ScheduleInv => Typed
  BY DEF ScheduleInv
<1> QED BY <1>1, <1>2, ScheduleInvariant, RemindedInvariant, PTL

-----------------------------------------------------------------------------
(* How far the two documented statements that the code does not keep do      *)
(* hold: the runs rare_rule and no_zone show them violated by a series with  *)
(* a gap of more than two years, and by extra dates without a zone; the      *)
(* theorems say that nothing else violates them.                             *)

(* The last roll counted from the first due date or from a later instant.    *)
RetiredLate ==
    state = "retired" /\ HasDueRecurrence(sched) => sched.due <= after

LEMMA RetiredLateInvariant == Spec => []RetiredLate
<1>1. Init => RetiredLate
  BY DEF Init, RetiredLate
<1>2. ScheduleInv /\ RetiredLate /\ [Next]_vars => RetiredLate'
  <2> SUFFICES ASSUME Typed, Walked, RetiredLate, [Next]_vars,
                      state' = "retired", HasDueRecurrence(sched')
               PROVE  sched'.due <= after'
    BY DEF ScheduleInv, RetiredLate
  <2>1. CASE UNCHANGED <<sched, state, after>>
    BY <2>1 DEF RetiredLate
  <2>2. ASSUME NEW t \in Nat, RollFrom(t), due <= t PROVE sched'.due <= after'
    <3>1. UNCHANGED sched /\ state = "stored"
      BY <2>2 DEF RollFrom
    <3>2. after' = t
      BY <2>2, <3>1 DEF RollFrom
    <3>3. sched.due \in Instants \cup {None} /\ due \in Instants \cup {None}
      BY ProposalFacts DEF Typed
    <3>4. sched.due \in Nat \cup {None} /\ due \in Nat \cup {None}
      BY <3>3, InstantsAreNumbers
    <3>5. CASE sched.due = None
      BY <2>2, <3>1, <3>2, <3>5 DEF None
    <3>6. CASE sched.due # None
      <4>1. due # None /\ sched.due <= due
        BY <3>1, <3>6 DEF Walked
      <4> QED BY <2>2, <3>1, <3>2, <3>4, <3>6, <4>1
    <3> QED BY <3>5, <3>6
  <2>3. CASE RollFromDue
    <3>1. due \in Nat /\ RollFrom(due)
      BY <2>3, InstantsAreNumbers DEF RollFromDue, Typed
    <3> QED BY <2>2, <3>1
  <2>4. CASE RollFromNow
    <3>1. now \in Nat /\ RollFrom(now) /\ now > due
      BY <2>4 DEF RollFromNow, Typed
    <3>2. due \in Nat \cup {None}
      BY InstantsAreNumbers DEF Typed
    <3>3. due <= now
      BY <3>1, <3>2 DEF None
    <3> QED BY <2>2, <3>1, <3>3
  <2>5. CASE Write
    <3>1. state' \in {"stored", "refused"}
      BY <2>5 DEF Write
    <3> QED BY <3>1
  <2>6. CASE Tick
    BY <2>1, <2>6 DEF Tick
  <2>7. CASE \E window \in Windows : Preview(window)
    BY <2>1, <2>7 DEF Preview
  <2>8. CASE (\E lead \in sched.leads : Remind(lead)) \/ UNCHANGED vars
    BY <2>1, <2>8 DEF Remind, vars
  <2> QED BY <2>3, <2>4, <2>5, <2>6, <2>7, <2>8 DEF Next
<1> QED BY <1>1, <1>2, ScheduleInvariant, PTL DEF Spec

(* If no gap of a series is longer than the two years that are searched, nil *)
(* does mean that the series has ended.                                      *)
THEOREM OnlyLongGapsLookEnded ==
    ASSUME \A s \in Proposals : \A t \in Nat :
              s.due <= t => Ahead(s, t) = {} \/ First(Ahead(s, t)) <= t + Horizon
    PROVE  Spec => []NilMeansEnded
<1>1. ASSUME Typed, Retired, RetiredLate, RetiresAtTheEnd PROVE NilMeansEnded
  <2> SUFFICES ASSUME state = "retired", HasDueRecurrence(sched), Ahead(sched, after) # {}
               PROVE  FALSE
    BY DEF NilMeansEnded
  <2>1. after \in Nat /\ sched \in Proposals /\ sched.due <= after
    BY <1>1 DEF Retired, RetiredLate, Typed
  <2>2. First(Ahead(sched, after)) <= after + Horizon
    BY <2>1
  <2>3. First(Ahead(sched, after)) > after + Horizon
    BY <1>1 DEF RetiresAtTheEnd
  <2>4. First(Ahead(sched, after)) \in Nat /\ Horizon \in Nat
    <3>1. Ahead(sched, after) \subseteq Instants
      BY <2>1, DueSeriesFacts DEF Ahead
    <3> QED BY <3>1, FirstIsFirst, InstantsAreNumbers, ScheduleAssumption
  <2> QED BY <2>1, <2>2, <2>3, <2>4
<1>2. ScheduleInv => Typed /\ Retired
  BY DEF ScheduleInv
<1> QED BY <1>1, <1>2, ScheduleInvariant, RetiredLateInvariant, RetiresWhenItMust, PTL

(* A schedule that was stored has an anchor, and keeps it as it rolls.       *)
Anchored == state = "stored" => HasAnchor(sched, due)

LEMMA AnchoredInvariant == Spec => []Anchored
<1>1. Init => Anchored
  BY DEF Init, Anchored
<1>2. ScheduleInv /\ Anchored /\ [Next]_vars => Anchored'
  <2> SUFFICES ASSUME Typed, Anchored, [Next]_vars, state' = "stored"
               PROVE  HasAnchor(sched', due')
    BY DEF ScheduleInv, Anchored, HasAnchor, Anchor
  <2>1. CASE UNCHANGED <<sched, state, due>>
    BY <2>1 DEF Anchored
  <2>2. ASSUME NEW t, RollFrom(t) PROVE HasAnchor(sched', due')
    <3>1. UNCHANGED sched /\ state = "stored"
      BY <2>2 DEF RollFrom
    <3>2. due' = NextDueOccurrence(sched, due, t) /\ due' # None
      BY <2>2 DEF RollFrom
    <3> QED BY <3>2 DEF HasAnchor, Anchor
  <2>3. CASE RollFromDue \/ RollFromNow
    BY <2>2, <2>3 DEF RollFromDue, RollFromNow
  <2>4. CASE Write
    BY <2>4 DEF Write
  <2>5. CASE Tick
    BY <2>1, <2>5 DEF Tick
  <2>6. CASE \E window \in Windows : Preview(window)
    BY <2>1, <2>6 DEF Preview
  <2>7. CASE (\E lead \in sched.leads : Remind(lead)) \/ UNCHANGED vars
    BY <2>1, <2>7 DEF Remind, vars
  <2> QED BY <2>3, <2>4, <2>5, <2>6, <2>7 DEF Next
<1> QED BY <1>1, <1>2, ScheduleInvariant, PTL DEF Spec

(* If extra dates come with a known zone, whatever is stored can be expanded *)
(* as long as it is stored, also after rolls that move the due date a rule   *)
(* without a start counts from.                                              *)
THEOREM OnlyExtraDatesNeedAZone ==
    ASSUME \A s \in Proposals : s.rdate # {} => s.zone = "known"
    PROVE  Spec => []StoredScheduleExpands
<1>1. ASSUME Typed, Anchored PROVE StoredScheduleExpands
  <2> SUFFICES ASSUME state = "stored"
               PROVE  DueExpands(sched, due) /\ NagExpands(sched, due)
    BY DEF StoredScheduleExpands
  <2>1. HasAnchor(sched, due) /\ Valid(sched) /\ sched \in Proposals
    BY <1>1 DEF Anchored, Typed
  <2>2. IsRule(sched.rrule) \/ IsRule(sched.nag) \/ sched.rdate # {} => sched.zone = "known"
    BY <2>1 DEF Valid
  <2> QED BY <2>1, <2>2 DEF DueExpands, NagExpands, Expands, HasDueRecurrence
<1>2. ScheduleInv => Typed
  BY DEF ScheduleInv
<1> QED BY <1>1, <1>2, ScheduleInvariant, AnchoredInvariant, PTL

=============================================================================
