------------------------------ MODULE Schedule -------------------------------
(* model.Schedule: what a recurrence rule is refused for when it is written, *)
(* what it expands to, the preview of it that GET .../occurrences answers,   *)
(* the walk of a rolling item whose due date is moved to NextDueOccurrence   *)
(* each time it is completed, and the reminders ahead of a due date.         *)
(*                                                                           *)
(* Time is counted in half seconds: the stored instants are whole seconds    *)
(* and "now" need not be.  The expansion of one RRULE is the library's; here *)
(* a rule is an instant every so many seconds from its anchor, for ever or a *)
(* number of times.  What a zone does to the wall clock is in Leads.         *)
EXTENDS Leads

CONSTANTS
    Proposals,      \* the schedules clients write, each with the item's due date
    Horizon,        \* the two years NextDueOccurrence looks ahead
    Windows,        \* the from and to of previews, None when they are not sent
    Year,           \* the window of a preview without them
    MaxOccurrences, \* the cap of a preview, 500 in the code
    Last            \* bound on instants

None == -1
Instants == {t \in 0..Last : t % Second = 0}

NoRule == [every |-> 0, times |-> 0, malformed |-> FALSE]
RuleType == [every : Nat, times : Nat, malformed : BOOLEAN]

Proposal ==
    [dtstart : Instants \cup {None}, zone : {"known", "unknown", "unset"},
     rrule : RuleType, nag : RuleType, rdate : SUBSET Instants, exdate : SUBSET Instants,
     mode : {"", "instance", "rolling", "unknown"}, leads : SUBSET LeadType, shift : Int,
     due : Instants \cup {None}]

ASSUME ScheduleAssumption ==
    /\ Proposals \subseteq Proposal
    /\ \A s \in Proposals : -Day < s.shift /\ s.shift < Day
    /\ Horizon \in Nat /\ Year \in Nat /\ MaxOccurrences \in Nat /\ Last \in Nat
    /\ Windows \subseteq (Nat \cup {None}) \X (Nat \cup {None})

VARIABLES
    sched,      \* the schedule on the item, with the due date it was written with
    due,        \* due_at
    state,      \* of the item: proposed, refused, stored, or retired at the end of the series
    after,      \* history: the instant the roll that retired it counted from
    late,       \* history: the last moment of a completion that rolled from now
    visited,    \* history: the due dates the item has had by rolling
    preview,    \* the last preview
    reminder,   \* the last reminder
    now

vars == <<sched, due, state, after, late, visited, preview, reminder, now>>

NoPreview == [status |-> 0, from |-> 0, to |-> 0, due |-> {}, nag |-> {},
              truncated |-> FALSE, of |-> None]
NoReminder == [lead |-> {}, of |-> None, at |-> 0]

Init ==
    /\ sched \in Proposals
    /\ due = sched.due
    /\ state = "proposed" /\ after = None /\ late = None /\ visited = {} /\ now = 0
    /\ preview = NoPreview /\ reminder = NoReminder

-----------------------------------------------------------------------------
(* Validate and Anchor: what is refused when the item is written.            *)

IsRule(rule) == rule.every > 0 \/ rule.malformed

Valid(s) ==
    /\ IsRule(s.rrule) \/ IsRule(s.nag) => s.zone = "known"
    /\ IsRule(s.rrule) => s.dtstart # None /\ ~s.rrule.malformed
    /\ ~s.nag.malformed
    /\ s.mode # "unknown"
    /\ \A lead \in s.leads : Parses(lead)

EffectiveMode(s) == IF s.mode = "" THEN "instance" ELSE s.mode

AnchorOnDue(s, d) == IF d # None THEN d ELSE s.dtstart
Anchor(s, d) == IF s.dtstart # None THEN s.dtstart ELSE d
HasAnchor(s, d) == Anchor(s, d) # None

HasDueRecurrence(s) == IsRule(s.rrule) \/ s.rdate # {}

-----------------------------------------------------------------------------
(* expand.                                                                   *)

(* The library's expansion of one rule.                                      *)
Recurs(rule, anchor) ==
    {t \in Instants :
        /\ rule.every > 0 /\ t >= anchor
        /\ (t - anchor) % (rule.every * Second) = 0
        /\ rule.times > 0 => t < anchor + rule.times * rule.every * Second}

(* The rule, the extra dates, and the excluded dates taken away from both.   *)
ExtraDatesStay(rule, rdate, exdate, anchor) == (Recurs(rule, anchor) \ exdate) \cup rdate
Series(rule, rdate, exdate, anchor) == (Recurs(rule, anchor) \cup rdate) \ exdate

Expand(s, rule, rdate, exdate, d, from, to) ==
    {t \in Series(rule, rdate, exdate, Anchor(s, d)) : from <= t /\ t <= to}

DueOccurrences(s, d, from, to) ==
    IF HasDueRecurrence(s) THEN Expand(s, s.rrule, s.rdate, s.exdate, d, from, to) ELSE {}

NagOccurrences(s, d, from, to) ==
    IF IsRule(s.nag) THEN Expand(s, s.nag, {}, {}, d, from, to) ELSE {}

(* Location and Anchor are expand's ways to fail.                            *)
Expands(s, d) == s.zone = "known" /\ HasAnchor(s, d)
DueExpands(s, d) == HasDueRecurrence(s) => Expands(s, d)
NagExpands(s, d) == IsRule(s.nag) => Expands(s, d)

First(S) == IF S = {} THEN None ELSE CHOOSE t \in S : \A u \in S : t <= u

NextWithinLess(s, d, t) == First(DueOccurrences(s, d, t + Second, t + Horizon - 1))
NextDueOccurrence(s, d, t) == First(DueOccurrences(s, d, t + Second, t + Horizon))

-----------------------------------------------------------------------------
(* POST or PATCH of the item.                                                *)
Write ==
    /\ state = "proposed"
    /\ state' = IF Valid(sched) /\ HasAnchor(sched, due) THEN "stored" ELSE "refused"
    /\ UNCHANGED <<sched, due, after, late, visited, preview, reminder, now>>

(* The item is completed and rolls to the next occurrence after t.           *)
RollFrom(t) ==
    /\ state = "stored" /\ EffectiveMode(sched) = "rolling" /\ DueExpands(sched, due)
    /\ LET next == NextDueOccurrence(sched, due, t) IN
         IF next = None
         THEN state' = "retired" /\ after' = t /\ UNCHANGED <<due, visited>>
         ELSE due' = next /\ visited' = visited \cup {next} /\ UNCHANGED <<state, after>>
    /\ UNCHANGED <<sched, preview, reminder, now>>

RollFromDue == due # None /\ RollFrom(due) /\ UNCHANGED late
RollFromNow == now > due /\ RollFrom(now) /\ late' = now

(* The first so many of the occurrences, and whether any are left out.       *)
Capped(S) == {t \in S : Cardinality({u \in S : u <= t}) <= MaxOccurrences}

TruncatedByNag(dues, nags) == Capped(nags) # nags
Truncated(dues, nags) == Capped(dues) # dues \/ Capped(nags) # nags

(* GET .../occurrences?from=&to=.                                            *)
Preview(window) ==
    LET from == IF window[1] = None THEN now ELSE window[1]
        to == IF window[2] = None THEN from + Year ELSE window[2]
        dues == DueOccurrences(sched, due, from, to)
        nags == NagOccurrences(sched, due, from, to)
    IN  /\ state \in {"stored", "retired"}
        /\ preview' =
             IF DueExpands(sched, due) /\ NagExpands(sched, due)
             THEN [status |-> 200, from |-> from, to |-> to, due |-> Capped(dues),
                   nag |-> Capped(nags), truncated |-> Truncated(dues, nags), of |-> due]
             ELSE [NoPreview EXCEPT !.status = 400]
        /\ UNCHANGED <<sched, due, state, after, late, visited, reminder, now>>

(* The coordinator reminds of the due date, ahead of it by one of the leads. *)
Remind(lead) ==
    /\ state = "stored" /\ due # None
    /\ \E t \in ApplyTo(lead, due, sched.shift) :
         reminder' = [lead |-> {lead}, of |-> due, at |-> t]
    /\ UNCHANGED <<sched, due, state, after, late, visited, preview, now>>

Tick ==
    /\ state = "stored" /\ now < Last
    /\ now' = now + 1
    /\ UNCHANGED <<sched, due, state, after, late, visited, preview, reminder>>

Next ==
    \/ Write \/ RollFromDue \/ RollFromNow \/ Tick
    \/ \E window \in Windows : Preview(window)
    \/ \E lead \in sched.leads : Remind(lead)

Spec == Init /\ [][Next]_vars

-----------------------------------------------------------------------------
(* The whole series, as Schedule's comment defines it: DTStart + RRule +     *)
(* RDate - ExDate.                                                           *)
DueSeries(s) == {t \in Recurs(s.rrule, s.dtstart) \cup s.rdate : t \notin s.exdate}

LaterThan(s, t) == {u \in DueSeries(s) : u > t}

(* What is left of the series at least a second after t.                     *)
Ahead(s, t) == {u \in DueSeries(s) : u >= t + Second}

(* An item that rolls visits the occurrences of its series after its first   *)
(* due date one by one, whether the rule, extra dates or both make the       *)
(* series: it never visits another instant, and it leaves an occurrence out  *)
(* only if that was past, or less than a second away, at a late completion.  *)
RollsThroughTheSeries ==
    HasDueRecurrence(sched) /\ sched.due # None =>
        /\ visited \subseteq LaterThan(sched, sched.due)
        /\ \A t \in LaterThan(sched, sched.due) \ visited : t <= due => t < late + Second

(* It retires only when the series has ended, as long as no gap of the       *)
(* series is longer than the two years that are searched.                    *)
RetiresAtTheEnd ==
    state = "retired" /\ HasDueRecurrence(sched) =>
        Ahead(sched, after) = {} \/ First(Ahead(sched, after)) > after + Horizon

(* The nags, which extra and excluded due dates do not touch.                *)
NagSeries(s, d) == Recurs(s.nag, Anchor(s, d))

Within(S, p) == {t \in S : p.from <= t /\ t <= p.to}
NoneEarlier(S, shown) == \A t \in S \ shown, u \in shown : u < t

(* A preview says what it leaves out: it shows only occurrences of the two   *)
(* series, each without a hole, and all of both unless it is truncated.      *)
PreviewHidesNothing ==
    preview.status = 200 =>
        LET dues == Within(DueSeries(sched), preview)
            nags == Within(NagSeries(sched, preview.of), preview)
        IN  /\ preview.due \subseteq dues /\ NoneEarlier(dues, preview.due)
            /\ preview.nag \subseteq nags /\ NoneEarlier(nags, preview.nag)
            /\ ~preview.truncated => preview.due = dues /\ preview.nag = nags

(* What a preview showed is what happens: however often the item has rolled  *)
(* by now, before the preview or since, the due dates it got inside the      *)
(* window are among those shown, or later than all of a truncated preview.   *)
PreviewForetellsRolls ==
    preview.status = 200 =>
        \A t \in Within(visited, preview) :
            t \in preview.due \/ (preview.truncated /\ \A u \in preview.due : u < t)

(* A lead that is written as the documents say is read as it is written:     *)
(* its days keep the clock reading of the due date across a change of the    *)
(* clocks, unless no instant shows it, and its time is what elapses.  It is  *)
(* on the right side of the due date, unless the clocks show the due date's  *)
(* hour twice: ApplyTo goes through the clock reading, without days too.     *)
LeadsFallAsWritten ==
    \A lead \in reminder.lead : WellFormed(lead) =>
        LET day == reminder.at - Sign(lead) * Written(lead.time)
            clock == Reading(reminder.of, sched.shift) + Sign(lead) * Written(lead.date) * Day
        IN  /\ Shows(clock, sched.shift) # {} => Reading(day, sched.shift) = clock
            /\ Shows(Reading(reminder.of, sched.shift), sched.shift) = {reminder.of} =>
                  (lead.negative <=> reminder.at < reminder.of)

-----------------------------------------------------------------------------
(* Statements of the documentation that the code does not keep.              *)

(* NextDueOccurrence: "Nil when the series has ended".                       *)
NilMeansEnded ==
    state = "retired" /\ HasDueRecurrence(sched) => Ahead(sched, after) = {}

(* README: "An invalid rule is rejected at write time rather than expanding  *)
(* to nothing"; Validate: "a zone is named whenever one is needed".          *)
StoredScheduleExpands ==
    state = "stored" => DueExpands(sched, due) /\ NagExpands(sched, due)

=============================================================================
