------------------------------- MODULE Leads --------------------------------
(* Remind.Lead: offsets from a due date such as -P1D or -PT2H, read by       *)
(* ParseISO8601Duration and applied by the calendar of a zone whose clocks   *)
(* change once.  Instants are half seconds; a clock reading is what the      *)
(* zone's clocks show, on the same scale.                                    *)
EXTENDS Integers, Sequences, FiniteSetsExt

CONSTANTS
    Minute, Hour, Day,  \* their lengths
    ClockChange         \* the instant at which the zone's clocks change

ASSUME ClockAssumption ==
    /\ Minute \in Nat \ {0} /\ Hour \in Nat \ {0} /\ Day \in Nat \ {0}
    /\ ClockChange \in Int

Second == 2
NoValue == -1

(* A number and the letter after it; either may be left out.  Signs and the  *)
(* letters P and T are read off the text; without a T, time is empty.        *)
Component == [value : Nat \cup {NoValue}, unit : {"W", "D", "H", "M", "S", "Y", "none"}]
LeadType ==
    {lead \in [negative : BOOLEAN, date : Seq(Component), hasTime : BOOLEAN, time : Seq(Component)] :
        lead.hasTime \/ lead.time = <<>>}

-----------------------------------------------------------------------------
(* ParseISO8601Duration.                                                     *)

DateUnits == {"W", "D"}
TimeUnits == {"H", "M", "S"}

Readable(part, units) ==
    \A k \in DOMAIN part : part[k].unit \in units /\ part[k].value # NoValue

(* A unit that is repeated keeps its last value, one left out is zero.       *)
ValueOf(part, unit) ==
    LET at == {k \in DOMAIN part : part[k].unit = unit}
    IN  IF at = {} THEN 0 ELSE part[Max(at)].value

Days(lead) == 7 * ValueOf(lead.date, "W") + ValueOf(lead.date, "D")
Elapsed(lead) ==
    ValueOf(lead.time, "H") * Hour + ValueOf(lead.time, "M") * Minute + ValueOf(lead.time, "S") * Second

Parses(lead) ==
    /\ lead.date # <<>> \/ lead.hasTime
    /\ Readable(lead.date, DateUnits)
    /\ lead.hasTime => lead.time # <<>> /\ Readable(lead.time, TimeUnits)
    /\ Days(lead) # 0 \/ Elapsed(lead) # 0

Sign(lead) == IF lead.negative THEN -1 ELSE 1

-----------------------------------------------------------------------------
(* The calendar: shift is what the clocks are set forward (or back, if it is *)
(* negative).                                                                *)
Reading(t, shift) == IF t < ClockChange THEN t ELSE t + shift

(* The instants at which the clocks show l: none when they were set past it, *)
(* two when they were set back over it.                                      *)
Shows(l, shift) == {t \in {l, l - shift} : Reading(t, shift) = l}

(* time.AddDate: the same clock reading so many days on.  Where there is not *)
(* one such instant time.Date goes by the offset before the change or the    *)
(* one after it, and does not say which.                                     *)
DayIsHours(t, n, shift) == {t + n * Day}
AddDate(t, n, shift) ==
    LET l == Reading(t, shift) + n * Day
    IN  IF Shows(l, shift) # {} THEN Shows(l, shift) ELSE {l, l - shift}

(* ApplyTo: days by the calendar first, then the time by what elapses.       *)
ApplyTo(lead, t, shift) ==
    {u + Sign(lead) * Elapsed(lead) : u \in AddDate(t, Sign(lead) * Days(lead), shift)}

-----------------------------------------------------------------------------
(* What is written: [-]P[nW][nD][T[nH][nM][nS]], each unit at most once.     *)
UnitOrder == <<"W", "D", "H", "M", "S">>

WellFormed(lead) ==
    LET parts == lead.date \o lead.time
    IN  \E place \in [DOMAIN parts -> DOMAIN UnitOrder] :
          \A j, k \in DOMAIN parts :
             parts[j].unit = UnitOrder[place[j]] /\ (j < k => place[j] < place[k])

(* The length of one component of a lead, a day taken as such.               *)
LengthOf(unit) ==
    CASE unit = "W" -> 7 [] unit = "D" -> 1
      [] unit = "H" -> Hour [] unit = "M" -> Minute [] unit = "S" -> Second

Written(part) ==
    LET upTo[n \in 0..Len(part)] ==
          IF n = 0 THEN 0 ELSE upTo[n - 1] + part[n].value * LengthOf(part[n].unit)
    IN  upTo[Len(part)]

=============================================================================
