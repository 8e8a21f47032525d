----------------------------- MODULE MCSchedule ------------------------------
(* Schedules over a dozen seconds: rules that recur every one to five        *)
(* seconds, for ever or twice, with extra and excluded dates, previews of    *)
(* them, and leads over a day of four seconds.  The horizon of three seconds *)
(* is shorter than the gaps of the rarest rules.                             *)
EXTENDS Schedule

Every(n) == [NoRule EXCEPT !.every = n]
Twice(n) == [Every(n) EXCEPT !.times = 2]
Malformed == [NoRule EXCEPT !.malformed = TRUE]

Rules == {NoRule, Every(1), Every(3), Every(5), Twice(2)}

Anchored(dtstart, zone, rrule, nag, rdate, exdate, d) ==
    [dtstart |-> dtstart, zone |-> zone, rrule |-> rrule, nag |-> nag,
     rdate |-> rdate, exdate |-> exdate, mode |-> "rolling", leads |-> {}, shift |-> 0, due |-> d]

Series3 ==
    {Anchored(dtstart, "known", rrule, NoRule, rdate, exdate, d) :
        dtstart \in {None, 2}, rrule \in Rules,
        rdate \in {{}, {8}, {4, 12}}, exdate \in {{}, {8}}, d \in {None, 2, 4}}
Nagging ==
    {Anchored(dtstart, "known", rrule, Every(2), rdate, {8}, d) :
        dtstart \in {None, 2}, rrule \in {NoRule, Twice(2)}, rdate \in {{}, {4, 12}}, d \in {None, 4}}
Odd ==
    {Anchored(dtstart, zone, rrule, nag, rdate, {}, d) :
        dtstart \in {None, 2}, zone \in {"known", "unknown", "unset"},
        rrule \in {NoRule, Every(3), Malformed}, nag \in {NoRule, Every(4), Malformed},
        rdate \in {{}, {8}}, d \in {None, 4}}
OtherModes ==
    {[Anchored(2, "known", Every(3), NoRule, {}, {}, 2) EXCEPT !.mode = mode] :
        mode \in {"", "instance", "unknown"}}

Part(units) ==
    {<<>>} \cup {<<k>> : k \in [value : {NoValue, 1, 2}, unit : units \cup {"M"}]}
           \cup {<<[value |-> m, unit |-> u], [value |-> n, unit |-> v]>> :
                    m \in {0, 1}, n \in {1, 2}, u \in units, v \in units}
LeadsOf(negative) ==
    {[negative |-> negative, date |-> date, hasTime |-> FALSE, time |-> <<>>] :
        date \in Part({"W", "D"})}
    \cup {[negative |-> negative, date |-> date, hasTime |-> TRUE, time |-> time] :
            date \in {<<>>, <<[value |-> 1, unit |-> "D"]>>}, time \in Part({"H", "S"})}
Leading ==
    {[Anchored(2, "known", Twice(2), NoRule, {}, {}, d) EXCEPT !.leads = {lead}, !.shift = shift] :
        d \in {2, 12}, lead \in LeadsOf(TRUE) \cup LeadsOf(FALSE), shift \in {-4, 4}}

AllProposals == Series3 \cup Nagging \cup Odd \cup OtherModes \cup Leading
EveryRareRule == {Anchored(2, "known", Every(5), NoRule, {}, {}, 2)}
Unzoned == {Anchored(2, zone, NoRule, NoRule, {8}, {}, None) : zone \in {"unset", "unknown"}}

AllWindows == {<<None, None>>, <<3, None>>}
NoWindows == {}

=============================================================================
