----------------------------- MODULE LeadsProofs ------------------------------
(* What the reading of a lead and its application to a due date are worth,   *)
(* for any numbers in it and any change of the clocks: the parser agrees     *)
(* with what is written, and a reminder is on the right side of the due      *)
(* date, at the right reading of the clocks.                                 *)
EXTENDS Leads, SequenceTheorems, TLAPS

-----------------------------------------------------------------------------
(* The reference: what is written.                                           *)

LEMMA Lengths ==
    /\ LengthOf("W") = 7 /\ LengthOf("D") = 1
    /\ LengthOf("H") = Hour /\ LengthOf("M") = Minute /\ LengthOf("S") = Second
BY Zenon DEF LengthOf

(* A date has at most two components and a time three; the sum has so many   *)
(* terms.                                                                    *)
Term(part, n) == part[n].value * LengthOf(part[n].unit)

LEMMA WrittenUpToThree ==
    ASSUME NEW part \in Seq(Component), Len(part) <= 3,
           \A n \in DOMAIN part : Term(part, n) \in Nat
    PROVE  /\ Len(part) = 0 => Written(part) = 0
           /\ Len(part) = 1 => Written(part) = Term(part, 1)
           /\ Len(part) = 2 => Written(part) = Term(part, 1) + Term(part, 2)
           /\ Len(part) = 3 => Written(part) = Term(part, 1) + Term(part, 2) + Term(part, 3)
<1> DEFINE E(f) == f = [n \in 0..Len(part) |->
                          IF n = 0 THEN 0 ELSE f[n - 1] + part[n].value * LengthOf(part[n].unit)]
           g == [n \in 0..Len(part) |->
                   (IF n >= 1 THEN Term(part, 1) ELSE 0)
                   + (IF n >= 2 THEN Term(part, 2) ELSE 0)
                   + (IF n >= 3 THEN Term(part, 3) ELSE 0)]
           upTo == CHOOSE f : E(f)
<1>0. Len(part) \in 0..3 /\ DOMAIN part = 1..Len(part)
  <2>1. Len(part) \in Nat /\ DOMAIN part = 1..Len(part)
    BY LenProperties
  <2> QED BY <2>1
<1>1. E(g)
  <2>1. ASSUME NEW n \in 0..Len(part)
        PROVE  g[n] = IF n = 0 THEN 0 ELSE g[n - 1] + Term(part, n)
    <3>1. CASE n = 0
      BY <1>0, <3>1
    <3>2. CASE n = 1
      BY <1>0, <3>2
    <3>3. CASE n = 2
      BY <1>0, <3>3
    <3>4. CASE n = 3
      BY <1>0, <3>4
    <3> QED BY <1>0, <3>1, <3>2, <3>3, <3>4
  <2> QED BY <2>1 DEF Term
<1>2. E(upTo)
  <2> HIDE DEF E, g
  <2> QED BY <1>1
<1>3. Written(part) = upTo[Len(part)]
  BY DEF Written
<1>4. /\ upTo[0] = 0
      /\ \A n \in 1..Len(part) : upTo[n] = upTo[n - 1] + Term(part, n)
  <2> HIDE DEF upTo
  <2> QED BY <1>0, <1>2 DEF Term
<1> HIDE DEF upTo
<1>5. CASE Len(part) = 0
  BY <1>3, <1>4, <1>5
<1>6. CASE Len(part) = 1
  BY <1>0, <1>3, <1>4, <1>6
<1>7. CASE Len(part) = 2
  BY <1>0, <1>3, <1>4, <1>7
<1>8. CASE Len(part) = 3
  BY <1>0, <1>3, <1>4, <1>8
<1> QED BY <1>0, <1>5, <1>6, <1>7, <1>8

-----------------------------------------------------------------------------
(* What a lead that parses holds.                                            *)

LEMMA ReadableFacts ==
    ASSUME NEW part \in Seq(Component), NEW units, Readable(part, units)
    PROVE  /\ Len(part) \in Nat /\ DOMAIN part = 1..Len(part)
           /\ \A k \in DOMAIN part : part[k].value \in Nat /\ part[k].unit \in units
<1>1. Len(part) \in Nat /\ DOMAIN part = 1..Len(part)
  BY LenProperties
<1>2. \A k \in DOMAIN part : part[k] \in Component
  BY ElementOfSeq
<1>3. \A k \in DOMAIN part : part[k].value \in Nat
  BY <1>2 DEF Component, Readable
<1> QED BY <1>1, <1>3 DEF Readable

LEMMA LeadFacts ==
    ASSUME NEW lead \in LeadType, Parses(lead)
    PROVE  /\ lead.date \in Seq(Component) /\ lead.time \in Seq(Component)
           /\ Readable(lead.date, DateUnits) /\ Readable(lead.time, TimeUnits)
<1>1. lead.date \in Seq(Component) /\ lead.time \in Seq(Component)
  BY DEF LeadType
<1>2. CASE lead.hasTime
  BY <1>1, <1>2 DEF Parses
<1>3. CASE ~lead.hasTime
  BY <1>1, <1>3 DEF Parses, LeadType, Readable
<1> QED BY <1>1, <1>2, <1>3

LEMMA OnlyValue ==
    ASSUME NEW part, NEW unit, NEW k \in DOMAIN part, k \in Int, part[k].unit = unit,
           \A j \in DOMAIN part : part[j].unit = unit => j = k
    PROVE  ValueOf(part, unit) = part[k].value
<1>1. {j \in DOMAIN part : part[j].unit = unit} = {k}
  OBVIOUS
<1>2. Max({k}) = k
  BY DEF Max
<1> QED BY <1>1, <1>2 DEF ValueOf

LEMMA NoneIsZero ==
    ASSUME NEW part, NEW unit, \A j \in DOMAIN part : part[j].unit # unit
    PROVE  ValueOf(part, unit) = 0
BY DEF ValueOf

(* The components of a well-formed lead come in the order of the grammar.    *)
LEMMA UnitsInOrder ==
    ASSUME NEW lead \in LeadType, Parses(lead), WellFormed(lead)
    PROVE  /\ \A j, k \in DOMAIN lead.date : j < k =>
                 lead.date[j].unit = "W" /\ lead.date[k].unit = "D"
           /\ \A j, k \in DOMAIN lead.time : j < k =>
                 \/ lead.time[j].unit = "H" /\ lead.time[k].unit \in {"M", "S"}
                 \/ lead.time[j].unit = "M" /\ lead.time[k].unit = "S"
<1> DEFINE parts == lead.date \o lead.time
           d == Len(lead.date)
           t == Len(lead.time)
<1>1. PICK place \in [DOMAIN parts -> DOMAIN UnitOrder] :
        \A j, k \in DOMAIN parts :
           parts[j].unit = UnitOrder[place[j]] /\ (j < k => place[j] < place[k])
  BY DEF WellFormed
<1>2. DOMAIN UnitOrder = 1..5
  BY DEF UnitOrder
<1>3. /\ UnitOrder[1] = "W" /\ UnitOrder[2] = "D" /\ UnitOrder[3] = "H"
      /\ UnitOrder[4] = "M" /\ UnitOrder[5] = "S"
  BY DEF UnitOrder
<1>4. /\ d \in Nat /\ DOMAIN lead.date = 1..d
      /\ t \in Nat /\ DOMAIN lead.time = 1..t
  BY LeadFacts, LenProperties
<1>5. /\ DOMAIN parts = 1..(d + t)
      /\ \A j \in 1..d : parts[j] = lead.date[j]
      /\ \A j \in 1..t : parts[d + j] = lead.time[j]
  <2>1. lead.date \in Seq(Component) /\ lead.time \in Seq(Component)
    BY LeadFacts
  <2>2. /\ Len(parts) = d + t
        /\ \A i \in 1..(d + t) : parts[i] = IF i <= d THEN lead.date[i] ELSE lead.time[i - d]
    BY <2>1, ConcatProperties
  <2>3. DOMAIN parts = 1..Len(parts)
    BY <2>1, ConcatProperties, LenProperties
  <2> HIDE DEF parts, d, t
  <2>4. ASSUME NEW j \in 1..t PROVE parts[d + j] = lead.time[j]
    <3>1. d + j \in 1..(d + t) /\ ~(d + j <= d) /\ (d + j) - d = j
      BY <1>4
    <3> QED BY <2>2, <3>1
  <2>5. ASSUME NEW j \in 1..d PROVE parts[j] = lead.date[j]
    BY <1>4, <2>2
  <2> QED BY <2>2, <2>3, <2>4, <2>5
<1> HIDE DEF parts, d, t
<1>6. ASSUME NEW j \in DOMAIN lead.date, NEW k \in DOMAIN lead.date, j < k
      PROVE  lead.date[j].unit = "W" /\ lead.date[k].unit = "D"
  <2>1. j \in DOMAIN parts /\ k \in DOMAIN parts
    BY <1>4, <1>5
  <2>2. lead.date[j].unit = UnitOrder[place[j]] /\ lead.date[k].unit = UnitOrder[place[k]]
    BY <1>1, <1>4, <1>5, <2>1
  <2>3. place[j] \in 1..5 /\ place[k] \in 1..5 /\ place[j] < place[k]
    BY <1>1, <1>2, <1>6, <2>1
  <2>4. lead.date[j].unit \in {"W", "D"} /\ lead.date[k].unit \in {"W", "D"}
    BY LeadFacts DEF Readable, DateUnits
  <2> QED BY <1>3, <2>2, <2>3, <2>4
<1>7. ASSUME NEW j \in DOMAIN lead.time, NEW k \in DOMAIN lead.time, j < k
      PROVE  \/ lead.time[j].unit = "H" /\ lead.time[k].unit \in {"M", "S"}
             \/ lead.time[j].unit = "M" /\ lead.time[k].unit = "S"
  <2>1. d + j \in DOMAIN parts /\ d + k \in DOMAIN parts /\ d + j < d + k
    BY <1>4, <1>5, <1>7
  <2>2. lead.time[j].unit = UnitOrder[place[d + j]] /\ lead.time[k].unit = UnitOrder[place[d + k]]
    BY <1>1, <1>4, <1>5, <2>1
  <2>3. place[d + j] \in 1..5 /\ place[d + k] \in 1..5 /\ place[d + j] < place[d + k]
    BY <1>1, <1>2, <2>1
  <2>4. lead.time[j].unit \in {"H", "M", "S"} /\ lead.time[k].unit \in {"H", "M", "S"}
    BY LeadFacts DEF Readable, TimeUnits
  <2> QED BY <1>3, <2>2, <2>3, <2>4
<1> QED BY <1>6, <1>7

LEMMA TermIsValue ==
    ASSUME NEW part \in Seq(Component), NEW units, Readable(part, units),
           units \subseteq {"W", "D", "H", "M", "S"}
    PROVE  \A n \in DOMAIN part : Term(part, n) \in Nat
<1> SUFFICES ASSUME NEW n \in DOMAIN part PROVE Term(part, n) \in Nat
  OBVIOUS
<1>1. part[n].value \in Nat /\ part[n].unit \in {"W", "D", "H", "M", "S"}
  BY ReadableFacts
<1>2. LengthOf(part[n].unit) \in Nat
  BY <1>1, Lengths, ClockAssumption DEF Second
<1> QED BY <1>1, <1>2 DEF Term

(* The days that are read are the days that are written.                     *)
LEMMA DateIsRead ==
    ASSUME NEW lead \in LeadType, Parses(lead), WellFormed(lead)
    PROVE  Days(lead) = Written(lead.date) /\ Written(lead.date) \in Nat
<1> DEFINE part == lead.date
           W == ValueOf(part, "W")
           D == ValueOf(part, "D")
<1>1. /\ part \in Seq(Component) /\ Readable(part, DateUnits)
      /\ Len(part) \in Nat /\ DOMAIN part = 1..Len(part)
      /\ \A k \in DOMAIN part : part[k].value \in Nat /\ part[k].unit \in {"W", "D"}
  BY LeadFacts, ReadableFacts DEF DateUnits
<1>2. \A j, k \in DOMAIN part : j < k => part[j].unit = "W" /\ part[k].unit = "D"
  BY UnitsInOrder
<1>3. Len(part) <= 2
  <2> SUFFICES ASSUME Len(part) >= 3 PROVE FALSE
    BY <1>1
  <2>1. {1, 2, 3} \subseteq DOMAIN part
    BY <1>1
  <2>2. part[2].unit = "D" /\ part[2].unit = "W"
    BY <1>2, <2>1
  <2> QED BY <2>2
<1>4. \A n \in DOMAIN part : Term(part, n) \in Nat
  BY <1>1, TermIsValue DEF DateUnits
<1>5. /\ Len(part) = 0 => Written(part) = 0
      /\ Len(part) = 1 => Written(part) = Term(part, 1)
      /\ Len(part) = 2 => Written(part) = Term(part, 1) + Term(part, 2)
  <2> HIDE DEF part
  <2>1. Len(part) <= 3
    BY <1>1, <1>3
  <2> QED BY <1>1, <1>4, <2>1, WrittenUpToThree
<1>6. Days(lead) = 7 * W + D
  BY DEF Days
<1>7. \A k \in DOMAIN part : /\ part[k].unit = "W" => Term(part, k) = part[k].value * 7
                             /\ part[k].unit = "D" => Term(part, k) = part[k].value * 1
  BY Lengths DEF Term
<1>8. 7 * W + D = Written(part)
  <2> HIDE DEF part
  <2>1. CASE Len(part) = 0
    <3>1. W = 0 /\ D = 0
      BY <1>1, <2>1, NoneIsZero
    <3> HIDE DEF W, D
    <3> QED BY <1>5, <2>1, <3>1
  <2>2. CASE Len(part) = 1
    <3>1. DOMAIN part = {1} /\ 1 \in Int
      BY <1>1, <2>2
    <3>2. CASE part[1].unit = "W"
      <4>1. W = part[1].value /\ D = 0
        BY <3>1, <3>2, OnlyValue, NoneIsZero
      <4> HIDE DEF W, D
      <4>2. part[1].value \in Nat /\ Term(part, 1) = part[1].value * 7
        BY <1>1, <1>7, <3>1, <3>2
      <4> QED BY <1>5, <2>2, <4>1, <4>2
    <3>3. CASE part[1].unit = "D"
      <4>1. D = part[1].value /\ W = 0
        BY <3>1, <3>3, OnlyValue, NoneIsZero
      <4> HIDE DEF W, D
      <4>2. part[1].value \in Nat /\ Term(part, 1) = part[1].value * 1
        BY <1>1, <1>7, <3>1, <3>3
      <4> QED BY <1>5, <2>2, <4>1, <4>2
    <3> QED BY <1>1, <3>1, <3>2, <3>3
  <2>3. CASE Len(part) = 2
    <3>1. DOMAIN part = {1, 2} /\ 1 \in Int /\ 2 \in Int /\ 1 < 2
      BY <1>1, <2>3
    <3>2. part[1].unit = "W" /\ part[2].unit = "D"
      BY <1>2, <3>1
    <3>3. W = part[1].value /\ D = part[2].value
      <4>1. W = part[1].value
        BY <3>1, <3>2, OnlyValue
      <4>2. D = part[2].value
        BY <3>1, <3>2, OnlyValue
      <4> QED BY <4>1, <4>2
    <3> HIDE DEF W, D
    <3>4. /\ part[1].value \in Nat /\ Term(part, 1) = part[1].value * 7
          /\ part[2].value \in Nat /\ Term(part, 2) = part[2].value * 1
      BY <1>1, <1>7, <3>1, <3>2
    <3> QED BY <1>5, <2>3, <3>3, <3>4
  <2> QED BY <1>1, <1>3, <2>1, <2>2, <2>3
<1>9. Written(part) \in Nat
  <2> HIDE DEF part
  <2>1. CASE Len(part) = 0
    BY <1>5, <2>1
  <2>2. CASE Len(part) = 1
    BY <1>1, <1>4, <1>5, <2>2
  <2>3. CASE Len(part) = 2
    BY <1>1, <1>4, <1>5, <2>3
  <2> QED BY <1>1, <1>3, <2>1, <2>2, <2>3
<1> QED BY <1>6, <1>8, <1>9

(* And so are the hours, minutes and seconds.                                *)
LEMMA TimeIsRead ==
    ASSUME NEW lead \in LeadType, Parses(lead), WellFormed(lead)
    PROVE  Elapsed(lead) = Written(lead.time) /\ Written(lead.time) \in Nat
<1> DEFINE part == lead.time
           H == ValueOf(part, "H")
           M == ValueOf(part, "M")
           S == ValueOf(part, "S")
<1>1. /\ part \in Seq(Component) /\ Readable(part, TimeUnits)
      /\ Len(part) \in Nat /\ DOMAIN part = 1..Len(part)
      /\ \A k \in DOMAIN part : part[k].value \in Nat /\ part[k].unit \in {"H", "M", "S"}
  BY LeadFacts, ReadableFacts DEF TimeUnits
<1>2. \A j, k \in DOMAIN part : j < k =>
        \/ part[j].unit = "H" /\ part[k].unit \in {"M", "S"}
        \/ part[j].unit = "M" /\ part[k].unit = "S"
  BY UnitsInOrder
<1>3. Len(part) <= 3
  <2> SUFFICES ASSUME Len(part) >= 4 PROVE FALSE
    BY <1>1
  <2>1. {1, 2, 3, 4} \subseteq DOMAIN part /\ 1 < 2 /\ 2 < 3 /\ 3 < 4
    BY <1>1
  <2> HIDE DEF part
  <2>2. part[2].unit \in {"M", "S"} /\ part[3].unit = "S"
    BY <1>2, <2>1
  <2> QED BY <1>2, <2>1, <2>2
<1>4. \A n \in DOMAIN part : Term(part, n) \in Nat
  BY <1>1, TermIsValue DEF TimeUnits
<1>5. /\ Len(part) = 0 => Written(part) = 0
      /\ Len(part) = 1 => Written(part) = Term(part, 1)
      /\ Len(part) = 2 => Written(part) = Term(part, 1) + Term(part, 2)
      /\ Len(part) = 3 => Written(part) = Term(part, 1) + Term(part, 2) + Term(part, 3)
  <2> HIDE DEF part
  <2> QED BY <1>1, <1>3, <1>4, WrittenUpToThree
<1>6. Elapsed(lead) = H * Hour + M * Minute + S * Second
  BY DEF Elapsed
<1>7. \A k \in DOMAIN part : /\ part[k].unit = "H" => Term(part, k) = part[k].value * Hour
                             /\ part[k].unit = "M" => Term(part, k) = part[k].value * Minute
                             /\ part[k].unit = "S" => Term(part, k) = part[k].value * Second
  BY Lengths DEF Term
<1>8. 0 * Hour = 0 /\ 0 * Minute = 0 /\ 0 * Second = 0
  BY ClockAssumption DEF Second
<1>9. H * Hour + M * Minute + S * Second = Written(part)
  <2> HIDE DEF part
  <2>1. CASE Len(part) = 0
    <3>1. H = 0 /\ M = 0 /\ S = 0
      BY <1>1, <2>1, NoneIsZero
    <3> HIDE DEF H, M, S
    <3> QED BY <1>5, <1>8, <2>1, <3>1
  <2>2. CASE Len(part) = 1
    <3>1. DOMAIN part = {1} /\ 1 \in Int
      BY <1>1, <2>2
    <3>2. Term(part, 1) \in Int /\ Written(part) = Term(part, 1)
      BY <1>4, <1>5, <2>2, <3>1
    <3>3. CASE part[1].unit = "H"
      <4>1. H = part[1].value /\ M = 0 /\ S = 0
        BY <3>1, <3>3, OnlyValue, NoneIsZero
      <4> HIDE DEF H, M, S
      <4>2. H * Hour = Term(part, 1)
        BY <1>7, <3>1, <3>3, <4>1
      <4> QED BY <1>8, <3>2, <4>1, <4>2
    <3>4. CASE part[1].unit = "M"
      <4>1. M = part[1].value /\ H = 0 /\ S = 0
        BY <3>1, <3>4, OnlyValue, NoneIsZero
      <4> HIDE DEF H, M, S
      <4>2. M * Minute = Term(part, 1)
        BY <1>7, <3>1, <3>4, <4>1
      <4> QED BY <1>8, <3>2, <4>1, <4>2
    <3>5. CASE part[1].unit = "S"
      <4>1. S = part[1].value /\ H = 0 /\ M = 0
        BY <3>1, <3>5, OnlyValue, NoneIsZero
      <4> HIDE DEF H, M, S
      <4>2. S * Second = Term(part, 1)
        BY <1>7, <3>1, <3>5, <4>1
      <4> QED BY <1>8, <3>2, <4>1, <4>2
    <3> QED BY <1>1, <3>1, <3>3, <3>4, <3>5
  <2>3. CASE Len(part) = 2
    <3>1. DOMAIN part = {1, 2} /\ 1 \in Int /\ 2 \in Int /\ 1 < 2
      BY <1>1, <2>3
    <3>2. /\ Term(part, 1) \in Int /\ Term(part, 2) \in Int
          /\ Written(part) = Term(part, 1) + Term(part, 2)
      BY <1>4, <1>5, <2>3, <3>1
    <3>3. CASE part[1].unit = "H" /\ part[2].unit = "M"
      <4>1. H = part[1].value
        BY <3>1, <3>3, OnlyValue
      <4>2. M = part[2].value
        BY <3>1, <3>3, OnlyValue
      <4>3. S = 0
        BY <3>1, <3>3, NoneIsZero
      <4> HIDE DEF H, M, S
      <4>4. H * Hour = Term(part, 1) /\ M * Minute = Term(part, 2)
        BY <1>7, <3>1, <3>3, <4>1, <4>2
      <4> QED BY <1>8, <3>2, <4>3, <4>4
    <3>4. CASE part[1].unit = "H" /\ part[2].unit = "S"
      <4>1. H = part[1].value
        BY <3>1, <3>4, OnlyValue
      <4>2. S = part[2].value
        BY <3>1, <3>4, OnlyValue
      <4>3. M = 0
        BY <3>1, <3>4, NoneIsZero
      <4> HIDE DEF H, M, S
      <4>4. H * Hour = Term(part, 1) /\ S * Second = Term(part, 2)
        BY <1>7, <3>1, <3>4, <4>1, <4>2
      <4> QED BY <1>8, <3>2, <4>3, <4>4
    <3>5. CASE part[1].unit = "M" /\ part[2].unit = "S"
      <4>1. M = part[1].value
        BY <3>1, <3>5, OnlyValue
      <4>2. S = part[2].value
        BY <3>1, <3>5, OnlyValue
      <4>3. H = 0
        BY <3>1, <3>5, NoneIsZero
      <4> HIDE DEF H, M, S
      <4>4. M * Minute = Term(part, 1) /\ S * Second = Term(part, 2)
        BY <1>7, <3>1, <3>5, <4>1, <4>2
      <4> QED BY <1>8, <3>2, <4>3, <4>4
    <3>6. \/ part[1].unit = "H" /\ part[2].unit = "M"
          \/ part[1].unit = "H" /\ part[2].unit = "S"
          \/ part[1].unit = "M" /\ part[2].unit = "S"
      BY <1>2, <3>1
    <3> QED BY <3>3, <3>4, <3>5, <3>6
  <2>4. CASE Len(part) = 3
    <3>1. DOMAIN part = {1, 2, 3} /\ 1 \in Int /\ 2 \in Int /\ 3 \in Int /\ 1 < 2 /\ 2 < 3
      BY <1>1, <2>4
    <3>2. part[1].unit = "H" /\ part[2].unit = "M" /\ part[3].unit = "S"
      BY <1>2, <3>1
    <3>3. H = part[1].value
      BY <3>1, <3>2, OnlyValue
    <3>4. M = part[2].value
      BY <3>1, <3>2, OnlyValue
    <3>5. S = part[3].value
      BY <3>1, <3>2, OnlyValue
    <3> HIDE DEF H, M, S
    <3>6. H * Hour = Term(part, 1) /\ M * Minute = Term(part, 2) /\ S * Second = Term(part, 3)
      BY <1>7, <3>1, <3>2, <3>3, <3>4, <3>5
    <3> QED BY <1>4, <1>5, <2>4, <3>1, <3>6
  <2> QED BY <1>1, <1>3, <2>1, <2>2, <2>3, <2>4
<1>10. Written(part) \in Nat
  <2> HIDE DEF part
  <2>1. CASE Len(part) = 0
    BY <1>5, <2>1
  <2>2. CASE Len(part) = 1
    BY <1>1, <1>4, <1>5, <2>2
  <2>3. CASE Len(part) = 2
    BY <1>1, <1>4, <1>5, <2>3
  <2>4. CASE Len(part) = 3
    BY <1>1, <1>4, <1>5, <2>4
  <2> QED BY <1>1, <1>3, <2>1, <2>2, <2>3, <2>4
<1> QED BY <1>6, <1>9, <1>10

-----------------------------------------------------------------------------
(* The calendar.                                                             *)

(* So many days on, AddDate has moved by those days, give or take the change *)
(* of the clocks.                                                            *)
LEMMA AddDateFacts ==
    ASSUME NEW t \in Int, NEW n \in Int, NEW shift \in Int, NEW u \in AddDate(t, n, shift)
    PROVE  /\ u \in Int
           /\ u - t - n * Day \in {0, shift, -shift}
           /\ Shows(Reading(t, shift) + n * Day, shift) # {} =>
                 u \in Shows(Reading(t, shift) + n * Day, shift)
<1> DEFINE l == Reading(t, shift) + n * Day
           x == n * Day
<1>1. x \in Int /\ ClockChange \in Int
  BY ClockAssumption
<1>2. l = t + x \/ l = t + shift + x
  <2> HIDE DEF x
  <2>1. l = Reading(t, shift) + x
    BY DEF x
  <2> QED BY <1>1, <2>1 DEF Reading
<1>3. u \in {l, l - shift} /\ (Shows(l, shift) # {} => u \in Shows(l, shift))
  BY DEF AddDate, Shows
<1> HIDE DEF l, x
<1>4. l \in Int
  BY <1>1, <1>2
<1>5. u \in Int
  BY <1>3, <1>4
<1>6. (l = t + x + shift /\ u = l) \/ (l = t + x /\ u = l) \/ u = t + x \/ u = t + x - shift
  BY <1>1, <1>2, <1>3, <1>4
<1>7. u - t - x \in {0, shift, -shift}
  BY <1>1, <1>4, <1>5, <1>6
<1> QED BY <1>3, <1>5, <1>7 DEF l, x

LEMMA DaysOutweighShift ==
    ASSUME NEW n \in Nat \ {0}, NEW m \in Nat \ {0}
    PROVE  n * m \in Int /\ n * m >= m /\ (-n) * m = -(n * m) /\ (-1) * n = -n
OBVIOUS

(* Where a reminder falls: a lead that is written as the documents say keeps *)
(* the clock reading over its days, and is before the due date if and only   *)
(* if it is negative.                                                        *)
LEMMA LeadFalls ==
    ASSUME NEW lead \in LeadType, Parses(lead), WellFormed(lead),
           NEW of \in Int, NEW shift \in Int, -Day < shift, shift < Day,
           NEW at \in ApplyTo(lead, of, shift)
    PROVE  LET day == at - Sign(lead) * Written(lead.time)
               clock == Reading(of, shift) + Sign(lead) * Written(lead.date) * Day
           IN  /\ Shows(clock, shift) # {} => Reading(day, shift) = clock
               /\ Shows(Reading(of, shift), shift) = {of} => (lead.negative <=> at < of)
<1> DEFINE n == Written(lead.date)
           e == Written(lead.time)
           s == Sign(lead)
           clock == Reading(of, shift) + s * n * Day
<1>1. n \in Nat /\ e \in Nat /\ Days(lead) = n /\ Elapsed(lead) = e
  BY DateIsRead, TimeIsRead
<1>2. n # 0 \/ e # 0
  BY <1>1 DEF Parses
<1>3. (lead.negative /\ s = -1) \/ (~lead.negative /\ s = 1)
  BY DEF Sign
<1>4. PICK u \in AddDate(of, s * n, shift) : at = u + s * e
  BY <1>1 DEF ApplyTo
<1> HIDE DEF n, e, s
<1>5. s * n \in Int /\ s * e \in Int /\ Day \in Nat \ {0}
  BY <1>1, <1>3, ClockAssumption
<1>6. /\ u \in Int
      /\ u - of - (s * n) * Day \in {0, shift, -shift}
      /\ Shows(clock, shift) # {} => u \in Shows(clock, shift)
  <2> HIDE DEF clock
  <2> QED BY <1>5, AddDateFacts DEF clock
<1>7. at - s * e = u
  BY <1>4, <1>5, <1>6
<1>8. Shows(clock, shift) # {} => Reading(at - s * e, shift) = clock
  BY <1>6, <1>7 DEF Shows
<1>9. ASSUME Shows(Reading(of, shift), shift) = {of}
      PROVE  lead.negative <=> at < of
  <2>1. CASE n = 0
    <3>1. (s * n) * Day = 0
      BY <1>3, <1>5, <2>1
    <3>2. Reading(of, shift) \in Int
      BY ClockAssumption DEF Reading
    <3>3. clock = Reading(of, shift)
      BY <3>1, <3>2 DEF clock
    <3>4. u = of
      BY <1>6, <1>9, <3>3
    <3>5. s * e = e \/ s * e = -e
      BY <1>1, <1>3
    <3>6. CASE lead.negative
      <4>1. s * e = -e
        BY <1>1, <1>3, <3>6
      <4> QED BY <1>1, <1>2, <1>4, <2>1, <3>4, <3>6, <4>1
    <3>7. CASE ~lead.negative
      <4>1. s * e = e
        BY <1>1, <1>3, <3>7
      <4> QED BY <1>1, <1>2, <1>4, <2>1, <3>4, <3>7, <4>1
    <3> QED BY <3>6, <3>7
  <2>2. CASE n # 0
    <3> DEFINE x == n * Day
    <3>1. x \in Int /\ x >= Day /\ (-n) * Day = -x /\ (-1) * n = -n
      BY <1>1, <1>5, <2>2, DaysOutweighShift
    <3>2. CASE lead.negative
      <4>1. s * n = -n /\ s * e = -e
        BY <1>1, <1>3, <3>1, <3>2
      <4>2. (s * n) * Day = -x
        BY <3>1, <4>1
      <4> HIDE DEF x
      <4>3. u - of + x \in {0, shift, -shift}
        BY <1>6, <3>1, <4>2
      <4>4. u < of
        BY <1>5, <1>6, <3>1, <4>3
      <4> QED BY <1>1, <1>4, <1>6, <3>2, <4>1, <4>4
    <3>3. CASE ~lead.negative
      <4>1. s * n = n /\ s * e = e
        BY <1>1, <1>3, <3>3
      <4>2. (s * n) * Day = x
        BY <4>1
      <4> HIDE DEF x
      <4>3. u - of - x \in {0, shift, -shift}
        BY <1>6, <3>1, <4>2
      <4>4. u > of
        BY <1>5, <1>6, <3>1, <4>3
      <4> QED BY <1>1, <1>4, <1>6, <3>3, <4>1, <4>4
    <3> QED BY <3>2, <3>3
  <2> QED BY <2>1, <2>2
<1> QED BY <1>8, <1>9 DEF n, e, s

=============================================================================
