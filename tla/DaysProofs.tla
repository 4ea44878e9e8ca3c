------------------------------ MODULE DaysProofs ------------------------------
(* What holds of Days for any visits, changes, timezones and length of time: *)
(* the copy of the settings is outdated only for a reason, the gate swallows *)
(* no day, and the streak is the run of counted days.                        *)
EXTENDS Days, FiniteSetTheorems, TLAPS

-----------------------------------------------------------------------------
(* The calendar.                                                            *)

\* A later instant is not on an earlier day.
LEMMA Quotients ==
    ASSUME NEW a \in Nat, NEW b \in Nat, a <= b, NEW d \in Nat \ {0}
    PROVE  a \div d \in Nat /\ a \div d <= b \div d
<1>1. /\ a \div d \in Nat /\ b \div d \in Nat
      /\ d * (a \div d) <= a /\ b < d * (b \div d) + d
    OBVIOUS
<1> DEFINE q == a \div d
           p == b \div d
<1> HIDE DEF q, p
<1>2. q \in Nat /\ p \in Nat /\ d * q <= a /\ b < d * p + d
    BY <1>1 DEF q, p
<1>3. ASSUME p < q PROVE FALSE
  <2>1. p + 1 <= q
      BY <1>2, <1>3
  <2>2. d * (p + 1) <= d * q
      BY <1>2, <2>1
  <2>3. d * (p + 1) = d * p + d
      BY <1>2
  <2> QED BY <1>2, <2>2, <2>3
<1> QED BY <1>2, <1>3 DEF q, p

LEMMA DatesGrow ==
    ASSUME NEW z \in Zones, NEW a \in Nat, NEW b \in Nat, a <= b
    PROVE  /\ LocalDate(z, a) \in CalendarDays /\ LocalDate(z, b) \in CalendarDays
           /\ LocalDate(z, a) <= LocalDate(z, b)
<1>1. z \in Nat /\ DayLength \in Nat \ {0}
    BY ZonesAssumption, ClockAssumption
<1>2. /\ (a + z) \div DayLength \in Nat /\ (b + z) \div DayLength \in Nat
      /\ (a + z) \div DayLength <= (b + z) \div DayLength
    BY <1>1, Quotients
<1> DEFINE q == (a + z) \div DayLength
           p == (b + z) \div DayLength
<1> HIDE DEF q, p
<1>3. LocalDate(z, a) = 1 + q /\ LocalDate(z, b) = 1 + p
    BY DEF LocalDate, q, p
<1> QED BY <1>2, <1>3 DEF q, p, CalendarDays, Never

-----------------------------------------------------------------------------
(* Types.                                                                   *)

Steps == {"idle", "row", "fill", "gate", "touch", "remember"}
Visit == [pc : Steps, read : SUBSET Zones, today : Nat, at : Nat, stale : BOOLEAN]

\* A visit that was resolved against a timezone has its type.
LEMMA ResolveType ==
    ASSUME TypeOK, NEW r \in Visits, NEW z \in Zones, NEW stale \in BOOLEAN,
           Resolve(r, z, stale)
    PROVE  visit' \in [Visits -> Visit]
<1>1. Today(z) \in Nat
    BY DatesGrow DEF TypeOK, Today, CalendarDays
<1> DEFINE new == [NoVisit EXCEPT !.pc = "gate", !.today = Today(z), !.stale = stale]
<1>2. new \in Visit
    BY <1>1 DEF NoVisit, Visit, Steps, Never
<1> HIDE DEF new
<1>3. visit' = [visit EXCEPT ![r] = new]
    BY DEF Resolve, new
<1> QED BY <1>2, <1>3 DEF TypeOK, Visit, Steps

LEMMA LeaveType ==
    ASSUME TypeOK, NEW r \in Visits, Leave(r)
    PROVE  visit' \in [Visits -> Visit]
<1>1. NoVisit \in Visit
    BY DEF NoVisit, Visit, Steps, Never
<1> QED BY <1>1 DEF TypeOK, Visit, Steps, Leave

\* Counting a day keeps the streak a streak.
LEMMA CountDayType ==
    ASSUME TypeOK, NEW day \in CalendarDays, CountDay(day)
    PROVE  /\ streak' \in [current : Nat, longest : Nat, last : Nat]
           /\ counted' \subseteq CalendarDays /\ back' \in BOOLEAN
<1>1. CASE UNCHANGED <<streak, counted, back>>
    BY <1>1 DEF TypeOK
<1>2. CASE ~UNCHANGED <<streak, counted, back>>
  <2>1. Extended(day) \in Nat
      BY DEF Extended, TypeOK
  <2> DEFINE next == Extended(day)
  <2>2. /\ streak' = [current |-> next, last |-> day,
                     longest |-> IF next > streak.longest THEN next ELSE streak.longest]
        /\ counted' = counted \cup {day} /\ back' = (back \/ day < streak.last)
      BY <1>2 DEF CountDay
  <2>3. back' \in BOOLEAN
      BY <2>2
  <2>4. next \in Nat /\ day \in Nat /\ streak.longest \in Nat
      BY <2>1 DEF TypeOK, CalendarDays
  <2> HIDE DEF next
  <2> QED BY <2>2, <2>3, <2>4 DEF TypeOK
<1> QED BY <1>1, <1>2

LEMMA TypeNext == TypeOK /\ [Next]_vars => TypeOK'
<1> SUFFICES ASSUME TypeOK, [Next]_vars PROVE TypeOK'
    OBVIOUS
<1> USE DEF rows, history
<1>1. CASE UNCHANGED vars
  <2>1. /\ now' = now /\ zone' = zone /\ cached' = cached /\ gates' = gates
        /\ streak' = streak /\ visit' = visit /\ change' = change
        /\ counted' = counted /\ back' = back /\ late' = late /\ missed' = missed
        /\ misled' = misled
      BY <1>1 DEF vars
  <2> QED BY <2>1, Zenon DEF TypeOK, CalendarDays
<1>2. ASSUME NEW r \in Visits, Open(r) PROVE TypeOK'
  <2>1. CASE \E z \in cached : Resolve(r, z, z # zone)
    <3>1. visit' \in [Visits -> Visit]
        BY <2>1, ResolveType DEF TypeOK
    <3> QED BY <1>2, <3>1 DEF Open, TypeOK, Visit, Steps
  <2>2. CASE visit' = [visit EXCEPT ![r].pc = "row"]
      BY <1>2, <2>2 DEF Open, TypeOK
  <2> QED BY <1>2, <2>1, <2>2 DEF Open
<1>3. ASSUME NEW r \in Visits, ReadRow(r) PROVE TypeOK'
  <2>0. CASE Leave(r)
    <3>1. visit' \in [Visits -> Visit]
        BY <2>0, LeaveType
    <3> QED BY <1>3, <3>1 DEF ReadRow, TypeOK, Visit, Steps
  <2> DEFINE new == [visit[r] EXCEPT !.pc = "fill", !.read = {zone}]
  <2>1. visit \in [Visits -> Visit] /\ zone \in Zones
      BY DEF TypeOK, Visit, Steps
  <2>2. CASE visit' = [visit EXCEPT ![r].pc = "fill", ![r].read = {zone}]
    <3>1. new \in Visit /\ visit' = [visit EXCEPT ![r] = new]
        BY <2>1, <2>2 DEF Visit, Steps
    <3> HIDE DEF new
    <3>2. visit' \in [Visits -> Visit]
        BY <2>1, <3>1
    <3> QED BY <1>3, <3>2 DEF ReadRow, TypeOK, Visit, Steps
  <2> QED BY <1>3, <2>0, <2>2 DEF ReadRow
<1>4. ASSUME NEW r \in Visits, Fill(r) PROVE TypeOK'
  <2>1. visit[r] \in Visit
      BY DEF TypeOK, Visit, Steps
  <2>2. PICK z \in visit[r].read : Resolve(r, z, visit[r].stale)
      BY <1>4 DEF Fill
  <2>3. visit' \in [Visits -> Visit]
      BY <2>1, <2>2, ResolveType DEF Visit
  <2> QED BY <1>4, <2>1, <2>3 DEF Fill, TypeOK, Visit, Steps
<1>5. ASSUME NEW r \in Visits, AskGate(r) PROVE TypeOK'
  <2>1. visit' \in [Visits -> Visit]
    <3>1. CASE Leave(r)
        BY <3>1, LeaveType
    <3>2. CASE visit' = [visit EXCEPT ![r].pc = "touch", ![r].at = now]
      <4>1. visit \in [Visits -> Visit] /\ now \in Nat
          BY DEF TypeOK, Visit, Steps
      <4>2. [visit[r] EXCEPT !.pc = "touch", !.at = now] \in Visit
          BY <4>1 DEF Visit, Steps
      <4>3. visit' = [visit EXCEPT ![r] = [visit[r] EXCEPT !.pc = "touch", !.at = now]]
          BY <3>2, <4>1
      <4> QED BY <4>1, <4>2, <4>3
    <3> QED BY <1>5, <3>1, <3>2 DEF AskGate
  <2> QED BY <1>5, <2>1 DEF AskGate, TypeOK, Visit, Steps
<1>6. ASSUME NEW r \in Visits, Touch(r) PROVE TypeOK'
  <2>1. CASE Leave(r) /\ UNCHANGED <<streak, counted, back>>
    <3>1. visit' \in [Visits -> Visit]
        BY <2>1, LeaveType
    <3> QED BY <1>6, <2>1, <3>1 DEF Touch, TypeOK, Visit, Steps
  <2>2. CASE /\ CountDay(LocalDate(zone, visit[r].at))
             /\ visit' = [visit EXCEPT ![r].pc = "remember", ![r].at = 0]
    <3>1. LocalDate(zone, visit[r].at) \in CalendarDays
        BY DatesGrow DEF TypeOK
    <3>2. /\ streak' \in [current : Nat, longest : Nat, last : Nat]
          /\ counted' \subseteq CalendarDays /\ back' \in BOOLEAN
        BY <2>2, <3>1, CountDayType
    <3>3. visit' \in [Visits -> Visit]
      <4>1. visit \in [Visits -> Visit]
          BY DEF TypeOK, Visit, Steps
      <4>2. [visit[r] EXCEPT !.pc = "remember", !.at = 0] \in Visit
          BY <4>1 DEF Visit, Steps
      <4>3. visit' = [visit EXCEPT ![r] = [visit[r] EXCEPT !.pc = "remember", !.at = 0]]
          BY <2>2, <4>1
      <4> QED BY <4>1, <4>2, <4>3
    <3> QED BY <1>6, <3>2, <3>3 DEF Touch, TypeOK, Visit, Steps
  <2> QED BY <1>6, <2>1, <2>2 DEF Touch
<1>7. ASSUME NEW r \in Visits, Remember(r) PROVE TypeOK'
  <2>1. visit' \in [Visits -> Visit]
      BY <1>7, LeaveType DEF Remember
  <2>2. gates' \subseteq Nat
    <3>1. visit[r].today \in Nat
        BY DEF TypeOK
    <3> QED BY <1>7, <3>1 DEF Remember, TypeOK
  <2> QED BY <1>7, <2>1, <2>2 DEF Remember, TypeOK, Visit, Steps
<1>8. ASSUME NEW w \in Changes, Apply(w) PROVE TypeOK'
  <2>0. ASSUME Answer(w)
        PROVE  change' \in [Changes -> [pc : {"idle", "write", "retire", "done"},
                                       row : SUBSET Zones]]
    <3>1. [pc |-> "done", row |-> {}] \in [pc : {"idle", "write", "retire", "done"},
                                           row : SUBSET Zones]
        OBVIOUS
    <3> QED BY <2>0, <3>1 DEF Answer, TypeOK
  <2>1. CASE WriteSettings(w)
    <3>1. CASE Answer(w) /\ UNCHANGED <<zone, visit, misled>>
        BY <2>0, <2>1, <3>1 DEF WriteSettings, TypeOK
    <3>2. CASE /\ zone' \in change[w].row
               /\ misled' = (misled \/ zone' # zone)
               /\ change' = [change EXCEPT ![w] = [pc |-> "retire", row |-> {}]]
               /\ Overtake
      <4>1. UNCHANGED <<now, cached, gates, streak, counted, back, late, missed>>
          BY <2>1 DEF WriteSettings
      <4> QED BY <3>2, <4>1, ZenonT(40) DEF Overtake, TypeOK
    <3> QED BY <2>1, <3>1, <3>2 DEF WriteSettings
  <2>2. CASE RetireCached(w)
    <3>1. /\ UNCHANGED <<now, zone, streak, visit, counted, back>>
          /\ Retire \/ (missed' = (cached # {}) /\ UNCHANGED <<cached, gates, late, misled>>)
        BY <2>2 DEF RetireCached
    <3>2. change' \in [Changes -> [pc : {"idle", "write", "retire", "done"},
                                   row : SUBSET Zones]]
        BY <2>0, <2>2 DEF RetireCached
    <3> QED BY <3>1, <3>2, ZenonT(40) DEF Retire, TypeOK
  <2> QED BY <1>8, <2>1, <2>2 DEF Apply
<1>9. ASSUME NEW w \in Changes, ReadSettings(w) PROVE TypeOK'
  <2>1. ASSUME NEW patch \in Patches, change' = [change EXCEPT ![w] =
              [pc |-> "write", row |-> Merge(patch, {zone})]]
        PROVE  TypeOK'
    <3>1. Merge(patch, {zone}) \subseteq Zones
        BY DEF Patches, Merge, TypeOK
    <3> QED BY <1>9, <2>1, <3>1 DEF ReadSettings, TypeOK
  <2>2. CASE Answer(w)
      BY <1>9, <2>2 DEF ReadSettings, Answer, TypeOK
  <2> QED BY <1>9, <2>1, <2>2 DEF ReadSettings
<1>10. CASE Expire
    BY <1>10 DEF Expire, TypeOK
<1>11. CASE Tick
    BY <1>11, ClockAssumption DEF Tick, TypeOK
<1> QED BY <1>1, <1>2, <1>3, <1>4, <1>5, <1>6, <1>7, <1>8, <1>9, <1>10, <1>11
       DEF Next, Proceed

\* The clock, the settings, the streak and every visit keep their types.
THEOREM DaysTypeCorrect == Spec => []TypeOK
<1>1. Init => TypeOK
  <2>1. NoVisit \in Visit
      BY DEF NoVisit, Visit, Steps, Never
  <2>2. 0 \in 0 .. MaxTime
      BY ClockAssumption
  <2>3. Init => visit \in [Visits -> Visit]
      BY <2>1 DEF Init
  <2>4. Init => change \in [Changes -> [pc : {"idle", "write", "retire", "done"},
                                        row : SUBSET Zones]]
      BY DEF Init
  <2>5. Init => streak \in [current : Nat, longest : Nat, last : Nat]
      BY DEF Init, Never
  <2>6. Init => /\ back \in BOOLEAN /\ late \in BOOLEAN /\ missed \in BOOLEAN
                /\ misled \in BOOLEAN
      BY Zenon DEF Init
  <2> QED BY <2>2, <2>3, <2>4, <2>5, <2>6 DEF Init, TypeOK, Visit, Steps
<1> QED BY <1>1, TypeNext, PTL DEF Spec

-----------------------------------------------------------------------------
(* The copy of the settings.                                                *)

\* Whoever has read the row holds it, unless a change has overtaken him since.
LEMMA FreshReadNext == TypeOK /\ FreshRead /\ [Next]_vars => FreshRead'
<1> SUFFICES ASSUME TypeOK, FreshRead, [Next]_vars PROVE FreshRead'
    OBVIOUS
<1> USE DEF rows, history
<1>0. visit \in [Visits -> Visit] /\ visit' \in [Visits -> Visit]
    BY TypeNext DEF TypeOK, Visit, Steps
<1>1. ASSUME NEW r \in Visits, \A q \in Visits \ {r} : visit'[q] = visit[q], UNCHANGED zone,
             visit'[r].pc = "fill" /\ ~visit'[r].stale => visit'[r].read = {zone}
      PROVE FreshRead'
    BY <1>1 DEF FreshRead
<1>2. CASE UNCHANGED <<visit, zone>>
    BY <1>2 DEF FreshRead
<1>3. ASSUME NEW r \in Visits, Open(r) \/ Fill(r) PROVE FreshRead'
  <2>1. UNCHANGED zone
      BY <1>3 DEF Open, Fill
  <2>2. CASE \E z, stale : Resolve(r, z, stale)
    <3>1. visit'[r].pc = "gate" /\ \A q \in Visits \ {r} : visit'[q] = visit[q]
        BY <1>0, <2>2 DEF Resolve, NoVisit
    <3> QED BY <1>1, <2>1, <3>1
  <2>3. CASE visit' = [visit EXCEPT ![r].pc = "row"]
    <3>1. visit'[r].pc = "row" /\ \A q \in Visits \ {r} : visit'[q] = visit[q]
        BY <1>0, <2>3 DEF Visit
    <3> QED BY <1>1, <2>1, <3>1
  <2> QED BY <1>3, <2>2, <2>3 DEF Open, Fill
<1>4. ASSUME NEW r \in Visits, ReadRow(r) PROVE FreshRead'
  <2>1. /\ visit'[r].pc = "fill" => visit'[r].read = {zone}
        /\ \A q \in Visits \ {r} : visit'[q] = visit[q]
      BY <1>0, <1>4 DEF ReadRow, Leave, NoVisit, Visit
  <2> QED BY <1>1, <1>4, <2>1 DEF ReadRow
<1>5. ASSUME NEW r \in Visits, AskGate(r) \/ Touch(r) \/ Remember(r) PROVE FreshRead'
  <2>1. /\ visit'[r].pc \in {"idle", "touch", "remember"}
        /\ \A q \in Visits \ {r} : visit'[q] = visit[q]
      BY <1>0, <1>5 DEF AskGate, Touch, Remember, Leave, NoVisit, Visit
  <2>2. UNCHANGED zone
      BY <1>5 DEF AskGate, Touch, Remember
  <2> QED BY <1>1, <2>1, <2>2
<1>6. ASSUME NEW w \in Changes, WriteSettings(w) PROVE FreshRead'
  <2>0. CASE UNCHANGED <<visit, zone>>
      BY <1>2, <2>0
  <2> SUFFICES ASSUME NEW r \in Visits, visit'[r].pc = "fill", ~visit'[r].stale, Overtake
               PROVE  visit'[r].read = {zone'}
      BY <1>6, <2>0 DEF FreshRead, WriteSettings
  <2>1. visit'[r] = [visit[r] EXCEPT !.stale = @ \/ (zone' # zone
                                                     /\ visit[r].pc \notin {"idle", "row"})]
      BY DEF Overtake
  <2>2. visit[r].pc = "fill" /\ visit'[r].read = visit[r].read
      BY <1>0, <2>1 DEF Visit
  <2>3. visit'[r].stale = (visit[r].stale \/ (zone' # zone
                                                /\ visit[r].pc \notin {"idle", "row"}))
      BY <1>0, <2>1 DEF Visit
  <2> QED BY <2>2, <2>3 DEF FreshRead
<1>7. CASE (\E w \in Changes : ReadSettings(w) \/ RetireCached(w)) \/ Expire \/ Tick
    BY <1>2, <1>7 DEF ReadSettings, RetireCached, Expire, Tick
<1> QED BY <1>2, <1>3, <1>4, <1>5, <1>6, <1>7 DEF Next, Proceed, Apply, vars

\* However visits and changes interleave, and whichever calls fail: a visit that
\* read the row after the last change leaves no outdated copy; while one is outdated
\* its change is not yet answered, or was answered without reaching it, or its reader
\* had read before the change.  That last copy is left: only its minute removes it.
THEOREM CopyRetired == Spec => []RetiredByAChange
<1>1. Init => RetiredByAChange
    BY DEF Init, FreshRead, RetiredByAChange, NoVisit
<1>2. TypeOK /\ RetiredByAChange /\ [Next]_vars => RetiredByAChange'
  <2> DEFINE Cause == \/ cached \subseteq {zone}
                      \/ \E w \in Changes : change[w].pc = "retire"
                      \/ missed \/ late
  <2> SUFFICES ASSUME TypeOK, FreshRead, Cause, [Next]_vars
               PROVE  Cause'
      BY FreshReadNext DEF RetiredByAChange
  <2> USE DEF rows, history
  <2>1. CASE UNCHANGED <<zone, cached, change, late, missed>>
      BY <2>1
  <2>2. ASSUME NEW r \in Visits, Fill(r) PROVE Cause'
    <3>1. CASE UNCHANGED <<cached, late, missed>>
        BY <2>1, <2>2, <3>1 DEF Fill
    <3>2. CASE cached' = visit[r].read /\ late' = visit[r].stale /\ missed' = FALSE
        BY <2>2, <3>2 DEF Fill, FreshRead
    <3> QED BY <2>2, <3>1, <3>2 DEF Fill
  <2>3. ASSUME NEW w \in Changes, ReadSettings(w) PROVE Cause'
    <3>1. \A v \in Changes : change[v].pc = "retire" => change'[v] = change[v]
        BY <2>3 DEF ReadSettings, Answer, TypeOK
    <3> QED BY <2>3, <3>1 DEF ReadSettings
  <2>4. ASSUME NEW w \in Changes, WriteSettings(w) PROVE Cause'
    <3>1. CASE Answer(w) /\ UNCHANGED <<zone, visit, misled>>
      <4>1. \A v \in Changes : change[v].pc = "retire" => change'[v] = change[v]
          BY <2>4, <3>1 DEF WriteSettings, Answer, TypeOK
      <4> QED BY <2>4, <3>1, <4>1 DEF WriteSettings
    <3>2. CASE change' = [change EXCEPT ![w] = [pc |-> "retire", row |-> {}]]
      <4>1. change'[w].pc = "retire"
          BY <3>2 DEF TypeOK
      <4> QED BY <4>1
    <3> QED BY <2>4, <3>1, <3>2 DEF WriteSettings
  <2>5. ASSUME NEW w \in Changes, RetireCached(w) PROVE Cause'
      BY <2>5 DEF RetireCached, Retire
  <2>6. CASE Expire
      BY <2>6 DEF Expire
  <2>7. CASE (\E r \in Visits : Open(r) \/ ReadRow(r) \/ AskGate(r) \/ Touch(r) \/ Remember(r))
             \/ Tick \/ UNCHANGED vars
      BY <2>1, <2>7 DEF Open, ReadRow, AskGate, Touch, Remember, Tick, vars
  <2> QED BY <2>2, <2>3, <2>4, <2>5, <2>6, <2>7 DEF Next, Proceed, Apply
<1> QED BY <1>1, <1>2, DaysTypeCorrect, PTL DEF Spec

-----------------------------------------------------------------------------
(* The gate.                                                                *)

\* A counted day, the given one or a later one up to today.
Covered(day) == \E d \in counted : day <= d /\ d <= Today(zone)

\* How far a visit has come with the day it asked about, unless a change of the
\* timezone made that day another.
InTime(r) ==
    ~visit[r].stale =>
        /\ visit[r].pc = "gate" => visit[r].today <= Today(zone)
        /\ visit[r].pc = "touch" => /\ visit[r].at <= now
                                    /\ visit[r].today <= LocalDate(zone, visit[r].at)
        /\ visit[r].pc = "remember" => Covered(visit[r].today)

\* A gate is shut for a day that was counted, then or later.
GatesCovered == ~misled => \A day \in gates : Covered(day)

LastCounted == streak.last \in counted \cup {Never}

GateInv == LastCounted /\ GatesCovered /\ \A r \in Visits : InTime(r)

\* Time goes on, days are only added: what is covered stays so.
LEMMA CoveredStays ==
    ASSUME TypeOK, TypeOK', zone' = zone, now <= now', counted \subseteq counted',
           NEW day, Covered(day)
    PROVE  Covered(day)'
<1>1. PICK d \in counted : day <= d /\ d <= Today(zone)
    BY DEF Covered
<1>2. /\ Today(zone) \in Nat /\ Today(zone)' \in Nat
      /\ Today(zone) <= Today(zone)'
    BY DatesGrow DEF Today, TypeOK, CalendarDays
<1>3. d \in Nat /\ d <= Today(zone)'
    BY <1>1, <1>2 DEF TypeOK, CalendarDays
<1> QED BY <1>1, <1>3 DEF Covered

\* What nobody touches stays in time while the timezone stays.
LEMMA OthersInTime ==
    ASSUME TypeOK, TypeOK', zone' = zone, now <= now', counted \subseteq counted',
           NEW r \in Visits, visit'[r] = visit[r], InTime(r)
    PROVE  InTime(r)'
<1>1. /\ Today(zone) \in Nat /\ Today(zone)' \in Nat
      /\ Today(zone) <= Today(zone)'
    BY DatesGrow DEF Today, TypeOK, CalendarDays
<1>2. visit[r].today \in Nat /\ visit[r].at \in Nat /\ now \in Nat /\ now' \in Nat
    BY DEF TypeOK
<1>3. Covered(visit[r].today) => Covered(visit[r].today)'
    BY CoveredStays
<1> QED BY <1>1, <1>2, <1>3 DEF InTime

\* A step of one visit that keeps the timezone and the gates.
LEMMA OneVisitMoves ==
    ASSUME TypeOK, TypeOK', GateInv, NEW r \in Visits, zone' = zone, now' = now,
           counted \subseteq counted', \A q \in Visits \ {r} : visit'[q] = visit[q],
           InTime(r)', gates' = gates, misled' = misled, LastCounted'
    PROVE  GateInv'
<1>1. now <= now'
    BY DEF TypeOK
<1>2. \A q \in Visits \ {r} : InTime(q)'
    BY <1>1, OthersInTime DEF GateInv
<1>3. GatesCovered'
    BY <1>1, CoveredStays DEF GateInv, GatesCovered
<1> QED BY <1>2, <1>3 DEF GateInv

LEMMA CountDayCounts ==
    ASSUME LastCounted, NEW day \in CalendarDays, CountDay(day)
    PROVE  day \in counted' /\ counted \subseteq counted' /\ LastCounted'
BY DEF LastCounted, CountDay, CalendarDays

LEMMA GateNext == TypeOK /\ FreshRead /\ GateInv /\ [Next]_vars => GateInv'
<1> SUFFICES ASSUME TypeOK, FreshRead, GateInv, [Next]_vars PROVE GateInv'
    OBVIOUS
<1> USE DEF rows, history
<1>0. /\ TypeOK' /\ visit \in [Visits -> Visit] /\ visit' \in [Visits -> Visit]
      /\ Today(zone) \in Nat
    BY TypeNext, DatesGrow DEF TypeOK, Visit, Steps, Today, CalendarDays
<1>1. CASE UNCHANGED <<zone, visit, streak, counted, gates, misled>> /\ now <= now'
  <2>1. \A r \in Visits : InTime(r)'
      BY <1>0, <1>1, OthersInTime DEF GateInv
  <2>2. GatesCovered'
      BY <1>0, <1>1, CoveredStays DEF GateInv, GatesCovered
  <2> QED BY <1>1, <2>1, <2>2 DEF GateInv, LastCounted
<1>2. ASSUME NEW r \in Visits, Open(r) \/ ReadRow(r) \/ Fill(r) \/ AskGate(r)
      PROVE GateInv'
  <2>1. UNCHANGED <<zone, now, streak, counted, gates, misled>>
      BY <1>2 DEF Open, ReadRow, Fill, AskGate
  <2>2. \A q \in Visits \ {r} : visit'[q] = visit[q]
      BY <1>0, <1>2 DEF Open, ReadRow, Fill, AskGate, Resolve, Leave
  <2>3. InTime(r)'
    <3>1. ASSUME NEW z \in Zones, NEW stale \in BOOLEAN, Resolve(r, z, stale), ~stale => z = zone
          PROVE InTime(r)'
      <4>1. visit'[r].pc = "gate" /\ visit'[r].stale = stale /\ visit'[r].today = Today(z)
          BY <1>0, <3>1 DEF Resolve, NoVisit
      <4>2. Today(zone)' = Today(zone)
          BY <2>1 DEF Today
      <4> QED BY <1>0, <3>1, <4>1, <4>2 DEF InTime
    <3>2. CASE Open(r)
      <4>1. CASE visit' = [visit EXCEPT ![r].pc = "row"]
        <5>1. visit'[r].pc = "row"
            BY <1>0, <4>1 DEF Visit
        <5> QED BY <5>1 DEF InTime
      <4> QED BY <3>1, <3>2, <4>1 DEF Open, TypeOK
    <3>3. CASE ReadRow(r)
      <4>1. visit'[r].pc \in {"fill", "idle"}
          BY <1>0, <3>3 DEF ReadRow, Leave, NoVisit, Visit
      <4> QED BY <4>1 DEF InTime
    <3>4. CASE AskGate(r)
      <4>1. CASE Leave(r)
        <5>1. visit'[r].pc = "idle"
            BY <1>0, <4>1 DEF Leave, NoVisit
        <5> QED BY <5>1 DEF InTime
      <4>2. CASE visit[r].pc = "gate" /\ visit' = [visit EXCEPT ![r].pc = "touch", ![r].at = now]
        <5>1. /\ visit'[r].pc = "touch" /\ visit'[r].at = now
              /\ visit'[r].today = visit[r].today /\ visit'[r].stale = visit[r].stale
            BY <1>0, <4>2 DEF Visit
        <5>2. InTime(r) /\ now \in Nat
            BY DEF GateInv, TypeOK
        <5> QED BY <2>1, <4>2, <5>1, <5>2 DEF InTime, Today
      <4> QED BY <3>4, <4>1, <4>2 DEF AskGate
    <3>5. CASE Fill(r)
      <4>1. PICK z \in visit[r].read : Resolve(r, z, visit[r].stale)
          BY <3>5 DEF Fill
      <4>2. z \in Zones /\ visit[r].stale \in BOOLEAN
          BY <1>0 DEF Visit
      <4>3. CASE visit[r].stale
        <5>1. visit'[r].stale
            BY <1>0, <4>1, <4>3 DEF Resolve, NoVisit
        <5> QED BY <5>1 DEF InTime
      <4> QED BY <3>1, <3>5, <4>1, <4>2, <4>3 DEF Fill, FreshRead
    <3> QED BY <1>2, <3>2, <3>3, <3>4, <3>5
  <2> QED BY <1>0, <2>1, <2>2, <2>3, OneVisitMoves DEF GateInv, LastCounted
<1>3. ASSUME NEW r \in Visits, Touch(r) PROVE GateInv'
  <2> DEFINE day == LocalDate(zone, visit[r].at)
  <2>1. UNCHANGED <<zone, now, gates, misled>> /\ visit[r].pc = "touch"
      BY <1>3 DEF Touch
  <2>2. \A q \in Visits \ {r} : visit'[q] = visit[q]
      BY <1>0, <1>3 DEF Touch, Leave
  <2>3. CASE Leave(r) /\ UNCHANGED <<streak, counted, back>>
    <3>1. visit'[r].pc = "idle"
        BY <1>0, <2>3 DEF Leave, NoVisit
    <3>2. InTime(r)'
        BY <3>1 DEF InTime
    <3> QED BY <1>0, <2>1, <2>2, <2>3, <3>2, OneVisitMoves DEF GateInv, LastCounted
  <2>4. CASE /\ CountDay(day)
             /\ visit' = [visit EXCEPT ![r].pc = "remember", ![r].at = 0]
    <3>1. /\ visit'[r].pc = "remember" /\ visit'[r].today = visit[r].today
          /\ visit'[r].stale = visit[r].stale
        BY <1>0, <2>4 DEF Visit
    <3>2. day \in CalendarDays /\ (visit[r].at <= now => day <= Today(zone))
        BY DatesGrow DEF TypeOK, Today
    <3>3. day \in counted' /\ counted \subseteq counted' /\ LastCounted'
      <4> HIDE DEF day
      <4> QED BY <2>4, <3>2, CountDayCounts DEF GateInv
    <3>4. InTime(r)'
      <4>1. ASSUME ~visit[r].stale PROVE Covered(visit[r].today)'
        <5>1. visit[r].at <= now /\ visit[r].today <= day
            BY <2>1, <4>1 DEF GateInv, InTime
        <5>2. Today(zone)' = Today(zone) /\ visit'[r].today = visit[r].today
            BY <2>1, <3>1 DEF Today
        <5> HIDE DEF day
        <5> QED BY <3>2, <3>3, <5>1, <5>2 DEF Covered
      <4> QED BY <3>1, <4>1 DEF InTime
    <3> QED BY <1>0, <2>1, <2>2, <3>3, <3>4, OneVisitMoves
  <2> QED BY <1>3, <2>3, <2>4 DEF Touch
<1>4. ASSUME NEW r \in Visits, Remember(r) PROVE GateInv'
  <2>1. /\ UNCHANGED <<zone, now, streak, counted>> /\ visit[r].pc = "remember"
        /\ \A q \in Visits \ {r} : visit'[q] = visit[q]
        /\ visit'[r].pc = "idle"
      BY <1>0, <1>4 DEF Remember, Leave, NoVisit
  <2>2. now <= now'
      BY <2>1 DEF TypeOK
  <2>3. \A q \in Visits : InTime(q)'
    <3>1. InTime(r)'
        BY <2>1 DEF InTime
    <3>2. \A q \in Visits \ {r} : InTime(q)'
        BY <1>0, <2>1, <2>2, OthersInTime DEF GateInv
    <3> QED BY <3>1, <3>2
  <2>4. GatesCovered'
    <3> SUFFICES ASSUME ~misled', NEW day \in gates' PROVE Covered(day)'
        BY DEF GatesCovered
    <3>1. Covered(day)
      <4>1. CASE day \in gates /\ ~misled
          BY <4>1 DEF GateInv, GatesCovered
      <4>2. CASE day = visit[r].today /\ ~visit[r].stale
          BY <2>1, <4>2 DEF GateInv, InTime
      <4>3. \/ UNCHANGED <<gates, misled>>
            \/ /\ gates' = gates \cup {visit[r].today}
               /\ misled' = (misled \/ visit[r].stale)
          BY <1>4 DEF Remember
      <4>4. CASE UNCHANGED <<gates, misled>>
          BY <4>1, <4>4
      <4>5. CASE /\ gates' = gates \cup {visit[r].today}
                 /\ misled' = (misled \/ visit[r].stale)
        <5>1. ~misled /\ ~visit[r].stale
            BY <4>5
        <5>2. day \in gates \/ day = visit[r].today
            BY <4>5
        <5> QED BY <4>1, <4>2, <5>1, <5>2
      <4> QED BY <4>3, <4>4, <4>5
    <3> QED BY <1>0, <2>1, <2>2, <3>1, CoveredStays
  <2> QED BY <2>1, <2>3, <2>4 DEF GateInv, LastCounted
<1>5. ASSUME NEW w \in Changes, WriteSettings(w) PROVE GateInv'
  <2>0. CASE UNCHANGED <<zone, visit, misled>>
    <3>1. UNCHANGED <<now, gates, streak, counted>>
        BY <1>5 DEF WriteSettings
    <3> QED BY <1>1, <2>0, <3>1 DEF TypeOK
  <2> SUFFICES ASSUME Overtake, misled' = (misled \/ zone' # zone) PROVE GateInv'
      BY <1>5, <2>0 DEF WriteSettings
  <2>1. UNCHANGED <<now, gates, streak, counted>> /\ misled' = (misled \/ zone' # zone)
      BY <1>5 DEF WriteSettings
  <2>2. \A r \in Visits : /\ visit'[r].pc = visit[r].pc /\ visit'[r].today = visit[r].today
                          /\ visit'[r].at = visit[r].at
                          /\ visit'[r].stale = (visit[r].stale \/ (zone' # zone
                                                  /\ visit[r].pc \notin {"idle", "row"}))
      BY <1>0 DEF Overtake, Visit
  <2>3. CASE zone' = zone
    <3>1. Today(zone)' = Today(zone) /\ \A a : LocalDate(zone, a)' = LocalDate(zone, a)
        BY <2>1, <2>3 DEF Today, LocalDate
    <3>2. \A day : Covered(day)' = Covered(day)
        BY <2>1, <3>1 DEF Covered
    <3>3. \A r \in Visits : InTime(r)'
        BY <2>1, <2>2, <2>3 DEF GateInv, InTime, Covered, Today
    <3>4. GatesCovered'
        BY <2>1, <2>3, <3>2 DEF GateInv, GatesCovered
    <3> QED BY <2>1, <3>3, <3>4 DEF GateInv, LastCounted
  <2>4. CASE zone' # zone
    <3>1. \A r \in Visits : InTime(r)'
        BY <2>2, <2>4 DEF InTime
    <3> QED BY <2>1, <2>4, <3>1 DEF GateInv, LastCounted, GatesCovered
  <2> QED BY <2>3, <2>4
<1>6. ASSUME NEW w \in Changes, RetireCached(w) PROVE GateInv'
  <2>1. UNCHANGED <<zone, now, visit, streak, counted>>
      BY <1>6 DEF RetireCached
  <2>2. CASE UNCHANGED <<gates, misled>>
      BY <1>1, <2>1, <2>2 DEF TypeOK
  <2>3. CASE gates' = {}
    <3>1. \A r \in Visits : InTime(r)'
        BY <1>0, <2>1, OthersInTime DEF GateInv, TypeOK
    <3> QED BY <2>1, <2>3, <3>1 DEF GateInv, LastCounted, GatesCovered
  <2> QED BY <1>6, <2>2, <2>3 DEF RetireCached, Retire
<1>7. CASE (\E w \in Changes : ReadSettings(w)) \/ Expire \/ Tick \/ UNCHANGED vars
  <2>1. UNCHANGED <<zone, visit, streak, counted, gates, misled>>
      BY <1>7 DEF ReadSettings, Expire, Tick, vars
  <2>2. now <= now'
      BY <1>7 DEF ReadSettings, Expire, Tick, vars, TypeOK
  <2> QED BY <1>1, <2>1, <2>2
<1> QED BY <1>2, <1>3, <1>4, <1>5, <1>6, <1>7 DEF Next, Proceed, Apply

\* A visit ends well where its own step says so.
LEMMA WhoEndsWell ==
    ASSUME TypeOK, [Next]_vars, NEW r \in Visits, EndsWell(r)
    PROVE  \/ AskGate(r) /\ Shut(visit[r].today)
           \/ Touch(r) /\ CountDay(LocalDate(zone, visit[r].at))
<1> USE DEF rows, history
<1>0. visit \in [Visits -> Visit] /\ visit[r].pc # visit'[r].pc
    BY DEF EndsWell, TypeOK, Visit, Steps
<1>1. CASE UNCHANGED visit
    BY <1>0, <1>1
<1>2. PICK q \in Visits : Open(q) \/ ReadRow(q) \/ Fill(q) \/ AskGate(q) \/ Touch(q) \/ Remember(q)
  <2>1. CASE \E w \in Changes : WriteSettings(w)
    <3>1. visit'[r].pc = visit[r].pc
        BY <1>0, <2>1 DEF WriteSettings, Overtake, Visit
    <3> QED BY <1>0, <3>1
  <2>2. ~UNCHANGED visit
      BY <1>0
  <2> QED BY <2>1, <2>2 DEF Next, Proceed, Apply, ReadSettings, RetireCached, Expire, Tick, vars
<1>3. q = r
  <2>1. \A x \in Visits \ {q} : visit'[x] = visit[x]
      BY <1>0, <1>2 DEF Open, ReadRow, Fill, AskGate, Touch, Remember, Resolve, Leave
  <2> QED BY <1>0, <2>1
<1>4. AskGate(r) \/ Touch(r)
    BY <1>2, <1>3 DEF EndsWell, Open, ReadRow, Fill, Remember
<1>5. CASE AskGate(r)
  <2>1. CASE visit' = [visit EXCEPT ![r].pc = "touch", ![r].at = now]
    <3>1. visit'[r].pc = "touch"
        BY <1>0, <2>1 DEF Visit
    <3> QED BY <1>5, <3>1 DEF EndsWell, AskGate
  <2> QED BY <1>5, <2>1 DEF AskGate
<1>6. CASE Touch(r)
  <2>1. CASE Leave(r)
    <3>1. visit'[r].pc = "idle"
        BY <1>0, <2>1 DEF Leave, NoVisit
    <3> QED BY <1>6, <3>1 DEF EndsWell, Touch
  <2> QED BY <1>6, <2>1 DEF Touch
<1> QED BY <1>4, <1>5, <1>6

\* The gate swallows no day, whatever the timezones, the length of a day, the
\* visits in flight and the calls to Redis that fail.
THEOREM NoDaySwallowed == Spec => VisitIsCounted
<1>1. Init => GateInv
  <2> SUFFICES ASSUME Init PROVE GateInv
      OBVIOUS
  <2>1. \A r \in Visits : visit[r].pc = "idle"
      BY DEF Init, NoVisit
  <2> QED BY <2>1 DEF Init, GateInv, LastCounted, GatesCovered, InTime
<1>2. Init => FreshRead
    BY DEF Init, FreshRead, NoVisit
<1>3. TypeOK /\ GateInv /\ [Next]_vars
         => [\A r \in Visits : EndsWell(r) /\ ~visit[r].stale /\ ~misled =>
                \E day \in counted' : visit[r].today <= day /\ day <= Today(zone)]_vars
  <2> SUFFICES ASSUME TypeOK, GateInv, [Next]_vars, NEW r \in Visits,
                      EndsWell(r), ~visit[r].stale, ~misled
               PROVE  \E day \in counted' : visit[r].today <= day /\ day <= Today(zone)
      OBVIOUS
  <2>1. CASE AskGate(r) /\ Shut(visit[r].today)
    <3>1. Covered(visit[r].today)
        BY <2>1 DEF Shut, GateInv, GatesCovered
    <3>2. counted' = counted
        BY <2>1 DEF AskGate, history
    <3> QED BY <3>1, <3>2 DEF Covered
  <2>2. CASE Touch(r) /\ CountDay(LocalDate(zone, visit[r].at))
    <3> DEFINE day == LocalDate(zone, visit[r].at)
    <3>1. visit[r].at <= now /\ visit[r].today <= day
        BY <2>2 DEF Touch, GateInv, InTime
    <3>2. day \in CalendarDays /\ day <= Today(zone)
        BY <3>1, DatesGrow DEF TypeOK, Today
    <3>3. day \in counted'
      <4> HIDE DEF day
      <4> QED BY <2>2, <3>2, CountDayCounts DEF day, GateInv
    <3> HIDE DEF day
    <3> QED BY <3>1, <3>2, <3>3
  <2> QED BY <2>1, <2>2, WhoEndsWell
<1> QED BY <1>1, <1>2, <1>3, GateNext, FreshReadNext, DaysTypeCorrect, PTL
        DEF Spec, VisitIsCounted

-----------------------------------------------------------------------------
(* The streak.                                                              *)

\* The days a run that ends with the given day can have begun with.
Firsts(day) == {first \in 1 .. day : first .. day \subseteq counted}

LEMMA RunIsFinite ==
    ASSUME NEW day \in Nat
    PROVE  IsFiniteSet(Firsts(day)) /\ Run(day) = Cardinality(Firsts(day)) /\ Run(day) \in Nat
<1>1. IsFiniteSet(1 .. day)
    BY FS_Interval
<1>2. IsFiniteSet(Firsts(day))
    BY <1>1, FS_Subset DEF Firsts
<1> QED BY <1>2, FS_CardinalityType DEF Run, Firsts

\* A later day changes no run that ended before it.
LEMMA RunsStay ==
    ASSUME NEW day \in Nat, NEW d \in Nat, d < day,
           counted' = counted \cup {day}
    PROVE  Run(d)' = Run(d)
<1>1. \A first \in 1 .. d : first .. d \subseteq counted' <=> first .. d \subseteq counted
    OBVIOUS
<1> QED BY <1>1 DEF Run

\* The day after the last one makes its run one longer.
LEMMA RunGrows ==
    ASSUME NEW day \in Nat, day - 1 \in counted, day - 1 \in Nat, day \notin counted,
           counted \subseteq Nat \ {0}, counted' = counted \cup {day}
    PROVE  Run(day)' = Run(day - 1) + 1
<1>1. Firsts(day)' = Firsts(day - 1) \cup {day}
  <2>1. ASSUME NEW first \in Firsts(day)', first # day PROVE first \in Firsts(day - 1)
    <3>1. first \in 1 .. (day - 1) /\ \A x \in first .. day : x \in counted \cup {day}
        BY <2>1 DEF Firsts
    <3>2. \A x \in first .. (day - 1) : x \in counted
        BY <3>1
    <3> QED BY <3>1, <3>2 DEF Firsts
  <2>2. day \in Firsts(day)'
    <3>1. day \in 1 .. day
        OBVIOUS
    <3>2. \A x \in day .. day : x \in counted'
        OBVIOUS
    <3> QED BY <3>1, <3>2 DEF Firsts
  <2>3. ASSUME NEW first \in Firsts(day - 1) PROVE first \in Firsts(day)'
    <3>1. first \in 1 .. day /\ \A x \in first .. (day - 1) : x \in counted
        BY <2>3 DEF Firsts
    <3>2. \A x \in first .. day : x \in counted'
        BY <3>1
    <3> QED BY <3>1, <3>2 DEF Firsts
  <2> QED BY <2>1, <2>2, <2>3
<1>2. day \notin Firsts(day - 1)
    BY DEF Firsts
<1>3. Run(day)' = Cardinality(Firsts(day)')
    BY DEF Run, Firsts
<1>4. IsFiniteSet(Firsts(day - 1)) /\ Run(day - 1) = Cardinality(Firsts(day - 1))
    BY RunIsFinite
<1>5. Cardinality(Firsts(day - 1) \cup {day}) = Cardinality(Firsts(day - 1)) + 1
    BY <1>2, <1>4, FS_AddElement
<1> QED BY <1>1, <1>3, <1>4, <1>5

\* A day after a gap is a run of its own.
LEMMA RunBegins ==
    ASSUME NEW day \in Nat \ {0}, day - 1 \notin counted, counted' = counted \cup {day}
    PROVE  Run(day)' = 1
<1>1. Firsts(day)' = {day}
  <2>1. ASSUME NEW first \in Firsts(day)' PROVE first = day
    <3>1. first \in 1 .. day /\ \A x \in first .. day : x \in counted \cup {day}
        BY <2>1 DEF Firsts
    <3>2. first < day => day - 1 \in first .. day
        BY <3>1
    <3> QED BY <3>1, <3>2
  <2>2. day \in Firsts(day)'
    <3>1. \A x \in day .. day : x \in counted'
        OBVIOUS
    <3> QED BY <3>1 DEF Firsts
  <2> QED BY <2>1, <2>2
<1>2. Run(day)' = Cardinality(Firsts(day)')
    BY DEF Run, Firsts
<1> QED BY <1>1, <1>2, FS_Singleton

\* Counting a day after the last one keeps the streak the run of counted days.
LEMMA CountDayExtends ==
    ASSUME TypeOK, LastCounted, StreakIsARun, NEW day \in CalendarDays, CountDay(day)
    PROVE  StreakIsARun'
<1>1. CASE UNCHANGED <<streak, counted, back>>
    BY <1>1 DEF StreakIsARun, Run
<1>2. CASE back'
    BY <1>2 DEF StreakIsARun
<1>3. CASE ~UNCHANGED <<streak, counted, back>> /\ ~back'
  <2> DEFINE next == Extended(day)
  <2>1. /\ streak' = [current |-> next, last |-> day,
                      longest |-> IF next > streak.longest THEN next ELSE streak.longest]
        /\ counted' = counted \cup {day}
        /\ streak.last # day
        /\ back' = (back \/ day < streak.last)
      BY <1>3 DEF CountDay
  <2>2. ~back /\ ~(day < streak.last)
      BY <1>3, <2>1
  <2>3. /\ day \in Nat \ {0} /\ streak.last \in Nat /\ streak.last < day
        /\ streak.current \in Nat /\ streak.longest \in Nat
        /\ counted \subseteq Nat \ {0}
    <3>1. day \in Nat \ {0} /\ counted \subseteq Nat \ {0}
        BY DEF TypeOK, CalendarDays, Never
    <3>2. streak.last \in Nat /\ streak.current \in Nat /\ streak.longest \in Nat
        BY DEF TypeOK
    <3> QED BY <2>1, <2>2, <3>1, <3>2
  <2>4. /\ streak.current = Run(streak.last)
        /\ \A d \in counted : d <= streak.last /\ Run(d) <= streak.longest
        /\ streak.longest = 0 \/ \E d \in counted : streak.longest = Run(d)
      BY <2>2 DEF StreakIsARun
  <2>5. day \notin counted /\ \A d \in counted : d \in Nat /\ d < day /\ Run(d)' = Run(d)
    <3>1. \A d \in counted : d \in Nat /\ d < day
        BY <2>3, <2>4
    <3> QED BY <2>1, <2>3, <3>1, RunsStay
  <2>6. next = Run(day)' /\ next \in Nat \ {0}
    <3>1. CASE streak.last # Never /\ streak.last = day - 1
      <4>1. day - 1 \in counted /\ day - 1 \in Nat
          BY <2>3, <3>1 DEF LastCounted
      <4>2. Run(day)' = Run(day - 1) + 1
          BY <2>1, <2>3, <2>5, <4>1, RunGrows
      <4> QED BY <2>3, <2>4, <3>1, <4>2 DEF Extended
    <3>2. CASE ~(streak.last # Never /\ streak.last = day - 1)
      <4>1. day - 1 \notin counted
        <5> SUFFICES ASSUME day - 1 \in counted PROVE FALSE
            OBVIOUS
        <5>1. day - 1 <= streak.last /\ day - 1 # 0
            BY <2>3, <2>4
        <5> QED BY <2>3, <3>2, <5>1 DEF Never
      <4>2. Run(day)' = 1
          BY <2>1, <2>3, <4>1, RunBegins
      <4> QED BY <3>2, <4>2 DEF Extended
    <3> QED BY <3>1, <3>2
  <2> HIDE DEF next
  <2>7. /\ streak'.current = next /\ streak'.last = day
        /\ streak'.longest = IF next > streak.longest THEN next ELSE streak.longest
      BY <2>1
  <2>8. \A d \in counted' : d <= streak'.last /\ Run(d)' <= streak'.longest
    <3>1. \A d \in counted : Run(d)' <= streak.longest
        BY <2>4, <2>5
    <3>2. \A d \in counted : Run(d)' \in Nat
        BY <2>5, RunIsFinite
    <3> QED BY <2>1, <2>3, <2>5, <2>6, <2>7, <3>1, <3>2
  <2>9. \E d \in counted' : streak'.longest = Run(d)'
      BY <2>1, <2>3, <2>4, <2>5, <2>6, <2>7
  <2> QED BY <2>6, <2>7, <2>8, <2>9 DEF StreakIsARun, Run
<1> QED BY <1>1, <1>2, <1>3

\* The streak shown is the run of counted days up to the last one, and the
\* longest one was its longest, for any visits and changes, as long as no
\* change of the timezone made a day come after a later one.
THEOREM StreakIsExact == Spec => []StreakIsARun
<1>1. Init => StreakIsARun /\ LastCounted
  <2> SUFFICES ASSUME Init PROVE StreakIsARun /\ LastCounted
      OBVIOUS
  <2>1. streak.current = 0 /\ streak.last = 0 /\ streak.longest = 0 /\ counted = {}
      BY DEF Init, Never
  <2>2. {first \in 1 .. 0 : first .. 0 \subseteq counted} = {}
      OBVIOUS
  <2>3. Run(0) = 0
      BY <2>2, FS_EmptySet DEF Run
  <2> QED BY <2>1, <2>3 DEF StreakIsARun, LastCounted, Never
<1>2. TypeOK /\ LastCounted /\ StreakIsARun /\ [Next]_vars => LastCounted' /\ StreakIsARun'
  <2> SUFFICES ASSUME TypeOK, LastCounted, StreakIsARun, [Next]_vars
               PROVE  LastCounted' /\ StreakIsARun'
      OBVIOUS
  <2>1. CASE UNCHANGED <<streak, counted, back>>
      BY <2>1 DEF LastCounted, StreakIsARun, Run
  <2>2. ASSUME NEW r \in Visits, Touch(r) PROVE LastCounted' /\ StreakIsARun'
    <3>1. LocalDate(zone, visit[r].at) \in CalendarDays
        BY DatesGrow DEF TypeOK
    <3> QED BY <2>1, <2>2, <3>1, CountDayCounts, CountDayExtends DEF Touch
  <2>3. ~(\E r \in Visits : Touch(r)) => UNCHANGED <<streak, counted, back>>
      BY DEF Next, Proceed, Apply, Open, ReadRow, Fill, AskGate, Remember, ReadSettings,
         WriteSettings, RetireCached, Expire, Tick, vars, rows, history
  <2> QED BY <2>1, <2>2, <2>3
<1> QED BY <1>1, <1>2, DaysTypeCorrect, PTL DEF Spec
=============================================================================
