-------------------------------- MODULE Days --------------------------------
(***************************************************************************)
(* The days of one account: its timezone, the copy of it in Redis, and    *)
(* the visits that count a day towards the streak behind a gate in Redis. *)
(*                                                                         *)
(* Time is counted in ticks, DayLength to the day; a timezone is the ticks *)
(* its day begins earlier.  A change of the preferences retires whatever   *)
(* was cached under the account's scope, because the version in the keys   *)
(* of the entries goes up; entries of an old version are not read again,   *)
(* so only those of the current one are kept here.  Any call to Redis may  *)
(* fail, and the code goes on without its answer; a statement that fails   *)
(* ends what the request does here.                                        *)
(***************************************************************************)
EXTENDS Naturals, FiniteSets

CONSTANTS
    Visits,      \* requests that can be in flight at once
    Changes,     \* changes of the preferences
    Zones,       \* the timezones
    DayLength,   \* ticks of a day
    MaxTime      \* bound: the last tick

ASSUME ClockAssumption == DayLength \in Nat \ {0} /\ MaxTime \in Nat
ASSUME ZonesAssumption == Zones \subseteq Nat /\ Zones # {}

VARIABLES
    now,       \* the clock
    zone,      \* the timezone in the row of the preferences
    cached,    \* the copies of it in Redis: none or one
    gates,     \* days the gate in Redis is shut for
    streak,    \* the streak of the account's statistics
    visit,     \* the requests that count the day
    change,    \* the changes of the preferences
    \* What has happened, for the properties.
    counted,   \* days the streak was ever moved to
    back,      \* whether the streak was moved to an earlier day
    late,      \* whether a visit stored the copy that had read before a change
    missed,    \* whether a change was answered that did not reach the copy
    misled     \* whether a gate may be shut that another timezone named

vars == <<now, zone, cached, gates, streak, visit, change,
          counted, back, late, missed, misled>>

rows == <<zone, streak>>
history == <<counted, back, late, missed, misled>>

(* --------------------------- local calendar -------------------------- *)
\* Days are numbered from 1; a streak that never began has the day Never.
Never == 0
LocalDate(z, instant) == 1 + (instant + z) \div DayLength

Today(z) == LocalDate(z, now)

\* Of the preferences the timezone is kept.  A change carries what was sent:
\* another timezone, or another preference and no timezone.
Patches == {{}} \cup {{z} : z \in Zones}

Merge(patch, row) == IF patch = {} THEN row ELSE patch

(* ------------------------------- visits ------------------------------ *)
NoVisit == [pc |-> "idle", read |-> {}, today |-> Never, at |-> 0, stale |-> FALSE]
Leave(r) == visit' = [visit EXCEPT ![r] = NoVisit]

\* The timezone names the day the gate will be asked about.
Resolve(r, z, stale) ==
    visit' = [visit EXCEPT ![r] =
        [NoVisit EXCEPT !.pc = "gate", !.today = Today(z), !.stale = stale]]

\* A request begins with the copy of the preferences, or without one.
Open(r) ==
    /\ visit[r].pc = "idle"
    /\ \/ \E z \in cached : Resolve(r, z, z # zone)
       \/ visit' = [visit EXCEPT ![r].pc = "row"]
    /\ UNCHANGED <<now, cached, gates, change, rows, history>>

\* Without a copy the row is read; a failure leaves the day uncounted.
ReadRow(r) ==
    /\ visit[r].pc = "row"
    /\ \/ visit' = [visit EXCEPT ![r].pc = "fill", ![r].read = {zone}]
       \/ Leave(r)
    /\ UNCHANGED <<now, cached, gates, change, rows, history>>

\* What was read is stored under the version of this moment, if Redis takes it.
Fill(r) ==
    /\ visit[r].pc = "fill"
    /\ \E z \in visit[r].read : Resolve(r, z, visit[r].stale)
    /\ \/ UNCHANGED <<cached, late, missed>>
       \/ cached' = visit[r].read /\ late' = visit[r].stale /\ missed' = FALSE
    /\ UNCHANGED <<now, gates, change, rows, counted, back, misled>>

\* The gate is shut for the day it names, not for every day once it was shut.
Shut_AnyDay(day) == gates # {}
Shut(day) == day \in gates

\* Behind a shut gate there is nothing to do; before an open one, or without an
\* answer, the clock is read again for the statement.
AskGate(r) ==
    /\ visit[r].pc = "gate"
    /\ \/ Shut(visit[r].today) /\ Leave(r)
       \/ visit' = [visit EXCEPT ![r].pc = "touch", ![r].at = now]
    /\ UNCHANGED <<now, cached, gates, change, rows, history>>

\* One more when the last day is yesterday, else a new streak.
Extended_Forgives(day) == IF streak.last # Never THEN streak.current + 1 ELSE 1
Extended(day) ==
    IF streak.last # Never /\ streak.last = day - 1 THEN streak.current + 1 ELSE 1

\* The one statement: the day of the row's timezone, counted unless it is the last.
CountDay(day) ==
    \/ /\ streak.last = day
       /\ UNCHANGED <<streak, counted, back>>
    \/ /\ streak.last # day
       /\ streak' = [current |-> Extended(day), last |-> day,
                     longest |-> IF Extended(day) > streak.longest
                                 THEN Extended(day) ELSE streak.longest]
       /\ counted' = counted \cup {day}
       /\ back' = (back \/ day < streak.last)

\* The transaction counts the day, or fails and leaves the gate open.
Touch(r) ==
    /\ visit[r].pc = "touch"
    /\ \/ /\ CountDay(LocalDate(zone, visit[r].at))
          /\ visit' = [visit EXCEPT ![r].pc = "remember", ![r].at = 0]
       \/ Leave(r) /\ UNCHANGED <<streak, counted, back>>
    /\ UNCHANGED <<now, zone, cached, gates, change, late, missed, misled>>

\* The gate is shut for the day that was asked about, if Redis takes it.
Remember(r) ==
    /\ visit[r].pc = "remember"
    /\ Leave(r)
    /\ \/ UNCHANGED <<gates, misled>>
       \/ /\ gates' = gates \cup {visit[r].today}
          /\ misled' = (misled \/ visit[r].stale)
    /\ UNCHANGED <<now, cached, change, rows, counted, back, late, missed>>

(* --------------------------- the preferences ------------------------- *)
\* The change is over, with or without effect.
Answer(w) == change' = [change EXCEPT ![w] = [pc |-> "done", row |-> {}]]

\* The row is read whole, and what was sent is put in.
ReadSettings(w) ==
    /\ change[w].pc = "idle"
    /\ \/ \E patch \in Patches :
              change' = [change EXCEPT ![w] =
                  [pc |-> "write", row |-> Merge(patch, {zone})]]
       \/ Answer(w)
    /\ UNCHANGED <<now, cached, gates, visit, rows, history>>

\* A visit that has a timezone is late when another one is written.
Overtake == visit' = [r \in Visits |->
    [visit[r] EXCEPT !.stale = @ \/ (zone' # zone /\ visit[r].pc \notin {"idle", "row"})]]

\* The row is written whole, or the statement fails and nothing is to be retired.
WriteSettings(w) ==
    /\ change[w].pc = "write"
    /\ \/ /\ zone' \in change[w].row
          /\ misled' = (misled \/ zone' # zone)
          /\ change' = [change EXCEPT ![w] = [pc |-> "retire", row |-> {}]]
          /\ Overtake
       \/ Answer(w) /\ UNCHANGED <<zone, visit, misled>>
    /\ UNCHANGED <<now, cached, gates, streak, counted, back, late, missed>>

\* Nothing under the scope is read again once its version went up.
Retire_Nothing == UNCHANGED <<cached, gates, late, missed, misled>>
Retire ==
    /\ cached' = {} /\ late' = FALSE /\ missed' = FALSE
    /\ gates' = {} /\ misled' = FALSE

\* The change is answered also when the cache could not be reached.
RetireCached(w) ==
    /\ change[w].pc = "retire"
    /\ Answer(w)
    /\ Retire \/ (missed' = (cached # {}) /\ UNCHANGED <<cached, gates, late, misled>>)
    /\ UNCHANGED <<now, visit, rows, counted, back>>

\* The entry lives for a minute; without a limit it would stay.
Expire_Never == FALSE /\ UNCHANGED vars
Expire ==
    /\ cached # {}
    /\ cached' = {} /\ late' = FALSE /\ missed' = FALSE
    /\ UNCHANGED <<now, gates, visit, change, rows, counted, back, misled>>

Tick ==
    /\ now < MaxTime
    /\ now' = now + 1
    /\ UNCHANGED <<cached, gates, visit, change, rows, history>>

Init ==
    /\ now = 0
    /\ zone \in Zones
    /\ cached = {} /\ gates = {}
    /\ streak = [current |-> 0, longest |-> 0, last |-> Never]
    /\ visit = [r \in Visits |-> NoVisit]
    /\ change = [w \in Changes |-> [pc |-> "idle", row |-> {}]]
    /\ counted = {} /\ back = FALSE
    /\ late = FALSE /\ missed = FALSE /\ misled = FALSE

Proceed(r) == ReadRow(r) \/ Fill(r) \/ AskGate(r) \/ Touch(r) \/ Remember(r)
Apply(w) == WriteSettings(w) \/ RetireCached(w)

Next ==
    \/ \E r \in Visits : Open(r) \/ Proceed(r)
    \/ \E w \in Changes : ReadSettings(w) \/ Apply(w)
    \/ Expire \/ Tick

\* A request that began goes on, and an entry expires; nobody has to come.
Fairness ==
    /\ \A r \in Visits : WF_vars(Proceed(r))
    /\ \A w \in Changes : WF_vars(Apply(w))
    /\ WF_vars(Expire)

Spec == Init /\ [][Next]_vars /\ Fairness

(* ----------------------------- properties ---------------------------- *)
CalendarDays == Nat \ {Never}

TypeOK ==
    /\ now \in 0 .. MaxTime
    /\ zone \in Zones
    /\ cached \subseteq Zones /\ gates \subseteq Nat
    /\ streak \in [current : Nat, longest : Nat, last : Nat]
    /\ visit \in [Visits -> [pc : {"idle", "row", "fill", "gate", "touch", "remember"},
                             read : SUBSET Zones, today : Nat, at : Nat, stale : BOOLEAN]]
    /\ change \in [Changes -> [pc : {"idle", "write", "retire", "done"}, row : SUBSET Zones]]
    /\ counted \subseteq CalendarDays
    /\ back \in BOOLEAN /\ late \in BOOLEAN /\ missed \in BOOLEAN /\ misled \in BOOLEAN

\* The gate swallows no day: a visit that ended well, unless a timezone changed
\* under it or under the gate, was counted on the day it asked about or on a later
\* one up to the day it left on.
EndsWell(r) ==
    \/ visit[r].pc = "gate" /\ visit'[r].pc = "idle"
    \/ visit[r].pc = "touch" /\ visit'[r].pc = "remember"

VisitIsCounted ==
    [][\A r \in Visits : EndsWell(r) /\ ~visit[r].stale /\ ~misled =>
          \E day \in counted' : visit[r].today <= day /\ day <= Today(zone)]_vars

\* The streak is the run of counted days that ends with the last one, and the
\* longest was the longest of them, as long as no day was counted after a later one.
Run(day) == Cardinality({first \in 1 .. day : first .. day \subseteq counted})

StreakIsARun ==
    back \/ /\ streak.current = Run(streak.last)
            /\ \A day \in counted : day <= streak.last /\ Run(day) <= streak.longest
            /\ streak.longest = 0 \/ \E day \in counted : streak.longest = Run(day)

\* What a reader leaves behind: a visit no change overtook stores the row as it is,
\* and a copy that differs from the row has one of three causes.  A change has yet
\* to retire it, or was answered without reaching it, or the reader that stored it
\* had read before the change: nothing but the minute it lives removes the last two.
FreshRead ==
    \A r \in Visits : visit[r].pc = "fill" /\ ~visit[r].stale => visit[r].read = {zone}

RetiredByAChange ==
    /\ FreshRead
    /\ \/ cached \subseteq {zone}
       \/ \E w \in Changes : change[w].pc = "retire"
       \/ missed \/ late

\* When the changes are over, what everyone reads is what the row says.
SettingsSettle == <>[](cached \subseteq {zone})
=============================================================================
