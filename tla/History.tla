------------------------------ MODULE History ------------------------------
(***************************************************************************)
(* What was done and earned, and the screens that read it: the history of *)
(* the account Me, page by page behind a cursor, its heatmap and figures, *)
(* and the ranking of all accounts, page by page behind an offset.        *)
(*                                                                         *)
(* A row is filed by the transaction of an operation and carries the clock *)
(* reading the operation began with, which may be a tick old.  Its id is   *)
(* random, so it says nothing of the order.  Only Me's screens are looked  *)
(* at: of the others the entries of the ledger are kept.  Completing earns *)
(* one XP, and reopening or deleting takes it back by an entry of its own. *)
(***************************************************************************)
EXTENDS Integers, FiniteSets, FiniteSetsExt

CONSTANTS
    Users,        \* the accounts, as numbers: their ids are compared
    Me,           \* the one that looks
    Zones,        \* timezones, as the ticks their day begins earlier
    DayLength,    \* ticks of a day
    HeatmapDays,  \* days of the heatmap
    Default,      \* entries of a page when none are asked for
    MaxPage,      \* entries of a page at most
    Windows,      \* ticks of a week and a month
    MaxTime,      \* bound: the last tick
    MaxRows,      \* bound: rows filed
    MaxMoves      \* bound: changes of the preferences

ASSUME UsersAssumption == Users \subseteq Nat /\ Me \in Users /\ IsFiniteSet(Users)
ASSUME ZonesAssumption == Zones \subseteq Nat /\ Zones # {}
ASSUME PageAssumption ==
    /\ {DayLength, HeatmapDays, Default, MaxPage} \cup Windows \subseteq Nat \ {0}
    /\ Default <= MaxPage
ASSUME BoundsAssumption == {MaxTime, MaxRows, MaxMoves} \subseteq Nat

VARIABLES
    now,       \* the clock
    rows,      \* what was filed
    zone,      \* Me's timezone
    shown,     \* the accounts that chose to appear in the ranking
    moves,     \* changes of the preferences so far
    had,       \* the timezones Me has had: the copies of the preferences there can be
    reader     \* the screen that is open, and what it has shown

vars == <<now, rows, zone, shown, moves, had, reader>>

(* ------------------------------ the rows ----------------------------- *)
Events == {"created", "completed", "opened"}   \* rows of the history
Entries == {"completed", "revoked"}             \* rows of the ledger
LocalDate(z, instant) == 1 + (instant + z) \div DayLength

Own == {row \in rows : row.user = Me /\ row.kind \in Events}

\* The entries of the ledger since some moment, and their sum, which may be less
\* than nothing when what was earned before is taken back after it.
Ledger(user, from) ==
    {row \in rows : row.user = user /\ row.kind \in Entries /\ row.at >= from}
XP(user, from) ==
    LET earned == {row \in Ledger(user, from) : row.kind = "completed"} IN
    Cardinality(earned) - Cardinality(Ledger(user, from) \ earned)

\* The graph is marked once for each of the account's days.
Marked(day) == \E row \in Own : row.kind = "opened" /\ row.day = day
OpenedAgain(kind, at) == kind = "opened" /\ Marked(LocalDate(zone, at))

Filed(user, kind, at, id) ==
    [user |-> user, kind |-> kind, at |-> at, id |-> id,
     day |-> IF user = Me THEN LocalDate(zone, at) ELSE 0]

(* ------------------------------ filing ------------------------------- *)
Closed == [screen |-> "none"]

\* Whatever is filed or changed disturbs a ranking that is being read: nothing is
\* claimed of its pages any more, so it is left, and may be read again.
Disturb(read) ==
    IF read.screen \in {"ranking", "standing", "ranked"} THEN Closed ELSE read

\* What the squares and the figures count.
Counts(user, kind) == user = Me /\ kind \in {"created", "completed"}

\* A transaction files its row under the day, in the row's timezone, of the moment
\* the operation began; a second visit to the graph of one day files nothing.  A
\* year that is being read and gets a row is left, and may be read again.
File(user, kind, at, id) ==
    /\ at <= now /\ now <= at + 1
    /\ Cardinality(rows) < MaxRows /\ \A row \in rows : row.id # id
    /\ user = Me \/ kind \in Entries
    /\ kind = "revoked" => XP(user, 0) > 0
    /\ rows' = IF OpenedAgain(kind, at) THEN rows
               ELSE rows \cup {Filed(user, kind, at, id)}
    /\ reader' = IF reader.screen = "year" /\ Counts(user, kind) THEN Closed
                 ELSE Disturb(reader)
    /\ UNCHANGED <<now, zone, shown, moves, had>>

\* The preferences: the timezone of Me, and who appears in the ranking.
MoveTo(z) ==
    /\ moves < MaxMoves /\ z # zone
    /\ zone' = z /\ moves' = moves + 1
    /\ had' = had \cup {z}
    /\ UNCHANGED <<now, rows, shown, reader>>

Show(user) ==
    /\ moves < MaxMoves
    /\ shown' = IF user \in shown THEN shown \ {user} ELSE shown \cup {user}
    /\ moves' = moves + 1
    /\ reader' = Disturb(reader)
    /\ UNCHANGED <<now, rows, zone, had>>

Tick ==
    /\ now < MaxTime
    /\ now' = now + 1
    /\ UNCHANGED <<rows, zone, shown, moves, had, reader>>

(* ------------------------------ the history -------------------------- *)
NoCursor == [at |-> MaxTime + 1, id |-> 0]

\* The order of the history, newest first, down to the id of the row.
Older(row, place) == row.at < place.at \/ (row.at = place.at /\ row.id < place.id)

\* The rows below a place, the first n of some rows, and their last.
Below_ByInstant(place) == {row \in Own : row.at < place.at}
Below(place) == {row \in Own : Older(row, place)}
Newest(S, n) == {row \in S : Cardinality({other \in S : Older(row, other)}) < n}
LastOf(S) == CHOOSE row \in S : \A other \in S : ~Older(other, row)

Size(limit) == IF limit = 0 THEN Default ELSE IF limit > MaxPage THEN MaxPage ELSE limit

\* One entry more than the page is read, to know whether another page follows.
HistoryPage(limit) ==
    /\ reader.screen \in {"none", "history"}
    /\ LET first   == reader.screen = "none"
           entries == Newest(Below(IF first THEN NoCursor ELSE reader.place), Size(limit) + 1)
           more    == Cardinality(entries) > Size(limit)
           page    == Newest(entries, Size(limit))
           ids     == {row.id : row \in page}
       IN  reader' =
             [screen |-> IF more THEN "history" ELSE "read",
              place  |-> IF more THEN [at |-> LastOf(page).at, id |-> LastOf(page).id]
                         ELSE NoCursor,
              there  |-> IF first THEN {row.id : row \in Own} ELSE reader.there,
              seen   |-> IF first THEN ids ELSE reader.seen \cup ids,
              twice  |-> ~first /\ (reader.twice \/ ids \cap reader.seen # {})]
    /\ UNCHANGED <<now, rows, zone, shown, moves, had>>

(* ------------------------- heatmap and figures ----------------------- *)
\* What was created and completed counts, each once.
Counted == {row \in Own : Counts(row.user, row.kind)}

\* The heatmap and the figures above it are two requests.
Views == {"heatmap", "stats"}

\* The first of the days that end with the given one.
FirstDay(today) == today - (HeatmapDays - 1)

\* A square for each day up to today.
Squares_NoToday(today) == FirstDay(today) .. today - 1
Squares(today) == FirstDay(today) .. today
Recorded(day) == Cardinality({row \in Counted : row.day = day})

\* The figures have a first day only.
StatsTotal(today) == Cardinality({row \in Counted : row.day >= FirstDay(today)})

\* Each of the two reads the preferences, the row or a copy that may be outdated,
\* and then the clock.  The year is behind when its squares were asked for in a
\* timezone west of one the account has had.
AskYear(view, z) ==
    /\ reader.screen \in {"none", "year"} /\ z \in had
    /\ LET read == IF reader.screen = "year" THEN reader
                   ELSE [screen |-> "year", today |-> [v \in Views |-> {}],
                         squares |-> << >>, figures |-> {}, behind |-> FALSE]
       IN  /\ read.today[view] = {}
           /\ reader' = [read EXCEPT !.today[view] = {LocalDate(z, now)},
                             !.behind = @ \/ (view = "heatmap" /\ \E p \in had : z < p)]
    /\ UNCHANGED <<now, rows, zone, shown, moves, had>>

\* The statement of each comes after that, whatever became of the day.
ReadSquares ==
    /\ reader.screen = "year" /\ reader.squares = << >>
    /\ \E today \in reader.today["heatmap"] :
          reader' = [reader EXCEPT !.squares = [day \in Squares(today) |-> Recorded(day)]]
    /\ UNCHANGED <<now, rows, zone, shown, moves, had>>

ReadFigures ==
    /\ reader.screen = "year" /\ reader.figures = {}
    /\ \E today \in reader.today["stats"] :
          reader' = [reader EXCEPT !.figures = {StatsTotal(today)}]
    /\ UNCHANGED <<now, rows, zone, shown, moves, had>>

(* ------------------------------ the ranking -------------------------- *)
\* Where a window begins; there is none for all time, whose total is the lifetime
\* total of the statistics, the sum of the ledger.
From(window) == IF window = 0 THEN 0 ELSE now - (now % window)

\* When the total was reached: the moment of the last entry, and those who have no
\* entry come last.
ReachedAt(user, from) ==
    IF Ledger(user, from) = {} THEN MaxTime + 1
    ELSE CHOOSE t \in 0 .. MaxTime : /\ \E row \in Ledger(user, from) : row.at = t
                                     /\ \A row \in Ledger(user, from) : row.at <= t

Ahead(u, v, from) ==
    \/ XP(u, from) > XP(v, from)
    \/ /\ XP(u, from) = XP(v, from)
       /\ \/ ReachedAt(u, from) < ReachedAt(v, from)
          \/ ReachedAt(u, from) = ReachedAt(v, from) /\ u < v

\* Ranks are dense, positions are not; both count only who appears.
Rank(user, from) ==
    1 + Cardinality({XP(other, from) : other \in {o \in shown : XP(o, from) > XP(user, from)}})
Position(user, from) == 1 + Cardinality({other \in shown : Ahead(other, user, from)})

RankingSize(limit) == IF limit = 0 \/ limit > MaxPage THEN MaxPage ELSE limit

\* Where the next page begins; the entry read past this one belongs to it.
NextOffset_PastLookahead(offset, size) == offset + size + 1
NextOffset(offset, size) == offset + size

\* A page of the ranking, and whether another follows.  A window that has moved on
\* since the first page disturbs the ranking too.
RankingPage(window, limit) ==
    /\ reader.screen \in {"none", "ranking"}
    /\ reader.screen = "ranking" => window = reader.window
    /\ LET first   == reader.screen = "none"
           from    == From(window)
           offset  == IF first THEN 0 ELSE reader.offset
           size    == RankingSize(limit)
           entries == {u \in shown : Position(u, from) \in offset + 1 .. offset + size + 1}
           page    == {u \in entries : Position(u, from) <= offset + size}
           listed  == {[user |-> u, rank |-> Rank(u, from)] : u \in page}
           read    ==
             [screen |-> "standing", window |-> window, from |-> from,
              offset |-> NextOffset(offset, size), more |-> Cardinality(entries) > size,
              listed |-> IF first THEN listed ELSE reader.listed \cup listed,
              twice  |-> ~first /\ (reader.twice \/
                            \E entry \in reader.listed : entry.user \in page),
              me     |-> {}]
       IN  reader' = IF first \/ reader.from = from THEN read ELSE Closed
    /\ UNCHANGED <<now, rows, zone, shown, moves, had>>

\* The standing of who looks is a statement of its own, after the page.
Standing_Position ==
    IF Me \in shown THEN {[user |-> Me, rank |-> Position(Me, reader.from)]} ELSE {}
Standing == IF Me \in shown THEN {[user |-> Me, rank |-> Rank(Me, reader.from)]} ELSE {}

ReadStanding ==
    /\ reader.screen = "standing"
    /\ reader' = [reader EXCEPT !.screen = IF reader.more THEN "ranking" ELSE "ranked",
                     !.me = Standing]
    /\ UNCHANGED <<now, rows, zone, shown, moves, had>>

Close ==
    /\ reader.screen # "none"
    /\ reader' = Closed
    /\ UNCHANGED <<now, rows, zone, shown, moves, had>>

Init ==
    /\ now = 0
    /\ rows = {}
    /\ zone \in Zones
    /\ shown \in SUBSET Users
    /\ moves = 0 /\ had = {zone}
    /\ reader = Closed

Limits == {0, 1, MaxPage + 1}

Next ==
    \/ \E user \in Users, kind \in Events \cup Entries, at \in 0 .. MaxTime, id \in 1 .. MaxRows :
          File(user, kind, at, id)
    \/ \E z \in Zones : MoveTo(z)
    \/ \E user \in Users : Show(user)
    \/ \E limit \in Limits : HistoryPage(limit)
    \/ (\E view \in Views, z \in Zones : AskYear(view, z)) \/ ReadSquares \/ ReadFigures
    \/ \E window \in Windows \cup {0}, limit \in Limits : RankingPage(window, limit)
    \/ ReadStanding \/ Close \/ Tick

Spec == Init /\ [][Next]_vars

(* ----------------------------- properties ---------------------------- *)
\* Paging through the history shows no row twice, and whoever reaches the end has
\* seen every row that was there at the first page, also those of one instant and
\* whatever is filed in the meantime.
HistoryIsWhole ==
    /\ reader.screen \in {"history", "read"} => ~reader.twice
    /\ reader.screen = "read" => reader.there \subseteq reader.seen

\* The squares from some day on.
Square(day) == reader.squares[day]
HeatmapTotal(from) ==
    MapThenSumSet(Square, {day \in DOMAIN reader.squares : day >= from})

\* The figures hold what the squares of their year hold, whatever the two requests
\* read of clock and timezone and when: all of it, and nothing else unless the
\* squares begin later or were asked for west of a timezone the account has had.
FiguresAgree ==
    reader.screen = "year" =>
        \A first \in reader.today["heatmap"], second \in reader.today["stats"],
           n \in reader.figures :
              reader.squares # << >> =>
                  /\ HeatmapTotal(FirstDay(second)) <= n
                  /\ reader.behind \/ first > second \/ HeatmapTotal(FirstDay(second)) = n

\* Paging through a ranking that nothing disturbs lists everyone who appears, once;
\* one that is disturbed never gets to its end.
RankingIsWhole ==
    reader.screen = "ranked" =>
        ~reader.twice /\ {entry.user : entry \in reader.listed} = shown

\* In it the ranks follow the earnings and have no gap, and the standing of who
\* looks is the one the list gives.
RanksAgree ==
    reader.screen = "ranked" =>
        /\ \A a, b \in reader.listed :
              a.rank < b.rank <=> XP(a.user, reader.from) > XP(b.user, reader.from)
        /\ LET ranks == {entry.rank : entry \in reader.listed} IN
              ranks = 1 .. Cardinality(ranks)
        /\ reader.me = {entry \in reader.listed : entry.user = Me}
=============================================================================
