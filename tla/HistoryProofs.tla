--------------------------- MODULE HistoryProofs ---------------------------
(***************************************************************************)
(* Theorems about History, for every set of accounts, page size, timezone  *)
(* and bound: the pages of the history and of the ranking hold everything  *)
(* once, the ranks are dense and agree with the standing, and the figures  *)
(* agree with the heatmap.                                                 *)
(***************************************************************************)
EXTENDS History, FiniteLemmas, TLAPS

\* What is filed: finitely many rows, told apart by their ids.
RowType(row) ==
    /\ row.user \in Users /\ row.kind \in Events \cup Entries
    /\ row.at \in 0 .. MaxTime /\ row.at <= now
    /\ row.id \in 1 .. MaxRows /\ row.day \in Int

RowsOK ==
    /\ now \in Nat /\ now <= MaxTime
    /\ IsFiniteSet(rows) /\ \A row \in rows : RowType(row)
    /\ \A a, b \in rows : a.id = b.id => a = b
    /\ zone \in had /\ had \subseteq Zones /\ shown \subseteq Users

LEMMA DayType == \A z \in Zones, t \in Int : LocalDate(z, t) \in Int
<1> SUFFICES ASSUME NEW z \in Zones, NEW t \in Int PROVE LocalDate(z, t) \in Int
    OBVIOUS
<1>1. z \in Int /\ DayLength \in Nat /\ DayLength > 0
    BY ZonesAssumption, PageAssumption
<1> QED BY <1>1 DEF LocalDate

LEMMA RowsInit == Init => RowsOK
    BY BoundsAssumption, FS_EmptySet DEF Init, RowsOK

LEMMA RowsKept == RowsOK /\ [Next]_vars => RowsOK'
<1> SUFFICES ASSUME RowsOK, [Next]_vars PROVE RowsOK'
    OBVIOUS
<1> USE DEF RowsOK
<1>1. ASSUME NEW user \in Users, NEW kind \in Events \cup Entries, NEW at \in 0 .. MaxTime,
             NEW id \in 1 .. MaxRows, File(user, kind, at, id)
      PROVE RowsOK'
  <2> DEFINE row == Filed(user, kind, at, id)
  <2>1. LocalDate(zone, at) \in Int
      BY DayType, BoundsAssumption
  <2>2. RowType(row) /\ row.id = id
      BY <1>1, <2>1 DEF RowType, Filed, File
  <2>3. rows' \in {rows, rows \cup {row}} /\ UNCHANGED <<now, zone, had, shown>>
        /\ \A other \in rows : other.id # id
      BY <1>1 DEF File
  <2> HIDE DEF row
  <2>4. IsFiniteSet(rows')
      BY <2>3, FS_AddElement
  <2> QED BY <2>2, <2>3, <2>4 DEF RowType
<1>2. CASE Tick
    BY <1>2, BoundsAssumption DEF Tick, RowType
<1>3. ASSUME UNCHANGED <<now, rows>>, zone' \in had', had' \subseteq Zones, shown' \subseteq Users PROVE RowsOK'
    BY <1>3 DEF RowType
<1>4. ASSUME NEW user \in Users, Show(user) PROVE RowsOK'
    BY <1>3, <1>4 DEF Show
<1>5. ASSUME NEW z \in Zones, MoveTo(z) PROVE RowsOK'
    BY <1>3, <1>5 DEF MoveTo
<1>6. ASSUME NEW limit, HistoryPage(limit) PROVE RowsOK'
    BY <1>3, <1>6 DEF HistoryPage
<1>7. ASSUME NEW window, NEW limit, RankingPage(window, limit) PROVE RowsOK'
    BY <1>3, <1>7 DEF RankingPage
<1>8. ASSUME NEW view, NEW z, AskYear(view, z) PROVE RowsOK'
    BY <1>3, <1>8 DEF AskYear
<1>9. CASE ReadSquares \/ ReadFigures \/ ReadStanding \/ Close \/ UNCHANGED vars
    BY <1>3, <1>9 DEF ReadSquares, ReadFigures, ReadStanding, Close, vars
<1> QED BY <1>1, <1>2, <1>4, <1>5, <1>6, <1>7, <1>8, <1>9 DEF Next

LEMMA RowsAlways == Spec => []RowsOK
    BY RowsInit, RowsKept, PTL DEF Spec

-----------------------------------------------------------------------------
(* The history.                                                             *)

\* What has been shown is what is not below the place of the cursor, and of what
\* was there at the first page nothing above the cursor is missing.
HistoryInv ==
    /\ reader.screen = "history" =>
         /\ reader.place.at \in Int /\ reader.place.id \in Int
         /\ ~reader.twice
         /\ \A id \in reader.seen :
              \E row \in Own : row.id = id /\ ~Older(row, reader.place)
         /\ \A id \in reader.there :
              \E row \in Own : row.id = id /\ (Older(row, reader.place) \/ id \in reader.seen)
    /\ reader.screen = "read" => ~reader.twice /\ reader.there \subseteq reader.seen

Place(place) == place.at \in Int /\ place.id \in Int

LEMMA OlderTransitive ==
    ASSUME NEW a, NEW b, NEW c, Place(a), Place(b), Place(c), Older(a, b), Older(b, c)
    PROVE  Older(a, c)
    BY DEF Place, Older

LEMMA OwnPlaces ==
    ASSUME RowsOK
    PROVE  /\ IsFiniteSet(Own) /\ Own \subseteq rows
           /\ \A row \in Own : Place(row) /\ Older(row, NoCursor)
<1>1. IsFiniteSet(Own) /\ Own \subseteq rows
    BY FS_Subset DEF Own, RowsOK
<1>2. ASSUME NEW row \in Own PROVE Place(row) /\ Older(row, NoCursor)
    BY <1>1, BoundsAssumption DEF RowsOK, RowType, Place, Older, NoCursor
<1> QED BY <1>1, <1>2

\* Newest(S, n) is the first n of S in this order.
Newer(S) == {p \in S \X S : Older(p[2], p[1])}

LEMMA NewerOrders ==
    ASSUME RowsOK, NEW S, S \subseteq Own
    PROVE  /\ IsFiniteSet(S) /\ Orders(Newer(S), S)
           /\ \A x, y \in S : <<x, y>> \in Newer(S) <=> Older(y, x)
<1>1. \A x, y \in S : <<x, y>> \in Newer(S) <=> Older(y, x)
    BY DEF Newer
<1>2. \A x \in S : Place(x)
    BY OwnPlaces
<1>3. IsFiniteSet(S)
    BY OwnPlaces, FS_Subset
<1>4. \A x, y \in S : x.id = y.id => x = y
    BY OwnPlaces DEF RowsOK
<1>5. \A x \in S : ~Older(x, x)
    BY <1>2 DEF Older, Place
<1>6. \A x, y \in S : x = y \/ Older(x, y) \/ Older(y, x)
    BY <1>2, <1>4 DEF Older, Place
<1>7. \A x, y, z \in S : Older(x, y) /\ Older(y, z) => Older(x, z)
    BY <1>2, OlderTransitive
<1> HIDE DEF Newer
<1>8. Orders(Newer(S), S)
    BY <1>1, <1>5, <1>6, <1>7 DEF Orders
<1> QED BY <1>1, <1>3, <1>8

LEMMA NewestForemost ==
    ASSUME RowsOK, NEW S, S \subseteq Own, NEW T, T \subseteq S, NEW n
    PROVE  Newest(T, n) = Foremost(Newer(T), T, n)
<1>1. \A x, y \in T : <<x, y>> \in Newer(T) <=> Older(y, x)
    BY NewerOrders
<1>2. \A x \in T : {other \in T : Older(x, other)} = Preceding(Newer(T), T, x)
    BY <1>1 DEF Preceding
<1> QED BY <1>2 DEF Newest, Foremost

\* A page: everything, when no entry is read past it, and otherwise the rows down
\* to its last one.
LEMMA PageIsFirst ==
    ASSUME RowsOK, NEW S, S \subseteq Own, NEW n \in Nat \ {0}, NEW entries, NEW page,
           entries = Newest(S, n + 1), page = Newest(entries, n)
    PROVE  /\ Cardinality(entries) \in Nat /\ page \subseteq S
           /\ ~(Cardinality(entries) > n) => page = S
           /\ Cardinality(entries) > n =>
                /\ LastOf(page) \in page
                /\ \A row \in page : ~Older(row, LastOf(page))
                /\ \A row \in S \ page : Older(row, LastOf(page))
<1>1. IsFiniteSet(S) /\ Orders(Newer(S), S) /\ entries = Foremost(Newer(S), S, n + 1)
    BY NewerOrders, NewestForemost
<1>2. /\ IsFiniteSet(entries) /\ Cardinality(entries) <= n + 1 /\ entries \subseteq S
      /\ (entries # S => Cardinality(entries) = n + 1)
  <2> DEFINE m == n + 1
  <2>1. m \in Nat
      OBVIOUS
  <2> HIDE DEF m
  <2>2. /\ IsFiniteSet(Foremost(Newer(S), S, m)) /\ Cardinality(Foremost(Newer(S), S, m)) <= m
        /\ Foremost(Newer(S), S, m) # S => Cardinality(Foremost(Newer(S), S, m)) = m
      BY <1>1, <2>1, ForemostCount
  <2>3. Foremost(Newer(S), S, m) \subseteq S
      BY DEF Foremost
  <2> QED BY <1>1, <2>2, <2>3 DEF m
<1>3. Orders(Newer(entries), entries) /\ page = Foremost(Newer(entries), entries, n)
    BY <1>2, NewerOrders, NewestForemost
<1>4. /\ IsFiniteSet(page) /\ Cardinality(page) <= n /\ page \subseteq entries
      /\ (page # entries => Cardinality(page) = n)
  <2> DEFINE P == Foremost(Newer(entries), entries, n)
  <2>1. IsFiniteSet(P) /\ Cardinality(P) <= n /\ (P # entries => Cardinality(P) = n)
      BY <1>2, <1>3, ForemostCount
  <2>2. P \subseteq entries
      BY DEF Foremost
  <2> QED BY <1>3, <2>1, <2>2
<1>5. Cardinality(entries) \in Nat /\ Cardinality(page) \in Nat
    BY <1>2, <1>4, FS_CardinalityType
<1>6. ASSUME ~(Cardinality(entries) > n) PROVE page = S
  <2>1. entries = S
      BY <1>2, <1>5, <1>6
  <2>2. page # entries => Cardinality(page) < Cardinality(entries)
      BY <1>2, <1>4, <1>5, FS_Subset
  <2> QED BY <1>4, <1>5, <1>6, <2>1, <2>2
<1>7. ASSUME Cardinality(entries) > n
      PROVE  /\ LastOf(page) \in page
             /\ \A row \in page : ~Older(row, LastOf(page))
             /\ \A row \in S \ page : Older(row, LastOf(page))
  <2>1. Cardinality(page) = n /\ page # {}
      BY <1>2, <1>4, <1>5, <1>7, FS_EmptySet
  <2>2. PICK x \in page : \A y \in page : y = x \/ <<y, x>> \in Newer(entries)
      BY <1>2, <1>3, <1>4, <2>1, LastElement
  <2>3. \A y \in page : ~Older(y, x)
    <3> SUFFICES ASSUME NEW y \in page, Older(y, x) PROVE FALSE
        OBVIOUS
    <3>1. Place(x) /\ Place(y)
        BY <1>2, <1>4, <2>2, OwnPlaces
    <3>2. y # x
        BY <3>1 DEF Older, Place
    <3>3. Older(x, y)
        BY <2>2, <3>2 DEF Newer
    <3> QED BY <3>1, <3>3 DEF Older, Place
  <2> DEFINE last == LastOf(page)
  <2>4. last \in page /\ \A y \in page : ~Older(y, last)
      BY <2>3 DEF LastOf
  <2> HIDE DEF last
  <2>5. ASSUME NEW row \in S \ page PROVE Older(row, last)
    <3>1. last \in entries /\ last \in S /\ row \in S /\ row # last
        BY <1>2, <1>4, <2>4
    <3>2. /\ Older(row, last) \/ <<row, last>> \in Newer(S)
          /\ \A p, q \in S : <<p, q>> \in Newer(S) <=> Older(q, p)
      <4>1. Orders(Newer(S), S) /\ \A p, q \in S : <<p, q>> \in Newer(S) <=> Older(q, p)
          BY NewerOrders
      <4> QED BY <3>1, <4>1 DEF Orders
    <3>3. ASSUME <<row, last>> \in Newer(S) PROVE FALSE
      <4>1. row \in entries
          BY <1>1, <3>1, <3>3, ForemostClosed
      <4>2. <<row, last>> \in Newer(entries)
          BY <3>1, <3>2, <3>3, <4>1 DEF Newer
      <4>3. row \in page
          BY <1>2, <1>3, <2>4, <4>1, <4>2, ForemostClosed
      <4> QED BY <2>5, <4>3
    <3> QED BY <3>2, <3>3
  <2> QED BY <2>4, <2>5 DEF last
<1> QED BY <1>2, <1>4, <1>5, <1>6, <1>7

LEMMA SizeType == \A limit \in Limits : Size(limit) \in Nat \ {0}
    BY PageAssumption DEF Limits, Size

\* Whatever else happens, the history that is open keeps its invariant: rows are
\* only added, and under new ids.
LEMMA HistoryUndisturbed ==
    ASSUME HistoryInv, Own \subseteq Own',
           reader' = reader \/ reader'.screen \notin {"history", "read"}
    PROVE  HistoryInv'
<1>1. CASE reader' = reader
  <2>1. \A row, place : Older(row, place)' <=> Older(row, place)
      BY DEF Older
  <2> QED BY <1>1, <2>1 DEF HistoryInv, Older
<1>2. CASE reader'.screen \notin {"history", "read"}
    BY <1>2 DEF HistoryInv
<1> QED BY <1>1, <1>2

LEMMA HistoryPaged ==
    ASSUME RowsOK, HistoryInv, NEW limit \in Limits, HistoryPage(limit)
    PROVE  HistoryInv'
<1> DEFINE first == reader.screen = "none"
           place == IF first THEN NoCursor ELSE reader.place
           entries == Newest(Below(place), Size(limit) + 1)
           more == Cardinality(entries) > Size(limit)
           page == Newest(entries, Size(limit))
           ids == {row.id : row \in page}
           last == LastOf(page)
           new == [at |-> last.at, id |-> last.id]
           there == IF first THEN {row.id : row \in Own} ELSE reader.there
           seen == IF first THEN ids ELSE reader.seen \cup ids
           twice == ~first /\ (reader.twice \/ ids \cap reader.seen # {})
<1>1. reader' = [screen |-> IF more THEN "history" ELSE "read",
                 place |-> IF more THEN new ELSE NoCursor,
                 there |-> there, seen |-> seen, twice |-> twice]
      /\ rows' = rows /\ reader.screen \in {"none", "history"}
    BY DEF HistoryPage
<1>2. Below(place) \subseteq Own /\ \A row \in Own : row \in Below(place) <=> Older(row, place)
    BY DEF Below
<1>3. Size(limit) \in Nat \ {0}
    BY SizeType
<1>4. Place(place)
    BY BoundsAssumption DEF Place, NoCursor, HistoryInv, HistoryPage
<1>5. \A row \in Own : Place(row) /\ Older(row, NoCursor)
    BY OwnPlaces
<1>6. \A a, b \in Own : a.id = b.id => a = b
    BY OwnPlaces DEF RowsOK
\* Before the page: what was shown is not below the place, what is missing is.
<1>7. ~first => /\ ~reader.twice
                /\ \A id \in reader.seen : \E row \in Own : row.id = id /\ ~Older(row, place)
    BY <1>1 DEF HistoryInv
<1>8. \A id \in there : \E row \in Own :
          row.id = id /\ (Older(row, place) \/ (~first /\ id \in reader.seen))
    BY <1>1, <1>5 DEF HistoryInv
<1>9. /\ page \subseteq Below(place)
      /\ ~more => page = Below(place)
      /\ more => /\ last \in page /\ \A row \in page : ~Older(row, last)
                 /\ \A row \in Below(place) \ page : Older(row, last)
  <2> HIDE DEF place
  <2> QED BY <1>2, <1>3, PageIsFirst, SMTT(20)
<1> HIDE DEF place, entries, more, page, there, last
<1>10. ~twice
    BY <1>2, <1>6, <1>7, <1>9
<1>11. ASSUME more
       PROVE /\ \A id \in seen : \E row \in Own : row.id = id /\ ~Older(row, new)
             /\ \A id \in there : \E row \in Own : row.id = id /\ (Older(row, new) \/ id \in seen)
             /\ new.at \in Int /\ new.id \in Int
  <2>1. last \in Own /\ Older(last, place) /\ Place(last) /\ Place(new)
        /\ \A row : Older(row, new) <=> Older(row, last)
      BY <1>2, <1>5, <1>9, <1>11 DEF Place, Older
  <2>2. ASSUME NEW id \in seen PROVE \E row \in Own : row.id = id /\ ~Older(row, new)
    <3>1. CASE id \in ids
        BY <1>2, <1>9, <1>11, <2>1, <3>1
    <3>2. CASE ~first /\ id \in reader.seen
      <4>1. PICK row \in Own : row.id = id /\ ~Older(row, place)
          BY <1>7, <3>2
      <4>2. ~Older(row, last)
          BY <1>4, <1>5, <2>1, <4>1, OlderTransitive
      <4> QED BY <2>1, <4>1, <4>2
    <3> QED BY <2>2, <3>1, <3>2
  <2>3. ASSUME NEW id \in there
        PROVE \E row \in Own : row.id = id /\ (Older(row, new) \/ id \in seen)
    <3>1. PICK row \in Own :
              row.id = id /\ (Older(row, place) \/ (~first /\ id \in reader.seen))
        BY <1>8
    <3>2. CASE Older(row, place)
      <4>1. row \in page \/ Older(row, last)
          BY <1>2, <1>9, <1>11, <3>2
      <4> QED BY <2>1, <3>1, <4>1
    <3> QED BY <3>1, <3>2
  <2> QED BY <2>1, <2>2, <2>3 DEF Place
<1>12. ASSUME ~more PROVE there \subseteq seen
    BY <1>2, <1>8, <1>9, <1>12
<1>13. Own' = Own
    BY <1>1 DEF Own
<1> HIDE DEF seen, new, twice, first
<1>14. CASE more
  <2>1. reader'.screen = "history" /\ reader'.place = new /\ reader'.there = there
        /\ reader'.seen = seen /\ reader'.twice = twice
      BY <1>1, <1>14
  <2> QED BY <1>10, <1>11, <1>13, <1>14, <2>1 DEF HistoryInv, Older
<1>15. CASE ~more
  <2>1. reader'.screen = "read" /\ reader'.there = there
        /\ reader'.seen = seen /\ reader'.twice = twice
      BY <1>1, <1>15
  <2> QED BY <1>10, <1>12, <1>15, <2>1 DEF HistoryInv
<1> QED BY <1>14, <1>15

\* A request of the year leaves the year on the screen.
LEMMA YearStays ==
    ASSUME ReadSquares \/ ReadFigures \/ \E view \in Views, z \in Zones : AskYear(view, z)
    PROVE  rows' = rows /\ shown' = shown /\ reader'.screen = "year"
<1>1. CASE ReadSquares
    BY <1>1 DEF ReadSquares
<1>2. CASE ReadFigures
    BY <1>2 DEF ReadFigures
<1>3. ASSUME NEW view \in Views, NEW z \in Zones, AskYear(view, z)
      PROVE rows' = rows /\ shown' = shown /\ reader'.screen = "year"
  <2> DEFINE read == IF reader.screen = "year" THEN reader
                     ELSE [screen |-> "year", today |-> [v \in Views |-> {}],
                           squares |-> << >>, figures |-> {}, behind |-> FALSE]
             today == [read.today EXCEPT ![view] = {LocalDate(z, now)}]
             behind == read.behind \/ (view = "heatmap" /\ \E p \in had : z < p)
  <2>1. /\ reader' = [read EXCEPT !.today = today, !.behind = behind]
        /\ rows' = rows /\ shown' = shown
      BY <1>3 DEF AskYear
  <2>2. read.screen = "year"
      OBVIOUS
  <2> HIDE DEF read, today, behind
  <2> QED BY <2>1, <2>2
<1> QED BY <1>1, <1>2, <1>3

LEMMA HistoryKept == RowsOK /\ HistoryInv /\ [Next]_vars => HistoryInv'
<1> SUFFICES ASSUME RowsOK, HistoryInv, [Next]_vars PROVE HistoryInv'
    OBVIOUS
<1>1. ASSUME rows' = rows PROVE Own' = Own
    BY <1>1 DEF Own
<1>2. Disturb(reader) = reader \/ Disturb(reader).screen = "none"
    BY DEF Disturb, Closed
<1>3. ASSUME NEW user, NEW kind, NEW at, NEW id, File(user, kind, at, id)
      PROVE HistoryInv'
  <2>1. Own \subseteq Own'
      BY <1>3 DEF File, Own
  <2>2. CASE reader' = Closed
      BY <2>1, <2>2, HistoryUndisturbed DEF Closed
  <2>3. CASE reader' = Disturb(reader)
      BY <1>2, <2>1, <2>3, HistoryUndisturbed
  <2> QED BY <1>3, <2>2, <2>3 DEF File
<1>4. ASSUME NEW user, Show(user) PROVE HistoryInv'
  <2>1. rows' = rows /\ reader' = Disturb(reader)
      BY <1>4 DEF Show
  <2> QED BY <1>1, <1>2, <2>1, HistoryUndisturbed
<1>5. ASSUME NEW z, MoveTo(z) PROVE HistoryInv'
    BY <1>1, <1>5, HistoryUndisturbed DEF MoveTo
<1>6. CASE Tick \/ UNCHANGED vars
    BY <1>1, <1>6, HistoryUndisturbed DEF Tick, vars
<1>7. ASSUME NEW window, NEW limit, RankingPage(window, limit) PROVE HistoryInv'
  <2>1. reader'.screen \in {"none", "standing"} /\ rows' = rows
      BY <1>7 DEF RankingPage, Closed
  <2> QED BY <1>1, <2>1, HistoryUndisturbed
<1>8. CASE ReadStanding
  <2>1. reader'.screen \notin {"history", "read"} \/ reader' = reader
      BY <1>8 DEF ReadStanding
  <2> QED BY <1>1, <1>8, <2>1, HistoryUndisturbed DEF ReadStanding
<1>9. CASE Close
    BY <1>1, <1>9, HistoryUndisturbed DEF Close, Closed
<1>10. CASE \E view \in Views, z \in Zones : AskYear(view, z)
  <2>1. rows' = rows /\ reader'.screen = "year"
      BY <1>10, YearStays
  <2> QED BY <1>1, <2>1, HistoryUndisturbed
<1>11. CASE ReadSquares \/ ReadFigures
  <2>1. rows' = rows /\ reader'.screen = "year"
      BY <1>11, YearStays
  <2> QED BY <1>1, <2>1, HistoryUndisturbed
<1> QED BY <1>3, <1>4, <1>5, <1>6, <1>7, <1>8, <1>9, <1>10, <1>11, HistoryPaged DEF Next

\* Paging through the history shows no row twice, and reaches every row that was
\* there at the first page, for every page size and whatever is filed meanwhile.
THEOREM HistoryWhole == Spec => []HistoryIsWhole
<1>1. Init => HistoryInv
    BY DEF Init, HistoryInv, Closed
<1>2. HistoryInv => HistoryIsWhole
    BY DEF HistoryInv, HistoryIsWhole
<1> QED BY <1>1, <1>2, HistoryKept, RowsAlways, PTL DEF Spec

-----------------------------------------------------------------------------
(* The ranking.                                                             *)

Reads == {"ranking", "standing", "ranked"}

\* A ranking that is being read has listed the accounts down to its offset, with
\* their ranks, and all of them once no page follows.
RankingInv ==
    reader.screen \in Reads =>
         /\ {"screen", "me"} \subseteq DOMAIN reader
         /\ reader.from \in Int /\ reader.offset \in Nat /\ ~reader.twice
         /\ reader.listed = {[user |-> u, rank |-> Rank(u, reader.from)] :
                                u \in {w \in shown : Position(w, reader.from) <= reader.offset}}
         /\ ~reader.more => \A u \in shown : Position(u, reader.from) <= reader.offset
         /\ reader.screen = "ranked" => ~reader.more /\ reader.me = Standing

LEMMA LedgerType ==
    ASSUME RowsOK, NEW user, NEW from
    PROVE  /\ IsFiniteSet(Ledger(user, from)) /\ Ledger(user, from) \subseteq rows
           /\ XP(user, from) \in Int
<1> DEFINE L == Ledger(user, from)
           earned == {row \in L : row.kind = "completed"}
<1>1. IsFiniteSet(L) /\ L \subseteq rows
    BY FS_Subset DEF Ledger, RowsOK
<1>2. IsFiniteSet(earned) /\ IsFiniteSet(L \ earned)
    BY <1>1, FS_Subset
<1>3. Cardinality(earned) \in Nat /\ Cardinality(L \ earned) \in Nat
    BY <1>2, FS_CardinalityType
<1> QED BY <1>1, <1>3 DEF XP

\* The last of the moments of a ledger is one of them.
LEMMA ReachedType == ASSUME RowsOK, NEW user, NEW from PROVE ReachedAt(user, from) \in Int
<1> DEFINE L == Ledger(user, from)
           S == {row.at : row \in L}
           R == {p \in S \X S : p[1] < p[2]}
<1>1. IsFiniteSet(S) /\ S \subseteq 0 .. MaxTime /\ S \subseteq Int
  <2>1. S \subseteq 0 .. MaxTime
      BY LedgerType DEF RowsOK, RowType
  <2>2. IsFiniteSet(0 .. MaxTime) /\ 0 .. MaxTime \subseteq Int
      BY FS_Interval, BoundsAssumption
  <2> HIDE DEF S
  <2> QED BY <2>1, <2>2, FS_Subset
<1>2. \A x, y \in S : <<x, y>> \in R <=> x < y
    OBVIOUS
<1>3. CASE L = {}
    BY <1>3, BoundsAssumption DEF ReachedAt
<1>4. CASE L # {}
  <2>1. S # {}
      BY <1>4
  <2> HIDE DEF S, R
  <2>2. Orders(R, S)
      BY <1>1, <1>2 DEF Orders
  <2>3. PICK t \in S : \A x \in S : x = t \/ <<x, t>> \in R
    <3>1. IsFiniteSet(S) /\ S \subseteq S
        BY <1>1
    <3> QED BY <2>1, <2>2, <3>1, LastElement
  <2>4. \A x \in S : x <= t
    <3> SUFFICES ASSUME NEW x \in S PROVE x <= t
        OBVIOUS
    <3>1. x \in Int /\ t \in Int
        BY <1>1
    <3>2. x = t \/ x < t
        BY <1>2, <2>3
    <3> QED BY <3>1, <3>2
  <2>5. t \in 0 .. MaxTime /\ (\E row \in L : row.at = t) /\ \A row \in L : row.at <= t
      BY <1>1, <2>3, <2>4 DEF S
  <2>6. ReachedAt(user, from) \in 0 .. MaxTime
      BY <1>4, <2>5 DEF ReachedAt
  <2> QED BY <2>6, BoundsAssumption
<1> QED BY <1>3, <1>4

\* Position(u, from) is one more than what comes before u in this order.
Before(from) == {p \in shown \X shown : Ahead(p[1], p[2], from)}

LEMMA AheadOrders ==
    ASSUME RowsOK, NEW from
    PROVE  /\ IsFiniteSet(shown) /\ Orders(Before(from), shown)
           /\ \A u \in shown : /\ Position(u, from) = 1 + Cardinality(Preceding(Before(from), shown, u))
                               /\ Position(u, from) \in Nat \ {0}
<1>1. IsFiniteSet(shown) /\ \A u \in shown : u \in Nat
    BY UsersAssumption, FS_Subset DEF RowsOK
<1>2. \A u \in shown : XP(u, from) \in Int /\ ReachedAt(u, from) \in Int
    BY LedgerType, ReachedType
<1>3. \A u, v \in shown : <<u, v>> \in Before(from) <=> Ahead(u, v, from)
    BY DEF Before
<1>4. \A u \in shown : ~Ahead(u, u, from)
    BY <1>1, <1>2 DEF Ahead
<1>5. \A u, v \in shown : u = v \/ Ahead(u, v, from) \/ Ahead(v, u, from)
    BY <1>1, <1>2 DEF Ahead
<1>6. \A u, v, w \in shown : Ahead(u, v, from) /\ Ahead(v, w, from) => Ahead(u, w, from)
    BY <1>1, <1>2 DEF Ahead
<1>7. Orders(Before(from), shown)
    BY <1>3, <1>4, <1>5, <1>6 DEF Orders
<1>8. ASSUME NEW u \in shown
      PROVE /\ Position(u, from) = 1 + Cardinality(Preceding(Before(from), shown, u))
            /\ Position(u, from) \in Nat \ {0}
  <2>1. {other \in shown : Ahead(other, u, from)} = Preceding(Before(from), shown, u)
      BY <1>3, <1>8 DEF Preceding
  <2>2. Cardinality(Preceding(Before(from), shown, u)) \in Nat
      BY <1>1, FS_Subset, FS_CardinalityType DEF Preceding
  <2> QED BY <2>1, <2>2 DEF Position
<1> QED BY <1>1, <1>7, <1>8

\* The first n positions are n accounts, or all of them.
LEMMA PositionCount ==
    ASSUME RowsOK, NEW from, NEW n \in Nat
    PROVE  LET top == {u \in shown : Position(u, from) <= n} IN
           /\ IsFiniteSet(top) /\ Cardinality(top) \in Nat /\ Cardinality(top) <= n
           /\ top # shown => Cardinality(top) = n
<1> DEFINE top == {u \in shown : Position(u, from) <= n}
           F == Foremost(Before(from), shown, n)
<1>1. \A u \in shown : /\ Cardinality(Preceding(Before(from), shown, u)) \in Nat
                       /\ Position(u, from) = 1 + Cardinality(Preceding(Before(from), shown, u))
    BY AheadOrders, FS_Subset, FS_CardinalityType DEF Preceding
<1>2. top = F
    BY <1>1 DEF Foremost
<1>3. IsFiniteSet(F) /\ Cardinality(F) <= n /\ (F # shown => Cardinality(F) = n)
    BY AheadOrders, ForemostCount
<1> QED BY <1>2, <1>3, FS_CardinalityType

\* When no entry is read past a page, it is the last.
LEMMA LastPage ==
    ASSUME RowsOK, NEW from, NEW offset \in Nat, NEW size \in Nat \ {0}, NEW entries,
           entries = {u \in shown : Position(u, from) \in offset + 1 .. offset + size + 1},
           ~(Cardinality(entries) > size)
    PROVE  \A u \in shown : Position(u, from) <= offset + size
<1> DEFINE Top(n) == {u \in shown : Position(u, from) <= n}
           before == Top(offset)
           upto == Top(offset + size)
           past == Top(offset + size + 1)
<1>1. \A u \in shown : Position(u, from) \in Nat \ {0}
    BY AheadOrders
<1>2. /\ IsFiniteSet(before) /\ Cardinality(before) \in Nat /\ Cardinality(before) <= offset
    BY PositionCount
<1>3. /\ IsFiniteSet(upto) /\ Cardinality(upto) \in Nat
      /\ upto # shown => Cardinality(upto) = offset + size
    BY PositionCount
<1>4. /\ IsFiniteSet(past) /\ Cardinality(past) \in Nat
      /\ past # shown => Cardinality(past) = offset + size + 1
    BY PositionCount
<1>5. before \subseteq past /\ upto \subseteq past /\ past \subseteq shown /\ entries = past \ before
    BY <1>1
<1> HIDE DEF before, upto, past
<1>6. IsFiniteSet(entries) /\ Cardinality(entries) = Cardinality(past) - Cardinality(before)
  <2>1. Cardinality(past \ before) = Cardinality(past) - Cardinality(past \cap before)
      BY <1>4, FS_Difference
  <2>2. past \cap before = before
      BY <1>5
  <2> QED BY <1>4, <1>5, <2>1, <2>2, FS_Subset
<1>7. upto = shown
  <2> SUFFICES ASSUME upto # shown PROVE FALSE
      OBVIOUS
  <2>1. Cardinality(upto) = offset + size
      BY <1>3
  <2>2. Cardinality(past) > offset + size
    <3>1. CASE past # shown
        BY <1>4, <3>1
    <3>2. CASE past = shown
        BY <1>3, <1>4, <1>5, <2>1, <3>2, FS_Subset
    <3> QED BY <3>1, <3>2
  <2> QED BY <1>2, <1>4, <1>6, <2>2
<1> QED BY <1>7 DEF upto

\* The rows and who appears are all a ranking depends on.
LEMMA SameRanking ==
    ASSUME UNCHANGED <<rows, shown>>
    PROVE  \A u, from : Rank(u, from)' = Rank(u, from) /\ Position(u, from)' = Position(u, from)
<1> SUFFICES ASSUME NEW u, NEW from
             PROVE Rank(u, from)' = Rank(u, from) /\ Position(u, from)' = Position(u, from)
    OBVIOUS
<1>1. \A v, f : Ledger(v, f)' = Ledger(v, f)
    BY DEF Ledger
<1>2. \A v, f : XP(v, f)' = XP(v, f) /\ ReachedAt(v, f)' = ReachedAt(v, f)
  <2> SUFFICES ASSUME NEW v, NEW f
               PROVE XP(v, f)' = XP(v, f) /\ ReachedAt(v, f)' = ReachedAt(v, f)
      OBVIOUS
  <2>1. Ledger(v, f)' = Ledger(v, f)
      BY <1>1
  <2>2. XP(v, f)' = XP(v, f)
      BY <2>1 DEF XP
  <2>3. ReachedAt(v, f)' = ReachedAt(v, f)
      BY <2>1 DEF ReachedAt
  <2> QED BY <2>2, <2>3
<1>3. \A v, w, f : Ahead(v, w, f)' <=> Ahead(v, w, f)
    BY <1>2 DEF Ahead
<1> QED BY <1>2, <1>3 DEF Rank, Position

LEMMA RankingSizeType == \A limit \in Limits : RankingSize(limit) \in Nat \ {0}
    BY PageAssumption DEF Limits, RankingSize

LEMMA FromType == \A window \in Windows \cup {0} : RowsOK => From(window) \in Int
    BY PageAssumption DEF From, RowsOK

LEMMA RankingPaged ==
    ASSUME RowsOK, RankingInv, NEW window \in Windows \cup {0}, NEW limit \in Limits,
           RankingPage(window, limit)
    PROVE  RankingInv'
<1> DEFINE first == reader.screen = "none"
           from == From(window)
           offset == IF first THEN 0 ELSE reader.offset
           size == RankingSize(limit)
           next == NextOffset(offset, size)
           entries == {u \in shown : Position(u, from) \in offset + 1 .. offset + size + 1}
           page == {u \in entries : Position(u, from) <= offset + size}
           listing == {[user |-> u, rank |-> Rank(u, from)] : u \in page}
           more == Cardinality(entries) > size
           listed == IF first THEN listing ELSE reader.listed \cup listing
           twice == ~first /\ (reader.twice \/ \E entry \in reader.listed : entry.user \in page)
           read == [screen |-> "standing", window |-> window, from |-> from, offset |-> next,
                    more |-> more, listed |-> listed, twice |-> twice, me |-> {}]
           Listing(n) == {[user |-> u, rank |-> Rank(u, from)] :
                             u \in {w \in shown : Position(w, from) <= n}}
<1>1. /\ reader' = IF first \/ reader.from = from THEN read ELSE Closed
      /\ UNCHANGED <<rows, shown>> /\ reader.screen \in {"none", "ranking"}
    BY DEF RankingPage
<1>2. CASE ~(first \/ reader.from = from)
    BY <1>1, <1>2 DEF RankingInv, Closed, Reads
<1>3. CASE first \/ reader.from = from
  <2>1. from \in Int /\ size \in Nat \ {0} /\ offset \in Nat
      BY <1>1, <1>3, FromType, RankingSizeType DEF RankingInv, Reads
  <2>2. \A u \in shown : Position(u, from) \in Nat \ {0}
      BY AheadOrders
  <2>3. ~first => ~reader.twice /\ reader.listed = Listing(offset)
      BY <1>1, <1>3 DEF RankingInv, Reads
  <2> HIDE DEF from, size, offset
  <2>4. next = offset + size /\ next \in Nat
      BY <2>1 DEF NextOffset
  <2>5. page = {u \in shown : Position(u, from) <= next /\ ~(Position(u, from) <= offset)}
      BY <2>1, <2>2, <2>4
  <2>6. listed = Listing(next)
    <3>1. CASE first
      <4>1. \A u \in shown : ~(Position(u, from) <= offset)
          BY <2>2, <3>1 DEF offset
      <4> QED BY <2>5, <3>1, <4>1
    <3>2. CASE ~first
      <4>1. \A u \in shown : Position(u, from) <= offset => Position(u, from) <= next
          BY <2>1, <2>2, <2>4
      <4> HIDE DEF next, page
      <4> QED BY <2>3, <2>5, <3>2, <4>1
    <3> QED BY <3>1, <3>2
  <2>7. ~twice
    <3>1. \A entry \in Listing(offset) : Position(entry.user, from) <= offset
        OBVIOUS
    <3> QED BY <2>3, <2>5, <3>1
  <2>8. ~more => \A u \in shown : Position(u, from) <= next
      BY <2>1, <2>4, LastPage
  <2>9. reader' = read
      BY <1>1, <1>3
  <2>10. \A u, f : Rank(u, f)' = Rank(u, f) /\ Position(u, f)' = Position(u, f)
      BY <1>1, SameRanking
  <2>11. /\ reader'.screen = "standing" /\ reader'.from = from /\ reader'.offset = next
         /\ reader'.more = more /\ reader'.listed = listed /\ reader'.twice = twice
         /\ {"screen", "me"} \subseteq DOMAIN reader'
      BY <2>9
  <2> HIDE DEF next, listed, twice, more, read
  <2> QED BY <1>1, <2>1, <2>4, <2>6, <2>7, <2>8, <2>10, <2>11 DEF RankingInv
<1> QED BY <1>2, <1>3

\* A ranking left alone keeps its invariant, and one that is disturbed is left.
LEMMA RankingUndisturbed ==
    ASSUME RankingInv, UNCHANGED <<rows, shown, reader>>
    PROVE  RankingInv'
<1>1. \A u, f : Rank(u, f)' = Rank(u, f) /\ Position(u, f)' = Position(u, f)
    BY SameRanking
<1>2. Standing' = Standing
    BY <1>1 DEF Standing
<1> QED BY <1>1, <1>2 DEF RankingInv

LEMMA RankingDisturbed ==
    ASSUME reader'.screen \notin Reads
    PROVE  RankingInv'
BY DEF RankingInv

LEMMA StandingRead == ASSUME RankingInv, ReadStanding PROVE RankingInv'
<1>1. /\ reader' = [reader EXCEPT !.screen = IF reader.more THEN "ranking" ELSE "ranked",
                                  !.me = Standing]
      /\ reader.screen = "standing" /\ UNCHANGED <<rows, shown>>
    BY DEF ReadStanding
<1>2. {"screen", "me"} \subseteq DOMAIN reader
    BY <1>1 DEF RankingInv, Reads
<1>3. /\ reader'.screen = IF reader.more THEN "ranking" ELSE "ranked"
      /\ reader'.me = Standing /\ reader'.from = reader.from
      /\ reader'.offset = reader.offset /\ reader'.twice = reader.twice
      /\ reader'.listed = reader.listed /\ reader'.more = reader.more
      /\ DOMAIN reader' = DOMAIN reader
    BY <1>1, <1>2
<1>4. \A u, f : Rank(u, f)' = Rank(u, f) /\ Position(u, f)' = Position(u, f)
    BY <1>1, SameRanking
<1>5. Standing' = Standing
    BY <1>1, <1>3, <1>4 DEF Standing
<1> QED BY <1>1, <1>2, <1>3, <1>4, <1>5 DEF RankingInv, Reads

LEMMA RankingKept == RowsOK /\ RankingInv /\ [Next]_vars => RankingInv'
<1> SUFFICES ASSUME RowsOK, RankingInv, [Next]_vars PROVE RankingInv'
    OBVIOUS
<1>1. ASSUME NEW user, NEW kind, NEW at, NEW id, File(user, kind, at, id) PROVE RankingInv'
  <2>1. reader' = Closed \/ reader' = Disturb(reader)
      BY <1>1 DEF File
  <2> QED BY <2>1, RankingDisturbed DEF Disturb, Closed, Reads
<1>2. ASSUME NEW user, Show(user) PROVE RankingInv'
    BY <1>2, RankingDisturbed DEF Show, Disturb, Closed, Reads
<1>3. ASSUME NEW z, MoveTo(z) PROVE RankingInv'
    BY <1>3, RankingUndisturbed DEF MoveTo
<1>4. CASE Tick \/ UNCHANGED vars
    BY <1>4, RankingUndisturbed DEF Tick, vars
<1>5. ASSUME NEW limit, HistoryPage(limit) PROVE RankingInv'
  <2>1. reader'.screen \in {"history", "read"}
      BY <1>5 DEF HistoryPage
  <2> QED BY <2>1, RankingDisturbed DEF Reads
<1>6. CASE Close
    BY <1>6, RankingDisturbed DEF Close, Closed, Reads
<1>7. CASE \E view \in Views, z \in Zones : AskYear(view, z)
    BY <1>7, YearStays, RankingDisturbed DEF Reads
<1>8. CASE ReadSquares \/ ReadFigures
    BY <1>8, YearStays, RankingDisturbed DEF Reads
<1> QED BY <1>1, <1>2, <1>3, <1>4, <1>5, <1>6, <1>7, <1>8, RankingPaged, StandingRead DEF Next

LEMMA RankingAlways == Spec => []RankingInv
<1>1. Init => RankingInv
    BY DEF Init, RankingInv, Closed, Reads
<1> QED BY <1>1, RankingKept, RowsAlways, PTL DEF Spec

\* What a ranking has listed when no page follows.
LEMMA RankedLists ==
    ASSUME RankingInv, reader.screen = "ranked"
    PROVE  /\ reader.listed = {[user |-> u, rank |-> Rank(u, reader.from)] : u \in shown}
           /\ \A entry \in reader.listed :
                 entry.user \in shown /\ entry.rank = Rank(entry.user, reader.from)
           /\ \A u \in shown : \E entry \in reader.listed :
                 entry.user = u /\ entry.rank = Rank(u, reader.from)
           /\ ~reader.twice /\ reader.me = Standing
<1>1. \A u \in shown : Position(u, reader.from) <= reader.offset
    BY DEF RankingInv, Reads
<1>2. {w \in shown : Position(w, reader.from) <= reader.offset} = shown
    BY <1>1
<1>3. /\ reader.listed = {[user |-> u, rank |-> Rank(u, reader.from)] : u \in shown}
      /\ ~reader.twice /\ reader.me = Standing
    BY <1>2 DEF RankingInv, Reads
<1>4. ASSUME NEW u \in shown
      PROVE \E entry \in reader.listed : entry.user = u /\ entry.rank = Rank(u, reader.from)
  <2> DEFINE entry == [user |-> u, rank |-> Rank(u, reader.from)]
  <2>1. entry \in reader.listed /\ entry.user = u /\ entry.rank = Rank(u, reader.from)
      BY <1>3
  <2> QED BY <2>1
<1> QED BY <1>3, <1>4

\* Paging through a ranking that nothing disturbs lists everyone who appears, once,
\* for every page size, also when page sizes change on the way.
THEOREM RankingWhole == Spec => []RankingIsWhole
<1>1. ASSUME RankingInv, reader.screen = "ranked"
      PROVE ~reader.twice /\ {entry.user : entry \in reader.listed} = shown
  <2>1. /\ ~reader.twice /\ \A entry \in reader.listed : entry.user \in shown
        /\ \A u \in shown : \E entry \in reader.listed : entry.user = u
      BY <1>1, RankedLists
  <2>2. \A u : (\E entry \in reader.listed : u = entry.user) <=> u \in shown
      BY <2>1
  <2> QED BY <2>1, <2>2
<1>2. RankingInv => RankingIsWhole
    BY <1>1 DEF RankingIsWhole
<1> QED BY <1>2, RankingAlways, PTL

\* A rank counts the greater earnings among those of who appears.
Greater(V) == {p \in V \X V : p[1] > p[2]}

LEMMA RankCounts ==
    ASSUME RowsOK, NEW from
    PROVE  LET V == {XP(o, from) : o \in shown} IN
           /\ IsFiniteSet(V) /\ V \subseteq Int /\ Orders(Greater(V), V)
           /\ \A u \in shown : Rank(u, from) = 1 + Cardinality(Preceding(Greater(V), V, XP(u, from)))
<1> DEFINE V == {XP(o, from) : o \in shown}
           earned == [o \in shown |-> XP(o, from)]
<1>1. IsFiniteSet(shown) /\ \A o \in shown : XP(o, from) \in Int
    BY AheadOrders, LedgerType
<1>2. IsFiniteSet(V)
  <2>1. V = {earned[o] : o \in shown}
      OBVIOUS
  <2>2. earned \in [shown -> V]
      OBVIOUS
  <2>3. earned \in Surjection(shown, V)
      BY <2>1, <2>2 DEF Surjection
  <2> QED BY <1>1, <2>3, FS_Surjection
<1>3. V \subseteq Int
    BY <1>1
<1>4. \A x, y \in V : <<x, y>> \in Greater(V) <=> x > y
    BY DEF Greater
<1>5. Orders(Greater(V), V)
  <2> HIDE DEF V
  <2> QED BY <1>3, <1>4 DEF Orders
<1>6. ASSUME NEW u \in shown
      PROVE Rank(u, from) = 1 + Cardinality(Preceding(Greater(V), V, XP(u, from)))
  <2>1. {XP(other, from) : other \in {o \in shown : XP(o, from) > XP(u, from)}}
            = Preceding(Greater(V), V, XP(u, from))
      BY <1>4, <1>6 DEF Preceding
  <2> QED BY <2>1 DEF Rank
<1> QED BY <1>2, <1>3, <1>5, <1>6

\* Ranks follow the earnings and have no gap, and the standing of who looks is the
\* one the list gives.
THEOREM RanksAgreeAlways == Spec => []RanksAgree
<1>1. ASSUME RowsOK, RankingInv, reader.screen = "ranked"
      PROVE /\ \A a, b \in reader.listed :
                  a.rank < b.rank <=> XP(a.user, reader.from) > XP(b.user, reader.from)
            /\ LET ranks == {entry.rank : entry \in reader.listed} IN
                  ranks = 1 .. Cardinality(ranks)
            /\ reader.me = {entry \in reader.listed : entry.user = Me}
  <2> DEFINE from == reader.from
             V == {XP(o, from) : o \in shown}
             N(x) == Cardinality(Preceding(Greater(V), V, x))
             ranks == {entry.rank : entry \in reader.listed}
  <2>1. /\ reader.listed = {[user |-> u, rank |-> Rank(u, from)] : u \in shown}
        /\ \A entry \in reader.listed : entry.user \in shown /\ entry.rank = Rank(entry.user, from)
        /\ \A u \in shown : \E entry \in reader.listed :
              entry.user = u /\ entry.rank = Rank(u, from)
        /\ reader.me = Standing
      BY <1>1, RankedLists
  <2>2. IsFiniteSet(V) /\ V \subseteq Int /\ Orders(Greater(V), V)
        /\ \A u \in shown : Rank(u, from) = 1 + N(XP(u, from))
      BY <1>1, RankCounts
  <2>3. \A u \in shown : XP(u, from) \in V
      OBVIOUS
  <2>4. \A x, y \in V : /\ N(x) \in Nat /\ N(y) \in Nat
                        /\ x > y => N(x) < N(y)
    <3> HIDE DEF V
    <3>1. \A x \in V : N(x) \in Nat
        BY <2>2, FS_Subset, FS_CardinalityType DEF Preceding
    <3>2. ASSUME NEW x \in V, NEW y \in V, x > y PROVE N(x) < N(y)
      <4>1. <<x, y>> \in Greater(V)
          BY <3>2 DEF Greater
      <4> QED BY <2>2, <4>1, PrecedingGrows
    <3> QED BY <3>1, <3>2
  <2>5. ASSUME NEW u \in shown, NEW v \in shown
        PROVE Rank(u, from) < Rank(v, from) <=> XP(u, from) > XP(v, from)
    <3> DEFINE x == XP(u, from)
               y == XP(v, from)
    <3>1. x \in V /\ y \in V /\ x \in Int /\ y \in Int
        BY <2>2, <2>3
    <3>2. N(x) \in Nat /\ N(y) \in Nat /\ (x > y => N(x) < N(y)) /\ (y > x => N(y) < N(x))
        BY <2>4, <3>1
    <3>3. Rank(u, from) = 1 + N(x) /\ Rank(v, from) = 1 + N(y)
        BY <2>2
    <3> HIDE DEF N, x, y
    <3>4. x = y \/ x > y \/ y > x
        BY <3>1
    <3>5. x = y => N(x) = N(y)
        OBVIOUS
    <3>6. Rank(u, from) < Rank(v, from) <=> x > y
        BY <3>1, <3>2, <3>3, <3>4, <3>5
    <3> QED BY <3>6 DEF x, y
  <2>6. ranks = 1 .. Cardinality(ranks)
    <3>1. ranks = {1 + N(x) : x \in V}
      <4>1. \A k : (\E entry \in reader.listed : k = entry.rank)
                      <=> \E u \in shown : k = Rank(u, from)
          BY <2>1
      <4>2. \A k : (\E u \in shown : k = Rank(u, from)) <=> \E x \in V : k = 1 + N(x)
        <5> HIDE DEF N
        <5> QED BY <2>2
      <4> HIDE DEF N, V
      <4> QED BY <4>1, <4>2
    <3>2. {1 + N(x) : x \in V} = 1 .. Cardinality(V) /\ Cardinality(V) \in Nat
      <4> HIDE DEF V
      <4> QED BY <2>2, Numbering, FS_CardinalityType
    <3>3. Cardinality(1 .. Cardinality(V)) = Cardinality(V)
        BY <3>2, FS_Interval
    <3> HIDE DEF ranks, V, N
    <3> QED BY <3>1, <3>2, <3>3
  <2>7. reader.me = {entry \in reader.listed : entry.user = Me}
      BY <2>1 DEF Standing
  <2> HIDE DEF from
  <2>8. \A a, b \in reader.listed : a.rank < b.rank <=> XP(a.user, from) > XP(b.user, from)
      BY <2>1, <2>5
  <2> QED BY <2>6, <2>7, <2>8 DEF from
<1>2. RowsOK /\ RankingInv => RanksAgree
    BY <1>1 DEF RanksAgree
<1> QED BY <1>2, RowsAlways, RankingAlways, PTL

-----------------------------------------------------------------------------
(* Heatmap and figures.                                                     *)

\* A later moment is not on an earlier day.
LEMMA DayGrows ==
    ASSUME NEW y \in Zones, NEW z \in Zones, NEW s \in Int, NEW t \in Int, s + y <= t + z
    PROVE  LocalDate(y, s) <= LocalDate(z, t)
<1>1. y \in Int /\ z \in Int /\ DayLength \in Nat /\ DayLength > 0
    BY ZonesAssumption, PageAssumption
<1>2. \A a, b \in Int, n \in Nat : n > 0 /\ a <= b => a \div n <= b \div n
    OBVIOUS
<1> QED BY <1>1, <1>2 DEF LocalDate

\* What the account has done was filed in a timezone it has had, and not under a day
\* to come there.
DaysInv == \A row \in Own : \E p \in had : row.day <= LocalDate(p, now)

LEMMA DaysKept == RowsOK /\ DaysInv /\ [Next]_vars => DaysInv'
<1> SUFFICES ASSUME RowsOK, DaysInv, [Next]_vars PROVE DaysInv'
    OBVIOUS
<1>0. /\ zone \in had /\ had \subseteq Zones /\ now \in Int
      /\ \A p \in had : p \in Int /\ LocalDate(p, now) \in Int
      /\ \A row \in Own : row.day \in Int
    BY ZonesAssumption, DayType, OwnPlaces DEF RowsOK, RowType
<1>1. ASSUME NEW user \in Users, NEW kind \in Events \cup Entries, NEW at \in 0 .. MaxTime,
             NEW id \in 1 .. MaxRows, File(user, kind, at, id)
      PROVE DaysInv'
  <2>1. at \in Int /\ at <= now /\ UNCHANGED <<now, had>>
      BY <1>1, BoundsAssumption DEF File
  <2>2. LocalDate(zone, at) <= LocalDate(zone, now)
      BY <1>0, <2>1, DayGrows
  <2>3. \A row \in Own' : row \in Own \/ row.day = LocalDate(zone, at)
      BY <1>1 DEF File, Own, Filed
  <2> QED BY <1>0, <2>1, <2>2, <2>3 DEF DaysInv, LocalDate
<1>2. ASSUME Own' = Own, had \subseteq had', now' = now \/ now' = now + 1 PROVE DaysInv'
  <2>1. \A p \in had : LocalDate(p, now) <= LocalDate(p, now') /\ LocalDate(p, now') \in Int
      BY <1>0, <1>2, DayGrows, DayType
  <2> HIDE DEF LocalDate
  <2> QED BY <1>0, <1>2, <2>1 DEF DaysInv
<1>3. rows' = rows => Own' = Own
    BY DEF Own
<1>4. CASE Tick
    BY <1>2, <1>3, <1>4 DEF Tick
<1>5. ASSUME NEW z \in Zones, MoveTo(z) PROVE DaysInv'
    BY <1>2, <1>3, <1>5 DEF MoveTo
<1>6. ASSUME UNCHANGED <<now, rows, had>> PROVE DaysInv'
    BY <1>2, <1>3, <1>6
<1> QED BY <1>1, <1>4, <1>5, <1>6
    DEF Next, Show, HistoryPage, AskYear, ReadSquares, ReadFigures, RankingPage, ReadStanding,
        Close, vars

\* The squares are those of the rows there are, up to the day their request read,
\* and no row has a later one unless they are behind; the figures count from theirs.
SquaresOK ==
    \/ reader.today["heatmap"] = {} /\ reader.squares = << >>
    \/ \E first \in Int :
          /\ reader.today["heatmap"] = {first}
          /\ reader.squares \in {<< >>, [day \in Squares(first) |-> Recorded(day)]}
          /\ reader.behind \/ \A row \in Counted : row.day <= first
FiguresOK ==
    \/ reader.today["stats"] = {} /\ reader.figures = {}
    \/ \E second \in Int :
          /\ reader.today["stats"] = {second}
          /\ reader.figures \in {{}, {StatsTotal(second)}}

YearFields == {"screen", "today", "squares", "figures", "behind"}
YearInv ==
    reader.screen = "year" =>
        /\ DOMAIN reader = YearFields /\ reader = [x \in YearFields |-> reader[x]]
        /\ DOMAIN reader.today = Views /\ reader.today = [v \in Views |-> reader.today[v]]
        /\ SquaresOK /\ FiguresOK

LEMMA CountedSame ==
    ASSUME Counted' = Counted
    PROVE  \A day : Recorded(day)' = Recorded(day) /\ StatsTotal(day)' = StatsTotal(day)
    BY DEF Recorded, StatsTotal

LEMMA YearLeft == ASSUME reader'.screen # "year" PROVE YearInv'
    BY DEF YearInv

LEMMA YearUntouched == ASSUME YearInv, reader' = reader, Counted' = Counted PROVE YearInv'
<1>1. \A day : Recorded(day)' = Recorded(day) /\ StatsTotal(day)' = StatsTotal(day)
    BY CountedSame
<1>2. SquaresOK => SquaresOK'
    BY <1>1 DEF SquaresOK
<1>3. FiguresOK => FiguresOK'
    BY <1>1 DEF FiguresOK
<1> QED BY <1>2, <1>3 DEF YearInv

\* A request reads what the preferences are or have been, and then the clock.
LEMMA YearAsked ==
    ASSUME RowsOK, DaysInv, YearInv, NEW view \in Views, NEW z \in Zones, AskYear(view, z)
    PROVE  YearInv'
<1> DEFINE none == [screen |-> "year", today |-> [v \in Views |-> {}],
                    squares |-> << >>, figures |-> {}, behind |-> FALSE]
           read == IF reader.screen = "year" THEN reader ELSE none
           day == LocalDate(z, now)
           behind == read.behind \/ (view = "heatmap" /\ \E p \in had : z < p)
<1>1. /\ reader' = [read EXCEPT !.today[view] = {day}, !.behind = behind]
      /\ read.today[view] = {} /\ Counted' = Counted /\ z \in had
    BY DEF AskYear, Counted, Own
<1>2. /\ DOMAIN read = YearFields /\ read.screen = "year"
      /\ DOMAIN read.today = Views
    BY DEF YearInv, YearFields
<1>3. /\ \/ read.today["heatmap"] = {} /\ read.squares = << >>
         \/ \E first \in Int :
              /\ read.today["heatmap"] = {first}
              /\ read.squares \in {<< >>, [d \in Squares(first) |-> Recorded(d)]}
              /\ read.behind \/ \A row \in Counted : row.day <= first
      /\ \/ read.today["stats"] = {} /\ read.figures = {}
         \/ \E second \in Int :
              /\ read.today["stats"] = {second}
              /\ read.figures \in {{}, {StatsTotal(second)}}
  <2>1. CASE reader.screen = "year"
      BY <2>1 DEF YearInv, SquaresOK, FiguresOK
  <2>2. CASE reader.screen # "year"
      BY <2>2 DEF Views
  <2> QED BY <2>1, <2>2
<1> HIDE DEF read, behind
<1>4. /\ reader'.today = [read.today EXCEPT ![view] = {day}]
      /\ reader'.squares = read.squares /\ reader'.figures = read.figures
      /\ reader'.behind = behind /\ DOMAIN reader' = YearFields
      /\ reader' = [x \in YearFields |-> reader'[x]]
    BY <1>1, <1>2 DEF YearFields
<1>5. /\ reader'.today[view] = {day} /\ DOMAIN reader'.today = Views
      /\ \A v \in Views \ {view} : reader'.today[v] = read.today[v]
      /\ reader'.today = [v \in Views |-> reader'.today[v]]
    BY <1>2, <1>4
<1>6. day \in Int
    BY DayType DEF RowsOK
<1>7. \A d : Recorded(d)' = Recorded(d) /\ StatsTotal(d)' = StatsTotal(d)
    BY <1>1, CountedSame
<1>8. view = "heatmap" => behind \/ \A row \in Counted : row.day <= day
  <2> SUFFICES ASSUME view = "heatmap", ~behind, NEW row \in Counted PROVE row.day <= day
      OBVIOUS
  <2>1. \A p \in had : ~(z < p)
      BY DEF behind
  <2>2. row \in Own /\ row.day \in Int
      BY OwnPlaces DEF Counted, RowsOK, RowType
  <2>3. PICK p \in had : row.day <= LocalDate(p, now)
      BY <2>2 DEF DaysInv
  <2>4. p \in Int /\ z \in Int /\ now \in Int /\ p \in Zones
      BY ZonesAssumption DEF RowsOK
  <2>5. now + p <= now + z
      BY <2>1, <2>4
  <2>6. LocalDate(p, now) <= day /\ LocalDate(p, now) \in Int
      BY <2>4, <2>5, DayGrows, DayType
  <2> HIDE DEF day
  <2> QED BY <1>6, <2>2, <2>3, <2>6
<1> HIDE DEF day
<1>9. SquaresOK'
  <2>1. CASE view = "heatmap"
    <3>1. reader'.squares = << >>
        BY <1>1, <1>3, <1>4, <2>1
    <3> QED BY <1>1, <1>4, <1>5, <1>6, <1>8, <2>1, <3>1 DEF SquaresOK
  <2>2. CASE view = "stats"
    <3>1. reader'.today["heatmap"] = read.today["heatmap"] /\ (read.behind => behind)
        BY <1>5, <2>2 DEF Views, behind
    <3> QED BY <1>1, <1>3, <1>4, <1>7, <3>1 DEF SquaresOK
  <2> QED BY <2>1, <2>2 DEF Views
<1>10. FiguresOK'
  <2>1. CASE view = "stats"
    <3>1. reader'.figures = {}
        BY <1>1, <1>3, <1>4, <2>1
    <3> QED BY <1>5, <1>6, <2>1, <3>1 DEF FiguresOK
  <2>2. CASE view = "heatmap"
    <3>1. reader'.today["stats"] = read.today["stats"]
        BY <1>5, <2>2 DEF Views
    <3> QED BY <1>3, <1>4, <1>7, <3>1 DEF FiguresOK
  <2> QED BY <2>1, <2>2 DEF Views
<1> QED BY <1>4, <1>5, <1>9, <1>10 DEF YearInv

LEMMA YearRead == ASSUME YearInv, ReadSquares \/ ReadFigures PROVE YearInv'
<1>1. reader.screen = "year" /\ Counted' = Counted
    BY DEF ReadSquares, ReadFigures, Counted, Own
<1>2. \A d : Recorded(d)' = Recorded(d) /\ StatsTotal(d)' = StatsTotal(d)
    BY <1>1, CountedSame
<1>3. CASE ReadSquares
  <2>1. PICK today \in reader.today["heatmap"] :
            reader' = [reader EXCEPT !.squares = [day \in Squares(today) |-> Recorded(day)]]
      BY <1>3 DEF ReadSquares
  <2>2. /\ reader'.today = reader.today /\ reader'.figures = reader.figures
        /\ reader'.behind = reader.behind /\ DOMAIN reader' = YearFields
        /\ reader'.squares = [day \in Squares(today) |-> Recorded(day)]
        /\ reader' = [x \in YearFields |-> reader'[x]]
      BY <1>1, <2>1 DEF YearInv, YearFields
  <2>3. SquaresOK'
      BY <1>1, <1>2, <2>1, <2>2 DEF YearInv, SquaresOK
  <2>4. FiguresOK'
      BY <1>1, <1>2, <2>2 DEF YearInv, FiguresOK
  <2> QED BY <1>1, <2>2, <2>3, <2>4 DEF YearInv
<1>4. CASE ReadFigures
  <2>1. PICK today \in reader.today["stats"] :
            reader' = [reader EXCEPT !.figures = {StatsTotal(today)}]
      BY <1>4 DEF ReadFigures
  <2>2. /\ reader'.today = reader.today /\ reader'.squares = reader.squares
        /\ reader'.behind = reader.behind /\ DOMAIN reader' = YearFields
        /\ reader'.figures = {StatsTotal(today)}
        /\ reader' = [x \in YearFields |-> reader'[x]]
      BY <1>1, <2>1 DEF YearInv, YearFields
  <2>3. SquaresOK'
      BY <1>1, <1>2, <2>2 DEF YearInv, SquaresOK
  <2>4. FiguresOK'
      BY <1>1, <1>2, <2>1, <2>2 DEF YearInv, FiguresOK
  <2> QED BY <1>1, <2>2, <2>3, <2>4 DEF YearInv
<1> QED BY <1>3, <1>4

LEMMA YearKept == RowsOK /\ DaysInv /\ YearInv /\ [Next]_vars => YearInv'
<1> SUFFICES ASSUME RowsOK, DaysInv, YearInv, [Next]_vars PROVE YearInv'
    OBVIOUS
<1>1. rows' = rows => Counted' = Counted
    BY DEF Counted, Own
<1>2. Disturb(reader) = reader \/ Disturb(reader).screen = "none"
    BY DEF Disturb, Closed
<1>3. ASSUME NEW user, NEW kind, NEW at, NEW id, File(user, kind, at, id) PROVE YearInv'
  <2>1. CASE reader' = Closed
      BY <2>1, YearLeft DEF Closed
  <2>2. CASE reader' # Closed
    <3>1. reader' = Disturb(reader) /\ ~(reader.screen = "year" /\ Counts(user, kind))
        BY <1>3, <2>2 DEF File
    <3>2. CASE reader.screen = "year"
      <4>1. Counted' = Counted
          BY <1>3, <3>1, <3>2 DEF File, Counted, Own, Filed, Counts
      <4>2. reader' = reader
          BY <3>1, <3>2 DEF Disturb
      <4> QED BY <4>1, <4>2, YearUntouched
    <3>3. CASE reader.screen # "year"
        BY <1>2, <3>1, <3>3, YearLeft DEF Reads
    <3> QED BY <3>2, <3>3
  <2> QED BY <2>1, <2>2
<1>4. ASSUME NEW user, Show(user) PROVE YearInv'
    BY <1>1, <1>2, <1>4, YearLeft, YearUntouched DEF Show, Reads
<1>5. ASSUME NEW z, MoveTo(z) PROVE YearInv'
    BY <1>1, <1>5, YearUntouched DEF MoveTo
<1>6. CASE Tick \/ UNCHANGED vars
    BY <1>1, <1>6, YearUntouched DEF Tick, vars
<1>7. ASSUME NEW limit, HistoryPage(limit) PROVE YearInv'
  <2>1. reader'.screen \in {"history", "read"}
      BY <1>7 DEF HistoryPage
  <2> QED BY <2>1, YearLeft
<1>8. ASSUME NEW window, NEW limit, RankingPage(window, limit) PROVE YearInv'
  <2>1. reader'.screen \in {"none", "standing"}
      BY <1>8 DEF RankingPage, Closed
  <2> QED BY <2>1, YearLeft
<1>9. CASE ReadStanding
  <2>1. reader'.screen # "year"
      BY <1>9 DEF ReadStanding
  <2> QED BY <2>1, YearLeft
<1>10. CASE Close
    BY <1>10, YearLeft DEF Close, Closed
<1> QED BY <1>3, <1>4, <1>5, <1>6, <1>7, <1>8, <1>9, <1>10, YearAsked, YearRead DEF Next

\* A sum of squares is the sum of the counts they hold.
LEMMA SquaresTotal ==
    ASSUME NEW from
    PROVE  LET S == {day \in DOMAIN reader.squares : day >= from}
           IN  HeatmapTotal(from) = Total(reader.squares, S)
    BY DEF HeatmapTotal, Total, Square

\* What the heatmap and the figures above it hold agrees, whatever clock and timezone
\* each of the two requests read: the figures hold all that the squares hold, and
\* exactly that unless the squares begin later or were asked for in a timezone west
\* of one the account has had; then nothing it did is filed past the last square.
THEOREM FiguresMatch == Spec => []FiguresAgree
<1>1. Init => DaysInv /\ YearInv
    BY DEF Init, DaysInv, Own, YearInv, Closed
<1>2. ASSUME RowsOK, YearInv, reader.screen = "year", NEW first \in reader.today["heatmap"],
             NEW second \in reader.today["stats"], NEW n \in reader.figures,
             reader.squares # << >>
      PROVE  /\ HeatmapTotal(FirstDay(second)) <= n
             /\ reader.behind \/ first > second \/ HeatmapTotal(FirstDay(second)) = n
  <2> DEFINE key == [row \in Counted |-> row.day]
             from == FirstDay(second)
             D == {day \in Squares(first) : day >= from}
             C(day) == {row \in Counted : key[row] = day}
             inSquares == {row \in Counted : key[row] \in D}
             inFigures == {row \in Counted : row.day >= from}
  <2>1. /\ first \in Int /\ second \in Int /\ n = Cardinality(inFigures)
        /\ reader.squares = [day \in Squares(first) |-> Recorded(day)]
        /\ reader.behind \/ \A row \in Counted : row.day <= first
      BY <1>2 DEF YearInv, SquaresOK, FiguresOK, StatsTotal
  <2>2. IsFiniteSet(Counted) /\ \A row \in Counted : row.day \in Int
      BY <1>2, OwnPlaces, FS_Subset DEF Counted, RowsOK, RowType
  <2>3. HeatmapDays \in Int /\ from \in Int /\ FirstDay(first) \in Int
      BY <2>1, PageAssumption DEF FirstDay
  <2>4. IsFiniteSet(D)
      BY <2>1, <2>3, FS_Interval, FS_Subset DEF Squares
  <2>5. HeatmapTotal(from) = Cardinality(inSquares)
    <3>1. {day \in DOMAIN reader.squares : day >= from} = D
        BY <2>1
    <3>2. HeatmapTotal(from) = Total(reader.squares, D)
        BY <3>1, SquaresTotal
    <3>3. \A day \in D : reader.squares[day] = [d \in D |-> Cardinality(C(d))][day]
      <4>1. \A day \in D : {row \in Counted : row.day = day} = C(day)
          OBVIOUS
      <4> QED BY <2>1, <4>1 DEF Recorded
    <3> HIDE DEF key, D
    <3>4. Total(reader.squares, D) = Total([d \in D |-> Cardinality(C(d))], D)
      <4> DEFINE counts == [d \in D |-> Cardinality(C(d))]
      <4>1. \A day \in D : reader.squares[day] = counts[day]
          BY <3>3
      <4> HIDE DEF counts
      <4>2. Total(reader.squares, D) = Total(counts, D)
          BY <2>4, <4>1, TotalAgrees
      <4> QED BY <4>2 DEF counts
    <3>5. Total([d \in D |-> Cardinality(C(d))], D) = Cardinality(inSquares)
        BY <2>2, <2>4, CountByKey
    <3> QED BY <3>2, <3>4, <3>5
  <2>6. inSquares \subseteq inFigures /\ IsFiniteSet(inFigures)
      BY <2>2, FS_Subset
  <2>7. Cardinality(inSquares) <= Cardinality(inFigures)
      BY <2>6, FS_Subset
  <2>8. ASSUME ~reader.behind, ~(first > second) PROVE inSquares = inFigures
    <3>1. FirstDay(first) <= from
        BY <2>1, <2>3, <2>8 DEF FirstDay
    <3>2. \A row \in Counted : row.day >= from => row.day \in D
        BY <2>1, <2>2, <2>3, <2>8, <3>1 DEF Squares
    <3> QED BY <3>2
  <2> HIDE DEF inSquares, inFigures
  <2> QED BY <2>1, <2>5, <2>7, <2>8
<1>3. RowsOK /\ YearInv => FiguresAgree
    BY <1>2 DEF FiguresAgree
<1> QED BY <1>1, <1>3, DaysKept, YearKept, RowsAlways, PTL DEF Spec
=============================================================================
