---------------------------- MODULE ColumnProofs ----------------------------
(* What holds of the order of tasks for any tasks, gap and ceiling.        *)
EXTENDS Column, FiniteSetTheorems, TLAPS

USE TasksAssumption, QuadrantsAssumption, GapAssumption

-----------------------------------------------------------------------------
(* The order of a scope.                                                    *)

\* Positions as rows hold them.
Scopes == UNION {[S -> Nat \ {0}] : S \in SUBSET Tasks}

LEMMA ScopeType ==
    ASSUME NEW p \in Scopes
    PROVE  /\ DOMAIN p \subseteq Tasks /\ IsFiniteSet(DOMAIN p)
           /\ \A x \in DOMAIN p : p[x] \in Nat \ {0} /\ x \in Nat
<1>1. PICK S \in SUBSET Tasks : p \in [S -> Nat \ {0}]
    BY DEF Scopes
<1>2. DOMAIN p = S /\ \A x \in S : p[x] \in Nat \ {0}
    BY <1>1
<1>3. \A x \in S : x \in Nat
    OBVIOUS
<1> QED BY <1>2, <1>3, FS_Subset

LEMMA TotalOrder ==
    ASSUME NEW p \in Scopes, NEW x \in DOMAIN p, NEW y \in DOMAIN p
    PROVE  /\ ~(Precedes(p, x, y) /\ Precedes(p, y, x))
           /\ x # y => Precedes(p, x, y) \/ Precedes(p, y, x)
           /\ \A z \in DOMAIN p : Precedes(p, x, y) /\ Precedes(p, y, z) => Precedes(p, x, z)
BY ScopeType DEF Precedes

\* Whoever comes after a follower is one.
UpClosed(p, followers) ==
    /\ followers \subseteq DOMAIN p
    /\ \A x \in followers, y \in DOMAIN p : Precedes(p, x, y) => y \in followers

LEMMA FollowersUpClosed ==
    ASSUME NEW p \in Scopes, NEW wish \in Wishes(DOMAIN p)
    PROVE  UpClosed(p, Followers(p, wish))
<1>1. wish.side = "last" => Followers(p, wish) = {}
    BY DEF Followers
<1>2. wish.side # "last" => wish.of \in DOMAIN p
    BY DEF Wishes, Last
<1>3. ASSUME wish.of \in DOMAIN p, NEW x \in Followers(p, wish), NEW y \in DOMAIN p,
             Precedes(p, x, y)
      PROVE  y \in Followers(p, wish)
    <2>1. x \in DOMAIN p /\ wish.side # "last"
        BY <1>3 DEF Followers
    <2>2. Precedes(p, wish.of, x) \/ x = wish.of
        BY <1>3 DEF Followers
    <2>3. Precedes(p, wish.of, y)
        BY <1>3, <2>1, <2>2, TotalOrder
    <2> QED BY <2>1, <2>3 DEF Followers
<1>4. Followers(p, wish) \subseteq DOMAIN p
    BY DEF Followers
<1> QED BY <1>1, <1>2, <1>3, <1>4 DEF UpClosed

\* Everyone of the one side precedes everyone of the other.
LEMMA SidesApart ==
    ASSUME NEW p \in Scopes, NEW followers, UpClosed(p, followers),
           NEW x \in DOMAIN p \ followers, NEW y \in followers
    PROVE  Precedes(p, x, y)
<1>1. y \in DOMAIN p /\ x # y
    BY DEF UpClosed
<1>2. ~Precedes(p, y, x)
    BY <1>1 DEF UpClosed
<1> QED BY <1>1, <1>2, TotalOrder

-----------------------------------------------------------------------------
(* A renumbering.                                                           *)

LEMMA Spread ==
    ASSUME NEW a \in Nat, NEW b \in Nat, a < b
    PROVE  a * Gap < b * Gap
<1>1. PICK k \in Nat : b = a + 1 + k
    <2>1. b - a - 1 \in Nat /\ b = a + 1 + (b - a - 1)
        OBVIOUS
    <2> QED BY <2>1
<1>2. b * Gap = a * Gap + Gap + k * Gap
    BY <1>1
<1>3. k * Gap \in Nat /\ a * Gap \in Nat
    OBVIOUS
<1> QED BY <1>2, <1>3

Before(p, t) == {x \in DOMAIN p : Precedes(p, x, t)}

\* How many come before a task grows along the order.
LEMMA BeforeGrows ==
    ASSUME NEW p \in Scopes, NEW x \in DOMAIN p, NEW y \in DOMAIN p, Precedes(p, x, y)
    PROVE  Cardinality(Before(p, x)) < Cardinality(Before(p, y))
<1>1. Before(p, x) \subseteq Before(p, y) \ {x}
    BY TotalOrder DEF Before
<1>2. IsFiniteSet(Before(p, y)) /\ x \in Before(p, y)
    BY ScopeType, FS_Subset DEF Before
<1>3. IsFiniteSet(Before(p, y) \ {x})
      /\ Cardinality(Before(p, y) \ {x}) = Cardinality(Before(p, y)) - 1
    BY <1>2, FS_RemoveElement
<1>4. Cardinality(Before(p, x)) <= Cardinality(Before(p, y) \ {x})
      /\ IsFiniteSet(Before(p, x))
    BY <1>1, <1>3, FS_Subset
<1>5. Cardinality(Before(p, x)) \in Nat /\ Cardinality(Before(p, y)) \in Nat
    BY <1>2, <1>4, FS_CardinalityType
<1> QED BY <1>3, <1>4, <1>5

\* The slots rise along the order, and leave the one after the leaders free.
LEMMA Slots ==
    ASSUME NEW p \in Scopes, NEW followers, UpClosed(p, followers)
    PROVE  LET own == Cardinality(DOMAIN p \ followers) + 1
           IN  /\ own \in 1 .. Cardinality(DOMAIN p) + 1
               /\ \A x \in DOMAIN p :
                     /\ Slot(p, followers, x) \in 1 .. Cardinality(DOMAIN p) + 1
                     /\ x \notin followers => Slot(p, followers, x) < own
                     /\ x \in followers => own < Slot(p, followers, x)
               /\ \A x, y \in DOMAIN p : Precedes(p, x, y) =>
                     Slot(p, followers, x) < Slot(p, followers, y)
<1> DEFINE S == DOMAIN p
<1> DEFINE leaders == S \ followers
<1>1. IsFiniteSet(S) /\ Cardinality(S) \in Nat
    BY ScopeType, FS_CardinalityType
<1>2. IsFiniteSet(leaders) /\ Cardinality(leaders) \in Nat
      /\ Cardinality(leaders) <= Cardinality(S)
    BY <1>1, FS_Subset, FS_CardinalityType
<1>3. ASSUME NEW x \in S
      PROVE  /\ IsFiniteSet(Before(p, x)) /\ Cardinality(Before(p, x)) \in Nat
             /\ Cardinality(Before(p, x)) <= Cardinality(S) - 1
    <2>1. Before(p, x) \subseteq S \ {x}
        BY <1>3, TotalOrder DEF Before
    <2>2. IsFiniteSet(S \ {x}) /\ Cardinality(S \ {x}) = Cardinality(S) - 1
        BY <1>1, <1>3, FS_RemoveElement
    <2>3. IsFiniteSet(Before(p, x)) /\ Cardinality(Before(p, x)) <= Cardinality(S \ {x})
        BY <2>1, <2>2, FS_Subset
    <2> QED BY <2>2, <2>3, FS_CardinalityType
<1>4. ASSUME NEW x \in leaders
      PROVE  Cardinality(Before(p, x)) < Cardinality(leaders)
    <2>1. Before(p, x) \subseteq leaders \ {x}
        BY <1>4, TotalOrder DEF Before, UpClosed
    <2>2. IsFiniteSet(leaders \ {x}) /\ Cardinality(leaders \ {x}) = Cardinality(leaders) - 1
        BY <1>2, <1>4, FS_RemoveElement
    <2>3. Cardinality(Before(p, x)) <= Cardinality(leaders \ {x})
        BY <2>1, <2>2, FS_Subset
    <2> QED BY <1>2, <1>3, <1>4, <2>2, <2>3
<1>5. ASSUME NEW x \in followers
      PROVE  Cardinality(leaders) <= Cardinality(Before(p, x))
    <2>1. x \in S
        BY <1>5 DEF UpClosed
    <2>2. leaders \subseteq Before(p, x)
        BY <1>5, SidesApart DEF Before
    <2> QED BY <1>3, <2>1, <2>2, FS_Subset
<1>6. \A x \in S : Slot(p, followers, x) =
                      Cardinality(Before(p, x)) + (IF x \in followers THEN 2 ELSE 1)
    BY DEF Slot, Before
<1>7. ASSUME NEW x \in S, NEW y \in S, Precedes(p, x, y)
      PROVE  Slot(p, followers, x) < Slot(p, followers, y)
    <2>1. Cardinality(Before(p, x)) < Cardinality(Before(p, y))
        BY <1>7, BeforeGrows
    <2>2. x \in followers => y \in followers
        BY <1>7 DEF UpClosed
    <2> QED BY <1>3, <1>6, <2>1, <2>2
<1>8. \A x \in S : Slot(p, followers, x) \in 1 .. Cardinality(S) + 1
    BY <1>1, <1>3, <1>6
<1>9. \A x \in S : /\ x \notin followers => Slot(p, followers, x) < Cardinality(leaders) + 1
                   /\ x \in followers => Cardinality(leaders) + 1 < Slot(p, followers, x)
    <2>1. ASSUME NEW x \in S, x \notin followers
          PROVE  Slot(p, followers, x) < Cardinality(leaders) + 1
        BY <1>2, <1>3, <1>4, <1>6, <2>1
    <2>2. ASSUME NEW x \in S, x \in followers
          PROVE  Cardinality(leaders) + 1 < Slot(p, followers, x)
        <3>1. /\ Cardinality(leaders) <= Cardinality(Before(p, x))
              /\ Cardinality(Before(p, x)) \in Nat
            BY <1>3, <1>5, <2>2
        <3>2. Slot(p, followers, x) = Cardinality(Before(p, x)) + 2
            BY <1>6, <2>2
        <3> QED BY <1>2, <3>1, <3>2
    <2> QED BY <2>1, <2>2
<1>10. Cardinality(leaders) + 1 \in 1 .. Cardinality(S) + 1
    BY <1>1, <1>2
<1> QED BY <1>7, <1>8, <1>9, <1>10

-----------------------------------------------------------------------------
(* What Place answers.                                                      *)

\* The scope after a placement: the position of the task placed, and of the others.
Spot(p, placed, t, x) ==
    IF x = t THEN placed.pos ELSE IF x \in DOMAIN placed.moved THEN placed.moved[x] ELSE p[x]

\* Between its neighbours, which stay in their order; wherever positions were equal
\* or adjacent before, or had climbed too high.
THEOREM PlaceCorrect ==
    ASSUME NEW p \in Scopes, NEW followers, UpClosed(p, followers),
           NEW t \in Tasks \ DOMAIN p, NEW placed \in Place(p, followers),
           NEW q, \A x \in DOMAIN p \cup {t} : q[x] = Spot(p, placed, t, x)
    PROVE  /\ \A x \in DOMAIN p : Precedes(q, t, x) <=> x \in followers
           /\ \A x, y \in DOMAIN p : Precedes(q, x, y) <=> Precedes(p, x, y)
<1> DEFINE S == DOMAIN p
<1> DEFINE leaders == S \ followers
<1>1. PICK lower \in Lower(p, leaders) : \E upper \in Upper(p, followers, lower) :
         placed = Placement(p, followers, lower, upper)
    BY DEF Place
<1>2. PICK upper \in Upper(p, followers, lower) :
         placed = Placement(p, followers, lower, upper)
    BY <1>1
<1>3. /\ \A x \in S : p[x] \in Nat \ {0} /\ x \in Nat
      /\ t \in Nat /\ t \notin S /\ followers \subseteq S
    BY ScopeType DEF UpClosed
<1>4. lower \in Nat /\ \A x \in leaders : p[x] <= lower
    BY <1>3 DEF Lower
<1>5. upper \in Nat /\ \A x \in followers : upper <= p[x]
    BY <1>3, <1>4 DEF Upper
<1>6. q[t] = placed.pos /\ \A x \in S : q[x] = Spot(p, placed, t, x)
    BY <1>3 DEF Spot
<1>7. CASE Crowded(lower, upper)
    <2>1. /\ placed.pos = (Cardinality(leaders) + 1) * Gap
          /\ placed.moved = Rebalanced(p, followers)
        BY <1>2, <1>7 DEF Placement
    <2>2. \A x \in S : q[x] = Slot(p, followers, x) * Gap
        BY <1>3, <1>6, <2>1 DEF Spot, Rebalanced
    <2>3. IsFiniteSet(S) /\ Cardinality(S) \in Nat
        BY ScopeType, FS_CardinalityType
    <2>4. /\ Cardinality(leaders) + 1 \in Nat
          /\ \A x \in S : /\ Slot(p, followers, x) \in Nat
                          /\ x \notin followers => Slot(p, followers, x) < Cardinality(leaders) + 1
                          /\ x \in followers => Cardinality(leaders) + 1 < Slot(p, followers, x)
          /\ \A x, y \in S : Precedes(p, x, y) => Slot(p, followers, x) < Slot(p, followers, y)
        <3>1. /\ Cardinality(leaders) + 1 \in 1 .. Cardinality(S) + 1
              /\ \A x \in S :
                    /\ Slot(p, followers, x) \in 1 .. Cardinality(S) + 1
                    /\ x \notin followers => Slot(p, followers, x) < Cardinality(leaders) + 1
                    /\ x \in followers => Cardinality(leaders) + 1 < Slot(p, followers, x)
              /\ \A x, y \in S : Precedes(p, x, y) => Slot(p, followers, x) < Slot(p, followers, y)
            BY Slots, Zenon
        <3>2. \A n \in 1 .. Cardinality(S) + 1 : n \in Nat
            BY <2>3
        <3> QED BY <3>1, <3>2, Zenon
    <2>5. \A x \in S : q[x] \in Nat /\ q[t] \in Nat
        BY <1>6, <2>1, <2>2, <2>4
    <2>6. \A x \in S : /\ x \notin followers => q[x] < q[t]
                       /\ x \in followers => q[t] < q[x]
        BY <1>6, <2>1, <2>2, <2>4, Spread
    <2>7. \A x, y \in S : Precedes(p, x, y) => q[x] < q[y]
        BY <2>2, <2>4, Spread
    <2>8. \A x \in S : Precedes(q, t, x) <=> x \in followers
        BY <2>5, <2>6 DEF Precedes
    <2>9. ASSUME NEW x \in S, NEW y \in S
          PROVE  Precedes(q, x, y) <=> Precedes(p, x, y)
        <3>1. CASE Precedes(p, x, y)
            BY <2>7, <3>1 DEF Precedes
        <3>2. CASE Precedes(p, y, x)
            BY <1>3, <2>5, <2>7, <3>2, TotalOrder DEF Precedes
        <3>3. CASE x = y
            BY <1>3, <2>5, <3>3 DEF Precedes
        <3> QED BY <3>1, <3>2, <3>3, TotalOrder
    <2> QED BY <2>8, <2>9
<1>8. CASE ~Crowded(lower, upper)
    <2>1. placed.pos = lower + (upper - lower) \div 2 /\ placed.moved = NoMove
        BY <1>2, <1>8 DEF Placement
    <2>2. \A x \in S : q[x] = p[x]
        BY <1>3, <1>6, <2>1 DEF Spot, NoMove
    <2>3. lower < q[t] /\ q[t] < upper /\ q[t] \in Nat
        BY <1>4, <1>5, <1>6, <1>8, <2>1 DEF Crowded
    <2>4. \A x \in S : /\ x \notin followers => q[x] < q[t]
                       /\ x \in followers => q[t] < q[x]
        BY <1>3, <1>4, <1>5, <2>2, <2>3
    <2>5. \A x \in S : Precedes(q, t, x) <=> x \in followers
        BY <1>3, <2>2, <2>3, <2>4 DEF Precedes
    <2>6. \A x, y \in S : Precedes(q, x, y) <=> Precedes(p, x, y)
        BY <2>2 DEF Precedes
    <2> QED BY <2>5, <2>6
<1> QED BY <1>7, <1>8

-----------------------------------------------------------------------------
(* The bound.                                                               *)

Bound == 1 .. Highest
Bounded == UNION {[S -> Bound] : S \in SUBSET Tasks}

LEMMA HighestType ==
    /\ Highest \in Nat /\ Ceiling <= Highest
    /\ \A n \in Nat : n <= Cardinality(Tasks) => n * Gap <= Highest
<1>1. Cardinality(Tasks) \in Nat
    BY FS_CardinalityType
<1>2. Cardinality(Tasks) * Gap \in Nat
    BY <1>1
<1>3. Highest \in Nat /\ Ceiling <= Highest /\ Cardinality(Tasks) * Gap <= Highest
    BY <1>2 DEF Highest
<1>4. ASSUME NEW n \in Nat, n <= Cardinality(Tasks)
      PROVE  n * Gap <= Highest
    <2>1. n * Gap \in Nat
        OBVIOUS
    <2>2. n * Gap <= Cardinality(Tasks) * Gap
        BY <1>1, <1>2, <1>4, <2>1, Spread
    <2> QED BY <1>2, <1>3, <2>1, <2>2
<1> QED BY <1>3, <1>4

LEMMA BoundedType ==
    ASSUME NEW p \in Bounded
    PROVE  /\ p \in Scopes /\ DOMAIN p \subseteq Tasks
           /\ \A x \in DOMAIN p : p[x] \in Bound
<1>1. PICK S \in SUBSET Tasks : p \in [S -> Bound]
    BY DEF Bounded
<1>2. p \in [S -> Nat \ {0}]
    BY <1>1, HighestType DEF Bound
<1> QED BY <1>1, <1>2 DEF Scopes

\* No answer of Place is above the ceiling, or above what a renumbering of all the
\* tasks there are would take.
LEMMA PlaceBounded ==
    ASSUME NEW p \in Bounded, NEW followers, UpClosed(p, followers),
           NEW t \in Tasks \ DOMAIN p, NEW placed \in Place(p, followers)
    PROVE  /\ placed.pos \in Bound
           /\ DOMAIN placed.moved \subseteq DOMAIN p
           /\ \A x \in DOMAIN placed.moved : placed.moved[x] \in Bound
<1> DEFINE S == DOMAIN p
<1> DEFINE leaders == S \ followers
<1>1. PICK lower \in Lower(p, leaders) : \E upper \in Upper(p, followers, lower) :
         placed = Placement(p, followers, lower, upper)
    BY DEF Place
<1>2. PICK upper \in Upper(p, followers, lower) :
         placed = Placement(p, followers, lower, upper)
    BY <1>1
<1>3. /\ p \in Scopes /\ S \subseteq Tasks /\ followers \subseteq S
      /\ \A x \in S : p[x] \in Bound /\ p[x] \in Nat
    BY BoundedType DEF UpClosed, Bound
<1>4. lower \in Nat
    BY <1>3 DEF Lower
<1>5. upper \in Nat
    BY <1>3, <1>4 DEF Upper
<1>6. IsFiniteSet(S) /\ Cardinality(S) \in Nat /\ Cardinality(S) + 1 <= Cardinality(Tasks)
    <2>1. IsFiniteSet(Tasks \ {t}) /\ Cardinality(Tasks \ {t}) = Cardinality(Tasks) - 1
        BY FS_RemoveElement
    <2>2. S \subseteq Tasks \ {t}
        BY <1>3
    <2>3. IsFiniteSet(S) /\ Cardinality(S) <= Cardinality(Tasks \ {t})
        BY <2>1, <2>2, FS_Subset
    <2> QED BY <2>1, <2>3, FS_CardinalityType
<1>7. CASE Crowded(lower, upper)
    <2>1. /\ placed.pos = (Cardinality(leaders) + 1) * Gap
          /\ placed.moved = Rebalanced(p, followers)
        BY <1>2, <1>7 DEF Placement
    <2>2. /\ Cardinality(leaders) + 1 \in 1 .. Cardinality(S) + 1
          /\ \A x \in S : Slot(p, followers, x) \in 1 .. Cardinality(S) + 1
        BY <1>3, Slots, Zenon
    <2>3. ASSUME NEW n \in 1 .. Cardinality(S) + 1
          PROVE  n * Gap \in Bound
        <3>1. n \in Nat \ {0} /\ n <= Cardinality(Tasks)
            BY <1>6, FS_CardinalityType
        <3>2. n * Gap \in Nat \ {0}
            BY <3>1, Spread
        <3> QED BY <3>1, <3>2, HighestType DEF Bound
    <2>4. placed.pos \in Bound
        BY <2>1, <2>2, <2>3
    <2>5. DOMAIN placed.moved = S /\ \A x \in S : placed.moved[x] = Slot(p, followers, x) * Gap
        BY <2>1 DEF Rebalanced
    <2> QED BY <2>2, <2>3, <2>4, <2>5
<1>8. CASE ~Crowded(lower, upper)
    <2>1. placed.pos = lower + (upper - lower) \div 2 /\ placed.moved = NoMove
        BY <1>2, <1>8 DEF Placement
    <2>2. placed.pos \in Nat \ {0} /\ placed.pos < upper /\ upper <= Ceiling
        BY <1>4, <1>5, <1>8, <2>1 DEF Crowded
    <2> QED BY <1>5, <2>1, <2>2, HighestType DEF Bound, NoMove
<1> QED BY <1>7, <1>8

-----------------------------------------------------------------------------
(* The invariant: whatever a request holds on to is as bounded as the rows. *)

Homes == Quadrants \cup Tasks \cup {Nobody}
RowType == [life : {"none", "live", "gone"}, pos : Nat, home : Homes]
LiveRows == {row \in RowType : row.life = "live" /\ row.pos \in Bound}
Copies == UNION {[S -> LiveRows] : S \in SUBSET Tasks}

OpType == [pc : {"idle", "place", "create", "update", "complete"},
           task : Tasks \cup {Nobody}, home : Homes, read : Bounded,
           after : SUBSET Tasks, back : Copies]

RowsInv == rows \in [Tasks -> RowType] /\ \A t \in Tasks : Live(t) => rows[t].pos \in Bound

OpInv ==
    /\ op \in [Requests -> OpType]
    /\ \A r \in Requests :
          /\ op[r].after \subseteq DOMAIN op[r].read
          /\ op[r].pc \in {"place", "create"} =>
                op[r].task \in Tasks \ DOMAIN op[r].read /\ UpClosed(op[r].read, op[r].after)

Inv == RowsInv /\ OpInv

\* What a step of Next can be, with its parameters.
LEMMA NextCases ==
    ASSUME NEW P, Next,
           \A r \in Requests, t \in Tasks : MoveTask(r, t) => P,
           \A r \in Requests, t \in Tasks : Promote(r, t) => P,
           \A r \in Requests, t \in Tasks : CreateTask(r, t) => P,
           \A r \in Requests, t \in Tasks : UpdateTask(r, t) => P,
           \A r \in Requests, t \in Tasks : CompleteTask(r, t) => P,
           \A r \in Requests : FinishPlacing(r) => P,
           \A r \in Requests : WriteBack(r) => P,
           \A r \in Requests : Rollback(r) => P,
           \A t \in Tasks : DeleteTask(t) => P
    PROVE  P
BY Zenon DEF Next

LEMMA NoOpType ==
    /\ NoOp \in OpType /\ NoOp.pc = "idle" /\ NoOp.after = {} /\ DOMAIN NoOp.read = {}
    /\ NoOp.back \in Copies /\ NoOp.read \in Bounded
<1>1. NoMove \in [{} -> Bound] /\ DOMAIN NoMove = {}
    BY DEF NoMove
<1>2. NoMove \in Bounded
    BY <1>1 DEF Bounded
<1>3. [t \in {} |-> NoRow] \in [{} -> LiveRows]
    OBVIOUS
<1>4. [t \in {} |-> NoRow] \in Copies
    BY <1>3 DEF Copies
<1> QED BY <1>1, <1>2, <1>4 DEF NoOp, OpType, Homes

LEMMA ScopeBounded ==
    ASSUME RowsInv, NEW home, NEW t
    PROVE  /\ Positions(Scope(home) \ {t}) \in Bounded
           /\ DOMAIN Positions(Scope(home) \ {t}) = Scope(home) \ {t}
           /\ Scope(home) \subseteq Tasks
<1>1. Scope(home) \subseteq Tasks /\ \A x \in Scope(home) : rows[x].pos \in Bound
    BY DEF RowsInv, Scope
<1>2. Positions(Scope(home) \ {t}) \in [Scope(home) \ {t} -> Bound]
    BY <1>1 DEF Positions
<1> QED BY <1>1, <1>2 DEF Bounded

LEMMA BeginPlacingInv ==
    ASSUME Inv, NEW r \in Requests, NEW pc \in {"place", "create"}, NEW t \in Tasks,
           NEW home \in Homes, NEW wish \in Wishes(Scope(home) \ {t}),
           BeginPlacing(r, pc, t, home, wish)
    PROVE  OpInv'
<1> DEFINE read == Positions(Scope(home) \ {t})
<1> DEFINE rec == [NoOp EXCEPT !.pc = pc, !.task = t, !.home = home,
                               !.read = read, !.after = Followers(read, wish)]
<1>1. read \in Bounded /\ DOMAIN read = Scope(home) \ {t}
    BY ScopeBounded DEF Inv
<1>2. read \in Scopes
    BY <1>1, BoundedType
<1>3. UpClosed(read, Followers(read, wish))
    BY <1>1, <1>2, FollowersUpClosed
<1>4. Followers(read, wish) \subseteq DOMAIN read /\ Followers(read, wish) \subseteq Tasks
    BY <1>1, <1>3, BoundedType DEF UpClosed
<1> HIDE DEF read
<1>5. /\ rec \in OpType /\ rec.after = Followers(read, wish) /\ rec.read = read
      /\ rec.pc = pc /\ rec.task = t
    BY <1>1, <1>4, NoOpType DEF OpType, Homes
<1>6. op' = [op EXCEPT ![r] = rec]
    BY DEF BeginPlacing, read
<1>7. t \in Tasks \ DOMAIN read
    BY <1>1
<1> HIDE DEF rec
<1> QED BY <1>3, <1>4, <1>5, <1>6, <1>7 DEF Inv, OpInv

\* A request that ends, or holds copies of rows that are live.
LEMMA HeldInv ==
    ASSUME Inv, NEW r \in Requests, NEW rec \in OpType, rec.pc \notin {"place", "create"},
           rec.after = {}, op' = [op EXCEPT ![r] = rec]
    PROVE  OpInv'
BY DEF Inv, OpInv

LEMMA EndInv ==
    ASSUME Inv, NEW r \in Requests, op' = [op EXCEPT ![r] = NoOp]
    PROVE  OpInv'
BY HeldInv, NoOpType

LEMMA CopyInv ==
    ASSUME Inv, NEW r \in Requests, NEW S \in SUBSET Tasks, \A x \in S : Live(x),
           NEW pc \in {"update", "complete"}, NEW t \in Tasks,
           op' = [op EXCEPT ![r] =
                    [NoOp EXCEPT !.pc = pc, !.task = t, !.back = [x \in S |-> rows[x]]]]
    PROVE  OpInv'
<1> DEFINE copy == [x \in S |-> rows[x]]
<1> DEFINE rec == [NoOp EXCEPT !.pc = pc, !.task = t, !.back = copy]
<1>1. \A x \in S : rows[x] \in LiveRows
    BY DEF Inv, RowsInv, Live, LiveRows
<1>2. copy \in [S -> LiveRows]
    BY <1>1
<1>3. copy \in Copies
    BY <1>2 DEF Copies
<1> HIDE DEF copy
<1>4. rec \in OpType /\ rec.pc = pc /\ rec.after = {}
    BY <1>3, NoOpType DEF OpType
<1>5. op' = [op EXCEPT ![r] = rec]
    BY DEF copy
<1> HIDE DEF rec
<1> QED BY <1>4, <1>5, HeldInv

\* The rows as a placement leaves them.
LEMMA SettledInv ==
    ASSUME Inv, NEW r \in Requests, op[r].pc \in {"place", "create"},
           NEW placed \in Place(op[r].read, op[r].after), rows' = Settled(r, placed)
    PROVE  RowsInv'
<1> DEFINE moved == Reposition(r, placed)
<1>1. op[r] \in OpType
    BY DEF Inv, OpInv
<1>2. /\ op[r].read \in Bounded /\ op[r].task \in Tasks \ DOMAIN op[r].read
      /\ UpClosed(op[r].read, op[r].after) /\ op[r].home \in Homes
    BY <1>1 DEF Inv, OpInv, OpType
<1>3. /\ placed.pos \in Bound
      /\ \A x \in DOMAIN placed.moved : placed.moved[x] \in Bound
    BY <1>2, PlaceBounded
<1>4. \A x \in DOMAIN moved : moved[x] \in Bound
    BY <1>3 DEF Reposition, NoMove
<1>5. Bound \subseteq Nat
    BY HighestType DEF Bound
<1> HIDE DEF moved
<1>6. rows' = [t \in Tasks |->
            IF t = op[r].task
            THEN [life |-> "live", home |-> op[r].home, pos |-> placed.pos]
            ELSE IF t \in DOMAIN moved /\ Live(t)
                 THEN [rows[t] EXCEPT !.pos = moved[t]]
                 ELSE rows[t]]
    BY DEF Settled, moved
<1>7. ASSUME NEW t \in Tasks
      PROVE  rows'[t] \in RowType /\ (rows'[t].life = "live" => rows'[t].pos \in Bound)
    <2>1. rows[t] \in RowType /\ (rows[t].life = "live" => rows[t].pos \in Bound)
        BY DEF Inv, RowsInv, Live
    <2>2. CASE t = op[r].task
        BY <1>2, <1>3, <1>5, <1>6, <2>2 DEF RowType
    <2>3. CASE t # op[r].task /\ t \in DOMAIN moved /\ Live(t)
        BY <1>4, <1>5, <1>6, <2>1, <2>3 DEF RowType
    <2>4. CASE t # op[r].task /\ ~(t \in DOMAIN moved /\ Live(t))
        BY <1>6, <2>1, <2>4
    <2> QED BY <2>2, <2>3, <2>4
<1>8. rows' \in [Tasks -> RowType]
    BY <1>6, <1>7
<1> QED BY <1>7, <1>8 DEF RowsInv, Live

LEMMA InitInv == Init => Inv
BY NoOpType DEF Init, Inv, RowsInv, OpInv, RowType, NoRow, Homes, Live

LEMMA NextInv == Inv /\ [Next]_vars => Inv'
<1> SUFFICES ASSUME Inv, [Next]_vars PROVE Inv'
    OBVIOUS
<1>1. CASE Next
    <2>1. ASSUME UNCHANGED rows PROVE RowsInv'
        BY <2>1 DEF Inv, RowsInv, Live
    <2>2. ASSUME NEW r \in Requests, NEW t \in Tasks, MoveTask(r, t) PROVE Inv'
        <3>1. PICK home \in Quadrants \cup ({rows[t].home} \cap Tasks) :
                 \E wish \in Wishes(Scope(home) \ {t}) : BeginPlacing(r, "place", t, home, wish)
            BY <2>2 DEF MoveTask
        <3>2. home \in Homes
            BY DEF Homes
        <3> QED BY <2>1, <2>2, <3>1, <3>2, BeginPlacingInv DEF MoveTask, Inv
    <2>3. ASSUME NEW r \in Requests, NEW t \in Tasks, Promote(r, t) PROVE Inv'
        <3>1. PICK home \in Quadrants : BeginPlacing(r, "place", t, home, Last)
            BY <2>3 DEF Promote
        <3>2. home \in Homes /\ Last \in Wishes(Scope(home) \ {t})
            BY DEF Homes, Wishes
        <3> QED BY <2>1, <2>3, <3>1, <3>2, BeginPlacingInv DEF Promote, Inv
    <2>4. ASSUME NEW r \in Requests, NEW t \in Tasks, CreateTask(r, t) PROVE Inv'
        <3>1. PICK home \in Quadrants \cup {p \in Tasks : Regular(p)} :
                 BeginPlacing(r, "create", t, home, Last)
            BY <2>4 DEF CreateTask
        <3>2. home \in Homes /\ Last \in Wishes(Scope(home) \ {t})
            BY DEF Homes, Wishes
        <3> QED BY <2>1, <2>4, <3>1, <3>2, BeginPlacingInv DEF CreateTask, Inv
    <2>5. ASSUME NEW r \in Requests, NEW t \in Tasks, UpdateTask(r, t) PROVE Inv'
        <3>1. /\ {t} \in SUBSET Tasks /\ \A x \in {t} : Live(x)
              /\ op' = [op EXCEPT ![r] = [NoOp EXCEPT !.pc = "update", !.task = t,
                                              !.back = [x \in {t} |-> rows[x]]]]
            BY <2>5 DEF UpdateTask
        <3>2. OpInv'
            BY <3>1, CopyInv
        <3> QED BY <2>1, <2>5, <3>2 DEF UpdateTask, Inv
    <2>6. ASSUME NEW r \in Requests, NEW t \in Tasks, CompleteTask(r, t) PROVE Inv'
        <3>1. PICK open \in SUBSET Scope(t) \ {{}} :
                 op' = [op EXCEPT ![r] = [NoOp EXCEPT !.pc = "complete", !.task = t,
                                              !.back = [x \in open |-> rows[x]]]]
            BY <2>6 DEF CompleteTask
        <3>2. open \in SUBSET Tasks /\ \A x \in open : Live(x)
            BY DEF Scope
        <3>3. OpInv'
            BY <3>1, <3>2, CopyInv
        <3> QED BY <2>1, <2>6, <3>3 DEF CompleteTask, Inv
    <2>7. ASSUME NEW r \in Requests, FinishPlacing(r) PROVE Inv'
        <3>1. RowsInv'
            BY <2>7, SettledInv DEF FinishPlacing
        <3>2. OpInv'
            BY <2>7, EndInv DEF FinishPlacing
        <3> QED BY <3>1, <3>2 DEF Inv
    <2>8. ASSUME NEW r \in Requests, WriteBack(r) PROVE Inv'
        <3>1. op[r].back \in Copies
            BY DEF Inv, OpInv, OpType
        <3>2. \A x \in DOMAIN op[r].back : op[r].back[x] \in LiveRows
            BY <3>1 DEF Copies
        <3>3. RowsInv'
            BY <2>8, <3>2 DEF WriteBack, Inv, RowsInv, Live, LiveRows
        <3>4. OpInv'
            BY <2>8, EndInv DEF WriteBack
        <3> QED BY <3>3, <3>4 DEF Inv
    <2>9. ASSUME NEW r \in Requests, Rollback(r) PROVE Inv'
        BY <2>1, <2>9, EndInv DEF Rollback, Inv
    <2>10. ASSUME NEW t \in Tasks, DeleteTask(t) PROVE Inv'
        <3>1. RowsInv'
            BY <2>10 DEF DeleteTask, Inv, RowsInv, RowType, Live
        <3>2. OpInv'
            BY <2>10 DEF DeleteTask, Inv, OpInv
        <3> QED BY <3>1, <3>2 DEF Inv
    <2> QED BY <1>1, <2>2, <2>3, <2>4, <2>5, <2>6, <2>7, <2>8, <2>9, <2>10, NextCases
<1>2. CASE UNCHANGED vars
    BY <1>2 DEF vars, Inv, RowsInv, OpInv, Live
<1> QED BY <1>1, <1>2

\* Rows and requests keep their types, whatever requests interleave.
THEOREM ColumnTypeCorrect == Spec => []TypeOK
<1>1. Inv => TypeOK
    <2> SUFFICES ASSUME Inv PROVE TypeOK
        OBVIOUS
    <2>1. rows \in [Tasks -> RowType] /\ DOMAIN op = Requests
        BY DEF Inv, RowsInv, OpInv
    <2>2. ASSUME NEW r \in Requests
          PROVE  /\ op[r].pc \in {"idle", "place", "create", "update", "complete"}
                 /\ op[r].after \subseteq DOMAIN op[r].read
                 /\ DOMAIN op[r].read \cup DOMAIN op[r].back \subseteq Tasks
        <3>1. op[r] \in OpType /\ op[r].after \subseteq DOMAIN op[r].read
            BY DEF Inv, OpInv
        <3>2. DOMAIN op[r].back \subseteq Tasks
            BY <3>1 DEF OpType, Copies
        <3> QED BY <3>1, <3>2, BoundedType DEF OpType
    <2> QED BY <2>1, <2>2 DEF TypeOK, RowType, Homes
<1> QED BY <1>1, InitInv, NextInv, PTL DEF Spec

\* No position leaves the range of the column, however many times tasks are added,
\* moved and renumbered, also by requests that act on an outdated scope.
THEOREM PositionsStayBounded == Spec => []PositionsBounded
<1>1. Inv => PositionsBounded
    BY DEF Inv, RowsInv, PositionsBounded, Bound
<1> QED BY <1>1, InitInv, NextInv, PTL DEF Spec

-----------------------------------------------------------------------------
(* Where a task lands.                                                      *)

\* Only the placement itself ends a placement and changes a row.
LEMMA PlacedBy ==
    ASSUME Inv, Next, NEW r \in Requests, Placed(r)
    PROVE  FinishPlacing(r)
<1>1. op[r].pc \in {"place", "create"} /\ op'[r].pc = "idle" /\ rows' # rows
    BY DEF Placed
<1>2. DOMAIN op = Requests
    BY DEF Inv, OpInv
<1>3. ASSUME NEW s \in Requests, FinishPlacing(s) PROVE FinishPlacing(r)
    BY <1>1, <1>2, <1>3 DEF FinishPlacing
<1>4. ASSUME NEW s \in Requests, WriteBack(s) PROVE FinishPlacing(r)
    BY <1>1, <1>2, <1>4 DEF WriteBack
<1>5. ASSUME NEW t \in Tasks, DeleteTask(t) PROVE FinishPlacing(r)
    BY <1>1, <1>5 DEF DeleteTask
<1>6. \A s \in Requests, t \in Tasks :
         /\ MoveTask(s, t) => FinishPlacing(r)
         /\ Promote(s, t) => FinishPlacing(r)
         /\ CreateTask(s, t) => FinishPlacing(r)
         /\ UpdateTask(s, t) => FinishPlacing(r)
         /\ CompleteTask(s, t) => FinishPlacing(r)
    BY <1>1 DEF MoveTask, Promote, CreateTask, UpdateTask, CompleteTask
<1>7. \A s \in Requests : Rollback(s) => FinishPlacing(r)
    BY <1>1 DEF Rollback
<1> QED BY <1>3, <1>4, <1>5, <1>6, <1>7, NextCases

\* A placement that was not overtaken leaves the scope as Place meant it.
LEMMA Landing ==
    ASSUME Inv, Next, NEW r \in Requests, Lands(r)
    PROVE  LET q == [x \in Tasks |-> rows'[x].pos]
           IN  /\ \A x \in DOMAIN op[r].read :
                     Precedes(q, op[r].task, x) <=> x \in op[r].after
               /\ \A x, y \in DOMAIN op[r].read :
                     Precedes(q, x, y) <=> Precedes(op[r].read, x, y)
<1> DEFINE t == op[r].task
<1> DEFINE p == op[r].read
<1> DEFINE q == [x \in Tasks |-> rows'[x].pos]
<1>1. FinishPlacing(r)
    BY PlacedBy DEF Lands
<1>2. PICK placed \in Place(p, op[r].after) : rows' = Settled(r, placed)
    BY <1>1 DEF FinishPlacing
<1>3. op[r] \in OpType
    BY DEF Inv, OpInv
<1>4. /\ p \in Bounded /\ t \in Tasks \ DOMAIN p /\ UpClosed(p, op[r].after)
    BY <1>3 DEF Inv, OpInv, OpType, Lands, Placed
<1>5. p \in Scopes /\ DOMAIN p \subseteq Tasks
    BY <1>4, BoundedType
<1>6. p = Positions(Scope(op[r].home) \ {t})
    BY DEF Lands, Overtaken
<1>7. \A x \in DOMAIN p : Live(x) /\ p[x] = rows[x].pos
    BY <1>6 DEF Positions, Scope
<1>8. Reposition(r, placed) = placed.moved
    BY DEF Lands, Reposition
<1>9. DOMAIN placed.moved \subseteq DOMAIN p
    BY <1>4, PlaceBounded
<1>10. q[t] = placed.pos
    BY <1>2, <1>4 DEF Settled
<1>11. ASSUME NEW x \in DOMAIN p
       PROVE  q[x] = Spot(p, placed, t, x)
    <2>1. x \in Tasks /\ x # t
        BY <1>4, <1>5
    <2>2. rows'[x] = IF x \in DOMAIN placed.moved /\ Live(x)
                     THEN [rows[x] EXCEPT !.pos = placed.moved[x]] ELSE rows[x]
        BY <1>2, <1>8, <2>1 DEF Settled
    <2>3. rows[x] \in RowType
        BY <2>1 DEF Inv, RowsInv
    <2> QED BY <1>7, <2>1, <2>2, <2>3 DEF Spot, RowType
<1>12. \A x \in DOMAIN p \cup {t} : q[x] = Spot(p, placed, t, x)
    BY <1>10, <1>11 DEF Spot
<1> HIDE DEF q, p, t
<1>13. /\ \A x \in DOMAIN p : Precedes(q, t, x) <=> x \in op[r].after
       /\ \A x, y \in DOMAIN p : Precedes(q, x, y) <=> Precedes(p, x, y)
    BY <1>2, <1>4, <1>5, <1>12, PlaceCorrect
<1> QED BY <1>13 DEF q, p, t

LEMMA NothingLandsIdle ==
    ASSUME UNCHANGED vars, NEW r \in Requests
    PROVE  ~Lands(r)
BY DEF vars, Lands, Placed

\* A task lands where its request asked.
THEOREM TasksLandAsAsked == Spec => LandsAsAsked
<1>1. Inv /\ [Next]_vars => [\A r \in Requests : Lands(r) =>
          LET t == op[r].task  q == [x \in Tasks |-> rows'[x].pos]
          IN  \A x \in DOMAIN op[r].read :
                 Precedes(q, t, x) <=> x \in op[r].after]_vars
    BY Landing, NothingLandsIdle
<1> QED BY <1>1, InitInv, NextInv, PTL DEF Spec, LandsAsAsked

\* Nobody else of the scope changes places.
THEOREM OrderIsKept == Spec => OthersKeepTheirOrder
<1>1. Inv /\ [Next]_vars => [\A r \in Requests : Lands(r) =>
          LET q == [x \in Tasks |-> rows'[x].pos]
          IN  \A x, y \in DOMAIN op[r].read :
                 Precedes(q, x, y) <=> Precedes(op[r].read, x, y)]_vars
    BY Landing, NothingLandsIdle
<1> QED BY <1>1, InitInv, NextInv, PTL DEF Spec, OthersKeepTheirOrder

=============================================================================
