------------------------------- MODULE Column -------------------------------
(***************************************************************************)
(* The order of one account's tasks: the positions by which a quadrant's   *)
(* column, or the subtasks of one task, are sorted, and the requests that  *)
(* place a task among them.                                                *)
(*                                                                         *)
(* A request is one READ COMMITTED transaction, split where it acts on     *)
(* rows that no lock protects: the scope a placement reads, the rows an    *)
(* edit or a completion reads and writes back whole.  What follows such a  *)
(* read waits for the rows it writes and is one step, because nobody sees  *)
(* any of it before the commit.  Which tasks are completed is left to      *)
(* Board, with quotas and XP: completed ones keep their place here, and    *)
(* what a request refuses because of it may be refused or not.             *)
(***************************************************************************)
EXTENDS Naturals, FiniteSets

CONSTANTS
    Tasks,      \* the ids the account will ever have used, ordered as such
    Quadrants,  \* the quadrants, or some of them
    Requests,   \* transactions that can be open at once
    Gap,        \* PositionGap
    Ceiling     \* PositionCeiling

Nobody == 0     \* SQL NULL, for a task

ASSUME TasksAssumption == IsFiniteSet(Tasks) /\ Tasks \subseteq Nat \ {Nobody}
ASSUME QuadrantsAssumption == Quadrants \cap (Tasks \cup {Nobody}) = {}
ASSUME GapAssumption == Gap \in Nat \ {0} /\ Ceiling \in Nat

VARIABLES
    rows,  \* the tasks as committed
    op     \* the requests

vars == <<rows, op>>

(* -------------------------------- scopes ----------------------------- *)
\* A task is at home in a quadrant or under a parent.
NoRow == [life |-> "none", home |-> Nobody, pos |-> 0]

Live(t) == rows[t].life = "live"
IsSubtask(row) == row.home \in Tasks
Regular(t) == Live(t) /\ ~IsSubtask(rows[t])

\* The list a task is placed into: its position for each task of one home.
Scope(home) == {t \in Tasks : Live(t) /\ rows[t].home = home}
Positions(scope) == [t \in scope |-> rows[t].pos]

\* ORDER BY position, id.
Precedes(p, x, y) == p[x] < p[y] \/ (p[x] = p[y] /\ x < y)

(* ------------------------------ placement ---------------------------- *)
\* Where a client wants a task: next to a neighbour, or at the end.
Last == [side |-> "last", of |-> Nobody]
Wishes(scope) == {Last} \cup [side : {"before", "after"}, of : scope]

\* The tasks that come after the one placed.
Followers(p, wish) ==
    {t \in DOMAIN p : \/ wish.side # "last" /\ Precedes(p, wish.of, t)
                      \/ wish.side = "before" /\ t = wish.of}

\* What the neighbours leave: above the last of one side, below the first of
\* the other.  Both are sets of exactly one number.
Lower(p, leaders) ==
    {n \in {0} \cup {p[t] : t \in leaders} : \A t \in leaders : p[t] <= n}

Upper(p, followers, lower) ==
    IF followers = {} THEN {lower + 2 * Gap}
    ELSE {n \in {p[t] : t \in followers} : \A t \in followers : n <= p[t]}

\* Nothing fits between, or the scope has climbed as far as it may.
Crowded_OffByOne(lower, upper) == upper - lower < 1 \/ upper > Ceiling
Crowded_NoCeiling(lower, upper) == upper - lower < 2
Crowded(lower, upper) == upper - lower < 2 \/ upper > Ceiling

\* A fresh gap between every two, and one slot left free for the task placed.
Slot(p, followers, t) ==
    Cardinality({x \in DOMAIN p : Precedes(p, x, t)})
        + (IF t \in followers THEN 2 ELSE 1)

Rebalanced_LeadersOnly(p, followers) == [t \in DOMAIN p \ followers |-> Slot(p, followers, t) * Gap]
Rebalanced(p, followers) == [t \in DOMAIN p |-> Slot(p, followers, t) * Gap]

NoMove == [t \in {} |-> 0]

Placement(p, followers, lower, upper) ==
    IF Crowded(lower, upper)
    THEN [pos |-> (Cardinality(DOMAIN p \ followers) + 1) * Gap,
          moved |-> Rebalanced(p, followers)]
    ELSE [pos |-> lower + (upper - lower) \div 2, moved |-> NoMove]

\* The answer of Place, as a set of exactly one; a neighbour that is not in the
\* scope is refused before.
Place(p, followers) ==
    UNION {{Placement(p, followers, lower, upper) : upper \in Upper(p, followers, lower)} :
              lower \in Lower(p, DOMAIN p \ followers)}

(* ------------------------------ requests ----------------------------- *)
NoOp == [pc |-> "idle", task |-> Nobody, home |-> Nobody, read |-> NoMove,
         after |-> {}, back |-> [t \in {} |-> NoRow]]

\* The row a request read FOR UPDATE is its own until it ends.
Locked(t) == \E r \in Requests : op[r].pc \in {"place", "complete"} /\ op[r].task = t

\* An inserted subtask's foreign key, and every UPDATE, waits for the lock.
FreeFor(r, t) == \A s \in Requests \ {r} : ~(op[s].pc \in {"place", "complete"} /\ op[s].task = t)

\* tasks_enforce_one_level.
OneLevel(t, row) == IsSubtask(row) =>
    ~IsSubtask(rows[row.home]) /\ \A x \in Tasks : rows[x].home # t

BeginPlacing(r, pc, t, home, wish) ==
    LET read == Positions(Scope(home) \ {t})
    IN  op' = [op EXCEPT ![r] =
            [NoOp EXCEPT !.pc = pc, !.task = t, !.home = home,
                         !.read = read, !.after = Followers(read, wish)]]

\* Into any quadrant, or among the siblings under the parent it has.
MoveTask(r, t) ==
    /\ op[r].pc = "idle"
    /\ Live(t) /\ ~Locked(t)
    /\ \E home \in Quadrants \cup ({rows[t].home} \cap Tasks) :
          \E wish \in Wishes(Scope(home) \ {t}) : BeginPlacing(r, "place", t, home, wish)
    /\ UNCHANGED rows

\* Out of its parent to the end of a quadrant.
Promote(r, t) ==
    /\ op[r].pc = "idle"
    /\ Live(t) /\ IsSubtask(rows[t]) /\ ~Locked(t)
    /\ \E home \in Quadrants : BeginPlacing(r, "place", t, home, Last)
    /\ UNCHANGED rows

\* LockAccount lets one creation in.
CreateTask(r, t) ==
    /\ op[r].pc = "idle"
    /\ rows[t].life = "none"
    /\ \A s \in Requests : op[s].pc # "create"
    /\ \E home \in Quadrants \cup {p \in Tasks : Regular(p)} :
          BeginPlacing(r, "create", t, home, Last)
    /\ UNCHANGED rows

\* A quadrant's scope is written back as it was renumbered; a creation under a
\* parent keeps the position of the renumbering and writes none of it.
Reposition(r, placed) ==
    IF op[r].pc = "create" /\ op[r].home \in Tasks THEN NoMove ELSE placed.moved

\* By id, wherever the task is by now, as long as it was not deleted.
Settled(r, placed) ==
    LET moved == Reposition(r, placed)
    IN  [t \in Tasks |->
            IF t = op[r].task
            THEN [life |-> "live", home |-> op[r].home, pos |-> placed.pos]
            ELSE IF t \in DOMAIN moved /\ Live(t)
                 THEN [rows[t] EXCEPT !.pos = moved[t]]
                 ELSE rows[t]]

FinishPlacing(r) ==
    /\ op[r].pc \in {"place", "create"}
    /\ \E placed \in Place(op[r].read, op[r].after) :
          /\ \A t \in DOMAIN Reposition(r, placed) : FreeFor(r, t)
          /\ op[r].pc = "create" /\ op[r].home \in Tasks => FreeFor(r, op[r].home)
          /\ OneLevel(op[r].task, [NoRow EXCEPT !.home = op[r].home])
          /\ rows' = Settled(r, placed)
    /\ op' = [op EXCEPT ![r] = NoOp]

\* An edit reads its row without a lock.
UpdateTask(r, t) ==
    /\ op[r].pc = "idle"
    /\ Live(t)
    /\ op' = [op EXCEPT ![r] =
          [NoOp EXCEPT !.pc = "update", !.task = t, !.back = [x \in {t} |-> rows[x]]]]
    /\ UNCHANGED rows

\* A completion locks its row, and takes the open subtasks with it unlocked; one
\* without any, like a reopening, writes nothing that orders.
CompleteTask(r, t) ==
    /\ op[r].pc = "idle"
    /\ Live(t) /\ ~Locked(t)
    /\ \E open \in SUBSET Scope(t) \ {{}} :
          op' = [op EXCEPT ![r] = [NoOp EXCEPT !.pc = "complete", !.task = t,
                    !.back = [x \in open |-> rows[x]]]]
    /\ UNCHANGED rows

\* Every column of the rows goes back as it was read, the position too.
WriteBack(r) ==
    /\ op[r].pc \in {"update", "complete"}
    /\ \A t \in DOMAIN op[r].back : Live(t) /\ FreeFor(r, t) /\ OneLevel(t, op[r].back[t])
    /\ rows' = [t \in Tasks |->
                   IF t \in DOMAIN op[r].back THEN op[r].back[t] ELSE rows[t]]
    /\ op' = [op EXCEPT ![r] = NoOp]

\* Its completed subtasks go with it, an open one refuses.  Nobody reads the
\* position of a deleted row again: it is forgotten here.
DeleteTask(t) ==
    LET doomed == {t} \cup Scope(t)
    IN  /\ Live(t)
        /\ \A x \in doomed : ~Locked(x)
        /\ rows' = [x \in Tasks |->
                       IF x \in doomed THEN [rows[x] EXCEPT !.life = "gone", !.pos = 0] ELSE rows[x]]
        /\ UNCHANGED op

\* An unknown neighbour, a row that is gone, a deadlock, a caller that left.
Rollback(r) ==
    /\ op[r].pc # "idle"
    /\ op' = [op EXCEPT ![r] = NoOp]
    /\ UNCHANGED rows

Init ==
    /\ rows = [t \in Tasks |-> NoRow]
    /\ op = [r \in Requests |-> NoOp]

Next ==
    \/ \E r \in Requests :
          \/ \E t \in Tasks : MoveTask(r, t) \/ Promote(r, t) \/ CreateTask(r, t)
                                \/ UpdateTask(r, t) \/ CompleteTask(r, t)
          \/ FinishPlacing(r) \/ WriteBack(r) \/ Rollback(r)
    \/ \E t \in Tasks : DeleteTask(t)

Spec == Init /\ [][Next]_vars

(* ----------------------------- properties ---------------------------- *)
\* As high as a scope may climb, or be renumbered to.
Highest == IF Ceiling < Cardinality(Tasks) * Gap THEN Cardinality(Tasks) * Gap ELSE Ceiling

\* Every position is above zero and stays within what the column can hold, however
\* long the lists are added to and whatever numbers overtaken requests leave behind.
PositionsBounded ==
    \A t \in Tasks : Live(t) => rows[t].pos \in 1 .. Highest

\* A request whose scope is no longer the one it read.
Overtaken(r) == Positions(Scope(op[r].home) \ {op[r].task}) # op[r].read

\* A creation under a parent is left out: it gets a slot of a renumbering that
\* is not written, which the README describes.
Placed(r) ==
    op[r].pc \in {"place", "create"} /\ op'[r].pc = "idle" /\ rows' # rows

Lands(r) ==
    Placed(r) /\ ~(op[r].pc = "create" /\ op[r].home \in Tasks) /\ ~Overtaken(r)

\* A task lands where its request asked, next to the neighbour or at the end: also
\* in a scope where an earlier race left two tasks at one position, or no gap.
LandsAsAsked ==
    [][\A r \in Requests : Lands(r) =>
          LET t == op[r].task  q == [x \in Tasks |-> rows'[x].pos]
          IN  \A x \in DOMAIN op[r].read :
                 Precedes(q, t, x) <=> x \in op[r].after]_vars

\* And nobody else of the scope changes places.
OthersKeepTheirOrder ==
    [][\A r \in Requests : Lands(r) =>
          LET q == [x \in Tasks |-> rows'[x].pos]
          IN  \A x, y \in DOMAIN op[r].read :
                 Precedes(q, x, y) <=> Precedes(op[r].read, x, y)]_vars

TypeOK ==
    /\ rows \in [Tasks -> [life : {"none", "live", "gone"}, pos : Nat,
                           home : Quadrants \cup Tasks \cup {Nobody}]]
    /\ DOMAIN op = Requests
    /\ \A r \in Requests :
          /\ op[r].pc \in {"idle", "place", "create", "update", "complete"}
          /\ op[r].after \subseteq DOMAIN op[r].read
          /\ DOMAIN op[r].read \cup DOMAIN op[r].back \subseteq Tasks
=============================================================================
