------------------------------- MODULE Board -------------------------------
(***************************************************************************)
(* The board of one account: its task rows, its XP ledger and its progress *)
(* aggregate, written by concurrent requests, each of them one READ        *)
(* COMMITTED transaction (app/board over adapter/postgres).                *)
(*                                                                         *)
(* A request is split where it acts on a value that no lock protects: the  *)
(* row Update read, the subtasks Complete and Delete read, the parent      *)
(* Create read, the uncommitted row the nesting trigger cannot see.  A     *)
(* stretch between two such points takes row locks, waits for them and     *)
(* writes rows it holds; it is one step, because another transaction sees  *)
(* none of it before the commit and a wait only delays it.  MoveTask,      *)
(* Promote and Reopen have no such point.  The order of tasks, the links,  *)
(* the activity rows and every editable text are left to other modules.    *)
(***************************************************************************)
EXTENDS Integers, FiniteSets, FiniteSetsExt

CONSTANTS
    Tasks,        \* row slots: the ids the account will ever have used
    Requests,     \* the transactions that can be open at the same time
    None,         \* SQL NULL, and nobody
    Quadrants,    \* the four quadrants, or some of them
    TaskXP,       \* Config.TaskXP
    ActiveLimit,  \* ActiveTaskLimit of the plan
    Catalogue,    \* achievement -> the metric it watches and its threshold
    Operations,   \* the endpoints the clients call
    MaxGrants,    \* bound: completions paid per task
    MaxXP         \* bound: lifetime_xp is a column of finite width

Q1 == "IMPORTANT_URGENT"

ASSUME BoardAssumption ==
    /\ IsFiniteSet(Tasks)
    /\ None \notin Tasks \cup Requests \cup Quadrants
    /\ Q1 \in Quadrants
    /\ TaskXP \in [Quadrants -> {xp \in Nat : xp >= 2}]
    /\ IsFiniteSet(DOMAIN Catalogue)
    /\ ActiveLimit \in Nat /\ MaxGrants \in Nat /\ MaxXP \in Nat

VARIABLES
    rows,      \* tasks, as committed
    net,       \* per task, the sum of its xp_transactions.amount
    grants,    \* per task, how many of its entries are grants
    stats,     \* user_stats
    unlocked,  \* user_achievements
    stage,     \* per request, the step it takes next
    arg,       \* per request, the task it names
    seen,      \* per request, the rows it has read and will act on
    owner,     \* per task, the request whose FOR UPDATE lock is on the row
    account    \* the request holding the users row (LockAccount)

board == <<rows, net, grants, stats, unlocked>>
vars == <<board, stage, arg, seen, owner, account>>

-----------------------------------------------------------------------------
(* Rows.                                                                    *)

Lives == {"none", "live", "gone"}   \* never inserted, present, deleted_at set

Row == [life : Lives, parent : Tasks \cup {None}, quad : Quadrants \cup {None},
        done : BOOLEAN, xp : Nat, at : Quadrants \cup {None}]

NoRow == [life |-> "none", parent |-> None, quad |-> None,
          done |-> FALSE, xp |-> 0, at |-> None]

NoRows == [x \in {} |-> NoRow]

IsSubtask(row) == row.parent # None

\* tasks_quadrant_xor_parent and tasks_completion_snapshot.
WellFormed(row) ==
    /\ row \in Row
    /\ row.life # "none" => (row.quad # None) = ~IsSubtask(row)
    /\ row.done = (row.at # None)
    /\ row.done = (row.xp > 0)

Live(t) == rows[t].life = "live"
Subtasks(R, t) == {c \in DOMAIN R : R[c].parent = t /\ R[c].life = "live"}
CountActive == Cardinality({t \in Tasks : Live(t) /\ ~rows[t].done})

\* The quadrant that prices a task: its own, or its live parent's.
EffectiveQuadrant(R, t) ==
    LET p == R[t].parent IN
    IF R[t].quad # None THEN R[t].quad
    ELSE IF p \in DOMAIN R /\ R[p].life = "live" THEN R[p].quad ELSE None

\* 0.35 of the task's XP, rounded half up.
Reward(quadrant, subtask) ==
    IF subtask THEN (TaskXP[quadrant] * 35 + 50) \div 100 ELSE TaskXP[quadrant]

XPForLevel(level) == 45 * (level - 1) * (level - 1)

\* One level, and one more for every threshold the XP has reached.
LevelForXP(xp) == 1 + Cardinality({n \in 1 .. xp : XPForLevel(n + 1) <= xp})

-----------------------------------------------------------------------------
(* Locks and constraints of the database.                                   *)

\* An uncommitted subtask holds KEY SHARE on its parent's row.
KeyShared(t) == \E r \in Requests : stage[r] = "insert" /\ seen[r][arg[r]].parent = t

\* An UPDATE that does not wait for the row's lock.
Unlocked_Always(t) == TRUE

\* No FOR UPDATE lock on the row: an UPDATE of it goes on, and so does a
\* foreign key to it.
Unlocked(t) == owner[t] = None

\* ByIDForUpdate reduced to ByID.
ForUpdate_PlainRead(t) == TRUE

\* SELECT ... FOR UPDATE, which KEY SHARE keeps out too.
ForUpdate(t) == Unlocked(t) /\ ~KeyShared(t)

\* LockAccount left out.
AccountFree_NotAsked == TRUE

\* Nobody has locked the users row: a foreign key may name it.
AccountFree == account = None

\* A completion has recorded its own task's grant, which names the user, before
\* it reads the subtasks: it holds KEY SHARE on the users row.
AccountShared == \E r \in Requests : stage[r] = "complete"

\* An UPDATE without WHERE deleted_at IS NULL.
StillLive_Unchecked(t) == TRUE

\* The row an UPDATE finds after waiting for it.
StillLive(t) == Live(t)

\* tasks_enforce_one_level, which reads committed rows and locks none.
OneLevelTrigger(t, row) ==
    IsSubtask(row) => /\ ~IsSubtask(rows[row.parent])
                      /\ \A c \in Tasks : rows[c].parent # t

-----------------------------------------------------------------------------
(* The aggregate.                                                           *)

Metric(name, st, R) ==
    CASE name = "TASKS_COMPLETED" -> st.tasks + st.subtasks
      [] name = "Q1_TASKS_COMPLETED" ->
             Cardinality({t \in Tasks : R[t].life = "live" /\ R[t].at = Q1})
      [] name = "LIFETIME_XP" -> st.xp
      [] name = "LEVEL" -> st.level

Earned(st, R) ==
    {a \in DOMAIN Catalogue :
        Metric(Catalogue[a].metric, st, R) >= Catalogue[a].threshold}

NoDelta == [xp |-> 0, tasks |-> 0, subtasks |-> 0, created |-> 0]

\* Withdrawals left out of the aggregate.
Applied_OnlyGains(delta) ==
    [stats EXCEPT !.xp = IF delta.xp > 0 THEN @ + delta.xp ELSE @,
                  !.level = LevelForXP(stats.xp + IF delta.xp > 0 THEN delta.xp ELSE 0),
                  !.tasks = @ + delta.tasks, !.subtasks = @ + delta.subtasks,
                  !.created = @ + delta.created]

\* The level written only when it rises.
Applied_LevelOnlyUp(delta) ==
    LET level == LevelForXP(stats.xp + delta.xp) IN
    [stats EXCEPT !.xp = @ + delta.xp, !.level = IF level > @ THEN level ELSE @,
                  !.tasks = @ + delta.tasks, !.subtasks = @ + delta.subtasks,
                  !.created = @ + delta.created]

\* One of the two counters forgotten.
Applied_NoSubtasks(delta) ==
    [stats EXCEPT !.xp = @ + delta.xp, !.level = LevelForXP(stats.xp + delta.xp),
                  !.tasks = @ + delta.tasks, !.created = @ + delta.created]

\* ApplyStats and SetLevel.  The row is locked from here to the commit.
Applied(delta) ==
    IF delta = NoDelta THEN stats
    ELSE [stats EXCEPT !.xp = @ + delta.xp,
                       !.level = LevelForXP(stats.xp + delta.xp),
                       !.tasks = @ + delta.tasks,
                       !.subtasks = @ + delta.subtasks,
                       !.created = @ + delta.created]

ApplyProgress(delta) ==
    /\ stats.xp + delta.xp \in -MaxXP .. MaxXP
    /\ stats' = Applied(delta)
    /\ UNCHANGED unlocked

\* Evaluate counting what it earns, not what Unlock wrote.
Fresh_Repeated(st, R) == Earned(st, R)

Fresh(st, R) == Earned(st, R) \ unlocked

\* Evaluate reads the aggregate and the rows its own transaction wrote.
ApplyProgressAndEvaluate(delta, R) ==
    LET fresh == Fresh(Applied(delta), R) IN
    /\ stats.xp + delta.xp \in -MaxXP .. MaxXP
    /\ stats' = [Applied(delta) EXCEPT !.unlocks = @ + Cardinality(fresh)]
    /\ unlocked' = unlocked \cup fresh

-----------------------------------------------------------------------------
(* Transactions.                                                            *)

Begin(r, t, next, reads) ==
    /\ stage[r] = "idle"
    /\ stage' = [stage EXCEPT ![r] = next]
    /\ arg' = [arg EXCEPT ![r] = t]
    /\ seen' = [seen EXCEPT ![r] = reads]

\* Commit or rollback: the locks go with the transaction.
End(r) ==
    /\ stage' = [stage EXCEPT ![r] = "idle"]
    /\ arg' = [arg EXCEPT ![r] = None]
    /\ seen' = [seen EXCEPT ![r] = NoRows]
    /\ owner' = [t \in Tasks |-> IF owner[t] = r THEN None ELSE owner[t]]
    /\ account' = IF account = r THEN None ELSE account

\* One transaction with no unprotected read: it starts and commits at once.
AtOnce(r) == stage[r] = "idle" /\ UNCHANGED <<stage, arg, seen, owner, account>>

\* A cancelled request, a lost connection, a deadlock victim, or any refusal
\* after the first statement: Do rolls back, whatever step was next.
Rollback(r) == stage[r] # "idle" /\ End(r) /\ UNCHANGED board

-----------------------------------------------------------------------------
(* Create.                                                                  *)

NewRegular(quadrant) == [NoRow EXCEPT !.life = "live", !.quad = quadrant]
NewSubtask(parent) == [NoRow EXCEPT !.life = "live", !.parent = parent]

\* LockAccount, withinQuota, draftToTask: the parent is read, not locked.
BeginCreate(r, t, row) ==
    /\ AccountFree /\ ~AccountShared
    /\ rows[t].life = "none"
    /\ CountActive < ActiveLimit
    /\ IsSubtask(row) => Live(row.parent) /\ ~IsSubtask(rows[row.parent])
    /\ Begin(r, t, "create", [x \in {t} |-> row])
    /\ account' = r
    /\ UNCHANGED <<board, owner>>

\* The INSERT: the trigger, then the foreign key, which a deleted parent
\* satisfies because deletion keeps the row.
InsertTask(r) ==
    LET row == seen[r][arg[r]] IN
    /\ stage[r] = "create"
    /\ OneLevelTrigger(arg[r], row)
    /\ IsSubtask(row) => Unlocked(row.parent)
    /\ stage' = [stage EXCEPT ![r] = "insert"]
    /\ UNCHANGED <<board, arg, seen, owner, account>>

CommitCreate(r) ==
    /\ stage[r] = "insert"
    /\ rows' = [rows EXCEPT ![arg[r]] = seen[r][arg[r]]]
    /\ ApplyProgress([NoDelta EXCEPT !.created = 1])
    /\ End(r)
    /\ UNCHANGED <<net, grants>>

-----------------------------------------------------------------------------
(* Update: reads the row without a lock, writes all of it back.             *)

BeginUpdate(r, t) ==
    /\ Live(t) /\ ~rows[t].done
    /\ Begin(r, t, "update", [x \in {t} |-> rows[t]])
    /\ UNCHANGED <<board, owner, account>>

WriteUpdate(r) ==
    LET t == arg[r]
        row == seen[r][t] IN
    /\ stage[r] = "update"
    /\ Unlocked(t) /\ StillLive(t)
    /\ OneLevelTrigger(t, row)
    /\ (IsSubtask(row) /\ rows[t].parent # row.parent) => Unlocked(row.parent)
    /\ rows' = [rows EXCEPT ![t] = row]
    /\ End(r)
    /\ UNCHANGED <<net, grants, stats, unlocked>>

-----------------------------------------------------------------------------
(* MoveTask into a quadrant, Promote and Reopen: one locked row each.       *)

InQuadrant(t, quadrant) ==
    rows' = [rows EXCEPT ![t].parent = None, ![t].quad = quadrant]

MoveTask(r, t, quadrant) ==
    /\ ForUpdate(t) /\ Live(t) /\ ~rows[t].done
    /\ InQuadrant(t, quadrant)
    /\ AtOnce(r)
    /\ UNCHANGED <<net, grants, stats, unlocked>>

\* Without a quadrant asked for, the one the subtask is judged by.
Promote(r, t, asked) ==
    LET quadrant == IF asked = None THEN EffectiveQuadrant(rows, t) ELSE asked IN
    /\ ForUpdate(t) /\ Live(t) /\ IsSubtask(rows[t])
    /\ quadrant # None
    /\ InQuadrant(t, quadrant)
    /\ AtOnce(r)
    /\ UNCHANGED <<net, grants, stats, unlocked>>

\* The task left completed although its XP is withdrawn.
Reopened_StillDone(row) == row

Reopened(row) == [row EXCEPT !.done = FALSE, !.xp = 0, !.at = None]

Reopen(r, t) ==
    LET row == rows[t] IN
    /\ ForUpdate(t) /\ Live(t) /\ row.done
    /\ OneLevelTrigger(t, row)
    /\ row.xp > 0 => AccountFree
    /\ rows' = [rows EXCEPT ![t] = Reopened(row)]
    /\ net' = [net EXCEPT ![t] = @ - row.xp]
    /\ ApplyProgress(IF IsSubtask(row)
                     THEN [NoDelta EXCEPT !.xp = -row.xp, !.subtasks = -1]
                     ELSE [NoDelta EXCEPT !.xp = -row.xp, !.tasks = -1])
    /\ AtOnce(r)
    /\ UNCHANGED grants

-----------------------------------------------------------------------------
(* Complete: the task is locked and awarded, its subtasks are only read.    *)

Family(t) ==
    IF IsSubtask(rows[t]) THEN {t, rows[t].parent} ELSE {t} \cup Subtasks(rows, t)

BeginComplete(r, t) ==
    /\ ForUpdate(t) /\ Live(t) /\ ~rows[t].done
    /\ EffectiveQuadrant(rows, t) # None
    /\ OneLevelTrigger(t, rows[t])
    /\ AccountFree
    /\ \A x \in Family(t) : grants[x] < MaxGrants
    /\ Begin(r, t, "complete", [x \in Family(t) |-> rows[x]])
    /\ owner' = [owner EXCEPT ![t] = r]
    /\ UNCHANGED <<board, account>>

\* The status written without its snapshot.
Completed_NoSnapshot(row, xp, quadrant) == [row EXCEPT !.done = TRUE]

Completed(row, xp, quadrant) ==
    [row EXCEPT !.done = TRUE, !.xp = xp, !.at = quadrant]

\* A cascade that does not skip the subtasks already completed.
Cascade_All(R, t) == Subtasks(R, t)

Cascade(R, t) == {c \in Subtasks(R, t) : ~R[c].done}

\* Every row it awards is written whole, as it was read.
FinishComplete(r) ==
    LET t == arg[r]
        read == seen[r]
        quadrant == EffectiveQuadrant(read, t)
        kids == Cascade(read, t)
        won == {t} \cup kids
        pay == [x \in won |-> Reward(quadrant, IsSubtask(read[x]))]
        written == [x \in Tasks |-> IF x \in won
                                    THEN Completed(read[x], pay[x], quadrant)
                                    ELSE rows[x]]
        mine == IF IsSubtask(read[t]) THEN 1 ELSE 0 IN
    /\ stage[r] = "complete"
    /\ \A c \in kids : Unlocked(c) /\ StillLive(c) /\ OneLevelTrigger(c, read[c])
    /\ rows' = written
    /\ net' = [x \in Tasks |-> IF x \in won THEN net[x] + pay[x] ELSE net[x]]
    /\ grants' = [x \in Tasks |-> IF x \in won THEN grants[x] + 1 ELSE grants[x]]
    /\ ApplyProgressAndEvaluate(
           [xp |-> pay[t] + Cardinality(kids) * Reward(quadrant, TRUE),
            tasks |-> 1 - mine, subtasks |-> mine + Cardinality(kids), created |-> 0],
           written)
    /\ End(r)

-----------------------------------------------------------------------------
(* Delete: the task is locked, its subtasks are only read.                  *)

\* The subtasks left behind, and left unasked.
Doomed_TaskOnly(t) == {t}

Doomed(t) == {t} \cup IF IsSubtask(rows[t]) THEN {} ELSE Subtasks(rows, t)

HasActiveSubtasks(t) == \E c \in Doomed(t) \ {t} : ~rows[c].done

BeginDelete(r, t) ==
    /\ ForUpdate(t) /\ Live(t)
    /\ ~HasActiveSubtasks(t)
    /\ Begin(r, t, "delete", [x \in Doomed(t) |-> rows[x]])
    /\ owner' = [owner EXCEPT ![t] = r]
    /\ UNCHANGED <<board, account>>

\* What a completed victim counted for is withdrawn as it was read; SoftDelete
\* must find every victim live, and changes nothing of its row but deleted_at.
FinishDelete(r) ==
    LET read == seen[r]
        doomed == DOMAIN read
        done == {x \in doomed : read[x].done}
        doneSubtasks == Cardinality({x \in done : IsSubtask(read[x])}) IN
    /\ stage[r] = "delete"
    /\ done # {} => AccountFree
    /\ \A x \in doomed : StillLive(x) /\ owner[x] \in {None, r}
    /\ rows' = [x \in Tasks |-> IF x \in doomed THEN [rows[x] EXCEPT !.life = "gone"]
                                               ELSE rows[x]]
    /\ net' = [x \in Tasks |-> IF x \in done THEN net[x] - read[x].xp ELSE net[x]]
    /\ ApplyProgress([xp |-> -MapThenSumSet(LAMBDA x : read[x].xp, done),
                      tasks |-> doneSubtasks - Cardinality(done),
                      subtasks |-> -doneSubtasks, created |-> 0])
    /\ End(r)
    /\ UNCHANGED grants

-----------------------------------------------------------------------------
Init ==
    /\ rows = [t \in Tasks |-> NoRow]
    /\ net = [t \in Tasks |-> 0]
    /\ grants = [t \in Tasks |-> 0]
    /\ stats = [xp |-> 0, level |-> 1, tasks |-> 0, subtasks |-> 0,
                created |-> 0, unlocks |-> 0]
    /\ unlocked = {}
    /\ stage = [r \in Requests |-> "idle"]
    /\ arg = [r \in Requests |-> None]
    /\ seen = [r \in Requests |-> NoRows]
    /\ owner = [t \in Tasks |-> None]
    /\ account = None

Start(r, t) ==
    \/ "create" \in Operations
       /\ \E quadrant \in Quadrants : BeginCreate(r, t, NewRegular(quadrant))
    \/ "subtask" \in Operations
       /\ \E parent \in Tasks \ {t} : BeginCreate(r, t, NewSubtask(parent))
    \/ "update" \in Operations /\ BeginUpdate(r, t)
    \/ "move" \in Operations /\ \E quadrant \in Quadrants : MoveTask(r, t, quadrant)
    \/ "promote" \in Operations
       /\ \E asked \in Quadrants \cup {None} : Promote(r, t, asked)
    \/ "complete" \in Operations /\ BeginComplete(r, t)
    \/ "reopen" \in Operations /\ Reopen(r, t)
    \/ "delete" \in Operations /\ BeginDelete(r, t)

Continue(r) ==
    \/ InsertTask(r) \/ CommitCreate(r)
    \/ WriteUpdate(r)
    \/ FinishComplete(r)
    \/ FinishDelete(r)
    \/ Rollback(r)

Next == \E r \in Requests : Continue(r) \/ \E t \in Tasks : Start(r, t)

Spec == Init /\ [][Next]_vars

-----------------------------------------------------------------------------
(* Properties.                                                              *)

StatsType ==
    stats \in [xp : -MaxXP .. MaxXP, level : Nat \ {0}, tasks : Int, subtasks : Int,
               created : Nat, unlocks : Nat]

Stages == {"idle", "create", "insert", "update", "complete", "delete"}

BoardType ==
    /\ rows \in [Tasks -> Row] /\ \A t \in Tasks : WellFormed(rows[t])
    /\ net \in [Tasks -> Int] /\ grants \in [Tasks -> Nat]
    /\ StatsType /\ unlocked \subseteq DOMAIN Catalogue

RequestType ==
    /\ stage \in [Requests -> Stages] /\ arg \in [Requests -> Tasks \cup {None}]
    /\ DOMAIN seen = Requests
    /\ \A r \in Requests : /\ DOMAIN seen[r] \subseteq Tasks
                           /\ \A t \in DOMAIN seen[r] : WellFormed(seen[r][t])
    /\ owner \in [Tasks -> Requests \cup {None}] /\ account \in Requests \cup {None}

\* Every variable has its type, and every row, stored or about to be written,
\* satisfies the CHECKs of the tasks table: the whole-row UPDATE never stores a
\* status without its snapshot, or a quadrant beside a parent.
TypeOK == BoardType /\ RequestType

\* The lifetime XP of the aggregate is the sum of the ledger, whatever requests
\* ran together: ApplyStats adds in the statement, under the row's lock, what
\* the same transaction recorded in xp_transactions.
LedgerAddsUp == stats.xp = MapThenSumSet(LAMBDA t : net[t], Tasks)

\* The level is the one the lifetime XP implies, downwards too: applyProgress
\* computes it from what the UPDATE returned, so it is never stale.
LevelMatchesXP == stats.level = LevelForXP(stats.xp)

\* The aggregate counts exactly the achievements held: Evaluate adds the rows
\* Unlock wrote and not the ones it found earned.
UnlocksCounted == stats.unlocks = Cardinality(unlocked)

\* A request acts on the row it locked as that row still is: nobody else wrote
\* it between the read of ByIDForUpdate and the commit.
LockedRowStable ==
    \A r \in Requests : stage[r] \in {"complete", "delete"} =>
        owner[arg[r]] = r /\ rows[arg[r]] = seen[r][arg[r]]

\* A deleted task stays deleted, whichever stale row a request still holds:
\* every UPDATE re-checks deleted_at on the row it finds.
DeletedIsFinal ==
    [][\A t \in Tasks : rows[t].life = "gone" => rows'[t].life = "gone"]_rows

\* What the ledger has paid for a task is its snapshot's XP while it is
\* completed and not deleted, and nothing otherwise: each completion is paid
\* once, each reopening and each deletion withdraws it once.
PaidOnce ==
    \A t \in Tasks : net[t] = IF Live(t) /\ rows[t].done THEN rows[t].xp ELSE 0

\* The two completion counters together count the completed tasks on the board.
\* (A promoted subtask is withdrawn from the other counter than it was added to.)
CountersMatch ==
    stats.tasks + stats.subtasks = Cardinality({t \in Tasks : Live(t) /\ rows[t].done})

\* No step takes the XP back twice: the lifetime XP never falls below zero.
NoNegativeXP == stats.xp >= 0

\* A task that stays completed keeps its snapshot and earns nothing more: a
\* cascade skips the subtasks that were finished before it.
CompletedKept ==
    [][\A t \in Tasks :
          (Live(t) /\ rows[t].done /\ rows'[t].life = "live" /\ rows'[t].done)
              => rows'[t].xp = rows[t].xp /\ net'[t] = net[t]]_<<rows, net>>

\* A task of its own never becomes a subtask (again).
PromotionSticks ==
    [][\A t \in Tasks : (Live(t) /\ ~IsSubtask(rows[t]) /\ rows'[t].life = "live")
                            => ~IsSubtask(rows'[t])]_rows

\* Open work is never under a task that was removed: Delete refuses a parent
\* with unfinished subtasks, Create refuses a parent that is gone.
NoOpenWorkUnderDeleted ==
    \A t \in Tasks : (Live(t) /\ ~rows[t].done /\ IsSubtask(rows[t])) => Live(rows[t].parent)

\* A subtask has no subtasks of its own.
OneLevel ==
    \A t \in Tasks : (Live(t) /\ IsSubtask(rows[t])) => ~IsSubtask(rows[rows[t].parent])

\* The plan's cap on active tasks is never exceeded.
QuotaRespected == CountActive <= ActiveLimit

\* No creation ends above the cap, whatever else commits between its count and
\* its INSERT: both are under the lock on the users row.
CreationWithinQuota ==
    [][(\E t \in Tasks : rows[t].life = "none" /\ rows'[t].life = "live")
          => CountActive' <= ActiveLimit]_rows

\* The board as its owner sees it.
LifeOf(row) == CASE row.life = "none" -> "new"
                 [] row.life = "gone" -> "gone"
                 [] row.life = "live" -> IF row.done THEN "done" ELSE "open"

Atomic == INSTANCE AtomicBoard WITH
    Rewards <- {Reward(quadrant, FALSE) : quadrant \in Quadrants},
    life <- [t \in Tasks |-> LifeOf(rows[t])],
    pay <- net,
    completions <- stats.tasks + stats.subtasks

\* However the transactions of several requests interleave, what they commit is
\* what the operations would have done one at a time, each at once: every step
\* of the board is one operation of the atomic board, or changes nothing of it.
BehavesAtomically == Atomic!Spec
=============================================================================
