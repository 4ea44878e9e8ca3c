# Cursed Matrix — a TLA+ development

Models of the Cursed Matrix task board (a Go API over PostgreSQL and Redis, and a
React client), checked with TLC and, where a theorem is stated, proved with
TLAPS. Paths below are relative to the repository (`src/`).

## 1. The system

A user keeps tasks in the four quadrants of an Eisenhower matrix. A task may have
subtasks, one level deep; completing work pays XP, XP gives a level, and
completions unlock achievements. Tasks can be linked into a graph. A free plan
caps the active tasks and the links. The client is a single-page application
that keeps the whole board in memory.

| Component | State it keeps | Operations | What makes it hard |
|---|---|---|---|
| board (`app/board`, `domain/task`, `task_write.go`) | `tasks`, `xp_transactions`, `user_stats` | Create, Update, MoveTask, Promote, Complete, Reopen, Delete | READ COMMITTED transactions that lock some of the rows they act on and only read the others |
| achievements (`app/achievement`) | `user_achievements`, a counter in `user_stats` | Evaluate, inside other transactions | two evaluations of one account at once |
| links and graph (`app/graph`) | `task_links` | Create, Retype, Delete, Snapshot | ends read before the account is locked; a quota counted, then used |
| task order (`domain/task/position.go`) | `tasks.position` | Place, rebalance, insert in the middle | integer gaps that run out; a column read without locks |
| activity, streak, leaderboard (`app/profile`) | `activity_events`, streak columns of `user_stats` | TouchDay, RecordGraphOpened, reads | calendar days in the account's timezone, a cache used as a gate |
| sessions (`app/auth`, `redis/refresh.go`, `token/jwt.go`) | refresh tokens, a generation per account, access blocks, cookies | Login, Register, Refresh, Logout, LogoutAll, DeleteAccount, Authenticate | rotation with a grace window; the store read and written in separate calls; two stores and one commit |
| client session (`front/src/shared/api/client.ts`) | cookies, a lock across tabs | request, renewSession, sign-out | many tabs, lost answers, a timeout racing a late answer |
| settings cache (`app/preferences`, `redis/cache.go`) | versioned entries | Settings, Set, Invalidate | a refill racing an invalidation |
| rate limiting (`redis/ratelimit.go`) | a counter and a window per key | Allow | two calls where one fails |
| password hashing (`pkg/utils/password.go`) | slots | acquire, release | a bounded pool with a time budget |
| client board (`front/src/features/board/board.store.ts`) | the board on screen, unsaved edits, save numbers | load, patch, flush, reset | answers out of order, sign-out in the middle |
| billing, tags, search, HTTP layer, configuration, metrics, graph drawing, screens | see `PROJECT.json` | | |

How they interact. An HTTP handler authenticates the access cookie
(`middleware.go`), counts the visit towards the streak, and calls a service. A
service runs its statements in one transaction (`TxManager.Do`, READ COMMITTED);
a commit makes its rows visible, a rollback drops them, and nothing is retried.
Complete, Reopen and Delete call the ledger (`xp_repo.go`), the aggregate
(`user_repo.go`) and the achievement service inside the same transaction. Reads of
preferences go through Redis. The client refreshes an expired session on its own
and repeats the request once.

## 2. What should hold

* **Board.** Each completion is paid once and withdrawn once (`PaidOnce`); the
  aggregate is what the ledger adds up to (`LedgerAddsUp`); level, counters and
  achievement count follow (`LevelMatchesXP`, `CountersMatch`,
  `UnlocksCounted`); what a request locked is what it writes
  (`LockedRowStable`); a deleted task stays deleted (`DeletedIsFinal`); a
  cascade leaves finished subtasks alone (`CompletedKept`); open work is never
  hidden under a deleted parent (`NoOpenWorkUnderDeleted`); subtasks do not nest
  (`OneLevel`); a promotion is not undone (`PromotionSticks`); the plan's cap
  is kept by every creation (`CreationWithinQuota`). Without subtasks and Update, all
  that happens is what operations one at a time would do (`BehavesAtomically`).
* **Links.** No link outlives a task at its end (`DanglesOnlyWhenOutrun`), no
  pair is joined twice in one meaning (`NoPairTwice`), no link doubles a parent
  (`DoublesOnlyWhenPutBack`), the cap holds (`LinkQuota`).
* **Order.** A task lands where it was asked to (`LandsAsAsked`), no other pair
  changes places (`OthersKeepTheirOrder`), positions stay within the column
  (`PositionsBounded`).
* **Streak.** It is the run of counted days (`StreakIsARun`); the gate in Redis swallows
  no day (`VisitIsCounted`).
* **History and ranking.** Paging loses and repeats nothing (`HistoryIsWhole`,
  `RankingIsWhole`); ranks and standing agree (`RanksAgree`), and so do heatmap and
  figures, though they are two requests (`FiguresAgree`).
* **Sessions.** A session is in one place (`OneTokenPerSession`); a revocation
  leaves no token (`RevocationEmpties`) but what a refresh was rotating
  (`OnlyOvertakenSurvive`); a signed-out session stays out but for the grace
  (`SignedOutUnlessReused`); a closed account can do nothing (`ClosedIsClosed`).
* **Settings cache.** An outdated copy has its change unanswered, or was stored by a
  reader the change overtook, or the change did not reach it (`RetiredByAChange`);
  it disappears in the end (`SettingsSettle`).
* **Admission.** Every slot and connection comes back (`NothingLeaks`); a refusal
  has an end (`RefusedByAWindow`); every request ends (`EveryRequestEnds`); the
  shutdown closes nothing under a request within its budget
  (`ClosedWhenDrained`), and ends (`StopEnds`).

The full list of hazards, each at its line and with the properties that would
catch it, is in `PROJECT.json`. A property that holds one request at a time is not
listed for a race it does not see; the hazard's note says so.

## 3. The modules

| Module | Role |
|---|---|
| `Board.tla` | rows, ledger, aggregate and requests of one account; the properties |
| `MCBoard.tla`, `MCBoard_*.cfg` | instances for TLC |
| `BoardProofs.tla` | the theorems about Board: the invariant, aggregate and ledger, deletion and quota under every operation; where there are no subtasks, or one request at a time; Board implements AtomicBoard, where it does |
| `AtomicBoard.tla` | what a board promises: each operation at once |
| `FiniteLemmas.tla` | lemmas about finite sets that the proofs share: least members, orders, sums |
| `Sessions.tla` | the Redis keys of one account's sessions, the auth service over them, the closing of the account; the properties |
| `MCSessions.tla`, `MCSessions_*.cfg` | instances for TLC |
| `SessionsProofs.tla` | type correctness, completeness of a revocation, no fork of a session; one request at a time: sign-out, closing |
| `Links.tla` | `task_links` with its unique indexes, the link service, what the board does to the ends; the properties |
| `MCLinks.tla`, `MCLinks_*.cfg` | instances for TLC |
| `LinksProofs.tla` | types, unique pairs, release by deletion, the cap, links beside parents |
| `Admission.tla` | counters and windows in Redis, hashing slots, connections of the pool, the process from start to exit; the properties |
| `MCAdmission.tla`, `MCAdmission_admission.cfg` | instance for TLC |
| `AdmissionProofs.tla` | types, conservation of slots and connections, the order of the shutdown, the end of a refusal |
| `Days.tla` | the timezone of an account, its cached copy, the gate and the streak; the properties |
| `MCDays.tla`, `MCDays_days.cfg` | instance for TLC |
| `DaysProofs.tla` | types, the copy and the gate under changes, the streak as a run of days |
| `History.tla` | events and ledger entries as filed, and the reads over them: paged history, heatmap, figures, ranking; the properties |
| `MCHistory.tla`, `MCHistory_history.cfg` | instance for TLC |
| `HistoryProofs.tla` | pages, ranks and figures, for every page size and any rows |
| `Column.tla` | the positions of one account's tasks, Place and its renumbering, every request that reads or writes a position; the properties |
| `MCColumn.tla`, `MCColumn_column.cfg` | instance for TLC |
| `ColumnProofs.tla` | what Place returns for every scope, types, bounds, order |

### Board

One account, because no board transaction touches rows of two. `rows` is the
`tasks` table as committed, `net[t]` the sum of a task's ledger entries,
`grants[t]` how many of them are grants, `stats` the `user_stats` row,
`unlocked` the rows of `user_achievements`. A request has a `stage`, the task it
names (`arg`), the rows it has read and will act on (`seen`), row locks (`owner`)
and perhaps the users row (`account`).

*Steps.* A request is split exactly where it acts on a value that no lock
protects: the row Update read, the subtasks that Complete and Delete read, the
parent that Create read, the uncommitted row the nesting trigger cannot see.
Between two such points a transaction takes row locks, waits for them, and writes
rows it holds. Such a stretch is one step: nobody sees its writes before the
commit, a lock it takes early can only delay the others, and a wait only delays
it. (The usual argument: lock acquisitions move right, releases move left, and
the reads are placed where the code has them.) So MoveTask, Promote and Reopen,
which act on one row locked from the first statement, are one step each.

*Locks.* `ForUpdate` is `SELECT ... FOR UPDATE`, which the KEY SHARE lock of an
uncommitted subtask keeps out; `Unlocked` is what a plain UPDATE, or a foreign
key to the row, needs; `AccountFree` is what a foreign key to the users row
needs, and `AccountShared` says that a completion, which has recorded a grant,
holds KEY SHARE on it. A guard that is not met is a wait. A wait that would never
end is a deadlock victim in PostgreSQL: `Rollback`, which can also stand for a
cancelled request or a lost connection, at any stage.

*Whole-row writes.* `TaskRepository.Update` writes every column, so WriteUpdate
and the cascade of FinishComplete put back the row that was read, parent and
quadrant included. `SoftDelete` writes `deleted_at` alone, and FinishDelete does
too. Every UPDATE re-checks `deleted_at IS NULL` on the row it finds
(`StillLive`).

*Constraints.* `WellFormed` holds the two CHECKs of the table,
`OneLevelTrigger` the nesting trigger, which reads committed rows only. The
trigger is asked where an INSERT or an UPDATE of a subtask is made.

*The promise.* `AtomicBoard` has a life, a pay and a count of completions, and four
operations that act at once: Create below the cap, Complete, Reopen, Delete. Board
maps onto it by `LifeOf` of the rows, the ledger sums `net` and the sum of the two
counters (`Atomic`); `BehavesAtomically` is its specification under that map.

*Left out.* Titles, colours, deadlines, tags; positions (Column); links of a deleted
task (Links); activity rows, which nothing on the board reads back; several accounts; two
UPDATEs that both pass the trigger before either commits (the uncommitted INSERT
is the case that is modelled).

### Sessions

One account. `generation` is its generation key, `live` the token keys (a token
under the generation it was saved with), `rotated` the markers that
`consumeScript` leaves, each with the end of its grace, `blockedUntil` the access
block. `deleted` is the committed `deleted_at`, and `remover` the request whose
transaction holds the users row. A request has a `stage`, named for the call it
makes next, the token it presents (`arg`), the generation it has read (`read`)
and the token it has minted (`fresh`). `origin`, `issued`, `latest`, `signedOut`,
`revoked`, `overtaken` and `reused` are history: which session a token belongs
to, which tokens a client was answered with, which sessions were ended and how,
which a refresh was rotating at the time, and which went on from a spent token.

*Steps.* One step is one call to Redis or to PostgreSQL; Redis runs a command or
a script at once. `Save`, `Consume` and `Drop` read the generation in a call of
its own, so there is a step between the read and the use, joined to the
neighbouring step where nothing shared lies in between: Issue mints a pair and
makes Save's read, BeginRefresh and BeginLogout make Consume's and Drop's.
`consumeScript` has three outcomes and three actions. DeleteAccount is a
transaction around two Redis calls: `Abandon` after them rolls the row back and
leaves the generation and the block as they are. `Abandon` is also a failed
call, a cancelled request and a crash of the server, at any stage; the second
disjunct of Save is an answer that never arrives.

*Time.* A clock in ticks expires markers, the block and access tokens, in the
model as in Redis: an access token is believed while `now < expiry` and there is
no block. Refresh tokens live for thirty days and do not expire in a run.

*Left out.* Register (it ends in the same `issue`), settings and timezone, the
CSRF header and the rate limiter, cookies, and the choice of the middleware to
let a request through when Redis does not answer, which the code documents.

### Links

One account. `links` is `task_links` as committed, `life` and `parent` what links
see of `tasks`, `plan` the plan of the account, `account` the request that holds
the users row. Creating a link is a request with a `stage` and a `draft`: it
reads both ends (ReadEnds), locks the users row and counts (CountLinks), inserts
and commits (InsertLink), or ends without a link at any point (Refuse: a full
quota, a taken key, a deadlock victim, a cancelled request). Retype and Delete
act on one row in one statement. `outrun` and `putBack` are history.

*The board.* Board models its own races; here its operations are one step each,
with the one effect of its races that links can see: PutBack, a stale Update (or
cascade) that writes a task back under the parent it had left. A task has had
one parent in its life, the one it was created under (`born`), so that is the
parent a stale row can hold. Whether a subtask is finished is not modelled:
DeleteTask stands for the deletions that are not refused.

*A deletion in two halves.* Delete releases the links and commits a little later;
until then its tasks are still read as live. A creation that reads or inserts in
that gap ends as one that read before the deletion and inserted after it, which
is a behaviour of the model, so the deletion is one step.

*Left out.* The links_created counter, its event and its achievements; the graph
snapshot, a read; the closing of the account.

### Admission

One address and one account. `hits` and `window` are the counters in Redis and
whether each has an expiry; `redis` says whether Redis answers. A request has a
point it is at (`pc`), what it asks for, the stage it has come to (`at`), what
INCR answered (`count`) and whether its context is still open (`live`). `Stages`
gives the counters and the checks of each route in the order `routes.go` and the
handlers pass them: signing in is counted by address, then its body is decoded,
then it is counted by account; refreshing and signing out are counted by
address, the prices by a counter of their own. A check (a session, the CSRF
header, the body, the refresh token) may always refuse: `Check`. `slots`
are the requests that hold one of the `MaxHashes` hashing slots, `conns` those
that hold a connection of the pool from one step to a later one. `process` goes
from serving over draining, the closing of the cache and of the database to
exited, and starts again; `api` says whether the routes were mounted when it
started, `spent` whether the one budget of a shutdown has run out.

*Steps.* INCR, EXPIRE and the repair of a missing window are one step each, so
Redis can go away, a window can end and another request can count between any two
of them. A call that fails lets the request pass, which is what the middleware
does. With the database there a handler needs a connection whatever Redis says
(`NeedsConn`), unless it has nothing to do with rows (`WithoutRows`). A query that takes a connection and gives it back is inside one step;
DeleteAccount keeps its connection from Lookup, across the wait for a hashing
slot, to Store. The three ways out of that wait are TakeSlot, Busy and GiveUp.

*Time.* A timer is an event that may come at any moment: Expire, EndContext
(the deadline of a request, or a client that left), Busy (the wait for a slot),
SpendBudget. Only those of the process are promised to come.

*Left out.* What a handler does with its data, which is in the other modules;
Retry-After; a ceiling that is switched off (`attempts <= 0`), which the
middleware knows and `config.go:129-138` refuses to start with; the calls by which
the middleware counts the visit (Days has them): they take a connection and give it
back inside their own step, and no answer depends on them; argon2; the migration command; the metrics server, which is closed
beside the listener.

### Days

One account. `zone` is the timezone of its preferences, the only one of them kept;
`cached` the copy of it in Redis, `gates` the days a gate key is set for, `streak`
the three columns of `user_stats`. The version in the keys is not kept: a change
that raises it empties `cached` and `gates`, because nothing reads the entries of
an older version, and an entry stored under an outdated version is one that was
not stored. A visit reads the copy, or the row and stores it, asks the gate of the
day this names, counts the day of the *row's* timezone in one statement, and
shuts the gate of the day it had asked about. `counted`, `back`, `late`,
`missed`, `misled` and a visit's `stale` are history: which days were counted,
whether one came after a later one, whether the copy was stored by a visit that had
read before a change (`late`) or outlived one whose answer went out without
reaching it (`missed`), and where a timezone has changed in between.

*Steps.* Each call to Redis and each statement is a step and may fail, except that
Open reads the copy and the clock at once. A gate key that expires only opens a
gate, which AskGate may find open in any case. ReadRow, ReadSettings and WriteSettings may fail as well: the
visit or the change then ends without what comes after. UpdateSettings reads the
preferences and writes all of them back: ReadSettings and WriteSettings; the
version goes up in a call of its own after the commit.

*The calendar.* Days are ticks divided by `DayLength`, shifted by the timezone: a
move west makes today an earlier day.

*Left out.* Language and theme, which travel the same way; the export.

### History

`rows` is `activity_events` of the account that looks (`Me`) and `xp_transactions`
of everybody, in one set: a row has an owner, a kind, an instant, a local day and a
random id. `shown` are the accounts that appear in the ranking, `zone` is
`Me`'s timezone. `reader` is the screen that is open: the cursor of the history, or
the offset of the ranking, and what the pages have shown so far.

*Steps.* A row is filed by a commit, under the instant its operation began with,
which may be a tick old: rows arrive out of order, and several share an
instant. A page is one statement. The standing of `Me` is another one after it
(ReadStanding), as in the code. One row past the page is read to know whether
another follows.

*The three reads.* `HistoryPage` goes on below a cursor of instant and id.
The year is two requests, heatmap and
figures, in either order: `AskYear` reads the timezone (the row's, or any the
account has had, `had`, because the copy in Redis may be outdated) and the clock,
`ReadSquares` and `ReadFigures` are the statements, which come later. `Squares` has
a day for each of the last `HeatmapDays` up to the day its request read,
`StatsTotal` has a lower bound only. A year that gets a row while it is read is
left: two statements on two sides of an insert differ rightly. `Position` orders the ranking by XP, by when it was reached,
by id; `Rank` is dense. The XP of a window may be negative, when what was earned
before it is taken back in it.

*Left out.* The rows of a cascade filed at once (here one after the other); kinds
of events that no read tells apart (three are kept); names and avatars; the export.

### Column

One account. A row has a `home`, the quadrant or the parent whose list it is in,
and a `pos`. A request that places a task reads the scope without locks (`read`)
and knows which of its tasks come after the new place (`after`); FinishPlacing
computes `Place`, waits for the rows it writes and writes them. UpdateTask and
CompleteTask read rows and write all their columns back later, an old position
included (WriteBack).

*Place.* `Lower` and `Upper` are the positions around the place, `Crowded` asks
for room between them, `Rebalanced` gives every task of the scope a fresh multiple
of `Gap` and leaves one free for the task placed.

*Steps.* As in Board, a request is split only where it acts on rows no lock
protects. Locks of several rows are taken at once; the deadlocks that taking them
one by one can cause end in `Rollback`.

*Left out.* Which tasks are completed, and all that follows from it (Board);
the position of a deleted row, which nobody reads again.

## 4. The runs

### Board

Two tasks and two requests are enough for every race of a task with its
subtask; three tasks with one request cover the cascade over two subtasks, one
of them finished; three tasks are used where a task, its parent and its own
subtask must exist together. Two quadrants suffice: one that is Q1 for the
achievement that counts it, one that is not, with different XP. `MaxGrants`
bounds the completions paid per task: two is complete, reopen, complete again.
`MaxXP` stands for the column's width and is not reached. Thresholds of the
catalogue are lowered so that they are crossed. Tasks and requests are
interchangeable, hence the symmetry set; no liveness is checked with it.
Deadlock is not checked: row slots and grants are bounded, so the system does
stop when they are used up.

| Run | Question | Bounds |
|---|---|---|
| `all` | what holds however requests interleave | 2 tasks, 2 requests, every operation |
| `serial` | do the operations pay, count, cascade and refuse rightly one at a time | 3 tasks, 1 request, every operation |
| `flat` | are the row locks enough when there are no subtasks and no Update: is each completion paid once, do creations stop at the cap, is the whole an AtomicBoard | 3 tasks, 2 requests, cap 2 |

Runs that show a disagreement between the code and what is said of it; each
checks one property and TLC finds it violated:

| Run | Property | What happens |
|---|---|---|
| `update_race` | `PaidOnce` | Update reads a task, a completion commits, Update writes the task back as open: the XP stays |
| `delete_race` | `NoNegativeXP` | a subtask reopened between Delete's read and its write is withdrawn twice |

The counter of completed tasks and that of completed subtasks drift apart, while
their sum, which `CountersMatch` is about, stays right: a subtask that is completed,
promoted and reopened is taken off `tasks_completed`, which never counted it.

Five more have no run of their own; each shows with two requests, a limit of
three tasks unless said, and the operations and the property named:

* a subtask completed between the cascade's read and its write is paid twice
  (`CompletedKept`; create, subtask, complete; two tasks);
* Reopen adds an active task without asking the cap (`QuotaRespected`; create,
  complete, reopen; two tasks, limit one);
* a subtask promoted between the cascade's read and its write goes back under
  its parent (`PromotionSticks`; create, subtask, promote, complete; two tasks);
* a subtask is inserted under a parent whose deletion found it free
  (`NoOpenWorkUnderDeleted`; create, subtask, delete; two tasks);
* an Update puts a promoted task back under its parent while a subtask of it is
  being inserted (`OneLevel`; create, subtask, update, promote; three tasks).

What the two kinds of run say together: the aggregate never parts from the
ledger, under any interleaving; ledger and rows do part, by the races above, all
of which need Update or a subtask; without those two the row lock of
ByIDForUpdate is enough. The lifetime XP falls below zero only where two requests
overlap and tasks are both deleted and reopened (section 6).

### Sessions

Three tokens let a session rotate twice, or two sessions exist and one of them
rotate; two requests are enough for a race of two calls. `AccessTTL` and `Grace` are one or two
ticks, so that both sides of each expiry are reached within `MaxTime`;
`MaxGeneration` bounds revocations. Deadlock is not checked: tokens and clock
are bounded, so the system stops when they are used up.

| Run | Question | Bounds |
|---|---|---|
| `sessions_all` | does a revocation leave a usable token, can a session fork, however requests interleave | 3 tokens, 2 requests, grace 1, every operation but sign-out |
| `sessions_serial` | do the operations, cut off anywhere, end what they should | 3 tokens, 1 request, grace 1, 2 revocations, 2 ticks |

Three behaviours that the properties leave room for have no run of their own;
each shows when `Sessions` is run with the formula named:

* a refresh spends its token, the account is revoked, Save reads the new
  generation, and the session goes on (`RevokedStaysRevoked`, two requests, login,
  refresh and logout_all; `docs/API.md:233` says that every refresh token is revoked);
* a refresh, a sign-out with the new token, and the old token again within the
  grace (`SignedOutStaysOut`, one request; `service.go:249`);
* a sign-in past its password check when the account is closed: its token
  outlives the block (`ClosedIsClosed` with two requests; `service.go:405`).

The revocation itself is sound under every interleaving (`RevocationEmpties`);
what escapes it is exactly a session that a refresh was rotating when it came
(`OnlyOvertakenSurvive`). A session forks, or comes back from a sign-out, exactly
where the grace honours a spent token (`OneTokenPerSession`,
`SignedOutUnlessReused`).

### Links

Three tasks hold a parent, its subtask and a third. Two link ids and a
cap of one give two creations one slot to race for; after Checkout both ids can
be held. One directed and one undirected meaning stand for the four. The
instance has no deadlock, and it is checked.

| Run | Question | Bounds |
|---|---|---|
| `links` | do the cap, the unique pairs, the parents and the release by a deletion hold | 3 tasks, 2 links, 2 requests, cap 1 |

The deletion itself is complete, under every interleaving
(`DanglesOnlyWhenOutrun`); what still dangles was inserted by a request that had
read its ends before (no run of its own: the ends are read, one is deleted, the
link is inserted, and `LinksLive` is violated). Such a link counts against the cap until
the task at its other end is deleted, or the link is, by its id.

### Admission

`register` and `close` are the two paths that differ most: two counters and no
transaction, and checks before a transaction held across the wait for a slot. The
other routes are stages of the same kinds; with `refresh` beside them the run
passes too, in 607 thousand states, and is left at two for its time. A limit of one
lets the second attempt be refused, one slot and one connection let the second
request wait, and two requests are enough for each to be in the other's way.
`Start` can come after every exit, so the instance has no deadlock, and it is
checked.

| Run | Question | Bounds |
|---|---|---|
| `admission` | does every slot, connection and counter come back, does every request and every shutdown end | 2 requests, 2 endpoints, limit 1, 1 slot, 1 connection |

A counter left without a window, which two calls can leave, does not refuse for
ever: the attempt that would be refused sets the window first
(`RefusedByAWindow`). A request waits for a slot at most as long as its own
timer, so a transaction that waits inside cannot stop the pool for good
(`EveryRequestEnds`), and one budget bounds the whole shutdown (`StopEnds`).

No run of its own: a process that starts while Redis is away serves no route
until it is started again (`main.go:91-194`; `Start` sets `api` once), so that
`process = "serving" ~> api` does not hold.

### Days

Two visits and a change race in every order; two timezones apart by half a day
and four instants make a day begin for one and not for the other, let a streak grow
to two days and break. A change can happen once: what a second could find, an
outdated copy or gate, is already there after the first. The instance has no
deadlock, and it is checked.

| Run | Question | Bounds |
|---|---|---|
| `days` | does a cached timezone or a gate swallow a day, is the streak what was counted, do the settings settle | 2 visits, 1 change, 2 timezones, days of 2 ticks, 4 instants |

What the history variables exclude is real. A copy stored by a reader that a
change overtook (`late`) is served for its minute and can shut the gate of a day
that was not counted: `Cache.Set` asks for the version when it writes
(`redis/cache.go:82`), not when the row was read. So `src/back/README.md:244-246`,
which calls a stale read structurally impossible, holds of the copies stored before a
change and of none stored after it by such a reader; `reader.go:16-18` promises the
minute and no more, and `SettingsSettle` says the minute is enough. Also, a day counted late after a move can put `last_streak_date` back; a move
west resets a streak, because today is then before the last day; of two changes
made at once the later write puts the other's preference back.

### History

Three rows, two of which can share an instant, make two and three pages of the
sizes one and two (`Default` and `MaxPage`; asking for more is cut to two); two
accounts tie and part; a day of one tick and a heatmap of two days put rows on both
sides of its first day, and midnight between the two requests of a year; one
change moves the timezone, or a name in or out of
the ranking. The instance has no deadlock, and it is checked.

| Run | Question | Bounds |
|---|---|---|
| `history` | is a paged history or ranking whole, do ranks and figures agree | 2 accounts, 3 rows, 2 instants, 1 change, pages of 1 and 2 |

What the properties leave out: a row filed late below the cursor may or may not be
seen (nothing is claimed of rows that were not there at the first page); a ranking
that changes between two pages can show an account twice or not at all, which an
offset cannot avoid, so the model leaves it (`Disturb`). After a move west a row can lie on a day after
today: the figures count it and the heatmap has no square for it, although
`service.go:317` says the figures cover the same year. The same is seen when the
squares are asked for with an outdated copy of the timezone, and both are `behind`.
Midnight between the two requests is not excused but claimed: the figures then hold
what the squares from their own first day on hold, and where the squares begin
later, at least that.

### Column

With `Gap` 2 and `Ceiling` 5 an append climbs by two, a midpoint exists once and a
second insert at one place has no room, and the ceiling is reached by the third
append: every branch of Place is taken in a column of three. Two requests place,
edit, complete and delete against each other. One quadrant and the lists under tasks
give scopes a task can leave and enter. Requests are interchangeable. Deadlock is
not checked: ids are used up, so the system stops.

| Run | Question | Bounds |
|---|---|---|
| `column` | does a task land where it was asked to, do the others keep their order, do positions stay in the column's range | 3 tasks, 1 quadrant, 2 requests |

`LandsAsAsked` and `OthersKeepTheirOrder` speak of a request whose scope is
still the one it read (`Overtaken`): two moves at once can leave two tasks at one
position, although `SPEC.md:418` says that asking for a place "removes races between
clients"; the ids then break the tie, and the next placement lands as asked again. A creation under a parent is left out
of them: it takes its position from a renumbering that is not written
(`write.go:105`; what `write.go:117` says of the renumbering holds for quadrants),
so near the ceiling a new subtask may not come last. With the real
constants, 1024 and 2^30, `Highest` fits the 32-bit column as long as an account
has fewer than two million tasks.

## 5. Fairness

Board, Sessions, Links, Column and History check safety only: a request may stop at
any call, a caller need not come back, so no fairness is assumed.

Admission assumes weak fairness of `Serve(r)` for each request: a goroutine is
scheduled, a call to Redis or PostgreSQL returns or fails by its timeout, the
deadline of the request fires; and weak fairness of `Shutdown`, the one goroutine
that runs it and the timer of its budget. Nothing is assumed of callers,
signals, crashes, outages, restarts and windows.

Days assumes weak fairness of `Proceed(r)` and `Apply(w)`: a visit or a change that
began goes on or fails; and of `Expire`: the copy has a time to live. Nobody
has to come, and the clock need not move.

## 6. The proofs

`BoardProofs` proves `Spec => []IInv` for every set of tasks and requests, every
catalogue and every limit, from `BoardAssumption` (finite tasks and catalogue,
rewards of at least 2 XP before the subtask rate, `None` distinct from ids).

`IInv == TypeOK /\ RequestsOK /\ DraftsHeld /\ LockedRowStable`. Types alone are
not inductive:

* FinishComplete writes what it *read*, so its result is well formed only
  because the row it read was live and had a quadrant to price it by
  (`RequestsOK`);
* CommitCreate overwrites a row slot, which disturbs no locked row only because
  the slot is still unused, and it is unused because the drafter holds the users
  row (`DraftsHeld`);
* the row a completion rewrites is the one it read because every other writer
  needs the row's lock (`LockedRowStable`).

There is a lemma per action (`BeginCreateInv`, `FinishCompleteInv`, ...), lemmas
about the operators they share (`EndInv` for the release of locks, `WritesKeep`
for writes to unlocked rows, `AppliedType`, `RewardType`, `LevelType`), and
`NextInv` puts them together.

On it rest `LevelCorrect`, `UnlocksExact`, `DeletedStays` and `LedgerSums` under
every operation; `CreationsBounded` without Update, which
writes rows without the users row that a creation holds from its count to its
INSERT (`RoomHeld`); `QuotaHolds` when Reopen, which does not ask the cap, is
left out too;
`LedgerExact` when neither subtasks nor Update are, which is the positive side
of the findings: the row lock alone keeps ledger, snapshots and counters
together for any number of requests. Those hypotheses are about the CONSTANT
`Operations` and are needed: with them dropped, the runs above are the
counterexamples.

`LedgerSums` (`Spec => []LedgerAddsUp`) says of each step that the aggregate and the
sum of the ledger move by the same amount (`StepRecords`). `CommitCreate` and the
rest pay nothing, a reopening withdraws from one task; a completion pays every task
it cascades to, and a deletion withdraws from every one it read, so the sum over
the tasks is taken apart at those (`TotalSplit`). A completion adds its cascade up
apart from its own pay, which is right only because no row is its own parent
(`NoOwnParent`, an invariant of its own: of the rows and of what requests read).

`NoNegativeXP`, which the run `delete_race` refutes, is proved for all that stays
short of that race: where there are no subtasks and no Update (`XPNotNegative`), where
one request runs at a time (`XPNotNegativeAlone`), and where tasks are not both deleted
and reopened, with subtasks, Update and any interleaving (`XPNeedsBoth`). The last
rests on `EarningsInv`: every task has earned in the ledger what its row on the board
shows (`EarningsHeld`), and, where tasks are deleted, nothing is withdrawn of a row
between a deletion's read and its write (`Claim`). A completion paid over by a race
only adds to the ledger, so that race is no exception.

`NestingNeedsPromotion` does the same for `OneLevel`: under any interleaving, stale
writes included, no subtask is under a subtask where no task leaves its parent
(no MoveTask, no Promote). By `HierarchyInv` every parent on file, and every draft's,
is a row that never becomes a subtask, and what a request writes back has the parent
that is stored. So the trigger's blindness to an uncommitted row is harmless until a
promoted task is put back.

Another section takes the other way out of the races: every operation, subtasks
and Update among them, but one request at a time (`OneRequest`), cut off at any
step. `AloneInv` says that families are in order (`FamilyInv`: a subtask on the board
has a parent on it, which is no subtask) and that what the request read is still so
(`ReadsCurrent`). From it come `LedgerExactAlone`, `NoWorkLost`, `CompletedStays`,
`OneLevelAlone` and `PromotionStays`, each of which a second request refutes.

`BoardIsAtomic` is the refinement: `Spec => BehavesAtomically` without subtasks
and Update, for any number of requests. A step changes the life of at most one
task, and along its life (`LifeStep`); the ledger and the count move with it by
the flat invariant; that a creation still finds room at its commit is `RoomHeld`.

`SessionsProofs` proves, from `SessionsAssumption`, for any tokens, requests,
operations, grace and bounds:

* `SessionsTypeCorrect` — `TypeOK` is inductive;
* `RevocationComplete` — no key, and no read of the generation, is ahead of the
  generation (`GenerationsReached`), so that one INCR leaves no usable token;
* `NoFork` — a session is in one place, a key or a request that carries it,
  unless a spent token was honoured for it (`OnePlace`): ConsumeValid picks it up
  from the key it deletes, and Save puts it down. That a minted token is a new
  one needs the shape of the pairs (`FreshIsFresh`);
* `OnlyTheOvertakenSurvive` — a key or a request that belongs to a revoked session
  does so with an excuse (`SurvivalInv`): what is stored under the current
  generation (`StoreExcused`), and what a request carries (`RequestExcused`), is of a
  session that was not revoked, or that a refresh was rotating when it was.

And under `OneRequest`, one request at a time but cut off at any call:

* `SignedOutIsOut` — by `SignOutInv`: a token that opens a session is the latest one
  of it (`LatestOpens`), a request acts under the generation it read (`Punctual`),
  and one that carries a signed-out session was let through by the grace (`StaysOut`);
* `ClosedAccountIsClosed` — by `ClosingInv`: no access token outlives the block.

With a second request those two are refuted by the behaviours above, so the
hypothesis is needed.

`LinksProofs` proves, from `LinksAssumption` (finitely many link ids, a cap in
Nat, `None` apart from ids), for any tasks, links and requests, every property
of the run:

* `LinksTypeCorrect` — `TypeOK` is inductive;
* `NoPairJoinedTwice` — `FreeKeyKeepsPairs`: writing a row whose key is free
  joins no pair twice, where the key of the index and `SameEnds` of the domain
  are shown to be the same relation (`KeysAreEnds`);
* `DeletionReleases` — a link that dangles after a deletion has both ends
  outside what was deleted, so it dangled before;
* `LinksWithinPlan` — inductive with `RoomHeld`: between the count and the INSERT
  a request holds the users row, so no other takes the slot and the plan stays;
* `LinksBesideParents` — inductive with `KnownInv`: the ends of a link or a draft
  are tasks that were inserted before they were read, so no creation can give
  them a parent afterwards.

`AdmissionProofs` proves the three safety properties of its run from
`PoolAssumption`, `RequestsAssumption`, `EndpointsAssumption` and
`LimitAssumption`, for any endpoints, limits, slots and connections:

* `AdmissionTypeCorrect` — with `Placed`, that a request at a stage is at one its
  endpoint has;
* `NothingIsLeaked` — by `Accounted`, the membership of each request in `slots` and
  `conns` as an equivalence with the point it is at, which is what each way out of
  the queue has to keep (`OneMore`, `OneLess` for the counts);
* `ClosesWhenDrained` — no request begins after the drain, and `spent` is not
  taken back before the exit;
* `RefusalsHaveAnEnd` — the last step before a refusal found the window, set it,
  or found the key gone (`WindowSet`, `RefusalStep`).

`DaysProofs` proves, from `ClockAssumption` and `ZonesAssumption`, for any visits,
changes, timezones and length of a day:

* `DaysTypeCorrect`;
* `CopyRetired` — a visit that read the row after the last change holds the
  row's timezone and so leaves no outdated copy (`FreshRead`, the first conjunct of
  `RetiredByAChange`); an outdated copy has its change still unanswered, or is
  `late` or `missed`, and each of these three is there only by the step that
  makes it. Neither excuse is empty: the run reaches both, and only
  `SettingsSettle` ends them;
* `NoDaySwallowed` — by `GateInv`: the last day was counted (`LastCounted`), a shut
  gate's day has been counted, or a later one has (`GatesCovered`), and a visit's
  day is not after the one its clock reading gives (`InTime`). `Quotients` and
  `DatesGrow` give the calendar;
* `StreakIsExact` — by lemmas on runs: adding the day after the last extends the
  run by one (`RunGrows`), adding one after a gap begins a new one (`RunBegins`), and
  neither changes an older one (`RunsStay`).

`HistoryProofs` proves the four properties of `History`, from `UsersAssumption`
(finitely many accounts, whose ids are compared), `ZonesAssumption`,
`PageAssumption` (no page, day or window is empty, the default page is not above the
largest) and `BoundsAssumption`, which only says that the bounds of the run are
numbers: any accounts, page sizes, windows, timezones, and any rows filed in between.

* `HistoryWhole` — by `HistoryInv`: what was shown is not below the cursor, and of
  what was there at the first page nothing above it is missing. `NewestForemost`
  and `PageIsFirst` give what a page is: `Older` is a total order of the rows
  (`NewerOrders`), so the newest n are the first n, and the row read past them says
  rightly whether another follows. Instants may be equal, so this rests on the
  cursor holding the id as well.
* `RankingWhole` — by `RankingInv`: a ranking still being read has listed the accounts
  whose `Position` is not past its offset, and everybody when no page follows.
  `AheadOrders` says that XP, the moment and the id order the accounts,
  `PositionCount` that the first n positions are n accounts.
* `RanksAgreeAlways` — a rank is one more than the number of greater earnings
  (`RankCounts`), and such numbers leave no gap (`Numbering`).
* `FiguresMatch` — by `DaysInv`: what the account did was filed under a day no
  later than today in one of the timezones it has had; and by `YearInv`: the
  squares and figures on the screen are those of the rows there are, from the
  days their requests read, and unless they are behind no row is past the last
  square. So what has the day of a square from the figures' first day on is among
  what the figures count, and is all of it when the squares do not begin later
  (`CountByKey` for the sum).

`ColumnProofs` proves every property of the run from `TasksAssumption`,
`QuadrantsAssumption` and `GapAssumption`, for any scope, gap and ceiling:

* `PlaceCorrect` — for every scope, also with equal or adjacent positions: the
  task is between its neighbours and no other pair changes places. The
  renumbering counts predecessors (`BeforeGrows`, `Slots`), a midpoint of a gap of
  two lies strictly between (`SidesApart`);
* `ColumnTypeCorrect`, `PositionsStayBounded` — by `Inv`: rows and the copies a
  request will write back have positions in `1 .. Highest`; `PlaceBounded` for the new ones;
* `TasksLandAsAsked`, `OrderIsKept` — `PlaceCorrect` for the scope the request read.

`FiniteLemmas` is what several of these proofs keep needing. The induction theorems
of the library take an operator as a parameter, which the provers cannot
instantiate; induction over a finite set is done instead by a smallest
counterexample (`SmallestSet`, from the library's `WFMin` and the well-founded order
of subsets). Sums are the fold of the community modules: `Sums` and `SumsExist` give
its recursive function, `TotalPick` one step of it, `TotalSplit`, `TotalAdds`,
`TotalAgrees` and `CountByKey` what a sum over a set does when the set or the
values change. `Foremost`, `ForemostCount` and `Numbering` count along a total order.

Every invariant and action property of the passing runs is stated by a theorem. Only
model-checked: the liveness properties `EveryRequestEnds`, `StopEnds` and
`SettingsSettle` (fairness and ENABLED are out of reach of the prover), and the two
violations, which are single behaviours.

## 7. Plan

Done: Board with its proofs and the abstract board it implements, Sessions with its proofs, Links with its proofs, Admission with its proofs, Days with its proofs, History with its proofs, Column with its proofs.

Left, in this order:

1. `LockOrder` — who holds what while waiting for what, from the statements of
   each transaction: which pairs can deadlock. Board and Column let a wait that
   would never end be a `Rollback`, so nothing they show depends on it.
2. `Browser` — the tabs of one browser over Sessions: the shared cookies, the
   Web Lock around a refresh, its ten seconds and the answer that comes later.
3. `BoardStore` — the client's optimistic board: saves, loads and resets whose
   answers come in any order.

Proofs left: what one can still say of a board with subtasks and several requests
when only some operations overlap, as `XPNeedsBoth` does for the
ledger and `NestingNeedsPromotion` for the hierarchy.

## 8. Not modelled

* Libraries: Argon2, JWT signatures, SQL parsing.
* Search and filters, tags, the export and the graph snapshot: read-only queries and
  single upserts, whose result depends on one statement. ExportAll runs several
  under READ COMMITTED, so its parts can be of different moments, although
  `service.go:383` (`app/profile`) speaks of one.
* The client: its session (tabs), its board store and its screens. Read with the
  server's side modelled, three things stand out: a sign-out that fails offline is
  shown as done; the counter that tells the newest save starts again at every
  sign-out (`board.store.ts:184`); a refused link change puts back the whole list
  (`board.store.ts:391`).
* The force layouts of the graph (floating point), React rendering, wiring,
  migrations, configuration, metrics and logging (no state the program reads
  back), nginx and containers.
* Register, but for its way through Admission: it commits the account and then opens
  the session like Login; when the second fails the account exists and the caller
  was told of an error (`service.go:142`, `app/auth`).
