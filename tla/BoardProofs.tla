---------------------------- MODULE BoardProofs ----------------------------
(***************************************************************************)
(* Theorems about Board, for every set of tasks and of requests: the       *)
(* inductive invariant, action by action; what it gives, under every       *)
(* operation, for the aggregate, its sum of the ledger, the deleted rows   *)
(* and the quota; ledger, snapshots and counters without subtasks and      *)
(* Update, the earnings where tasks are not both deleted and reopened, the *)
(* nesting where none is moved or promoted, and everything where one       *)
(* request runs at a time; and the implementation of AtomicBoard without   *)
(* subtasks and Update.                                                    *)
(***************************************************************************)
EXTENDS Board, FiniteLemmas, TLAPS

\* What a request carries between its two steps is usable by the second: it
\* has read the row it names, live, and a completion has a quadrant to price by.
RequestsOK ==
    \A r \in Requests :
        /\ stage[r] # "idle" => arg[r] \in DOMAIN seen[r]
        /\ stage[r] # "idle" => seen[r][arg[r]].life = "live"
        /\ stage[r] = "complete" => EffectiveQuadrant(seen[r], arg[r]) \in Quadrants

\* A draft keeps the users row, so nobody else drafts, and its id stays free.
DraftsHeld ==
    \A r \in Requests : stage[r] \in {"create", "insert"} =>
        account = r /\ rows[arg[r]].life = "none"

\* The inductive invariant: types alone do not say that the row a completion
\* rewrites is the one it read, nor that an INSERT hits nobody's locked row.
IInv == TypeOK /\ RequestsOK /\ DraftsHeld /\ LockedRowStable

Stats == [xp : -MaxXP .. MaxXP, level : Nat \ {0}, tasks : Int, subtasks : Int,
          created : Nat, unlocks : Nat]

IsDelta(delta) ==
    /\ delta.tasks \in Int /\ delta.subtasks \in Int /\ delta.created \in Nat
    /\ stats.xp + delta.xp \in -MaxXP .. MaxXP

-----------------------------------------------------------------------------
\* A level is a positive integer, whatever the XP.
LEMMA LevelType == \A xp \in Int : LevelForXP(xp) \in Nat \ {0}
<1> SUFFICES ASSUME NEW xp \in Int PROVE LevelForXP(xp) \in Nat \ {0}
    OBVIOUS
<1> DEFINE N == {n \in 1 .. xp : XPForLevel(n + 1) <= xp}
<1>1. IsFiniteSet(1 .. xp)
    BY FS_Interval
<1>2. IsFiniteSet(N)
    BY <1>1, FS_Subset
<1>3. Cardinality(N) \in Nat
    BY <1>2, FS_CardinalityType
<1> QED BY <1>3 DEF LevelForXP

\* Every quadrant pays something, for a subtask too.
LEMMA RewardType ==
    \A q \in Quadrants, sub \in BOOLEAN : Reward(q, sub) \in Nat /\ Reward(q, sub) > 0
<1> SUFFICES ASSUME NEW q \in Quadrants, NEW sub \in BOOLEAN
             PROVE Reward(q, sub) \in Nat /\ Reward(q, sub) > 0
    OBVIOUS
<1>1. TaskXP[q] \in Nat /\ TaskXP[q] >= 2
    BY BoardAssumption
<1>2. \A x \in Nat : x >= 2 => (x * 35 + 50) \div 100 \in Nat /\ (x * 35 + 50) \div 100 > 0
    OBVIOUS
<1> QED BY <1>1, <1>2 DEF Reward

\* Adding a delta that fits the column keeps the aggregate's type.
LEMMA AppliedType ==
    ASSUME StatsType, NEW delta, IsDelta(delta)
    PROVE Applied(delta) \in Stats
<1>1. LevelForXP(stats.xp + delta.xp) \in Nat \ {0}
  <2>1. -MaxXP .. MaxXP \subseteq Int
      BY BoardAssumption
  <2> QED BY <2>1, LevelType DEF IsDelta
<1>2. CASE delta = NoDelta
    BY <1>2 DEF Applied, StatsType, Stats
<1>3. CASE delta # NoDelta
  <2> DEFINE level == LevelForXP(stats.xp + delta.xp)
  <2> HIDE DEF level
  <2>1. Applied(delta) = [stats EXCEPT !.xp = @ + delta.xp, !.level = level,
                          !.tasks = @ + delta.tasks, !.subtasks = @ + delta.subtasks,
                          !.created = @ + delta.created]
      BY <1>3 DEF Applied, level
  <2>2. level \in Nat \ {0}
      BY <1>1 DEF level
  <2>3. /\ stats.tasks + delta.tasks \in Int
        /\ stats.subtasks + delta.subtasks \in Int
        /\ stats.created + delta.created \in Nat
      BY DEF StatsType, IsDelta
  <2> QED BY <2>1, <2>2, <2>3 DEF StatsType, Stats, IsDelta
<1> QED BY <1>2, <1>3

\* applyProgress keeps the aggregate's type.
LEMMA ApplyProgressType ==
    ASSUME StatsType, NEW delta, IsDelta(delta), ApplyProgress(delta)
    PROVE StatsType'
    BY AppliedType DEF ApplyProgress, StatsType, Stats

\* Evaluate keeps the types of the aggregate and of the unlocked set.
LEMMA EvaluateType ==
    ASSUME StatsType, unlocked \subseteq DOMAIN Catalogue,
           NEW delta, IsDelta(delta), NEW R, ApplyProgressAndEvaluate(delta, R)
    PROVE StatsType' /\ unlocked' \subseteq DOMAIN Catalogue
<1> DEFINE fresh == Fresh(Applied(delta), R)
<1>1. fresh \subseteq DOMAIN Catalogue
    BY DEF Fresh, Earned
<1>2. Cardinality(fresh) \in Nat
    BY <1>1, FS_Subset, FS_CardinalityType, BoardAssumption
<1>3. Applied(delta) \in Stats
    BY AppliedType
<1> QED BY <1>1, <1>2, <1>3 DEF ApplyProgressAndEvaluate, StatsType, Stats

-----------------------------------------------------------------------------
(* What the ends of a transaction preserve.                                 *)

\* The part of the invariant that is about the requests.
RequestsInv == RequestType /\ RequestsOK /\ DraftsHeld /\ LockedRowStable

\* Nobody else's locked row or draft slot is written.
OthersKept(r) ==
    \A q \in Requests :
        (q # r /\ stage[q] \in {"create", "insert", "complete", "delete"})
            => rows'[arg[q]] = rows[arg[q]]

\* A request that is not idle names one of the account's row slots.
LEMMA ArgType ==
    ASSUME RequestsInv, NEW q \in Requests, stage[q] # "idle"
    PROVE arg[q] \in Tasks
    BY DEF RequestsInv, RequestsOK, RequestType

\* Writing live rows that are free, or locked by the writer, disturbs nobody.
LEMMA WritesKeep ==
    ASSUME RequestsInv, NEW r \in Requests, NEW W,
           \A x \in Tasks \ W : rows'[x] = rows[x],
           \A x \in W : rows[x].life = "live" /\ owner[x] \in {None, r}
    PROVE OthersKept(r)
<1> SUFFICES ASSUME NEW q \in Requests, q # r,
                    stage[q] \in {"create", "insert", "complete", "delete"}
             PROVE arg[q] \in Tasks \ W
    BY DEF OthersKept
<1>1. arg[q] \in Tasks
    BY ArgType
<1>2. CASE stage[q] \in {"create", "insert"}
    BY <1>1, <1>2 DEF RequestsInv, DraftsHeld
<1>3. CASE stage[q] \in {"complete", "delete"}
    BY <1>1, <1>3, BoardAssumption DEF RequestsInv, LockedRowStable
<1> QED BY <1>2, <1>3

\* A commit or a rollback keeps what the other requests rely on.
LEMMA EndInv ==
    ASSUME RequestsInv, NEW r \in Requests, End(r), OthersKept(r)
    PROVE RequestsInv'
<1> USE DEF RequestsInv
<1>1. stage' \in [Requests -> Stages] /\ arg' \in [Requests -> Tasks \cup {None}]
    BY DEF RequestType, End, Stages
<1>2. DOMAIN seen' = Requests /\ seen'[r] = NoRows
    BY DEF RequestType, End
<1>3. \A q \in Requests \ {r} : seen'[q] = seen[q] /\ stage'[q] = stage[q] /\ arg'[q] = arg[q]
    BY DEF RequestType, End
<1>4. stage'[r] = "idle"
    BY DEF RequestType, End
<1>5. DOMAIN NoRows = {}
    BY DEF NoRows
<1>6. owner' \in [Tasks -> Requests \cup {None}] /\ account' \in Requests \cup {None}
    BY DEF RequestType, End
<1>7. \A q \in Requests \ {r} : \A t \in Tasks : owner[t] = q => owner'[t] = q
    BY DEF RequestType, End
<1>8. RequestType'
    BY <1>1, <1>2, <1>3, <1>5, <1>6 DEF RequestType, WellFormed
<1>9. RequestsOK'
    BY <1>3, <1>4 DEF RequestsOK, EffectiveQuadrant
<1>10. LockedRowStable'
  <2> SUFFICES ASSUME NEW q \in Requests, stage'[q] \in {"complete", "delete"}
               PROVE owner'[arg'[q]] = q /\ rows'[arg'[q]] = seen'[q][arg'[q]]
      BY DEF LockedRowStable
  <2>1. q # r
      BY <1>4
  <2>2. arg[q] \in Tasks
      BY <2>1, <1>3, ArgType
  <2> QED BY <2>1, <2>2, <1>3, <1>7 DEF LockedRowStable, OthersKept
<1>11. DraftsHeld'
  <2> SUFFICES ASSUME NEW q \in Requests, stage'[q] \in {"create", "insert"}
               PROVE account' = q /\ rows'[arg'[q]].life = "none"
      BY DEF DraftsHeld
  <2>1. q # r
      BY <1>4
  <2>2. account = q /\ rows[arg[q]].life = "none"
      BY <2>1, <1>3 DEF DraftsHeld
  <2> QED BY <2>1, <2>2, <1>3 DEF End, OthersKept
<1> QED BY <1>8, <1>9, <1>10, <1>11

\* A request served by one step holds nothing, before or after it.
LEMMA AtOnceInv ==
    ASSUME RequestsInv, NEW r \in Requests, AtOnce(r), OthersKept(r)
    PROVE RequestsInv'
<1> USE DEF RequestsInv, AtOnce
<1>1. \A q \in Requests : stage[q] \in {"create", "insert", "complete", "delete"}
                              => rows'[arg[q]] = rows[arg[q]]
    BY DEF OthersKept
<1>2. RequestType' /\ RequestsOK'
    BY DEF RequestType, RequestsOK, EffectiveQuadrant, WellFormed
<1>3. DraftsHeld' /\ LockedRowStable'
    BY <1>1 DEF DraftsHeld, LockedRowStable
<1> QED BY <1>2, <1>3

\* The first half of a request reads rows and takes locks nobody holds.
LEMMA BeginInv ==
    ASSUME RequestsInv,
           NEW r \in Requests, NEW t \in Tasks, NEW next \in Stages \ {"idle"}, NEW reads,
           Begin(r, t, next, reads), UNCHANGED rows,
           DOMAIN reads \subseteq Tasks, t \in DOMAIN reads, reads[t].life = "live",
           \A x \in DOMAIN reads : WellFormed(reads[x]),
           next = "complete" => EffectiveQuadrant(reads, t) \in Quadrants,
           next \in {"complete", "delete"} => owner'[t] = r /\ reads[t] = rows[t],
           next \in {"create", "insert"} => account' = r /\ rows[t].life = "none",
           owner' \in [Tasks -> Requests \cup {None}], account' \in Requests \cup {None},
           \A q \in Requests \ {r}, x \in Tasks : owner[x] = q => owner'[x] = q,
           \A q \in Requests \ {r} : account = q => account' = q
    PROVE RequestsInv'
<1> USE DEF RequestsInv
<1>1. stage' \in [Requests -> Stages] /\ arg' \in [Requests -> Tasks \cup {None}]
    BY DEF RequestType, Begin
<1>2. DOMAIN seen' = Requests /\ seen'[r] = reads /\ stage'[r] = next /\ arg'[r] = t
    BY DEF RequestType, Begin
<1>3. \A q \in Requests \ {r} : seen'[q] = seen[q] /\ stage'[q] = stage[q] /\ arg'[q] = arg[q]
    BY DEF RequestType, Begin
<1>4. RequestType'
    BY <1>1, <1>2, <1>3 DEF RequestType, WellFormed
<1>5. RequestsOK'
    BY <1>2, <1>3 DEF RequestsOK, EffectiveQuadrant
<1>6. LockedRowStable'
  <2> SUFFICES ASSUME NEW q \in Requests, stage'[q] \in {"complete", "delete"}
               PROVE owner'[arg'[q]] = q /\ rows'[arg'[q]] = seen'[q][arg'[q]]
      BY DEF LockedRowStable
  <2>1. CASE q = r
      BY <2>1, <1>2
  <2>2. CASE q # r
    <3>1. arg[q] \in Tasks
        BY <2>2, <1>3, ArgType
    <3> QED BY <2>2, <3>1, <1>3 DEF LockedRowStable
  <2> QED BY <2>1, <2>2
<1>7. DraftsHeld'
  <2> SUFFICES ASSUME NEW q \in Requests, stage'[q] \in {"create", "insert"}
               PROVE account' = q /\ rows'[arg'[q]].life = "none"
      BY DEF DraftsHeld
  <2>1. CASE q = r
      BY <2>1, <1>2
  <2>2. CASE q # r
      BY <2>2, <1>3 DEF DraftsHeld
  <2> QED BY <2>1, <2>2
<1> QED BY <1>4, <1>5, <1>6, <1>7

-----------------------------------------------------------------------------
(* The invariant, action by action.                                         *)

\* The aggregate moves only by deltas of the kind applyProgress is given.
LEMMA DeltaTypes ==
    \A xp, tasks, subtasks, created :
        (tasks \in Int /\ subtasks \in Int /\ created \in Nat
         /\ stats.xp + xp \in -MaxXP .. MaxXP)
        => IsDelta([xp |-> xp, tasks |-> tasks, subtasks |-> subtasks, created |-> created])
    BY DEF IsDelta

\* The empty board satisfies the invariant.
LEMMA InitInv == Init => IInv
<1> SUFFICES ASSUME Init PROVE IInv
    OBVIOUS
<1>1. WellFormed(NoRow)
  <2>1. NoRow \in Row
      BY DEF NoRow, Row, Lives
  <2>2. /\ NoRow.life = "none" /\ NoRow.done = FALSE
        /\ (NoRow.at # None) = FALSE /\ (NoRow.xp > 0) = FALSE
      BY DEF NoRow
  <2> QED BY <2>1, <2>2 DEF WellFormed
<1>2. BoardType
    BY <1>1, BoardAssumption DEF Init, BoardType, StatsType, WellFormed
<1>3. RequestType
    BY DEF Init, RequestType, Stages, NoRows
<1>4. RequestsOK /\ DraftsHeld /\ LockedRowStable
    BY DEF Init, RequestsOK, DraftsHeld, LockedRowStable
<1> QED BY <1>2, <1>3, <1>4 DEF IInv, TypeOK

\* BeginCreate keeps a draft that satisfies the CHECKs and locks the account.
LEMMA BeginCreateInv ==
    ASSUME IInv, NEW r \in Requests, NEW t \in Tasks, NEW row,
           WellFormed(row), row.life = "live", BeginCreate(r, t, row)
    PROVE IInv'
<1> DEFINE reads == [x \in {t} |-> row]
<1>1. BoardType'
    BY DEF IInv, TypeOK, BeginCreate, BoardType, StatsType, board, WellFormed
<1>2. /\ "create" \in Stages \ {"idle"} /\ Begin(r, t, "create", reads)
      /\ UNCHANGED <<rows, owner>> /\ account' = r
      /\ account = None /\ rows[t].life = "none"
    BY DEF BeginCreate, board, Stages, AccountFree
<1>3. RequestsInv'
  <2>1. /\ RequestsInv
        /\ owner' \in [Tasks -> Requests \cup {None}]
        /\ account' \in Requests \cup {None}
      BY <1>2 DEF IInv, TypeOK, RequestsInv, RequestType
  <2>2. \A q \in Requests \ {r} : account = q => account' = q
      BY <1>2, BoardAssumption
  <2> QED BY <1>2, <2>1, <2>2, BeginInv
<1> QED BY <1>1, <1>3 DEF IInv, TypeOK, RequestsInv

\* The INSERT only moves the request to its next step.
LEMMA InsertTaskInv ==
    ASSUME IInv, NEW r \in Requests, InsertTask(r)
    PROVE IInv'
<1>1. BoardType'
    BY DEF IInv, TypeOK, InsertTask, BoardType, StatsType, board, WellFormed
<1>2. RequestType'
    BY DEF IInv, TypeOK, InsertTask, RequestType, Stages, WellFormed
<1>3. RequestsOK'
    BY DEF IInv, TypeOK, InsertTask, RequestType, RequestsOK, EffectiveQuadrant
<1>4. DraftsHeld' /\ LockedRowStable'
    BY DEF IInv, TypeOK, InsertTask, RequestType, DraftsHeld, LockedRowStable, board
<1> QED BY <1>1, <1>2, <1>3, <1>4 DEF IInv, TypeOK

\* The draft becomes a row; nobody has locked a slot that was never used.
LEMMA CommitCreateInv ==
    ASSUME IInv, NEW r \in Requests, CommitCreate(r)
    PROVE IInv'
<1> DEFINE t == arg[r]
<1>1. RequestsInv /\ stage[r] = "insert" /\ End(r)
    BY DEF IInv, TypeOK, RequestsInv, CommitCreate
<1>2. t \in Tasks
    BY <1>1, ArgType
<1>3. WellFormed(seen[r][t]) /\ account = r /\ rows[t].life = "none"
    BY <1>1 DEF RequestsInv, RequestType, RequestsOK, DraftsHeld
<1>4. OthersKept(r)
  <2> SUFFICES ASSUME NEW q \in Requests, q # r,
                      stage[q] \in {"create", "insert", "complete", "delete"}
               PROVE rows'[arg[q]] = rows[arg[q]]
      BY DEF OthersKept
  <2>1. arg[q] \in Tasks
      BY <1>1, ArgType
  <2>2. stage[q] \in {"complete", "delete"}
      BY <1>1, <1>3 DEF RequestsInv, DraftsHeld
  <2>3. rows[arg[q]].life = "live"
      BY <1>1, <2>2 DEF RequestsInv, RequestsOK, LockedRowStable
  <2> QED BY <2>1, <2>3, <1>3 DEF CommitCreate, IInv, TypeOK, BoardType
<1>5. RequestsInv'
    BY <1>1, <1>4, EndInv
<1>6. StatsType'
  <2> DEFINE delta == [NoDelta EXCEPT !.created = 1]
  <2>1. StatsType /\ ApplyProgress(delta)
      BY DEF IInv, TypeOK, BoardType, CommitCreate
  <2>2. IsDelta(delta)
      BY <2>1 DEF IsDelta, NoDelta, ApplyProgress
  <2> QED BY <2>1, <2>2, ApplyProgressType
<1>7. rows' \in [Tasks -> Row] /\ \A x \in Tasks : WellFormed(rows'[x])
    BY <1>2, <1>3 DEF IInv, TypeOK, BoardType, CommitCreate, WellFormed
<1>8. BoardType'
    BY <1>6, <1>7 DEF IInv, TypeOK, BoardType, CommitCreate, ApplyProgress, WellFormed
<1> QED BY <1>5, <1>8 DEF IInv, TypeOK, RequestsInv

\* BeginUpdate remembers a stored row, which satisfies the CHECKs.
LEMMA BeginUpdateInv ==
    ASSUME IInv, NEW r \in Requests, NEW t \in Tasks, BeginUpdate(r, t)
    PROVE IInv'
<1> DEFINE reads == [x \in {t} |-> rows[t]]
<1>1. BoardType'
    BY DEF IInv, TypeOK, BeginUpdate, BoardType, StatsType, board, WellFormed
<1>2. /\ "update" \in Stages \ {"idle"} /\ Begin(r, t, "update", reads)
      /\ UNCHANGED <<rows, owner, account>> /\ reads[t].life = "live"
    BY DEF BeginUpdate, board, Stages, Live
<1>3. RequestsInv'
  <2>1. /\ RequestsInv
        /\ owner' \in [Tasks -> Requests \cup {None}]
        /\ account' \in Requests \cup {None}
        /\ WellFormed(rows[t])
      BY <1>2 DEF IInv, TypeOK, RequestsInv, RequestType, BoardType
  <2> QED BY <1>2, <2>1, BeginInv
<1> QED BY <1>1, <1>3 DEF IInv, TypeOK, RequestsInv

\* Update writes back a row that satisfies the CHECKs, and only if nobody locked it.
LEMMA WriteUpdateInv ==
    ASSUME IInv, NEW r \in Requests, WriteUpdate(r)
    PROVE IInv'
<1> DEFINE t == arg[r]
<1>1. RequestsInv /\ stage[r] = "update" /\ End(r)
    BY DEF IInv, TypeOK, RequestsInv, WriteUpdate
<1>2. t \in Tasks
    BY <1>1, ArgType
<1>3. WellFormed(seen[r][t]) /\ owner[t] = None /\ rows[t].life = "live"
    BY <1>1 DEF RequestsInv, RequestType, RequestsOK, WriteUpdate, Unlocked, StillLive, Live
<1>4. OthersKept(r)
  <2> DEFINE W == {t}
  <2>1. \A x \in Tasks \ W : rows'[x] = rows[x]
      BY DEF IInv, TypeOK, BoardType, WriteUpdate
  <2>2. \A x \in W : rows[x].life = "live" /\ owner[x] \in {None, r}
      BY <1>3
  <2> HIDE DEF W
  <2> QED BY <1>1, <2>1, <2>2, WritesKeep
<1>5. RequestsInv'
    BY <1>1, <1>4, EndInv
<1>6. rows' \in [Tasks -> Row] /\ \A x \in Tasks : WellFormed(rows'[x])
    BY <1>2, <1>3 DEF IInv, TypeOK, BoardType, WriteUpdate, WellFormed
<1>7. BoardType'
    BY <1>6 DEF IInv, TypeOK, BoardType, StatsType, WriteUpdate, WellFormed
<1> QED BY <1>5, <1>7 DEF IInv, TypeOK, RequestsInv

\* MoveTask and Promote turn a live row into a regular task of a quadrant.
LEMMA InQuadrantInv ==
    ASSUME IInv, NEW r \in Requests, NEW t \in Tasks, NEW quadrant \in Quadrants,
           ForUpdate(t), Live(t), InQuadrant(t, quadrant), AtOnce(r),
           UNCHANGED <<net, grants, stats, unlocked>>
    PROVE IInv'
<1>1. RequestsInv /\ owner[t] = None /\ rows[t].life = "live" /\ WellFormed(rows[t])
    BY DEF IInv, TypeOK, BoardType, RequestsInv, ForUpdate, Unlocked, Live
<1>2. OthersKept(r)
  <2> DEFINE W == {t}
  <2>1. \A x \in Tasks \ W : rows'[x] = rows[x]
      BY DEF IInv, TypeOK, BoardType, InQuadrant
  <2>2. \A x \in W : rows[x].life = "live" /\ owner[x] \in {None, r}
      BY <1>1
  <2> HIDE DEF W
  <2> QED BY <1>1, <2>1, <2>2, WritesKeep
<1>3. RequestsInv'
    BY <1>1, <1>2, AtOnceInv
<1>4. rows' \in [Tasks -> Row] /\ \A x \in Tasks : WellFormed(rows'[x])
  <2> DEFINE row == [rows[t] EXCEPT !.parent = None, !.quad = quadrant]
  <2>1. /\ row \in Row /\ row.quad # None /\ ~IsSubtask(row)
        /\ row.done = rows[t].done /\ row.at = rows[t].at /\ row.xp = rows[t].xp
      BY <1>1, BoardAssumption DEF WellFormed, Row, IsSubtask
  <2>2. WellFormed(row)
      BY <1>1, <2>1 DEF WellFormed
  <2>3. rows' = [rows EXCEPT ![t] = row]
      BY DEF InQuadrant, IInv, TypeOK, BoardType
  <2> HIDE DEF row
  <2> QED BY <2>2, <2>3 DEF IInv, TypeOK, BoardType, WellFormed
<1>5. BoardType'
    BY <1>4 DEF IInv, TypeOK, BoardType, StatsType, WellFormed
<1> QED BY <1>3, <1>5 DEF IInv, TypeOK, RequestsInv

\* Promote gives the subtask a quadrant that EffectiveQuadrant or the client named.
LEMMA PromoteInv ==
    ASSUME IInv, NEW r \in Requests, NEW t \in Tasks, NEW asked \in Quadrants \cup {None},
           Promote(r, t, asked)
    PROVE IInv'
<1> DEFINE quadrant == IF asked = None THEN EffectiveQuadrant(rows, t) ELSE asked
<1>1. EffectiveQuadrant(rows, t) \in Quadrants \cup {None}
    BY DEF EffectiveQuadrant, IInv, TypeOK, BoardType, Row
<1>2. quadrant \in Quadrants
    BY <1>1 DEF Promote
<1>3. InQuadrant(t, quadrant)
    BY DEF Promote
<1> HIDE DEF quadrant
<1> QED BY <1>2, <1>3, InQuadrantInv DEF Promote

\* Reopen writes a row nobody locked and withdraws its XP.
LEMMA ReopenInv ==
    ASSUME IInv, NEW r \in Requests, NEW t \in Tasks, Reopen(r, t)
    PROVE IInv'
<1>1. RequestsInv /\ owner[t] = None /\ rows[t].life = "live" /\ WellFormed(rows[t])
    BY DEF IInv, TypeOK, BoardType, RequestsInv, Reopen, ForUpdate, Unlocked, Live
<1>2. OthersKept(r)
  <2> DEFINE W == {t}
  <2>1. \A x \in Tasks \ W : rows'[x] = rows[x]
      BY DEF IInv, TypeOK, BoardType, Reopen
  <2>2. \A x \in W : rows[x].life = "live" /\ owner[x] \in {None, r}
      BY <1>1
  <2> HIDE DEF W
  <2> QED BY <1>1, <2>1, <2>2, WritesKeep
<1>3. RequestsInv'
    BY <1>1, <1>2, AtOnceInv DEF Reopen
<1>4. rows' \in [Tasks -> Row] /\ \A x \in Tasks : WellFormed(rows'[x])
  <2> DEFINE row == Reopened(rows[t])
  <2>1. /\ row \in Row /\ row.life = rows[t].life
        /\ row.quad = rows[t].quad /\ row.parent = rows[t].parent
        /\ row.done = FALSE /\ row.at = None /\ row.xp = 0
      BY <1>1 DEF WellFormed, Row, Reopened
  <2> HIDE DEF row
  <2>2. (row.at # None) = FALSE /\ (row.xp > 0) = FALSE
      BY <2>1
  <2>3. WellFormed(row)
      BY <1>1, <2>1, <2>2 DEF WellFormed, IsSubtask
  <2>4. rows' = [rows EXCEPT ![t] = row]
      BY DEF Reopen, row
  <2> QED BY <2>3, <2>4 DEF IInv, TypeOK, BoardType, WellFormed
<1>5. StatsType'
  <2> DEFINE xp == -rows[t].xp
             delta == IF IsSubtask(rows[t]) THEN [NoDelta EXCEPT !.xp = xp, !.subtasks = -1]
                      ELSE [NoDelta EXCEPT !.xp = xp, !.tasks = -1]
  <2>1. StatsType /\ ApplyProgress(delta)
      BY DEF IInv, TypeOK, BoardType, Reopen
  <2>2. stats.xp + xp \in -MaxXP .. MaxXP
      BY <2>1 DEF ApplyProgress, NoDelta
  <2> HIDE DEF xp
  <2>3. IsDelta(delta)
      BY <2>2 DEF IsDelta, NoDelta
  <2> QED BY <2>1, <2>3, ApplyProgressType
<1>6. net' \in [Tasks -> Int]
    BY <1>1 DEF IInv, TypeOK, BoardType, Reopen, WellFormed, Row
<1>7. BoardType'
    BY <1>4, <1>5, <1>6 DEF IInv, TypeOK, BoardType, Reopen, ApplyProgress, WellFormed
<1> QED BY <1>3, <1>7 DEF IInv, TypeOK, RequestsInv

\* BeginComplete locks the task it names and reads its family.
LEMMA BeginCompleteInv ==
    ASSUME IInv, NEW r \in Requests, NEW t \in Tasks, BeginComplete(r, t)
    PROVE IInv'
<1> DEFINE reads == [x \in Family(t) |-> rows[x]]
<1>1. BoardType'
    BY DEF IInv, TypeOK, BeginComplete, BoardType, StatsType, board, WellFormed
<1>2. /\ "complete" \in Stages \ {"idle"} /\ Begin(r, t, "complete", reads)
      /\ UNCHANGED <<rows, account>> /\ rows[t].life = "live"
      /\ owner[t] = None /\ owner' = [owner EXCEPT ![t] = r]
    BY DEF BeginComplete, board, Stages, Live, ForUpdate, Unlocked
<1>3. /\ RequestsInv /\ WellFormed(rows[t]) /\ rows \in [Tasks -> Row]
      /\ \A x \in Tasks : WellFormed(rows[x])
    BY DEF IInv, TypeOK, RequestsInv, BoardType
<1>4. Family(t) \subseteq Tasks /\ t \in Family(t)
    BY <1>3 DEF Family, Subtasks, IsSubtask, Row
<1>5. EffectiveQuadrant(reads, t) \in Quadrants
  <2>1. rows[t].quad # None \/ rows[t].parent \in Family(t)
      BY <1>2, <1>3 DEF WellFormed, Family, IsSubtask
  <2>2. EffectiveQuadrant(reads, t) = EffectiveQuadrant(rows, t)
      BY <1>3, <1>4, <2>1 DEF EffectiveQuadrant
  <2>3. EffectiveQuadrant(rows, t) # None
      BY DEF BeginComplete
  <2>4. EffectiveQuadrant(rows, t) \in Quadrants \cup {None}
      BY <1>3 DEF EffectiveQuadrant, Row
  <2> QED BY <2>2, <2>3, <2>4
<1>6. /\ owner' \in [Tasks -> Requests \cup {None}]
      /\ account' \in Requests \cup {None}
      /\ owner'[t] = r
      /\ \A q \in Requests \ {r}, x \in Tasks : owner[x] = q => owner'[x] = q
    BY <1>2, <1>3, BoardAssumption DEF RequestsInv, RequestType
<1>7. /\ DOMAIN reads \subseteq Tasks /\ t \in DOMAIN reads /\ reads[t] = rows[t]
      /\ \A x \in DOMAIN reads : WellFormed(reads[x])
    BY <1>3, <1>4
<1> HIDE DEF reads
<1>8. RequestsInv'
    BY <1>2, <1>3, <1>5, <1>6, <1>7, BeginInv
<1> QED BY <1>1, <1>8 DEF IInv, TypeOK, RequestsInv

\* BeginDelete locks the task it names and reads the rows it will remove.
LEMMA BeginDeleteInv ==
    ASSUME IInv, NEW r \in Requests, NEW t \in Tasks, BeginDelete(r, t)
    PROVE IInv'
<1> DEFINE reads == [x \in Doomed(t) |-> rows[x]]
<1>1. BoardType'
    BY DEF IInv, TypeOK, BeginDelete, BoardType, StatsType, board, WellFormed
<1>2. /\ "delete" \in Stages \ {"idle"} /\ Begin(r, t, "delete", reads)
      /\ UNCHANGED <<rows, account>> /\ rows[t].life = "live"
      /\ owner[t] = None /\ owner' = [owner EXCEPT ![t] = r]
    BY DEF BeginDelete, board, Stages, Live, ForUpdate, Unlocked
<1>3. /\ RequestsInv /\ rows \in [Tasks -> Row]
      /\ \A x \in Tasks : WellFormed(rows[x])
    BY DEF IInv, TypeOK, RequestsInv, BoardType
<1>4. Doomed(t) \subseteq Tasks /\ t \in Doomed(t)
    BY <1>3 DEF Doomed, Subtasks
<1>5. /\ owner' \in [Tasks -> Requests \cup {None}]
      /\ account' \in Requests \cup {None}
      /\ owner'[t] = r
      /\ \A q \in Requests \ {r}, x \in Tasks : owner[x] = q => owner'[x] = q
    BY <1>2, <1>3, BoardAssumption DEF RequestsInv, RequestType
<1>6. /\ DOMAIN reads \subseteq Tasks /\ t \in DOMAIN reads /\ reads[t] = rows[t]
      /\ \A x \in DOMAIN reads : WellFormed(reads[x])
    BY <1>3, <1>4
<1> HIDE DEF reads
<1>7. RequestsInv'
    BY <1>2, <1>3, <1>5, <1>6, BeginInv
<1> QED BY <1>1, <1>7 DEF IInv, TypeOK, RequestsInv

\* Rollback changes no row and gives up what the request held.
LEMMA RollbackInv ==
    ASSUME IInv, NEW r \in Requests, Rollback(r)
    PROVE IInv'
<1>1. BoardType'
    BY DEF IInv, TypeOK, Rollback, BoardType, StatsType, board, WellFormed
<1>2. RequestsInv'
    BY EndInv DEF IInv, TypeOK, RequestsInv, Rollback, OthersKept, board
<1> QED BY <1>1, <1>2 DEF IInv, TypeOK, RequestsInv

\* FinishComplete: what it writes are rows it locked or rows nobody locked.
LEMMA FinishCompleteInv ==
    ASSUME IInv, NEW r \in Requests, FinishComplete(r)
    PROVE IInv'
<1> DEFINE t == arg[r]
           read == seen[r]
           quadrant == EffectiveQuadrant(read, t)
           kids == Cascade(read, t)
           won == {t} \cup kids
           pay == [x \in won |-> Reward(quadrant, IsSubtask(read[x]))]
           written == [x \in Tasks |-> IF x \in won
                                       THEN Completed(read[x], pay[x], quadrant)
                                       ELSE rows[x]]
           mine == IF IsSubtask(read[t]) THEN 1 ELSE 0
           delta == [xp |-> pay[t] + Cardinality(kids) * Reward(quadrant, TRUE),
                     tasks |-> 1 - mine, subtasks |-> mine + Cardinality(kids), created |-> 0]
<1>1. RequestsInv /\ stage[r] = "complete" /\ End(r)
    BY DEF IInv, TypeOK, RequestsInv, FinishComplete
<1>2. t \in Tasks /\ quadrant \in Quadrants
    BY <1>1, ArgType DEF RequestsInv, RequestsOK
<1>3. /\ kids \subseteq DOMAIN read /\ t \in DOMAIN read /\ DOMAIN read \subseteq Tasks
      /\ \A x \in DOMAIN read : WellFormed(read[x])
    BY <1>1 DEF RequestsInv, RequestsOK, RequestType, Cascade, Subtasks
<1>4. owner[t] = r /\ rows[t] = read[t] /\ read[t].life = "live"
    BY <1>1 DEF RequestsInv, RequestsOK, LockedRowStable
<1>5. \A x \in kids : owner[x] = None /\ rows[x].life = "live"
    BY DEF FinishComplete, Unlocked, StillLive, Live
<1>6. rows' = written
    BY DEF FinishComplete
<1>7. OthersKept(r)
  <2>1. \A x \in Tasks \ won : rows'[x] = rows[x]
      BY <1>6
  <2>2. \A x \in won : rows[x].life = "live" /\ owner[x] \in {None, r}
      BY <1>4, <1>5
  <2> HIDE DEF won
  <2> QED BY <1>1, <2>1, <2>2, WritesKeep
<1>8. RequestsInv'
    BY <1>1, <1>7, EndInv
<1>9. \A x \in won : pay[x] \in Nat /\ pay[x] > 0
    BY <1>2, RewardType DEF IsSubtask
<1>10. rows' \in [Tasks -> Row] /\ \A x \in Tasks : WellFormed(rows'[x])
  <2> SUFFICES ASSUME NEW x \in Tasks PROVE WellFormed(written[x])
      BY <1>6 DEF WellFormed
  <2>1. CASE x \in won
    <3> DEFINE row == Completed(read[x], pay[x], quadrant)
    <3>1. WellFormed(read[x])
        BY <1>3, <2>1
    <3>2. pay[x] \in Nat /\ pay[x] > 0
        BY <1>9, <2>1
    <3> HIDE DEF pay, quadrant, won
    <3>3. /\ row \in Row /\ row.life = read[x].life
          /\ row.quad = read[x].quad /\ row.parent = read[x].parent
          /\ row.done = TRUE /\ row.xp = pay[x] /\ row.at = quadrant
        BY <1>2, <3>1, <3>2 DEF WellFormed, Row, Completed
    <3>4. written[x] = row
        BY <2>1
    <3> HIDE DEF row
    <3>5. (row.at # None) = TRUE /\ (row.xp > 0) = TRUE
        BY <1>2, <3>2, <3>3, BoardAssumption
    <3>6. WellFormed(row)
        BY <3>1, <3>3, <3>5 DEF WellFormed, IsSubtask
    <3> QED BY <3>4, <3>6
  <2>2. CASE x \notin won
      BY <2>2 DEF IInv, TypeOK, BoardType
  <2> QED BY <2>1, <2>2
<1>11. net' \in [Tasks -> Int] /\ grants' \in [Tasks -> Nat]
  <2>1. /\ net' = [x \in Tasks |-> IF x \in won THEN net[x] + pay[x] ELSE net[x]]
        /\ grants' = [x \in Tasks |-> IF x \in won THEN grants[x] + 1 ELSE grants[x]]
      BY DEF FinishComplete
  <2> HIDE DEF pay, won
  <2> QED BY <1>9, <2>1 DEF IInv, TypeOK, BoardType
<1>12. StatsType' /\ unlocked' \subseteq DOMAIN Catalogue
  <2>1. Cardinality(kids) \in Nat
      BY <1>3, BoardAssumption, FS_Subset, FS_CardinalityType
  <2>2. StatsType /\ unlocked \subseteq DOMAIN Catalogue
        /\ ApplyProgressAndEvaluate(delta, written)
      BY DEF IInv, TypeOK, BoardType, FinishComplete
  <2>3. IsDelta(delta)
    <3> DEFINE xp == pay[t] + Cardinality(kids) * Reward(quadrant, TRUE)
    <3>1. stats.xp + xp \in -MaxXP .. MaxXP
        BY <2>2 DEF ApplyProgressAndEvaluate
    <3>2. mine \in Int
        OBVIOUS
    <3> HIDE DEF xp, mine, kids
    <3>3. 1 - mine \in Int /\ mine + Cardinality(kids) \in Int
        BY <2>1, <3>2
    <3> QED BY <3>1, <3>3, DeltaTypes DEF xp
  <2> HIDE DEF delta, written
  <2> QED BY <2>2, <2>3, EvaluateType
<1>13. BoardType'
    BY <1>10, <1>11, <1>12 DEF BoardType, WellFormed
<1> QED BY <1>8, <1>13 DEF IInv, TypeOK, RequestsInv

\* FinishDelete: the same, for the rows that get their deleted_at.
LEMMA FinishDeleteInv ==
    ASSUME IInv, NEW r \in Requests, FinishDelete(r)
    PROVE IInv'
<1> DEFINE read == seen[r]
           doomed == DOMAIN read
           done == {x \in doomed : read[x].done}
           doneSubtasks == Cardinality({x \in done : IsSubtask(read[x])})
           total == MapThenSumSet(LAMBDA x : read[x].xp, done)
           delta == [xp |-> -total, tasks |-> doneSubtasks - Cardinality(done),
                     subtasks |-> -doneSubtasks, created |-> 0]
<1>1. RequestsInv /\ stage[r] = "delete" /\ End(r)
    BY DEF IInv, TypeOK, RequestsInv, FinishDelete
<1>2. doomed \subseteq Tasks /\ \A x \in doomed : WellFormed(read[x])
    BY <1>1 DEF RequestsInv, RequestType
<1>3. \A x \in doomed : rows[x].life = "live" /\ owner[x] \in {None, r}
    BY DEF FinishDelete, StillLive, Live
<1>4. \A x \in Tasks \ doomed : rows'[x] = rows[x]
    BY DEF FinishDelete
<1>5. RequestsInv'
  <2> HIDE DEF doomed
  <2>1. OthersKept(r)
      BY <1>1, <1>3, <1>4, WritesKeep
  <2> QED BY <1>1, <2>1, EndInv
<1>6. rows' \in [Tasks -> Row] /\ \A x \in Tasks : WellFormed(rows'[x])
  <2> SUFFICES ASSUME NEW x \in Tasks PROVE WellFormed(rows'[x])
      BY DEF FinishDelete, WellFormed
  <2>1. WellFormed(rows[x])
      BY DEF IInv, TypeOK, BoardType
  <2>2. CASE x \in doomed
    <3> DEFINE row == [rows[x] EXCEPT !.life = "gone"]
    <3>1. /\ row \in Row /\ row.quad = rows[x].quad /\ row.parent = rows[x].parent
          /\ row.done = rows[x].done /\ row.xp = rows[x].xp /\ row.at = rows[x].at
        BY <2>1 DEF WellFormed, Row, Lives
    <3>2. rows[x].life # "none"
        BY <1>3, <2>2
    <3>3. rows'[x] = row
        BY <2>2 DEF FinishDelete
    <3> HIDE DEF row
    <3>4. WellFormed(row)
        BY <2>1, <3>1, <3>2 DEF WellFormed, IsSubtask
    <3> QED BY <3>3, <3>4
  <2>3. CASE x \notin doomed
      BY <2>1, <2>3, <1>4
  <2> QED BY <2>2, <2>3
<1>7. net' \in [Tasks -> Int]
    BY <1>2 DEF IInv, TypeOK, BoardType, FinishDelete, WellFormed, Row
<1>8. StatsType'
  <2>1. /\ IsFiniteSet(done) /\ IsFiniteSet({x \in done : IsSubtask(read[x])})
      BY <1>2, BoardAssumption, FS_Subset
  <2>2. doneSubtasks \in Nat /\ Cardinality(done) \in Nat
      BY <2>1, FS_CardinalityType
  <2>3. StatsType /\ ApplyProgress(delta)
      BY DEF IInv, TypeOK, BoardType, FinishDelete
  <2>4. IsDelta(delta)
    <3>1. stats.xp + (-total) \in -MaxXP .. MaxXP
        BY <2>3 DEF ApplyProgress
    <3> HIDE DEF total, done, doneSubtasks
    <3>2. doneSubtasks - Cardinality(done) \in Int /\ -doneSubtasks \in Int
        BY <2>2
    <3> QED BY <3>1, <3>2, DeltaTypes
  <2> HIDE DEF delta
  <2> QED BY <2>3, <2>4, ApplyProgressType
<1>9. BoardType'
    BY <1>6, <1>7, <1>8 DEF IInv, TypeOK, BoardType, FinishDelete, ApplyProgress, WellFormed
<1> QED BY <1>5, <1>9 DEF IInv, TypeOK, RequestsInv

\* A step that changes no variable.
LEMMA StutterInv == IInv /\ UNCHANGED vars => IInv'
<1> SUFFICES ASSUME IInv, UNCHANGED vars PROVE IInv'
    OBVIOUS
<1>1. BoardType'
    BY DEF IInv, TypeOK, vars, board, BoardType, StatsType, WellFormed
<1>2. RequestType'
    BY DEF IInv, TypeOK, vars, RequestType, WellFormed
<1>3. RequestsOK' /\ DraftsHeld' /\ LockedRowStable'
    BY DEF IInv, vars, board, RequestsOK, DraftsHeld, LockedRowStable, EffectiveQuadrant
<1> QED BY <1>1, <1>2, <1>3 DEF IInv, TypeOK

\* The rows BeginCreate is called with satisfy the table's CHECKs.
LEMMA NewRows ==
    /\ \A quadrant \in Quadrants : /\ WellFormed(NewRegular(quadrant))
                                   /\ NewRegular(quadrant).life = "live"
    /\ \A parent \in Tasks : /\ WellFormed(NewSubtask(parent))
                             /\ NewSubtask(parent).life = "live"
<1>1. ASSUME NEW row \in Row, row.done = FALSE, row.xp = 0, row.at = None,
             (row.quad # None) = ~(row.parent # None)
      PROVE WellFormed(row)
  <2>1. (row.at # None) = FALSE /\ (row.xp > 0) = FALSE
      BY <1>1
  <2> QED BY <1>1, <2>1 DEF WellFormed, IsSubtask
<1>2. ASSUME NEW quadrant \in Quadrants
      PROVE WellFormed(NewRegular(quadrant)) /\ NewRegular(quadrant).life = "live"
  <2> DEFINE row == NewRegular(quadrant)
  <2>1. /\ row \in Row /\ row.done = FALSE /\ row.xp = 0 /\ row.at = None
        /\ row.life = "live" /\ row.quad = quadrant /\ row.parent = None
      BY DEF NewRegular, NoRow, Row, Lives
  <2> HIDE DEF row
  <2> QED BY <1>1, <2>1, BoardAssumption DEF row
<1>3. ASSUME NEW parent \in Tasks
      PROVE WellFormed(NewSubtask(parent)) /\ NewSubtask(parent).life = "live"
  <2> DEFINE row == NewSubtask(parent)
  <2>1. /\ row \in Row /\ row.done = FALSE /\ row.xp = 0 /\ row.at = None
        /\ row.life = "live" /\ row.quad = None /\ row.parent = parent
      BY DEF NewSubtask, NoRow, Row, Lives
  <2> HIDE DEF row
  <2> QED BY <1>1, <2>1, BoardAssumption DEF row
<1> QED BY <1>2, <1>3

\* Every step of the board keeps the invariant.
LEMMA NextInv == IInv /\ [Next]_vars => IInv'
<1> SUFFICES ASSUME IInv, Next PROVE IInv'
    BY StutterInv
<1> PICK r \in Requests : Continue(r) \/ \E t \in Tasks : Start(r, t)
    BY DEF Next
<1>1. CASE Continue(r)
    BY <1>1, InsertTaskInv, CommitCreateInv, WriteUpdateInv, FinishCompleteInv,
       FinishDeleteInv, RollbackInv DEF Continue
<1>2. ASSUME NEW t \in Tasks, Start(r, t) PROVE IInv'
  <2>1. CASE \E quadrant \in Quadrants : BeginCreate(r, t, NewRegular(quadrant))
      BY <2>1, NewRows, BeginCreateInv
  <2>2. CASE \E parent \in Tasks \ {t} : BeginCreate(r, t, NewSubtask(parent))
      BY <2>2, NewRows, BeginCreateInv
  <2>3. CASE BeginUpdate(r, t)
      BY <2>3, BeginUpdateInv
  <2>4. CASE \E quadrant \in Quadrants : MoveTask(r, t, quadrant)
      BY <2>4, InQuadrantInv DEF MoveTask
  <2>5. CASE \E asked \in Quadrants \cup {None} : Promote(r, t, asked)
      BY <2>5, PromoteInv
  <2>6. CASE BeginComplete(r, t)
      BY <2>6, BeginCompleteInv
  <2>7. CASE Reopen(r, t)
      BY <2>7, ReopenInv
  <2>8. CASE BeginDelete(r, t)
      BY <2>8, BeginDeleteInv
  <2> QED BY <1>2, <2>1, <2>2, <2>3, <2>4, <2>5, <2>6, <2>7, <2>8 DEF Start
<1> QED BY <1>1, <1>2

-----------------------------------------------------------------------------
(* The theorems.                                                            *)

\* The invariant holds in every reachable state.
THEOREM Invariant == Spec => []IInv
    BY InitInv, NextInv, PTL DEF Spec

\* Every row, stored or about to be written back, satisfies the CHECKs of the
\* tasks table, and every variable has its type, for any number of requests.
THEOREM TypeCorrect == Spec => []TypeOK
    BY Invariant, PTL DEF IInv

\* ByIDForUpdate does what it is for: the row a completion or a deletion locked
\* is, at the commit, still the row it read.
THEOREM LocksHold == Spec => []LockedRowStable
    BY Invariant, PTL DEF IInv

-----------------------------------------------------------------------------
(* The aggregate.                                                           *)

\* No operation writes user_stats but through applyProgress.
LEMMA StatsStep ==
    ASSUME Next
    PROVE \/ UNCHANGED <<stats, unlocked>>
          \/ \E delta : ApplyProgress(delta)
          \/ \E delta, R : ApplyProgressAndEvaluate(delta, R)
<1> PICK r \in Requests : Continue(r) \/ \E t \in Tasks : Start(r, t)
    BY DEF Next
<1>1. CASE InsertTask(r) \/ WriteUpdate(r) \/ Rollback(r)
    BY <1>1 DEF InsertTask, WriteUpdate, Rollback, board
<1>2. CASE CommitCreate(r)
    BY <1>2 DEF CommitCreate
<1>3. CASE FinishComplete(r)
    BY <1>3 DEF FinishComplete
<1>4. CASE FinishDelete(r)
    BY <1>4 DEF FinishDelete
<1>5. ASSUME NEW t \in Tasks, Start(r, t)
      PROVE UNCHANGED <<stats, unlocked>> \/ \E delta : ApplyProgress(delta)
  <2>1. CASE Reopen(r, t)
      BY <2>1 DEF Reopen
  <2>2. CASE ~Reopen(r, t)
      BY <1>5, <2>2 DEF Start, BeginCreate, BeginUpdate, MoveTask, Promote,
         BeginComplete, BeginDelete, board
  <2> QED BY <2>1, <2>2
<1> QED BY <1>1, <1>2, <1>3, <1>4, <1>5 DEF Continue

\* A delta moves the level with the XP and leaves the achievement count alone.
LEMMA AppliedFields ==
    ASSUME StatsType, LevelMatchesXP, NEW delta
    PROVE /\ Applied(delta).level = LevelForXP(Applied(delta).xp)
          /\ Applied(delta).unlocks = stats.unlocks
          /\ DOMAIN Applied(delta) = DOMAIN stats
<1> DEFINE level == LevelForXP(stats.xp + delta.xp)
<1>1. CASE delta = NoDelta
    BY <1>1 DEF Applied, LevelMatchesXP
<1>2. CASE delta # NoDelta
  <2>1. Applied(delta) = [stats EXCEPT !.xp = @ + delta.xp, !.level = level,
                          !.tasks = @ + delta.tasks, !.subtasks = @ + delta.subtasks,
                          !.created = @ + delta.created]
      BY <1>2 DEF Applied
  <2> HIDE DEF level
  <2>2. Applied(delta).xp = stats.xp + delta.xp /\ Applied(delta).level = level
        /\ Applied(delta).unlocks = stats.unlocks /\ DOMAIN Applied(delta) = DOMAIN stats
      BY <2>1 DEF StatsType
  <2> QED BY <2>2 DEF level
<1> QED BY <1>1, <1>2

\* Whatever requests interleave, and whether XP is won or withdrawn, the level
\* shown is the one the lifetime XP implies.
THEOREM LevelCorrect == Spec => []LevelMatchesXP
<1>1. Init => LevelMatchesXP
  <2> SUFFICES ASSUME Init PROVE LevelMatchesXP
      OBVIOUS
  <2>1. stats.xp = 0 /\ stats.level = 1
      BY DEF Init
  <2>2. {n \in 1 .. 0 : XPForLevel(n + 1) <= 0} = {}
      OBVIOUS
  <2> QED BY <2>1, <2>2, FS_EmptySet DEF LevelMatchesXP, LevelForXP
<1>2. IInv /\ LevelMatchesXP /\ [Next]_vars => LevelMatchesXP'
  <2> SUFFICES ASSUME IInv, LevelMatchesXP, [Next]_vars PROVE stats'.level = LevelForXP(stats'.xp)
      BY DEF LevelMatchesXP, LevelForXP, XPForLevel
  <2>1. CASE UNCHANGED stats
      BY <2>1 DEF LevelMatchesXP
  <2>2. ASSUME NEW delta, ApplyProgress(delta) PROVE stats'.level = LevelForXP(stats'.xp)
      BY <2>2, AppliedFields DEF ApplyProgress, IInv, TypeOK, BoardType
  <2>3. ASSUME NEW delta, NEW R, ApplyProgressAndEvaluate(delta, R)
        PROVE stats'.level = LevelForXP(stats'.xp)
    <3>1. stats'.level = Applied(delta).level /\ stats'.xp = Applied(delta).xp
        BY <2>3 DEF ApplyProgressAndEvaluate
    <3> QED BY <3>1, AppliedFields DEF IInv, TypeOK, BoardType
  <2> QED BY <2>1, <2>2, <2>3, StatsStep DEF vars, board
<1> QED BY <1>1, <1>2, Invariant, PTL DEF Spec

\* The achievement count of the aggregate is the number of achievements held:
\* no interleaving of completions counts one twice.
THEOREM UnlocksExact == Spec => []UnlocksCounted
<1>1. Init => UnlocksCounted
    BY FS_EmptySet DEF Init, UnlocksCounted
<1>2. IInv /\ LevelMatchesXP /\ UnlocksCounted /\ [Next]_vars => UnlocksCounted'
  <2> SUFFICES ASSUME IInv, LevelMatchesXP, UnlocksCounted, [Next]_vars PROVE UnlocksCounted'
      OBVIOUS
  <2>1. CASE UNCHANGED <<stats, unlocked>>
      BY <2>1 DEF UnlocksCounted
  <2>2. ASSUME NEW delta, ApplyProgress(delta) PROVE UnlocksCounted'
      BY <2>2, AppliedFields DEF ApplyProgress, IInv, TypeOK, BoardType, UnlocksCounted
  <2>3. ASSUME NEW delta, NEW R, ApplyProgressAndEvaluate(delta, R) PROVE UnlocksCounted'
    <3> DEFINE fresh == Fresh(Applied(delta), R)
    <3>1. fresh \subseteq DOMAIN Catalogue /\ fresh \cap unlocked = {}
        BY DEF Fresh, Earned
    <3>2. IsFiniteSet(fresh) /\ IsFiniteSet(unlocked)
        BY <3>1, BoardAssumption, FS_Subset DEF IInv, TypeOK, BoardType
    <3> HIDE DEF fresh
    <3>3. /\ Cardinality(unlocked \cup fresh) = Cardinality(unlocked) + Cardinality(fresh)
          /\ Cardinality(unlocked) \in Nat /\ Cardinality(fresh) \in Nat
      <4>1. Cardinality(unlocked \cap fresh) = 0
          BY <3>1, FS_EmptySet
      <4>2. Cardinality(unlocked) \in Nat /\ Cardinality(fresh) \in Nat
          BY <3>2, FS_CardinalityType
      <4>3. Cardinality(unlocked \cup fresh)
                = Cardinality(unlocked) + Cardinality(fresh) - Cardinality(unlocked \cap fresh)
          BY <3>2, FS_Union
      <4> QED BY <4>1, <4>2, <4>3
    <3>4. stats' = [Applied(delta) EXCEPT !.unlocks = @ + Cardinality(fresh)]
          /\ unlocked' = unlocked \cup fresh
        BY <2>3 DEF ApplyProgressAndEvaluate, fresh
    <3>5. Applied(delta).unlocks = stats.unlocks /\ "unlocks" \in DOMAIN Applied(delta)
        BY AppliedFields DEF IInv, TypeOK, BoardType, StatsType
    <3> QED BY <3>3, <3>4, <3>5 DEF UnlocksCounted
  <2> QED BY <2>1, <2>2, <2>3, StatsStep DEF vars, board
<1> QED BY <1>1, <1>2, Invariant, LevelCorrect, PTL DEF Spec

-----------------------------------------------------------------------------
(* The ledger and the aggregate, under every operation.                    *)

\* A step records d[x] for each task x of T, and the aggregate moves by the sum.
Records(T, d) ==
    /\ T \subseteq Tasks /\ \A x \in T : d[x] \in Int
    /\ \A x \in T : net'[x] = net[x] + d[x]
    /\ \A x \in Tasks \ T : net'[x] = net[x]
    /\ stats'.xp = stats.xp + Total(d, T)

LEMMA RecordsNothing ==
    ASSUME IInv, UNCHANGED net, stats'.xp = stats.xp
    PROVE  \E T, d : Records(T, d)
<1> DEFINE d == [x \in Tasks |-> 0]
<1>1. Total(d, {}) = 0 /\ stats.xp \in Int
    BY TotalEmpty, BoardAssumption DEF IInv, TypeOK, BoardType, StatsType
<1>2. Records({}, d)
    BY <1>1 DEF Records
<1> QED BY <1>2

LEMMA AppliedXP ==
    ASSUME StatsType, NEW delta, IsDelta(delta)
    PROVE  Applied(delta).xp = stats.xp + delta.xp
<1>0. stats.xp \in Int
    BY BoardAssumption DEF StatsType
<1>1. CASE delta = NoDelta
    BY <1>0, <1>1 DEF Applied, NoDelta
<1>2. CASE delta # NoDelta
    BY <1>2 DEF Applied, StatsType
<1> QED BY <1>1, <1>2

LEMMA CommitCreateRecords ==
    ASSUME IInv, NEW r \in Requests, CommitCreate(r)
    PROVE  \E T, d : Records(T, d)
<1> DEFINE delta == [NoDelta EXCEPT !.created = 1]
<1>1. StatsType /\ ApplyProgress(delta)
    BY DEF IInv, TypeOK, BoardType, CommitCreate
<1>2. IsDelta(delta) /\ delta.xp = 0 /\ stats.xp \in Int
    BY <1>1, BoardAssumption DEF IsDelta, NoDelta, ApplyProgress, StatsType
<1>3. stats'.xp = stats.xp
  <2> HIDE DEF delta
  <2> QED BY <1>1, <1>2, AppliedXP DEF ApplyProgress
<1> QED BY <1>3, RecordsNothing DEF CommitCreate

LEMMA ReopenRecords ==
    ASSUME IInv, NEW r \in Requests, NEW t \in Tasks, Reopen(r, t)
    PROVE  \E T, d : Records(T, d)
<1> DEFINE row == rows[t]
           delta == IF IsSubtask(row)
                    THEN [NoDelta EXCEPT !.xp = -row.xp, !.subtasks = -1]
                    ELSE [NoDelta EXCEPT !.xp = -row.xp, !.tasks = -1]
           d == [x \in {t} |-> -row.xp]
<1>1. StatsType /\ ApplyProgress(delta) /\ row.xp \in Nat
    BY DEF IInv, TypeOK, BoardType, Reopen, WellFormed, Row
<1>2. delta.xp = -row.xp /\ delta.tasks \in Int /\ delta.subtasks \in Int /\ delta.created = 0
    BY DEF NoDelta
<1>3. stats'.xp = stats.xp - row.xp
  <2> HIDE DEF delta
  <2>1. IsDelta(delta)
      BY <1>1, <1>2 DEF IsDelta, ApplyProgress
  <2>2. stats.xp \in Int
      BY BoardAssumption DEF StatsType, IInv, TypeOK, BoardType
  <2> QED BY <1>1, <1>2, <2>1, <2>2, AppliedXP DEF ApplyProgress
<1>4. Total(d, {t}) = -row.xp
  <2> DEFINE c == -row.xp
  <2>1. c \in Int /\ d = [x \in {t} |-> c]
      BY <1>1
  <2> HIDE DEF c, d
  <2>2. Total(d, {t}) = Cardinality({t}) * c
      BY <2>1, TotalConstant, FS_Singleton
  <2>3. Cardinality({t}) = 1
      BY FS_Singleton, Zenon
  <2>4. 1 * c = c
      BY <2>1
  <2>5. Total(d, {t}) = c
      BY <2>2, <2>3, <2>4, Zenon
  <2> QED BY <2>5 DEF c
<1>5. Records({t}, d)
  <2>1. net' = [net EXCEPT ![t] = @ - row.xp] /\ net \in [Tasks -> Int]
      BY DEF Reopen, IInv, TypeOK, BoardType
  <2>2. stats.xp \in Int
      BY BoardAssumption DEF StatsType, IInv, TypeOK, BoardType
  <2> QED BY <1>1, <1>3, <1>4, <2>1, <2>2 DEF Records
<1> QED BY <1>5

\* No row is its own parent, stored or carried: so the task a completion is
\* asked for is not among the subtasks it cascades to.
OwnParent(R) == \E x \in DOMAIN R : R[x].parent = x
NoOwnParent == ~OwnParent(rows) /\ \A r \in Requests : ~OwnParent(seen[r])

LEMMA NoOwnParentInit == Init => NoOwnParent
    BY BoardAssumption DEF Init, NoOwnParent, OwnParent, NoRow, NoRows

\* Ending a transaction or writing rows with parents they had keeps it.
LEMMA EndParents ==
    ASSUME IInv, NoOwnParent, NEW r \in Requests, End(r), ~OwnParent(rows')
    PROVE  NoOwnParent'
<1>1. DOMAIN seen = Requests /\ seen' = [seen EXCEPT ![r] = NoRows]
    BY DEF End, IInv, TypeOK, RequestType
<1>2. ~OwnParent(NoRows)
    BY DEF OwnParent, NoRows
<1>3. \A q \in Requests : seen'[q] = seen[q] \/ seen'[q] = NoRows
    BY <1>1
<1> QED BY <1>2, <1>3 DEF NoOwnParent, OwnParent

LEMMA BeginParents ==
    ASSUME IInv, NoOwnParent, NEW r \in Requests, NEW t, NEW next, NEW reads,
           Begin(r, t, next, reads), ~OwnParent(reads), rows' = rows
    PROVE  NoOwnParent'
<1>1. DOMAIN seen = Requests /\ seen' = [seen EXCEPT ![r] = reads]
    BY DEF Begin, IInv, TypeOK, RequestType
<1>2. \A q \in Requests : seen'[q] = seen[q] \/ seen'[q] = reads
    BY <1>1
<1> QED BY <1>2 DEF NoOwnParent, OwnParent

LEMMA NoOwnParentKept ==
    ASSUME IInv, NoOwnParent, Next
    PROVE  NoOwnParent'
<1> USE DEF IInv, TypeOK, BoardType
<1> PICK r \in Requests : Continue(r) \/ \E t \in Tasks : Start(r, t)
    BY DEF Next
<1>0. DOMAIN rows = Tasks /\ \A x \in Tasks : rows[x].parent # x
    BY DEF NoOwnParent, OwnParent
<1>1. CASE UNCHANGED <<rows, seen>>
    BY <1>1 DEF NoOwnParent, OwnParent
<1>2. CASE End(r) /\ rows' = rows
    BY <1>2, EndParents DEF NoOwnParent, OwnParent
<1>3. CASE CommitCreate(r) \/ WriteUpdate(r)
  <2> DEFINE t == arg[r]
  <2>1. t \in DOMAIN seen[r] /\ rows' = [rows EXCEPT ![t] = seen[r][t]] /\ End(r)
      BY <1>3 DEF CommitCreate, WriteUpdate, RequestsOK
  <2>2. seen[r][t].parent # t
      BY <2>1 DEF NoOwnParent, OwnParent
  <2>3. ~OwnParent(rows')
      BY <1>0, <2>1, <2>2 DEF OwnParent
  <2> QED BY <2>1, <2>3, EndParents
<1>4. CASE FinishComplete(r)
  <2> DEFINE won == {arg[r]} \cup Cascade(seen[r], arg[r])
  <2>1. End(r) /\ won \subseteq DOMAIN seen[r]
      BY <1>4 DEF FinishComplete, RequestsOK, Cascade, Subtasks
  <2>2. ASSUME NEW x \in Tasks PROVE rows'[x].parent # x
    <3>1. CASE x \in won
      <4>1. seen[r][x].parent # x /\ seen[r][x] \in Row
          BY <2>1, <3>1 DEF NoOwnParent, OwnParent, RequestType, WellFormed
      <4>2. \E xp, quadrant : rows'[x] = Completed(seen[r][x], xp, quadrant)
          BY <1>4, <3>1 DEF FinishComplete
      <4> QED BY <4>1, <4>2 DEF Completed, Row
    <3>2. CASE x \notin won
      <4>1. rows'[x] = rows[x]
          BY <1>4, <3>2 DEF FinishComplete
      <4> QED BY <1>0, <4>1
    <3> QED BY <3>1, <3>2
  <2>3. DOMAIN rows' = Tasks
      BY <1>4 DEF FinishComplete
  <2> QED BY <2>1, <2>2, <2>3, EndParents DEF OwnParent
<1>5. CASE FinishDelete(r)
  <2>1. End(r) /\ DOMAIN rows' = Tasks
        /\ \A x \in Tasks : rows'[x] \in {rows[x], [rows[x] EXCEPT !.life = "gone"]}
      BY <1>5 DEF FinishDelete
  <2>2. \A x \in Tasks : rows[x] \in Row
      OBVIOUS
  <2>3. \A x \in Tasks : rows'[x].parent # x
      BY <1>0, <2>1, <2>2 DEF Row
  <2> QED BY <2>1, <2>3, EndParents DEF OwnParent
<1>6. ASSUME NEW t \in Tasks, Start(r, t)
      PROVE NoOwnParent'
  <2>1. ASSUME NEW quadrant, InQuadrant(t, quadrant), UNCHANGED seen PROVE NoOwnParent'
      BY <1>0, <2>1, BoardAssumption DEF InQuadrant, NoOwnParent, OwnParent, Row
  <2>2. CASE Reopen(r, t)
    <3>1. rows' = [rows EXCEPT ![t] = Reopened(rows[t])] /\ UNCHANGED seen
        BY <2>2 DEF Reopen, AtOnce
    <3> QED BY <1>0, <3>1 DEF Reopened, NoOwnParent, OwnParent, Row
  <2>3. ASSUME NEW row, BeginCreate(r, t, row), row.parent # t PROVE NoOwnParent'
    <3>1. Begin(r, t, "create", [x \in {t} |-> row]) /\ rows' = rows
        BY <2>3 DEF BeginCreate, board
    <3>2. ~OwnParent([x \in {t} |-> row])
        BY <2>3 DEF OwnParent
    <3> QED BY <3>1, <3>2, BeginParents
  <2>4. \A quadrant \in Quadrants : NewRegular(quadrant).parent # t
      BY BoardAssumption DEF NewRegular, NoRow
  <2>5. \A parent \in Tasks \ {t} : NewSubtask(parent).parent # t
      BY DEF NewSubtask, NoRow
  <2>6. ASSUME NEW next, NEW S, S \subseteq Tasks, Begin(r, t, next, [x \in S |-> rows[x]]),
               rows' = rows
        PROVE NoOwnParent'
    <3>1. ~OwnParent([x \in S |-> rows[x]])
        BY <1>0, <2>6 DEF OwnParent
    <3> QED BY <2>6, <3>1, BeginParents
  <2>7. CASE BeginUpdate(r, t)
    <3>1. Begin(r, t, "update", [x \in {t} |-> rows[x]]) /\ rows' = rows
      <4>1. [x \in {t} |-> rows[x]] = [x \in {t} |-> rows[t]]
          OBVIOUS
      <4> QED BY <2>7, <4>1 DEF BeginUpdate, board
    <3> QED BY <2>6, <3>1
  <2>8. CASE BeginComplete(r, t)
    <3>1. Family(t) \subseteq Tasks
        BY <2>8 DEF Family, Subtasks, IsSubtask, Row
    <3> QED BY <2>6, <2>8, <3>1 DEF BeginComplete, board
  <2>9. CASE BeginDelete(r, t)
    <3>1. Doomed(t) \subseteq Tasks
        BY <2>9 DEF Doomed, Subtasks
    <3> QED BY <2>6, <2>9, <3>1 DEF BeginDelete, board
  <2> QED BY <1>6, <2>1, <2>2, <2>3, <2>4, <2>5, <2>7, <2>8, <2>9
      DEF Start, MoveTask, Promote, AtOnce
<1> QED BY <1>1, <1>2, <1>3, <1>4, <1>5, <1>6
    DEF Continue, InsertTask, Rollback, board

LEMMA FinishCompleteRecords ==
    ASSUME IInv, NoOwnParent, NEW r \in Requests, FinishComplete(r)
    PROVE  \E T, d : Records(T, d)
<1> DEFINE t == arg[r]
           read == seen[r]
           quadrant == EffectiveQuadrant(read, t)
           kids == Cascade(read, t)
           won == {t} \cup kids
           pay == [x \in won |-> Reward(quadrant, IsSubtask(read[x]))]
           written == [x \in Tasks |-> IF x \in won
                                       THEN Completed(read[x], pay[x], quadrant)
                                       ELSE rows[x]]
           mine == IF IsSubtask(read[t]) THEN 1 ELSE 0
           xp == pay[t] + Cardinality(kids) * Reward(quadrant, TRUE)
           delta == [xp |-> xp, tasks |-> 1 - mine,
                     subtasks |-> mine + Cardinality(kids), created |-> 0]
<1>1. RequestsInv /\ stage[r] = "complete"
    BY DEF IInv, TypeOK, RequestsInv, FinishComplete
<1>2. t \in Tasks /\ quadrant \in Quadrants /\ t # None
    BY <1>1, ArgType, BoardAssumption DEF RequestsInv, RequestsOK
<1>3. kids \subseteq DOMAIN read /\ t \in DOMAIN read /\ DOMAIN read \subseteq Tasks
    BY <1>1 DEF RequestsInv, RequestsOK, RequestType, Cascade, Subtasks
<1>4. t \notin kids /\ \A x \in kids : IsSubtask(read[x])
    BY <1>2, <1>3 DEF NoOwnParent, OwnParent, Cascade, Subtasks, IsSubtask
<1>5. IsFiniteSet(kids) /\ Cardinality(kids) \in Nat
    BY <1>3, BoardAssumption, FS_Subset, FS_CardinalityType
<1>6. Reward(quadrant, TRUE) \in Int /\ \A x \in won : pay[x] \in Int
  <2> HIDE DEF quadrant
  <2>1. \A sub \in BOOLEAN : Reward(quadrant, sub) \in Int
      BY <1>2, RewardType
  <2> QED BY <2>1 DEF IsSubtask
<1>7. \A x \in kids : pay[x] = Reward(quadrant, TRUE)
    BY <1>4 DEF IsSubtask
<1>8. Total(pay, won) = xp
  <2>1. IsFiniteSet(won) /\ won \ {t} = kids /\ t \in won
      BY <1>4, <1>5, FS_AddElement
  <2> HIDE DEF pay, won, kids, quadrant
  <2>3. Total(pay, won) = pay[t] + Total(pay, kids)
      BY <1>6, <2>1, TotalRemove
  <2>4. Total(pay, kids) = Cardinality(kids) * Reward(quadrant, TRUE)
      BY <1>5, <1>6, <1>7, TotalConstant
  <2> QED BY <2>3, <2>4
<1>9. stats'.xp = stats.xp + xp
  <2>1. StatsType /\ ApplyProgressAndEvaluate(delta, written)
      BY DEF IInv, TypeOK, BoardType, FinishComplete
  <2>2. mine \in Int /\ delta.xp = xp
      OBVIOUS
  <2> HIDE DEF xp, mine, kids, written
  <2>3. IsDelta(delta)
    <3>1. stats.xp + xp \in -MaxXP .. MaxXP
        BY <2>1 DEF ApplyProgressAndEvaluate
    <3>2. 1 - mine \in Int /\ mine + Cardinality(kids) \in Int
        BY <1>5, <2>2
    <3> QED BY <3>1, <3>2, DeltaTypes
  <2> HIDE DEF delta
  <2>4. Applied(delta).xp = stats.xp + xp
      BY <2>1, <2>2, <2>3, AppliedXP
  <2> QED BY <2>1, <2>4 DEF ApplyProgressAndEvaluate
<1>10. net' = [x \in Tasks |-> IF x \in won THEN net[x] + pay[x] ELSE net[x]]
    BY DEF FinishComplete
<1>11. won \subseteq Tasks
    BY <1>2, <1>3
<1> HIDE DEF won, pay, xp
<1>12. Records(won, pay)
    BY <1>6, <1>8, <1>9, <1>10, <1>11 DEF Records
<1> QED BY <1>12

\* The sum FinishDelete computes is the sum of a function.
LEMMA SnapshotTotal ==
    ASSUME NEW read, NEW S
    PROVE  MapThenSumSet(LAMBDA x : read[x].xp, S) = Total([x \in S |-> read[x].xp], S)
<1> DEFINE h == [x \in S |-> read[x].xp]
           First(T) == CHOOSE x \in T : TRUE
           G(g) == [T \in SUBSET S |-> IF T = {} THEN 0
                                       ELSE read[First(T)].xp + g[T \ {First(T)}]]
<1>1. \A T \in SUBSET S : T # {} => h[Pick(T)] = read[Pick(T)].xp
    BY DEF Pick
<1>2. ASSUME NEW g PROVE Sums(g, h, S) <=> g = G(g)
  <2>1. G(g) = [T \in SUBSET S |-> IF T = {} THEN 0 ELSE h[Pick(T)] + g[T \ {Pick(T)}]]
      BY <1>1 DEF Pick
  <2> HIDE DEF h, G
  <2> QED BY <2>1 DEF Sums
<1> HIDE DEF h
<1>3. (CHOOSE g : Sums(g, h, S)) = (CHOOSE g : g = G(g))
  <2> HIDE DEF G
  <2> QED BY <1>2, Zenon
<1>4. Total(h, S) = (CHOOSE g : Sums(g, h, S))[S]
    BY TotalIs
<1>5. Total(h, S) = (CHOOSE g : g = G(g))[S]
  <2> HIDE DEF G
  <2> QED BY <1>3, <1>4
<1> QED BY <1>5 DEF MapThenSumSet, MapThenFoldSet, h

LEMMA FinishDeleteRecords ==
    ASSUME IInv, NEW r \in Requests, FinishDelete(r)
    PROVE  \E T, d : Records(T, d)
<1> DEFINE read == seen[r]
           doomed == DOMAIN read
           done == {x \in doomed : read[x].done}
           doneSubtasks == Cardinality({x \in done : IsSubtask(read[x])})
           total == MapThenSumSet(LAMBDA x : read[x].xp, done)
           delta == [xp |-> -total, tasks |-> doneSubtasks - Cardinality(done),
                     subtasks |-> -doneSubtasks, created |-> 0]
           f == [x \in done |-> read[x].xp]
           d == [x \in done |-> -read[x].xp]
           zero == [x \in done |-> 0]
<1>1. RequestsInv /\ stage[r] = "delete"
    BY DEF IInv, TypeOK, RequestsInv, FinishDelete
<1>2. done \subseteq Tasks /\ IsFiniteSet(done) /\ Cardinality(done) \in Nat
    BY <1>1, BoardAssumption, FS_Subset, FS_CardinalityType DEF RequestsInv, RequestType
<1>3. \A x \in done : read[x].xp \in Nat
    BY <1>1 DEF RequestsInv, RequestType, WellFormed, Row
<1>4. total = Total(f, done)
    BY SnapshotTotal
<1>5. \A x \in done : f[x] \in Int /\ d[x] \in Int /\ zero[x] = 0 /\ zero[x] = f[x] + d[x]
    BY <1>3
<1>6. total \in Int /\ Total(d, done) = -total
  <2> HIDE DEF f, d, zero, total, done
  <2>1. Total(f, done) \in Int /\ Total(d, done) \in Int
      BY <1>2, <1>5, TotalType
  <2>2. Total(zero, done) = Total(f, done) + Total(d, done)
      BY <1>2, <1>5, TotalAdds
  <2>3. Total(zero, done) = Cardinality(done) * 0 /\ Cardinality(done) * 0 = 0
      BY <1>2, <1>5, TotalConstant
  <2> QED BY <1>4, <2>1, <2>2, <2>3
<1>7. stats'.xp = stats.xp + (-total)
  <2>1. StatsType /\ ApplyProgress(delta)
      BY DEF IInv, TypeOK, BoardType, FinishDelete
  <2>2. IsFiniteSet({x \in done : IsSubtask(read[x])})
      BY <1>2, FS_Subset
  <2>3. doneSubtasks \in Nat
      BY <2>2, FS_CardinalityType
  <2> HIDE DEF total, doneSubtasks, done
  <2>4. IsDelta(delta)
    <3>1. stats.xp + (-total) \in -MaxXP .. MaxXP
        BY <2>1 DEF ApplyProgress
    <3>2. doneSubtasks - Cardinality(done) \in Int /\ -doneSubtasks \in Int
        BY <1>2, <2>3
    <3> QED BY <3>1, <3>2, DeltaTypes
  <2>5. delta.xp = -total
      OBVIOUS
  <2> HIDE DEF delta
  <2> QED BY <2>1, <2>4, <2>5, AppliedXP DEF ApplyProgress
<1>8. net' = [x \in Tasks |-> IF x \in done THEN net[x] - read[x].xp ELSE net[x]]
    BY DEF FinishDelete
<1>9. \A x \in Tasks : net[x] \in Int
    BY DEF IInv, TypeOK, BoardType
<1>10. /\ \A x \in done : net'[x] = net[x] + d[x]
       /\ \A x \in Tasks \ done : net'[x] = net[x]
  <2>1. \A x \in done : d[x] = -read[x].xp
      OBVIOUS
  <2> HIDE DEF done, d
  <2> QED BY <1>2, <1>3, <1>8, <1>9, <2>1
<1> HIDE DEF done, d, total
<1>11. Records(done, d)
    BY <1>2, <1>5, <1>6, <1>7, <1>10 DEF Records
<1> QED BY <1>11

\* Every step records what it adds to the aggregate.
LEMMA StepRecords ==
    ASSUME IInv, NoOwnParent, Next
    PROVE  \E T, d : Records(T, d)
<1> PICK r \in Requests : Continue(r) \/ \E t \in Tasks : Start(r, t)
    BY DEF Next
<1>1. CASE UNCHANGED <<net, stats>>
    BY <1>1, RecordsNothing
<1>2. CASE CommitCreate(r) \/ FinishComplete(r) \/ FinishDelete(r)
    BY <1>2, CommitCreateRecords, FinishCompleteRecords, FinishDeleteRecords
<1>3. ASSUME NEW t \in Tasks, Start(r, t)
      PROVE UNCHANGED <<net, stats>> \/ Reopen(r, t)
    BY <1>3 DEF Start, BeginCreate, BeginUpdate, MoveTask, Promote, BeginComplete,
       BeginDelete, board
<1> QED BY <1>1, <1>2, <1>3, ReopenRecords
    DEF Continue, InsertTask, WriteUpdate, Rollback, board

\* The lifetime XP is the sum of the ledger, for any requests and operations.
THEOREM LedgerSums == Spec => []LedgerAddsUp
<1> DEFINE J == NoOwnParent /\ stats.xp = Total(net, Tasks)
<1>0. J => LedgerAddsUp
    BY DEF LedgerAddsUp, Total
<1>3. (Total(net, Tasks))' = Total(net', Tasks)
    BY DEF Total, MapThenSumSet, MapThenFoldSet
<1>1. Init => J
  <2> SUFFICES ASSUME Init PROVE stats.xp = Total(net, Tasks)
      BY NoOwnParentInit
  <2>1. \A x \in Tasks : net[x] = 0
      BY DEF Init
  <2>2. Total(net, Tasks) = Cardinality(Tasks) * 0 /\ Cardinality(Tasks) \in Nat
      BY <2>1, TotalConstant, FS_CardinalityType, BoardAssumption
  <2>3. stats.xp = 0
      BY DEF Init
  <2> QED BY <2>2, <2>3
<1>2. IInv /\ J /\ [Next]_vars => J'
  <2> SUFFICES ASSUME IInv, J, [Next]_vars PROVE J'
      OBVIOUS
  <2>1. CASE UNCHANGED vars
    <3>1. net' = net /\ stats' = stats /\ rows' = rows /\ seen' = seen
        BY <2>1 DEF vars, board
    <3>2. Total(net', Tasks) = Total(net, Tasks)
        BY <3>1
    <3> QED BY <1>3, <3>1, <3>2 DEF NoOwnParent, OwnParent
  <2>2. CASE Next
    <3>1. PICK T, d : Records(T, d)
        BY <2>2, StepRecords
    <3>2. Total(net', Tasks) = Total(net, Tasks) + Total(d, T)
      <4>1. \A x \in Tasks : net[x] \in Int
          BY DEF IInv, TypeOK, BoardType
      <4> QED BY <3>1, <4>1, TotalMoves, BoardAssumption DEF Records
    <3>3. stats'.xp = Total(net', Tasks)
        BY <3>1, <3>2 DEF Records
    <3>4. NoOwnParent'
        BY <2>2, NoOwnParentKept
    <3> QED BY <1>3, <3>3, <3>4
  <2> QED BY <2>1, <2>2
<1> HIDE DEF J
<1> QED BY <1>0, <1>1, <1>2, Invariant, PTL DEF Spec

-----------------------------------------------------------------------------
(* Deleted rows.                                                            *)

\* Only the row of a live task changes, but for the row a creation inserts.
LEMMA OnlyCreateInserts ==
    ASSUME IInv, Next, NEW t \in Tasks, rows[t].life # "live"
    PROVE  rows'[t] = rows[t] \/ \E r \in Requests : CommitCreate(r) /\ arg[r] = t
<1> PICK r \in Requests : Continue(r) \/ \E x \in Tasks : Start(r, x)
    BY DEF Next
<1> USE DEF IInv, TypeOK, BoardType
<1>1. CASE InsertTask(r) \/ Rollback(r)
    BY <1>1 DEF InsertTask, Rollback, board
<1>2. CASE CommitCreate(r)
    BY <1>2 DEF CommitCreate
<1>3. CASE WriteUpdate(r)
  <2>1. rows[arg[r]].life = "live"
      BY <1>3 DEF WriteUpdate, StillLive, Live
  <2> QED BY <1>3, <2>1 DEF WriteUpdate
<1>4. CASE FinishComplete(r)
  <2>1. rows[arg[r]].life = "live"
      BY <1>4 DEF FinishComplete, RequestsOK, LockedRowStable
  <2>2. \A c \in Cascade(seen[r], arg[r]) : rows[c].life = "live"
      BY <1>4 DEF FinishComplete, StillLive, Live
  <2> QED BY <1>4, <2>1, <2>2 DEF FinishComplete
<1>5. CASE FinishDelete(r)
  <2>1. \A x \in DOMAIN seen[r] : rows[x].life = "live"
      BY <1>5 DEF FinishDelete, StillLive, Live
  <2> QED BY <1>5, <2>1 DEF FinishDelete
<1>6. ASSUME NEW x \in Tasks, Start(r, x) PROVE rows'[t] = rows[t]
  <2>1. CASE Live(x) /\ rows' = [rows EXCEPT ![x] = rows'[x]]
      BY <2>1 DEF Live
  <2>2. CASE UNCHANGED rows
      BY <2>2
  <2>3. \/ UNCHANGED rows
        \/ Live(x) /\ rows' = [rows EXCEPT ![x] = rows'[x]]
      BY <1>6 DEF Start, BeginCreate, BeginUpdate, MoveTask, Promote, Reopen,
         BeginComplete, BeginDelete, InQuadrant, board
  <2> QED BY <2>1, <2>2, <2>3
<1> QED BY <1>1, <1>2, <1>3, <1>4, <1>5, <1>6 DEF Continue

\* A task that was deleted is never written back to life by a request that
\* read it before, whatever it goes on to do.
THEOREM DeletedStays == Spec => DeletedIsFinal
<1>1. IInv /\ [Next]_vars
         => [\A t \in Tasks : rows[t].life = "gone" => rows'[t].life = "gone"]_rows
  <2> SUFFICES ASSUME IInv, [Next]_vars, NEW t \in Tasks, rows[t].life = "gone"
               PROVE  rows'[t] = rows[t]
      OBVIOUS
  <2>1. CASE UNCHANGED vars
      BY <2>1 DEF vars, board
  <2>2. CASE Next
    <3>1. \A r \in Requests : CommitCreate(r) => rows[arg[r]].life = "none"
        BY DEF CommitCreate, IInv, DraftsHeld
    <3> QED BY <2>2, <3>1, OnlyCreateInserts
  <2> QED BY <2>1, <2>2
<1> QED BY <1>1, Invariant, PTL DEF Spec, DeletedIsFinal

-----------------------------------------------------------------------------
(* The quota.                                                               *)

\* While a task is being inserted there is room for it.
RoomHeld ==
    \A r \in Requests : /\ stage[r] \in {"create", "insert"} => CountActive < ActiveLimit
                        /\ stage[r] # "update"

\* Nothing becomes active but the task a request inserts, or reopens.
LEMMA ActiveGrows ==
    ASSUME IInv, Next, "update" \notin Operations, \A r \in Requests : stage[r] # "update"
    PROVE /\ CountActive \in Nat /\ CountActive' \in Nat
          /\ \/ CountActive' <= CountActive
             \/ \E r \in Requests : CommitCreate(r) /\ CountActive' <= CountActive + 1
             \/ \E r \in Requests, t \in Tasks : "reopen" \in Operations /\ Reopen(r, t)
<1> DEFINE Active == {t \in Tasks : Live(t) /\ ~rows[t].done}
<1> USE DEF IInv, TypeOK, BoardType
<1>1. /\ IsFiniteSet(Active) /\ IsFiniteSet(Active')
      /\ Cardinality(Active) \in Nat /\ Cardinality(Active') \in Nat
  <2>1. IsFiniteSet(Active) /\ IsFiniteSet(Active')
      BY BoardAssumption, FS_Subset
  <2> QED BY <2>1, FS_CardinalityType
<1>2. ASSUME Active' \subseteq Active PROVE CountActive' <= CountActive
    BY <1>1, <1>2, FS_Subset DEF CountActive
<1>3. ASSUME NEW t \in Tasks, Active' \subseteq Active \cup {t}
      PROVE CountActive' <= CountActive + 1
  <2> HIDE DEF Active
  <2>1. /\ IsFiniteSet(Active \cup {t})
        /\ Cardinality(Active \cup {t}) = IF t \in Active THEN Cardinality(Active)
                                          ELSE Cardinality(Active) + 1
      BY <1>1, FS_AddElement
  <2>2. Cardinality(Active') <= Cardinality(Active \cup {t})
      BY <1>3, <2>1, FS_Subset
  <2> QED BY <1>1, <2>1, <2>2 DEF CountActive, Active
<1>4. PICK r \in Requests : Continue(r) \/ \E t \in Tasks : Start(r, t)
    BY DEF Next
<1>5. CASE CommitCreate(r)
  <2>1. arg[r] \in Tasks
      BY <1>5, ArgType DEF CommitCreate, RequestsInv
  <2>2. Active' \subseteq Active \cup {arg[r]}
      BY <1>5, <2>1 DEF CommitCreate, Live
  <2> QED BY <1>1, <1>3, <1>5, <2>1, <2>2 DEF CountActive
<1>6. CASE InsertTask(r) \/ Rollback(r) \/ UNCHANGED rows
  <2>1. Active' \subseteq Active
      BY <1>6 DEF InsertTask, Rollback, board, Live
  <2> QED BY <1>1, <1>2, <2>1 DEF CountActive
<1>7. CASE FinishComplete(r)
  <2>1. \A x \in Tasks : rows'[x] = rows[x] \/ rows'[x].done
    <3> DEFINE won == {arg[r]} \cup Cascade(seen[r], arg[r])
    <3>1. \A x \in won : "done" \in DOMAIN seen[r][x]
      <4>1. won \subseteq DOMAIN seen[r]
          BY <1>7 DEF FinishComplete, RequestsOK, Cascade, Subtasks
      <4>2. \A x \in DOMAIN seen[r] : seen[r][x] \in Row
          BY DEF RequestType, WellFormed
      <4> HIDE DEF won
      <4> QED BY <4>1, <4>2 DEF Row
    <3>2. \A x \in Tasks : \/ rows'[x] = rows[x]
                           \/ x \in won /\ \E xp, q : rows'[x] = Completed(seen[r][x], xp, q)
        BY <1>7 DEF FinishComplete
    <3> QED BY <3>1, <3>2 DEF Completed
  <2>2. Active' \subseteq Active
      BY <2>1 DEF Live
  <2> QED BY <1>1, <1>2, <2>2 DEF CountActive
<1>8. CASE FinishDelete(r)
  <2>1. Active' \subseteq Active
      BY <1>8 DEF FinishDelete, Live
  <2> QED BY <1>1, <1>2, <2>1 DEF CountActive
<1>9. ASSUME NEW t \in Tasks, Start(r, t)
      PROVE CountActive' <= CountActive \/ ("reopen" \in Operations /\ Reopen(r, t))
  <2> SUFFICES ASSUME ~("reopen" \in Operations /\ Reopen(r, t))
               PROVE  CountActive' <= CountActive
      OBVIOUS
  <2>1. \/ UNCHANGED rows
        \/ \E quadrant : InQuadrant(t, quadrant)
      BY <1>9 DEF Start, BeginCreate, BeginUpdate, MoveTask, Promote,
         BeginComplete, BeginDelete, board
  <2>2. Active' \subseteq Active
      BY <2>1 DEF InQuadrant, Live, Row
  <2> QED BY <1>2, <2>2
<1> QED BY <1>1, <1>4, <1>5, <1>6, <1>7, <1>8, <1>9 DEF Continue, WriteUpdate, CountActive

\* What a step does to the stage of a request, its own or another's.
LEMMA StageMoves ==
    ASSUME IInv, Next
    PROVE \A q \in Requests :
              \/ stage'[q] = stage[q]
              \/ stage'[q] \in {"idle", "complete", "delete"}
              \/ stage'[q] = "update" /\ "update" \in Operations
              \/ stage'[q] = "insert" /\ stage[q] = "create"
              \/ stage'[q] = "create" /\ CountActive < ActiveLimit
<1> PICK r \in Requests : Continue(r) \/ \E t \in Tasks : Start(r, t)
    BY DEF Next
<1> USE DEF IInv, TypeOK, RequestType
<1>1. CASE End(r)
    BY <1>1 DEF End
<1>2. CASE InsertTask(r)
    BY <1>2 DEF InsertTask
<1>3. CASE Continue(r)
    BY <1>1, <1>2, <1>3 DEF Continue, CommitCreate, WriteUpdate, FinishComplete,
       FinishDelete, Rollback
<1>4. ASSUME NEW t \in Tasks, Start(r, t)
      PROVE \/ AtOnce(r)
            \/ \E row : Begin(r, t, "create", row) /\ CountActive < ActiveLimit
            \/ \E reads : Begin(r, t, "update", reads) /\ "update" \in Operations
            \/ \E reads : Begin(r, t, "complete", reads)
            \/ \E reads : Begin(r, t, "delete", reads)
    BY <1>4 DEF Start, BeginCreate, BeginUpdate, MoveTask, Promote, Reopen,
       BeginComplete, BeginDelete
<1> QED BY <1>3, <1>4 DEF AtOnce, Begin

\* A step keeps the room of every request that is inserting a task.
LEMMA RoomNext ==
    ASSUME "update" \notin Operations, IInv, RoomHeld, [Next]_vars
    PROVE  RoomHeld'
<1>1. CASE UNCHANGED vars
    BY <1>1 DEF RoomHeld, CountActive, Live, vars, board
<1>2. CASE Next
  <2>1. \A q \in Requests : stage'[q] # "update"
      BY <1>2, StageMoves DEF RoomHeld
  <2>2. ASSUME NEW q \in Requests, stage'[q] \in {"create", "insert"}
        PROVE CountActive' < ActiveLimit
    <3>1. CountActive < ActiveLimit
        BY <1>2, <2>2, StageMoves DEF RoomHeld
    <3>2. \A r \in Requests : ~CommitCreate(r)
      <4> SUFFICES ASSUME NEW r \in Requests, CommitCreate(r) PROVE FALSE
          OBVIOUS
      <4>1. account = r /\ stage'[r] = "idle" /\ \A p \in Requests \ {r} : stage'[p] = stage[p]
          BY DEF CommitCreate, End, IInv, TypeOK, RequestType, DraftsHeld
      <4> QED BY <2>2, <4>1 DEF IInv, DraftsHeld
    <3>3. \A r \in Requests, t \in Tasks : ~Reopen(r, t)
      <4> SUFFICES ASSUME NEW r \in Requests, NEW t \in Tasks, Reopen(r, t) PROVE FALSE
          OBVIOUS
      <4>1. rows[t].xp > 0
          BY DEF Reopen, IInv, TypeOK, BoardType, WellFormed
      <4>2. account = None /\ stage' = stage
          BY <4>1 DEF Reopen, AtOnce, AccountFree
      <4> QED BY <2>2, <4>2, BoardAssumption DEF IInv, DraftsHeld
    <3>4. CountActive \in Nat /\ CountActive' \in Nat /\ CountActive' <= CountActive
        BY <1>2, <3>2, <3>3, ActiveGrows DEF RoomHeld
    <3> QED BY <3>1, <3>4, BoardAssumption
  <2> QED BY <2>1, <2>2 DEF RoomHeld
<1> QED BY <1>1, <1>2

\* Any number of concurrent creations stop at the cap, also when a completed
\* task is reopened between the count and the INSERT: reopening waits for the
\* users row, which the creation holds.  Update, which can write a completed
\* task back as open without that row, is left out.
THEOREM CreationsBounded ==
    ASSUME "update" \notin Operations
    PROVE Spec => CreationWithinQuota
<1>1. Init => RoomHeld
    BY DEF RoomHeld, Init
<1>2. ASSUME IInv, RoomHeld, [Next]_vars
      PROVE  [(\E t \in Tasks : rows[t].life = "none" /\ rows'[t].life = "live")
                 => CountActive' <= ActiveLimit]_rows
  <2> SUFFICES ASSUME NEW t \in Tasks, rows[t].life = "none", rows'[t].life = "live"
               PROVE  CountActive' <= ActiveLimit
      OBVIOUS
  <2>1. Next
      BY <1>2 DEF vars, board
  <2>2. PICK r \in Requests : CommitCreate(r)
      BY <1>2, <2>1, OnlyCreateInserts
  <2>3. CountActive < ActiveLimit
      BY <1>2, <2>2 DEF RoomHeld, CommitCreate
  <2>4. ~\E q \in Requests, x \in Tasks : Reopen(q, x)
    <3>1. account = r /\ account # None
        BY <1>2, <2>2, BoardAssumption DEF CommitCreate, IInv, DraftsHeld
    <3>2. \A q \in Requests, x \in Tasks : Reopen(q, x) => rows[x].xp > 0
        BY <1>2 DEF Reopen, IInv, TypeOK, BoardType, WellFormed
    <3> QED BY <3>1, <3>2 DEF Reopen, AccountFree
  <2>5. CountActive \in Nat /\ CountActive' \in Nat /\ CountActive' <= CountActive + 1
      BY <1>2, <2>1, <2>4, ActiveGrows DEF RoomHeld
  <2> QED BY <2>3, <2>5, BoardAssumption
<1>3. IInv /\ RoomHeld /\ [Next]_vars => RoomHeld'
    BY RoomNext
<1>4. IInv /\ RoomHeld /\ [Next]_vars
         => [(\E t \in Tasks : rows[t].life = "none" /\ rows'[t].life = "live")
                => CountActive' <= ActiveLimit]_rows
    BY <1>2
<1> QED BY <1>1, <1>3, <1>4, Invariant, PTL DEF Spec, CreationWithinQuota

\* The cap itself holds when no operation makes a task active without asking
\* it: Reopen does not ask, and Update can write a completed task back as open.
THEOREM QuotaHolds ==
    ASSUME Operations \cap {"update", "reopen"} = {}
    PROVE Spec => []QuotaRespected
<1>1. Init => RoomHeld /\ QuotaRespected
  <2> SUFFICES ASSUME Init PROVE RoomHeld /\ QuotaRespected
      OBVIOUS
  <2>1. {t \in Tasks : Live(t) /\ ~rows[t].done} = {}
      BY DEF Init, Live, NoRow
  <2>2. CountActive = 0
      BY <2>1, FS_EmptySet DEF CountActive
  <2> QED BY <2>2, BoardAssumption DEF RoomHeld, QuotaRespected, Init
<1>2. IInv /\ RoomHeld /\ QuotaRespected /\ [Next]_vars => RoomHeld' /\ QuotaRespected'
  <2> SUFFICES ASSUME IInv, RoomHeld, QuotaRespected, [Next]_vars
               PROVE  RoomHeld' /\ QuotaRespected'
      OBVIOUS
  <2>1. RoomHeld'
      BY RoomNext
  <2>2. ASSUME UNCHANGED vars PROVE QuotaRespected'
      BY <2>2 DEF QuotaRespected, CountActive, Live, vars, board
  <2>3. ASSUME Next PROVE QuotaRespected'
    <3>1. /\ CountActive \in Nat /\ CountActive' \in Nat
          /\ \/ CountActive' <= CountActive
             \/ \E r \in Requests : CommitCreate(r) /\ CountActive' <= CountActive + 1
        BY <2>3, ActiveGrows DEF RoomHeld
    <3> QED BY <3>1, BoardAssumption DEF RoomHeld, QuotaRespected, CommitCreate
  <2> QED BY <2>1, <2>2, <2>3
<1> QED BY <1>1, <1>2, Invariant, PTL DEF Spec

-----------------------------------------------------------------------------
(* The ledger of a board without subtasks.                                  *)

Paid(t) == Live(t) /\ rows[t].done
Counted == stats.tasks + stats.subtasks

\* Without subtasks a completion and a deletion read no row but the one they
\* lock, and only Update acts on a row it did not lock.
FlatInv ==
    /\ \A t \in Tasks : rows[t].parent = None
    /\ \A r \in Requests :
        /\ stage[r] # "update"
        /\ \A x \in DOMAIN seen[r] : seen[r][x].parent = None
        /\ stage[r] \in {"create", "insert", "complete"} => ~seen[r][arg[r]].done
        /\ stage[r] \in {"complete", "delete"} => DOMAIN seen[r] = {arg[r]}

\* The step leaves what task x was paid for as it was.
SamePay(x) ==
    /\ net'[x] = net[x]
    /\ Paid(x)' <=> Paid(x)
    /\ Paid(x) => rows'[x].xp = rows[x].xp

Won(t) ==
    /\ ~Paid(t) /\ Paid(t)' /\ net'[t] = net[t] + rows'[t].xp
    /\ Counted' = Counted + 1

Withdrawn(t) ==
    /\ Paid(t) /\ ~Paid(t)' /\ net'[t] = net[t] - rows[t].xp
    /\ Counted' = Counted - 1

\* The counters move by what the delta says.
LEMMA AppliedCounts ==
    ASSUME StatsType, NEW delta
    PROVE /\ Applied(delta).tasks = stats.tasks + delta.tasks
          /\ Applied(delta).subtasks = stats.subtasks + delta.subtasks
<1> DEFINE level == LevelForXP(stats.xp + delta.xp)
<1>1. CASE delta = NoDelta
    BY <1>1 DEF Applied, NoDelta, StatsType
<1>2. CASE delta # NoDelta
  <2>1. Applied(delta) = [stats EXCEPT !.xp = @ + delta.xp, !.level = level,
                          !.tasks = @ + delta.tasks, !.subtasks = @ + delta.subtasks,
                          !.created = @ + delta.created]
      BY <1>2 DEF Applied
  <2> HIDE DEF level
  <2> QED BY <2>1 DEF StatsType
<1> QED BY <1>1, <1>2

\* A unary minus as the difference the solver can compute with.
LEMMA MinusType == \A n \in Int : -n = 0 - n
    OBVIOUS

\* On a flat board a step pays one task, withdraws one, or pays nothing.
LEMMA FlatStep ==
    ASSUME IInv, FlatInv, Next, Operations \cap {"subtask", "update"} = {}
    PROVE \/ (\A x \in Tasks : SamePay(x)) /\ Counted' = Counted
          \/ \E t \in Tasks : /\ \A x \in Tasks \ {t} : SamePay(x)
                              /\ Won(t) \/ Withdrawn(t)
<1> USE DEF IInv, TypeOK, BoardType
<1> PICK r \in Requests : Continue(r) \/ \E t \in Tasks : Start(r, t)
    BY DEF Next
<1>1. CASE UNCHANGED <<rows, net, stats>>
    BY <1>1 DEF SamePay, Paid, Live, Counted
<1>2. CASE CommitCreate(r)
  <2> DEFINE t == arg[r]
  <2>1. t \in Tasks /\ rows[t].life = "none" /\ ~seen[r][t].done
      BY <1>2, ArgType DEF CommitCreate, RequestsInv, DraftsHeld, FlatInv
  <2>2. rows' = [rows EXCEPT ![t] = seen[r][t]] /\ net' = net
      BY <1>2 DEF CommitCreate
  <2>3. \A x \in Tasks : SamePay(x)
      BY <2>1, <2>2 DEF SamePay, Paid, Live
  <2>4. Counted' = Counted
    <3> DEFINE delta == [NoDelta EXCEPT !.created = 1]
    <3>1. stats' = Applied(delta) /\ delta.tasks = 0 /\ delta.subtasks = 0
        BY <1>2 DEF CommitCreate, ApplyProgress, NoDelta
    <3> HIDE DEF delta
    <3> QED BY <3>1, AppliedCounts DEF Counted, StatsType
  <2> QED BY <2>3, <2>4
<1>3. CASE FinishComplete(r)
  <2>0. PICK t \in Tasks : t = arg[r]
      BY <1>3, ArgType DEF FinishComplete, RequestsInv
  <2> DEFINE read == seen[r]
             quadrant == EffectiveQuadrant(read, t)
             kids == Cascade(read, t)
             won == {t} \cup kids
             pay == [x \in won |-> Reward(quadrant, IsSubtask(read[x]))]
             mine == IF IsSubtask(read[t]) THEN 1 ELSE 0
  <2>1. /\ stage[r] = "complete" /\ owner[t] = r /\ rows[t] = read[t]
        /\ read[t].life = "live" /\ ~read[t].done /\ read[t] \in Row
        /\ DOMAIN read = {t} /\ read[t].parent = None
      BY <1>3, <2>0 DEF FinishComplete, RequestsOK, RequestType,
         LockedRowStable, FlatInv, WellFormed
  <2>2. kids = {} /\ ~IsSubtask(read[t]) /\ won = {t} /\ mine = 0
      BY <2>1, BoardAssumption DEF Cascade, Subtasks, IsSubtask
  <2>3. /\ rows' = [x \in Tasks |-> IF x \in won THEN Completed(read[x], pay[x], quadrant)
                                    ELSE rows[x]]
        /\ net' = [x \in Tasks |-> IF x \in won THEN net[x] + pay[x] ELSE net[x]]
      BY <1>3, <2>0 DEF FinishComplete
  <2>4. /\ rows'[t] = Completed(read[t], pay[t], quadrant) /\ net'[t] = net[t] + pay[t]
        /\ \A x \in Tasks \ {t} : rows'[x] = rows[x] /\ net'[x] = net[x]
    <3> HIDE DEF pay, kids, quadrant, read, won
    <3> QED BY <2>2, <2>3
  <2>5. Counted' = Counted + 1
    <3> DEFINE delta == [xp |-> pay[t] + Cardinality(kids) * Reward(quadrant, TRUE),
                         tasks |-> 1 - mine, subtasks |-> mine + Cardinality(kids),
                         created |-> 0]
               written == [x \in Tasks |-> IF x \in won
                                           THEN Completed(read[x], pay[x], quadrant)
                                           ELSE rows[x]]
    <3>1. ApplyProgressAndEvaluate(delta, written)
        BY <1>3, <2>0 DEF FinishComplete
    <3>2. Cardinality(kids) = 0
        BY <2>2, FS_EmptySet
    <3> HIDE DEF pay, kids, quadrant, mine
    <3>3. delta.tasks = 1 /\ delta.subtasks = 0
        BY <2>2, <3>2
    <3> HIDE DEF delta, written
    <3>4. stats'.tasks = Applied(delta).tasks /\ stats'.subtasks = Applied(delta).subtasks
        BY <3>1 DEF ApplyProgressAndEvaluate
    <3> QED BY <3>3, <3>4, AppliedCounts DEF Counted, StatsType
  <2> HIDE DEF pay, kids, quadrant, mine, read, won
  <2>6. rows'[t].xp = pay[t] /\ rows'[t].done /\ rows'[t].life = "live"
      BY <2>1, <2>4 DEF Completed, Row
  <2>7. \A x \in Tasks \ {t} : SamePay(x)
      BY <2>4 DEF SamePay, Paid, Live
  <2>8. Won(t)
      BY <2>1, <2>4, <2>5, <2>6 DEF Won, Paid, Live
  <2> QED BY <2>7, <2>8
<1>4. CASE FinishDelete(r)
  <2>0. PICK t \in Tasks : t = arg[r]
      BY <1>4, ArgType DEF FinishDelete, RequestsInv
  <2> DEFINE read == seen[r]
             done == {x \in DOMAIN read : read[x].done}
             doneSubtasks == Cardinality({x \in done : IsSubtask(read[x])})
             total == MapThenSumSet(LAMBDA x : read[x].xp, done)
             delta == [xp |-> -total, tasks |-> doneSubtasks - Cardinality(done),
                       subtasks |-> -doneSubtasks, created |-> 0]
  <2>1. /\ stage[r] = "delete" /\ rows[t] = read[t] /\ read[t] \in Row
        /\ read[t].life = "live" /\ DOMAIN read = {t} /\ read[t].parent = None
      BY <1>4, <2>0 DEF FinishDelete, RequestsOK, RequestType,
         LockedRowStable, FlatInv, WellFormed
  <2>2. {x \in done : IsSubtask(read[x])} = {}
      BY <2>1 DEF IsSubtask
  <2>3. stats' = Applied(delta)
      BY <1>4 DEF FinishDelete, ApplyProgress
  <2>4. doneSubtasks = 0
      BY <2>2, FS_EmptySet
  <2>5. delta.tasks = 0 - Cardinality(done) /\ delta.subtasks = 0
    <3>1. Cardinality(done) \in Nat
        BY <2>1, BoardAssumption, FS_Subset, FS_CardinalityType
    <3> HIDE DEF done, doneSubtasks, total
    <3>2. delta.tasks = doneSubtasks - Cardinality(done) /\ delta.subtasks = -doneSubtasks
        OBVIOUS
    <3>3. doneSubtasks - Cardinality(done) = 0 - Cardinality(done)
        BY <2>4
    <3>4. -doneSubtasks = 0
      <4>1. doneSubtasks \in Int
          BY <2>4
      <4>2. -doneSubtasks = 0 - doneSubtasks
          BY <4>1, MinusType
      <4>3. 0 - doneSubtasks = 0
          BY <2>4
      <4> QED BY <4>2, <4>3
    <3> HIDE DEF delta
    <3> QED BY <3>2, <3>3, <3>4
  <2>6. /\ rows' = [x \in Tasks |-> IF x \in {t} THEN [rows[x] EXCEPT !.life = "gone"]
                                    ELSE rows[x]]
        /\ net' = [x \in Tasks |-> IF x \in done THEN net[x] - read[x].xp ELSE net[x]]
      BY <1>4, <2>1 DEF FinishDelete
  <2>7. \A x \in Tasks \ {t} : SamePay(x)
      BY <2>1, <2>6 DEF SamePay, Paid, Live
  <2>8. rows'[t].life = "gone"
      BY <2>1, <2>6 DEF Row
  <2> HIDE DEF delta
  <2>9. CASE read[t].done
    <3>1. done = {t} /\ Cardinality(done) = 1
        BY <2>1, <2>9, FS_Singleton
    <3>2. Counted' = Counted - 1
        BY <2>3, <2>5, <3>1, AppliedCounts DEF Counted, StatsType
    <3>3. Withdrawn(t)
        BY <2>1, <2>6, <2>8, <2>9, <3>1, <3>2 DEF Withdrawn, Paid, Live
    <3> QED BY <2>1, <2>7, <3>3
  <2>10. CASE ~read[t].done
    <3>1. done = {} /\ Cardinality(done) = 0
        BY <2>1, <2>10, FS_EmptySet
    <3>2. Counted' = Counted
        BY <2>3, <2>5, <3>1, AppliedCounts DEF Counted, StatsType
    <3>3. SamePay(t)
        BY <2>1, <2>6, <2>8, <2>10, <3>1 DEF SamePay, Paid, Live
    <3> QED BY <2>7, <3>2, <3>3
  <2> QED BY <2>9, <2>10
<1>5. ASSUME NEW t \in Tasks, Reopen(r, t)
      PROVE (\A x \in Tasks \ {t} : SamePay(x)) /\ Withdrawn(t)
  <2>1. /\ rows' = [rows EXCEPT ![t] = Reopened(rows[t])]
        /\ net' = [net EXCEPT ![t] = @ - rows[t].xp]
        /\ Live(t) /\ rows[t].done /\ ~IsSubtask(rows[t])
      BY <1>5 DEF Reopen, FlatInv, IsSubtask
  <2>2. ~rows'[t].done
      BY <2>1 DEF Reopened, Row
  <2>3. Counted' = Counted - 1
    <3> DEFINE xp == -rows[t].xp
               delta == [NoDelta EXCEPT !.xp = xp, !.tasks = -1]
    <3>1. stats' = Applied(delta)
        BY <1>5, <2>1 DEF Reopen, ApplyProgress
    <3> HIDE DEF xp
    <3>2. delta.tasks = -1 /\ delta.subtasks = 0
        BY DEF NoDelta
    <3> HIDE DEF delta
    <3> QED BY <3>1, <3>2, AppliedCounts DEF Counted, StatsType
  <2> QED BY <2>1, <2>2, <2>3 DEF SamePay, Withdrawn, Paid, Live
<1>6. ASSUME NEW t \in Tasks, NEW quadrant, InQuadrant(t, quadrant), UNCHANGED <<net, stats>>
      PROVE (\A x \in Tasks : SamePay(x)) /\ Counted' = Counted
    BY <1>6 DEF InQuadrant, SamePay, Paid, Live, Row, Counted
<1>7. CASE InsertTask(r) \/ Rollback(r) \/ WriteUpdate(r)
    BY <1>1, <1>7 DEF InsertTask, Rollback, WriteUpdate, FlatInv, board
<1>8. ASSUME NEW t \in Tasks, Start(r, t)
      PROVE \/ UNCHANGED <<rows, net, stats>>
            \/ Reopen(r, t)
            \/ \E quadrant : InQuadrant(t, quadrant) /\ UNCHANGED <<net, stats>>
    BY <1>8 DEF Start, BeginCreate, BeginUpdate, MoveTask, Promote, BeginComplete,
       BeginDelete, board
<1> QED BY <1>1, <1>2, <1>3, <1>4, <1>5, <1>6, <1>7, <1>8 DEF Continue

\* A flat board stays flat.
LEMMA FlatKept ==
    ASSUME IInv, FlatInv, Next, Operations \cap {"subtask", "update"} = {}
    PROVE FlatInv'
<1> USE DEF IInv, TypeOK, BoardType, RequestType
<1> PICK r \in Requests : Continue(r) \/ \E t \in Tasks : Start(r, t)
    BY DEF Next
<1>1. ASSUME UNCHANGED <<stage, arg, seen>>, \A x \in Tasks : rows'[x].parent = None
      PROVE FlatInv'
    BY <1>1 DEF FlatInv
<1>2. ASSUME End(r), \A x \in Tasks : rows'[x].parent = None
      PROVE FlatInv'
  <2>1. /\ stage'[r] = "idle" /\ DOMAIN seen'[r] = {}
        /\ \A q \in Requests \ {r} : stage'[q] = stage[q] /\ seen'[q] = seen[q] /\ arg'[q] = arg[q]
      BY <1>2 DEF End, NoRows
  <2> QED BY <1>2, <2>1 DEF FlatInv
<1>3. ASSUME NEW t \in Tasks, NEW next, NEW reads, Begin(r, t, next, reads), UNCHANGED rows,
             next \in {"create", "complete", "delete"}, DOMAIN reads = {t},
             reads[t].parent = None, next # "delete" => ~reads[t].done
      PROVE FlatInv'
  <2>1. /\ stage'[r] = next /\ seen'[r] = reads /\ arg'[r] = t
        /\ \A q \in Requests \ {r} : stage'[q] = stage[q] /\ seen'[q] = seen[q] /\ arg'[q] = arg[q]
      BY <1>3 DEF Begin
  <2> QED BY <1>3, <2>1 DEF FlatInv
<1>4. CASE InsertTask(r)
    BY <1>4 DEF InsertTask, FlatInv, board
<1>5. CASE CommitCreate(r)
  <2>1. arg[r] \in Tasks /\ seen[r][arg[r]].parent = None
      BY <1>5, ArgType DEF CommitCreate, RequestsInv, RequestsOK, FlatInv
  <2> QED BY <1>2, <1>5, <2>1 DEF CommitCreate, FlatInv
<1>6. CASE FinishComplete(r)
  <2> DEFINE won == {arg[r]} \cup Cascade(seen[r], arg[r])
  <2>1. \A x \in won : seen[r][x].parent = None /\ seen[r][x] \in Row
      BY <1>6, ZenonT(40) DEF FinishComplete, RequestsOK, FlatInv, Cascade, Subtasks, WellFormed
  <2>2. \A x \in Tasks : \/ rows'[x] = rows[x]
                         \/ x \in won /\ \E xp, q : rows'[x] = Completed(seen[r][x], xp, q)
      BY <1>6 DEF FinishComplete
  <2> HIDE DEF won
  <2>3. \A x \in won : \A xp, q : Completed(seen[r][x], xp, q).parent = None
      BY <2>1 DEF Completed, Row
  <2>4. ASSUME NEW x \in Tasks PROVE rows'[x].parent = None
    <3>1. rows[x].parent = None
        BY DEF FlatInv
    <3>2. CASE rows'[x] = rows[x]
        BY <3>1, <3>2
    <3>3. ASSUME x \in won, NEW xp, NEW q, rows'[x] = Completed(seen[r][x], xp, q)
          PROVE rows'[x].parent = None
        BY <2>3, <3>3
    <3> QED BY <2>2, <3>2, <3>3
  <2> QED BY <1>2, <1>6, <2>4 DEF FinishComplete
<1>7. CASE FinishDelete(r)
  <2>1. \A x \in Tasks : rows'[x] = rows[x] \/ rows'[x] = [rows[x] EXCEPT !.life = "gone"]
      BY <1>7 DEF FinishDelete
  <2>2. \A x \in Tasks : [rows[x] EXCEPT !.life = "gone"].parent = None
      BY DEF Row, FlatInv
  <2>3. \A x \in Tasks : rows'[x].parent = None
      BY <2>1, <2>2 DEF FlatInv
  <2> QED BY <1>2, <1>7, <2>3 DEF FinishDelete
<1>8. CASE Rollback(r) \/ WriteUpdate(r)
    BY <1>2, <1>8 DEF Rollback, WriteUpdate, FlatInv, board
<1>9. ASSUME NEW t \in Tasks, NEW quadrant \in Quadrants, BeginCreate(r, t, NewRegular(quadrant))
      PROVE FlatInv'
  <2> DEFINE reads == [x \in {t} |-> NewRegular(quadrant)]
  <2>1. DOMAIN reads = {t} /\ reads[t].parent = None /\ ~reads[t].done
      BY DEF NewRegular, NoRow
  <2>2. Begin(r, t, "create", reads) /\ UNCHANGED rows
      BY <1>9 DEF BeginCreate, board
  <2> HIDE DEF reads
  <2> QED BY <1>3, <2>1, <2>2
<1>10. ASSUME NEW t \in Tasks, BeginComplete(r, t) PROVE FlatInv'
  <2> DEFINE reads == [x \in Family(t) |-> rows[x]]
  <2>1. Family(t) = {t}
      BY BoardAssumption DEF Family, Subtasks, IsSubtask, FlatInv
  <2>2. DOMAIN reads = {t} /\ reads[t].parent = None /\ ~reads[t].done
      BY <1>10, <2>1 DEF FlatInv, BeginComplete
  <2>3. Begin(r, t, "complete", reads) /\ UNCHANGED rows
      BY <1>10 DEF BeginComplete, board
  <2> HIDE DEF reads
  <2> QED BY <1>3, <2>2, <2>3
<1>11. ASSUME NEW t \in Tasks, BeginDelete(r, t) PROVE FlatInv'
  <2> DEFINE reads == [x \in Doomed(t) |-> rows[x]]
  <2>1. Doomed(t) = {t}
      BY BoardAssumption DEF Doomed, Subtasks, IsSubtask, FlatInv
  <2>2. DOMAIN reads = {t} /\ reads[t].parent = None
      BY <2>1 DEF FlatInv
  <2>3. Begin(r, t, "delete", reads) /\ UNCHANGED rows
      BY <1>11 DEF BeginDelete, board
  <2> HIDE DEF reads
  <2> QED BY <1>3, <2>2, <2>3
<1>12. ASSUME NEW t \in Tasks, Reopen(r, t) PROVE FlatInv'
  <2>1. \A x \in Tasks : rows'[x].parent = None
      BY <1>12 DEF Reopen, Reopened, Row, FlatInv
  <2> QED BY <1>1, <1>12, <2>1 DEF Reopen, AtOnce
<1>13. ASSUME NEW t \in Tasks, NEW quadrant, InQuadrant(t, quadrant), AtOnce(r) PROVE FlatInv'
  <2>1. \A x \in Tasks : rows'[x].parent = None
      BY <1>13 DEF InQuadrant, Row, FlatInv
  <2> QED BY <1>1, <1>13, <2>1 DEF AtOnce
<1>14. ASSUME NEW t \in Tasks, Start(r, t) PROVE FlatInv'
    BY <1>9, <1>10, <1>11, <1>12, <1>13, <1>14 DEF Start, MoveTask, Promote
<1> QED BY <1>4, <1>5, <1>6, <1>7, <1>8, <1>14 DEF Continue

\* The board starts flat, with nothing paid and nothing counted.
LEMMA FlatInit == Init => FlatInv /\ PaidOnce /\ CountersMatch
<1> SUFFICES ASSUME Init PROVE FlatInv /\ PaidOnce /\ CountersMatch
    OBVIOUS
<1>1. FlatInv
    BY DEF Init, FlatInv, NoRow, NoRows
<1>2. PaidOnce
    BY DEF Init, PaidOnce, Live, NoRow
<1>3. {t \in Tasks : Live(t) /\ rows[t].done} = {}
    BY DEF Init, Live, NoRow
<1>4. CountersMatch
    BY <1>3, FS_EmptySet DEF Init, CountersMatch
<1> QED BY <1>1, <1>2, <1>4

\* Whatever is paid or withdrawn, ledger, snapshots and counters still agree.
LEMMA AccountsKept ==
    ASSUME IInv, FlatInv, PaidOnce, CountersMatch, Next,
           Operations \cap {"subtask", "update"} = {}
    PROVE PaidOnce' /\ CountersMatch'
<1> DEFINE D == {t \in Tasks : Live(t) /\ rows[t].done}
<1> USE DEF IInv, TypeOK, BoardType
<1>1. IsFiniteSet(D) /\ Counted = Cardinality(D)
    BY BoardAssumption, FS_Subset DEF Counted, CountersMatch
<1>2. CASE (\A x \in Tasks : SamePay(x)) /\ Counted' = Counted
  <2>1. D' = D
      BY <1>2 DEF SamePay, Paid
  <2>2. PaidOnce'
      BY <1>2 DEF SamePay, Paid, PaidOnce
  <2> QED BY <1>1, <1>2, <2>1, <2>2 DEF CountersMatch, Counted
<1>3. ASSUME NEW t \in Tasks, \A x \in Tasks \ {t} : SamePay(x), Won(t)
      PROVE PaidOnce' /\ CountersMatch'
  <2>1. D' = D \cup {t} /\ t \notin D
      BY <1>3 DEF SamePay, Paid, Won
  <2>2. Cardinality(D') = Cardinality(D) + 1
      BY <1>1, <2>1, FS_AddElement
  <2>3. PaidOnce'
    <3>1. \A x \in Tasks \ {t} :
              net'[x] = IF Live(x)' /\ rows'[x].done THEN rows'[x].xp ELSE 0
        BY <1>3 DEF SamePay, Paid, PaidOnce
    <3>2. net[t] = 0 /\ rows'[t].xp \in Nat
      <4>1. net[t] = 0
          BY <1>3 DEF Won, Paid, PaidOnce
      <4>2. WellFormed(rows'[t])
          BY NextInv DEF WellFormed
      <4> QED BY <4>1, <4>2 DEF WellFormed, Row
    <3>3. net'[t] = rows'[t].xp /\ Live(t)' /\ rows'[t].done
        BY <1>3, <3>2 DEF Won, Paid
    <3> QED BY <3>1, <3>3 DEF PaidOnce
  <2> QED BY <1>1, <1>3, <2>2, <2>3 DEF CountersMatch, Counted, Won
<1>4. ASSUME NEW t \in Tasks, \A x \in Tasks \ {t} : SamePay(x), Withdrawn(t)
      PROVE PaidOnce' /\ CountersMatch'
  <2>1. D' = D \ {t} /\ t \in D
      BY <1>4 DEF SamePay, Paid, Withdrawn
  <2>2. Cardinality(D') = Cardinality(D) - 1
      BY <1>1, <2>1, FS_RemoveElement, ZenonT(40)
  <2>3. PaidOnce'
    <3>1. \A x \in Tasks \ {t} :
              net'[x] = IF Live(x)' /\ rows'[x].done THEN rows'[x].xp ELSE 0
        BY <1>4 DEF SamePay, Paid, PaidOnce
    <3>2. rows[t].xp \in Nat /\ net[t] = rows[t].xp
        BY <1>4 DEF Withdrawn, Paid, PaidOnce, Row
    <3>3. net'[t] = 0 /\ ~(Live(t)' /\ rows'[t].done)
        BY <1>4, <3>2 DEF Withdrawn, Paid
    <3> QED BY <3>1, <3>3 DEF PaidOnce
  <2> QED BY <1>1, <1>4, <2>2, <2>3 DEF CountersMatch, Counted, Withdrawn
<1> QED BY <1>2, <1>3, <1>4, FlatStep

\* On a board without subtasks, and with Update left out, a completion is paid
\* once and withdrawn once, and the counters match the rows, for any number of
\* requests: the row lock of Complete, Reopen and Delete is enough.
THEOREM LedgerExact ==
    ASSUME Operations \cap {"subtask", "update"} = {}
    PROVE Spec => [](PaidOnce /\ CountersMatch)
<1> DEFINE J == FlatInv /\ PaidOnce /\ CountersMatch
<1>1. IInv /\ J /\ UNCHANGED vars => J'
    BY DEF vars, board, FlatInv, PaidOnce, CountersMatch, Live
<1>2. IInv /\ J /\ [Next]_vars => J'
    BY <1>1, FlatKept, AccountsKept
<1>3. Init => J
    BY FlatInit
<1>4. J => PaidOnce /\ CountersMatch
    OBVIOUS
<1> HIDE DEF J
<1> QED BY <1>2, <1>3, <1>4, Invariant, PTL DEF Spec

\* Where what is recorded is exact, the lifetime XP is never negative.
LEMMA ExactIsNotNegative == IInv /\ LedgerAddsUp /\ PaidOnce => NoNegativeXP
<1> SUFFICES ASSUME IInv, LedgerAddsUp, PaidOnce PROVE NoNegativeXP
    OBVIOUS
<1>1. \A x \in Tasks : net[x] \in Nat
    BY DEF IInv, TypeOK, BoardType, PaidOnce, Row
<1>2. Total(net, Tasks) \in Nat
    BY <1>1, BoardAssumption, TotalNonnegative
<1>3. stats.xp = Total(net, Tasks)
    BY DEF LedgerAddsUp, Total
<1> QED BY <1>2, <1>3 DEF NoNegativeXP

\* On a board without subtasks and Update, no step takes XP back twice.
THEOREM XPNotNegative ==
    ASSUME Operations \cap {"subtask", "update"} = {} PROVE Spec => []NoNegativeXP
    BY Invariant, LedgerSums, LedgerExact, ExactIsNotNegative, PTL

-----------------------------------------------------------------------------
(* Deleting and reopening can take the same earnings back twice.  Neither   *)
(* can alone.                                                               *)

\* What a request will write has earned nothing yet, and what a deletion has read
\* of a task on the board is in the ledger still.
Claim(r) ==
    /\ stage[r] \in {"create", "insert", "update"} => seen[r][arg[r]].xp = 0
    /\ stage[r] = "delete" =>
         /\ "delete" \in Operations
         /\ \A x \in DOMAIN seen[r] : /\ rows[x].life # "none"
                                      /\ Live(x) => net[x] >= seen[r][x].xp

\* What is taken back of a task never exceeds what it earned, and what it shows to
\* have earned is in the ledger.
EarningsHeld == \A t \in Tasks : net[t] >= 0 /\ (Live(t) => net[t] >= rows[t].xp)

EarningsInv == EarningsHeld /\ \A r \in Requests : Claim(r)

\* A step that takes nothing back from a task that stays, where tasks are deleted.
TakesNothing ==
    \A t \in Tasks : rows[t].life # "none" =>
        /\ rows'[t].life # "none"
        /\ Live(t)' => Live(t) /\ ("delete" \in Operations => net'[t] >= net[t])

LEMMA ClaimsKept ==
    ASSUME IInv, IInv', EarningsInv, EarningsHeld', TakesNothing, NEW r \in Requests, Claim(r)',
           \A q \in Requests \ {r} : stage'[q] = stage[q] /\ arg'[q] = arg[q] /\ seen'[q] = seen[q]
    PROVE  EarningsInv'
<1>1. ASSUME NEW q \in Requests \ {r} PROVE Claim(q)'
  <2> DEFINE read == seen[q]
  <2>1. Claim(q) /\ stage'[q] = stage[q] /\ arg'[q] = arg[q] /\ seen'[q] = read
      BY DEF EarningsInv
  <2>2. ASSUME stage[q] = "delete", NEW x \in DOMAIN read
        PROVE rows'[x].life # "none" /\ (Live(x)' => net'[x] >= read[x].xp)
    <3>1. x \in Tasks /\ read[x].xp \in Nat /\ net[x] \in Int /\ net'[x] \in Int
        BY <2>2 DEF IInv, TypeOK, RequestType, BoardType, WellFormed, Row
    <3>2. "delete" \in Operations /\ rows[x].life # "none" /\ (Live(x) => net[x] >= read[x].xp)
        BY <2>1, <2>2 DEF Claim
    <3> HIDE DEF read
    <3> QED BY <3>1, <3>2 DEF TakesNothing
  <2> HIDE DEF read
  <2> QED BY <2>1, <2>2 DEF Claim
<1> QED BY <1>1 DEF EarningsInv

LEMMA EndClaims ==
    ASSUME IInv, NEW r \in Requests, End(r)
    PROVE  /\ Claim(r)'
           /\ \A q \in Requests \ {r} :
                 stage'[q] = stage[q] /\ arg'[q] = arg[q] /\ seen'[q] = seen[q]
    BY DEF IInv, TypeOK, RequestType, End, Claim

LEMMA AtOnceClaims ==
    ASSUME NEW r \in Requests, AtOnce(r)
    PROVE  /\ Claim(r)'
           /\ \A q \in Requests \ {r} :
                 stage'[q] = stage[q] /\ arg'[q] = arg[q] /\ seen'[q] = seen[q]
    BY DEF AtOnce, Claim

LEMMA BeginClaims ==
    ASSUME IInv, NEW r \in Requests, NEW t, NEW next, NEW reads, Begin(r, t, next, reads)
    PROVE  /\ stage'[r] = next /\ arg'[r] = t /\ seen'[r] = reads
           /\ \A q \in Requests \ {r} :
                 stage'[q] = stage[q] /\ arg'[q] = arg[q] /\ seen'[q] = seen[q]
    BY DEF IInv, TypeOK, RequestType, Begin

\* A step that leaves rows and ledger as they are.
LEMMA SameEarnings ==
    ASSUME IInv, EarningsInv, UNCHANGED <<rows, net>>
    PROVE  EarningsHeld' /\ TakesNothing
    BY DEF IInv, TypeOK, BoardType, EarningsInv, EarningsHeld, TakesNothing, Live

LEMMA EarningsNext ==
    ASSUME ~({"delete", "reopen"} \subseteq Operations), IInv, IInv', EarningsInv, Next
    PROVE  EarningsInv'
<1> USE DEF IInv, TypeOK, BoardType
<1> PICK r \in Requests : Continue(r) \/ \E t \in Tasks : Start(r, t)
    BY DEF Next
<1>0. \A x \in Tasks : /\ net[x] \in Int /\ net'[x] \in Int /\ net[x] >= 0
                       /\ Live(x) => net[x] >= rows[x].xp
                       /\ rows[x] \in Row /\ rows[x].xp \in Nat
                       /\ rows[x].done = (rows[x].xp > 0)
    BY DEF EarningsInv, EarningsHeld, WellFormed, Row
<1>1. CASE InsertTask(r)
  <2>1. UNCHANGED <<rows, net, arg, seen>> /\ stage[r] = "create"
        /\ stage' = [stage EXCEPT ![r] = "insert"]
      BY <1>1 DEF InsertTask, board
  <2>2. Claim(r)'
      BY <2>1 DEF EarningsInv, Claim, RequestType
  <2> QED BY <2>1, <2>2, SameEarnings, ClaimsKept
<1>2. CASE CommitCreate(r) \/ WriteUpdate(r)
  <2> DEFINE t == arg[r]
  <2>1. /\ t \in Tasks /\ rows' = [rows EXCEPT ![t] = seen[r][t]] /\ net' = net
        /\ seen[r][t].xp = 0 /\ End(r) /\ seen[r][t].life = "live"
        /\ rows[t].life \in {"none", "live"}
      BY <1>2, ArgType DEF CommitCreate, WriteUpdate, EarningsInv, Claim, RequestsInv,
         RequestsOK, DraftsHeld, StillLive, Live
  <2>2. EarningsHeld' /\ TakesNothing
      BY <1>0, <2>1 DEF EarningsHeld, TakesNothing, Live
  <2> QED BY <2>1, <2>2, EndClaims, ClaimsKept
<1>3. CASE Rollback(r)
    BY <1>3, SameEarnings, EndClaims, ClaimsKept DEF Rollback, board
<1>4. CASE FinishComplete(r)
  <2> DEFINE t == arg[r]
             read == seen[r]
             quadrant == EffectiveQuadrant(read, t)
             won == {t} \cup Cascade(read, t)
             pay == [x \in won |-> Reward(quadrant, IsSubtask(read[x]))]
  <2>1. /\ rows' = [x \in Tasks |-> IF x \in won THEN Completed(read[x], pay[x], quadrant)
                                    ELSE rows[x]]
        /\ net' = [x \in Tasks |-> IF x \in won THEN net[x] + pay[x] ELSE net[x]]
        /\ End(r) /\ stage[r] = "complete"
      BY <1>4 DEF FinishComplete
  <2>2. t \in Tasks /\ quadrant \in Quadrants /\ won \subseteq DOMAIN read
        /\ DOMAIN read \subseteq Tasks
      BY <2>1, ArgType DEF RequestsInv, RequestsOK, RequestType, Cascade, Subtasks
  <2>3. \A x \in won : pay[x] \in Nat
    <3> HIDE DEF quadrant
    <3>1. \A sub \in BOOLEAN : Reward(quadrant, sub) \in Nat
        BY <2>2, RewardType
    <3> QED BY <3>1 DEF IsSubtask
  <2>4. \A x \in won : read[x] \in Row /\ Live(x) /\ read[x].life = "live"
    <3>1. rows[t] = read[t] /\ read[t].life = "live"
        BY <2>1 DEF RequestsOK, LockedRowStable
    <3>2. \A x \in Cascade(read, t) : Live(x) /\ read[x].life = "live"
        BY <1>4 DEF FinishComplete, StillLive, Cascade, Subtasks
    <3> QED BY <2>2, <3>1, <3>2 DEF RequestType, WellFormed, Live
  <2> HIDE DEF pay, won, quadrant, read
  <2>5. \A x \in won : /\ rows'[x].xp = pay[x] /\ rows'[x].life = "live"
                       /\ net'[x] = net[x] + pay[x]
      BY <2>1, <2>2, <2>4 DEF Completed, Row
  <2>6. \A x \in Tasks \ won : rows'[x] = rows[x] /\ net'[x] = net[x]
      BY <2>1
  <2>7. EarningsHeld' /\ TakesNothing
      BY <1>0, <2>3, <2>4, <2>5, <2>6 DEF EarningsHeld, TakesNothing, Live
  <2> QED BY <2>1, <2>7, EndClaims, ClaimsKept
<1>5. CASE FinishDelete(r)
  <2> DEFINE read == seen[r]
             doomed == DOMAIN read
  <2>1. /\ rows' = [x \in Tasks |-> IF x \in doomed THEN [rows[x] EXCEPT !.life = "gone"]
                                    ELSE rows[x]]
        /\ net' = [x \in Tasks |-> IF x \in {y \in doomed : read[y].done}
                                   THEN net[x] - read[x].xp ELSE net[x]]
        /\ End(r) /\ \A x \in doomed : Live(x)
      BY <1>5 DEF FinishDelete, StillLive
  <2>2. \A x \in doomed : x \in Tasks /\ read[x].xp \in Nat /\ net[x] >= read[x].xp
      BY <1>5, <2>1 DEF FinishDelete, EarningsInv, Claim, RequestType, WellFormed, Row
  <2>3. \A x \in doomed : rows'[x].life = "gone" /\ net'[x] \in {net[x], net[x] - read[x].xp}
      BY <1>0, <2>1, <2>2 DEF Row
  <2>4. \A x \in Tasks \ doomed : rows'[x] = rows[x] /\ net'[x] = net[x]
      BY <2>1
  <2> HIDE DEF doomed, read
  <2>5. EarningsHeld' /\ TakesNothing
      BY <1>0, <2>2, <2>3, <2>4 DEF EarningsHeld, TakesNothing, Live
  <2> QED BY <2>1, <2>5, EndClaims, ClaimsKept
<1>6. ASSUME NEW t \in Tasks, Start(r, t) PROVE EarningsInv'
  <2>1. ASSUME NEW quadrant, InQuadrant(t, quadrant), AtOnce(r), net' = net
        PROVE EarningsInv'
    <3>1. \A x \in Tasks : rows'[x].life = rows[x].life /\ rows'[x].xp = rows[x].xp
        BY <2>1 DEF InQuadrant, Row
    <3>2. EarningsHeld' /\ TakesNothing
        BY <1>0, <2>1, <3>1 DEF EarningsHeld, TakesNothing, Live
    <3> QED BY <2>1, <3>2, AtOnceClaims, ClaimsKept
  <2>2. CASE "reopen" \in Operations /\ Reopen(r, t)
    <3>1. /\ rows' = [rows EXCEPT ![t] = Reopened(rows[t])] /\ Live(t)
          /\ net' = [net EXCEPT ![t] = @ - rows[t].xp] /\ AtOnce(r)
        BY <2>2 DEF Reopen
    <3>2. rows'[t].xp = 0 /\ rows'[t].life = "live" /\ net'[t] = net[t] - rows[t].xp
          /\ \A x \in Tasks \ {t} : rows'[x] = rows[x] /\ net'[x] = net[x]
        BY <1>0, <3>1 DEF Reopened, Live, Row
    <3>3. "delete" \notin Operations
        BY <2>2
    <3>4. EarningsHeld' /\ TakesNothing
        BY <1>0, <3>1, <3>2, <3>3 DEF EarningsHeld, TakesNothing, Live
    <3> QED BY <3>1, <3>4, AtOnceClaims, ClaimsKept
  <2>3. ASSUME NEW row, BeginCreate(r, t, row), row.xp = 0 PROVE EarningsInv'
    <3>1. Begin(r, t, "create", [x \in {t} |-> row]) /\ UNCHANGED <<rows, net>>
        BY <2>3 DEF BeginCreate, board
    <3>2. stage'[r] = "create" /\ seen'[r][arg'[r]].xp = 0
        BY <2>3, <3>1, BeginClaims
    <3>3. Claim(r)'
        BY <3>2 DEF Claim
    <3> QED BY <3>1, <3>3, BeginClaims, SameEarnings, ClaimsKept
  <2>4. CASE BeginUpdate(r, t)
    <3>1. /\ Begin(r, t, "update", [x \in {t} |-> rows[t]])
          /\ UNCHANGED <<rows, net>>
          /\ ~rows[t].done
        BY <2>4 DEF BeginUpdate, board
    <3>2. rows[t].xp = 0
      <4>1. t \in Tasks /\ rows[t].xp \in Nat /\ rows[t].done = (rows[t].xp > 0)
          BY <1>0, <1>6
      <4>2. ~(rows[t].xp > 0)
          BY <3>1, <4>1, Zenon
      <4> QED BY <4>1, <4>2
    <3>3. stage'[r] = "update" /\ arg'[r] = t /\ seen'[r] = [x \in {t} |-> rows[t]]
        BY <3>1, BeginClaims
    <3>4. stage'[r] = "update" /\ seen'[r][arg'[r]].xp = 0
        BY <3>2, <3>3
    <3>5. Claim(r)'
        BY <3>4 DEF Claim
    <3> QED BY <3>1, <3>5, BeginClaims, SameEarnings, ClaimsKept
  <2>5. CASE BeginComplete(r, t)
    <3>1. Begin(r, t, "complete", [x \in Family(t) |-> rows[x]]) /\ UNCHANGED <<rows, net>>
        BY <2>5 DEF BeginComplete, board
    <3>2. stage'[r] = "complete"
        BY <3>1, BeginClaims
    <3>3. Claim(r)'
        BY <3>2 DEF Claim
    <3> QED BY <3>1, <3>3, BeginClaims, SameEarnings, ClaimsKept
  <2>6. CASE "delete" \in Operations /\ BeginDelete(r, t)
    <3>1. Begin(r, t, "delete", [x \in Doomed(t) |-> rows[x]]) /\ UNCHANGED <<rows, net>>
          /\ Live(t)
        BY <2>6 DEF BeginDelete, board
    <3>2. stage'[r] = "delete" /\ seen'[r] = [x \in Doomed(t) |-> rows[x]]
        BY <3>1, BeginClaims
    <3>3. Doomed(t) \subseteq Tasks /\ \A x \in Doomed(t) : Live(x)
        BY <3>1 DEF Doomed, Subtasks, Live
    <3>4. Claim(r)'
        BY <1>0, <2>6, <3>1, <3>2, <3>3 DEF Claim, Live
    <3> QED BY <3>1, <3>4, BeginClaims, SameEarnings, ClaimsKept
  <2>7. \A x : NewRegular(x).xp = 0 /\ NewSubtask(x).xp = 0
      BY DEF NewRegular, NewSubtask, NoRow
  <2> QED BY <1>6, <2>1, <2>2, <2>3, <2>4, <2>5, <2>6, <2>7 DEF Start, MoveTask, Promote
<1> QED BY <1>1, <1>2, <1>3, <1>4, <1>5, <1>6 DEF Continue

LEMMA EarningsAlways ==
    ASSUME ~({"delete", "reopen"} \subseteq Operations) PROVE Spec => []EarningsInv
<1>1. Init => EarningsInv
    BY DEF Init, EarningsInv, EarningsHeld, Claim, Live, NoRow
<1>2. IInv /\ IInv' /\ EarningsInv /\ [Next]_vars => EarningsInv'
  <2> SUFFICES ASSUME IInv, IInv', EarningsInv, [Next]_vars PROVE EarningsInv'
      OBVIOUS
  <2>1. CASE UNCHANGED vars
      BY <2>1 DEF vars, board, EarningsInv, EarningsHeld, Claim, Live
  <2> QED BY <2>1, EarningsNext
<1> QED BY <1>1, <1>2, Invariant, PTL DEF Spec

\* Whatever requests interleave, with subtasks and Update, a task on the board has in
\* the ledger what its snapshot shows, unless tasks are both deleted and reopened.
THEOREM EarningsCovered ==
    ASSUME ~({"delete", "reopen"} \subseteq Operations) PROVE Spec => []EarningsHeld
    BY EarningsAlways, PTL DEF EarningsInv

\* And the lifetime XP is never negative: it takes a deletion and a reopening to
\* withdraw one completion twice.
THEOREM XPNeedsBoth ==
    ASSUME ~({"delete", "reopen"} \subseteq Operations) PROVE Spec => []NoNegativeXP
<1>1. IInv /\ LedgerAddsUp /\ EarningsInv => NoNegativeXP
  <2> SUFFICES ASSUME IInv, LedgerAddsUp, EarningsInv PROVE NoNegativeXP
      OBVIOUS
  <2>1. \A x \in Tasks : net[x] \in Nat
      BY DEF IInv, TypeOK, BoardType, EarningsInv, EarningsHeld
  <2>2. Total(net, Tasks) \in Nat
      BY <2>1, BoardAssumption, TotalNonnegative
  <2>3. stats.xp = Total(net, Tasks)
      BY DEF LedgerAddsUp, Total
  <2> QED BY <2>2, <2>3 DEF NoNegativeXP
<1> QED BY <1>1, EarningsAlways, LedgerSums, Invariant, PTL

-----------------------------------------------------------------------------
(* Subtasks that are never moved nor promoted.                              *)

\* A row that was filed and is no subtask: it will never be one.
TopLevel(p) == p \in Tasks /\ rows[p].life # "none" /\ ~IsSubtask(rows[p])

\* The parent of a draft is such a row, and what a request will write back has the
\* parent that is stored.
Follows(r) ==
    LET row == seen[r][arg[r]] IN
    /\ (stage[r] \in {"create", "insert"} /\ IsSubtask(row)) => TopLevel(row.parent)
    /\ stage[r] \in {"update", "complete", "delete"} =>
          \A x \in DOMAIN seen[r] : rows[x].life # "none" /\ seen[r][x].parent = rows[x].parent

HierarchyInv ==
    /\ \A t \in Tasks : (rows[t].life # "none" /\ IsSubtask(rows[t])) => TopLevel(rows[t].parent)
    /\ \A r \in Requests : Follows(r)

\* A step that leaves the parents of the rows on file.
KeepsParents ==
    \A x \in Tasks : rows[x].life # "none" =>
        rows'[x].life # "none" /\ rows'[x].parent = rows[x].parent

\* A row the step files has a parent that may have it.
FilesWell ==
    \A x \in Tasks : (rows[x].life = "none" /\ rows'[x].life # "none" /\ IsSubtask(rows'[x]))
        => TopLevel(rows'[x].parent)

LEMMA ParentsStep ==
    ASSUME Operations \cap {"move", "promote"} = {}, IInv, HierarchyInv, Next
    PROVE  KeepsParents /\ FilesWell
<1> USE DEF IInv, TypeOK, BoardType, RequestType
<1> PICK r \in Requests : Continue(r) \/ \E t \in Tasks : Start(r, t)
    BY DEF Next
<1>0. \A x \in Tasks : rows[x] \in Row
    BY DEF WellFormed
<1>1. CASE UNCHANGED rows
    BY <1>1 DEF KeepsParents, FilesWell
<1>8. ASSUME \A x \in Tasks : \/ rows'[x] = rows[x]
                              \/ /\ rows[x].life # "none" /\ rows'[x].life # "none"
                                 /\ rows'[x].parent = rows[x].parent
      PROVE KeepsParents /\ FilesWell
  <2>1. \A x \in Tasks : rows[x].life # "none" =>
            rows'[x].life # "none" /\ rows'[x].parent = rows[x].parent
      BY <1>8
  <2>2. \A x \in Tasks : rows[x].life = "none" => rows'[x] = rows[x]
      BY <1>8
  <2> QED BY <2>1, <2>2 DEF KeepsParents, FilesWell
<1>2. CASE CommitCreate(r)
  <2> DEFINE t == arg[r]
  <2>1. t \in Tasks /\ rows[t].life = "none" /\ rows' = [rows EXCEPT ![t] = seen[r][t]]
      BY <1>2, ArgType DEF CommitCreate, RequestsInv, DraftsHeld
  <2>2. IsSubtask(seen[r][t]) => TopLevel(seen[r][t].parent)
      BY <1>2 DEF CommitCreate, HierarchyInv, Follows
  <2> QED BY <2>1, <2>2 DEF KeepsParents, FilesWell
<1>3. CASE WriteUpdate(r)
  <2> DEFINE t == arg[r]
  <2>1. /\ t \in Tasks /\ rows' = [rows EXCEPT ![t] = seen[r][t]]
        /\ seen[r][t].life = "live" /\ seen[r][t].parent = rows[t].parent
        /\ rows[t].life # "none"
      BY <1>3, ArgType DEF WriteUpdate, RequestsInv, RequestsOK, HierarchyInv, Follows
  <2> QED BY <2>1 DEF KeepsParents, FilesWell
<1>4. CASE FinishComplete(r)
  <2> DEFINE read == seen[r]
             won == {arg[r]} \cup Cascade(read, arg[r])
  <2>1. won \subseteq DOMAIN read /\ won \subseteq Tasks
      BY <1>4, ArgType DEF FinishComplete, RequestsInv, RequestsOK, Cascade, Subtasks
  <2>2. ASSUME NEW x \in won
        PROVE /\ rows[x].life # "none" /\ rows'[x].parent = rows[x].parent
              /\ rows'[x].life = "live"
    <3>1. /\ rows[x].life # "none" /\ read[x].parent = rows[x].parent /\ read[x] \in Row
          /\ read[x].life = "live"
        BY <1>4, <2>1, ZenonT(40) DEF FinishComplete, HierarchyInv, Follows, RequestsOK, WellFormed,
                          Cascade, Subtasks
    <3>2. \E xp, quadrant : rows'[x] = Completed(read[x], xp, quadrant)
        BY <1>4, <2>1 DEF FinishComplete
    <3> QED BY <3>1, <3>2 DEF Completed, Row
  <2>3. \A x \in Tasks \ won : rows'[x] = rows[x]
      BY <1>4 DEF FinishComplete
  <2> HIDE DEF won, read
  <2> QED BY <1>8, <2>1, <2>2, <2>3
<1>5. CASE FinishDelete(r)
  <2>1. \A x \in Tasks : rows'[x] = rows[x] \/
            (rows'[x] = [rows[x] EXCEPT !.life = "gone"] /\ rows[x].life # "none")
      BY <1>5 DEF FinishDelete, HierarchyInv, Follows
  <2>2. ASSUME NEW x \in Tasks, rows'[x] = [rows[x] EXCEPT !.life = "gone"]
        PROVE rows'[x].life = "gone" /\ rows'[x].parent = rows[x].parent
      BY <1>0, <2>2 DEF Row
  <2> QED BY <1>8, <2>1, <2>2
<1>6. ASSUME NEW t \in Tasks, Start(r, t) PROVE KeepsParents /\ FilesWell
  <2>1. CASE Reopen(r, t)
    <3>1. rows' = [rows EXCEPT ![t] = Reopened(rows[t])] /\ rows[t].life # "none"
        BY <2>1 DEF Reopen, Live
    <3>2. rows'[t].life = rows[t].life /\ rows'[t].parent = rows[t].parent
          /\ \A x \in Tasks \ {t} : rows'[x] = rows[x]
        BY <1>0, <3>1 DEF Reopened, Row
    <3> QED BY <1>8, <3>1, <3>2
  <2>2. UNCHANGED rows \/ Reopen(r, t)
      BY <1>6 DEF Start, BeginCreate, BeginUpdate, BeginComplete, BeginDelete, board
  <2> QED BY <1>1, <2>1, <2>2
<1>7. CASE InsertTask(r) \/ Rollback(r)
    BY <1>1, <1>7 DEF InsertTask, Rollback, board
<1> QED BY <1>2, <1>3, <1>4, <1>5, <1>6, <1>7 DEF Continue

\* A step that changes one request keeps the invariant, when that one follows it.
LEMMA HierarchyStep ==
    ASSUME IInv, HierarchyInv, KeepsParents, FilesWell, NEW r \in Requests, Follows(r)',
           \A q \in Requests \ {r} : stage'[q] = stage[q] /\ arg'[q] = arg[q] /\ seen'[q] = seen[q]
    PROVE  HierarchyInv'
<1>1. ASSUME NEW p, TopLevel(p) PROVE TopLevel(p)'
    BY <1>1 DEF TopLevel, KeepsParents, IsSubtask
<1>2. ASSUME NEW t \in Tasks, (rows[t].life # "none")', IsSubtask(rows[t])'
      PROVE TopLevel(rows[t].parent)'
  <2>1. CASE rows[t].life = "none"
      BY <1>1, <1>2, <2>1 DEF FilesWell
  <2>2. CASE rows[t].life # "none"
    <3>1. rows'[t].parent = rows[t].parent /\ TopLevel(rows[t].parent)
        BY <1>2, <2>2 DEF KeepsParents, HierarchyInv, IsSubtask
    <3>2. TopLevel(rows[t].parent)'
        BY <1>1, <3>1 DEF TopLevel
    <3> QED BY <3>2
  <2> QED BY <2>1, <2>2
<1>3. ASSUME NEW q \in Requests \ {r} PROVE Follows(q)'
  <2> DEFINE read == seen[q]
             row == read[arg[q]]
  <2>1. Follows(q) /\ stage'[q] = stage[q] /\ arg'[q] = arg[q] /\ seen'[q] = read
      BY DEF HierarchyInv
  <2>2. (stage[q] \in {"create", "insert"} /\ IsSubtask(row)) => TopLevel(row.parent)
      BY <2>1 DEF Follows
  <2>3. (stage[q] \in {"create", "insert"} /\ IsSubtask(row)) =>
            row.parent \in Tasks /\ rows'[row.parent].life # "none"
                /\ ~IsSubtask(rows'[row.parent])
      BY <1>1, <2>2 DEF TopLevel, KeepsParents, IsSubtask
  <2>4. ASSUME stage[q] \in {"update", "complete", "delete"}, NEW x \in DOMAIN read
        PROVE  rows'[x].life # "none" /\ read[x].parent = rows'[x].parent
    <3>1. x \in Tasks
        BY <2>4 DEF IInv, TypeOK, RequestType
    <3>2. rows[x].life # "none" /\ read[x].parent = rows[x].parent
        BY <2>1, <2>4 DEF Follows
    <3> QED BY <3>1, <3>2 DEF KeepsParents
  <2> HIDE DEF read
  <2> QED BY <2>1, <2>3, <2>4 DEF Follows, TopLevel
<1> QED BY <1>2, <1>3 DEF HierarchyInv

LEMMA HierarchyNext ==
    ASSUME Operations \cap {"move", "promote"} = {}, IInv, HierarchyInv, Next
    PROVE  HierarchyInv'
<1> USE DEF IInv, TypeOK, BoardType
<1> PICK r \in Requests : Continue(r) \/ \E t \in Tasks : Start(r, t)
    BY DEF Next
<1>0. KeepsParents /\ FilesWell
    BY ParentsStep
<1>1. CASE End(r)
  <2>1. stage'[r] = "idle"
      BY <1>1 DEF End, RequestType
  <2> QED BY <1>0, <1>1, <2>1, EndClaims, HierarchyStep DEF Follows
<1>2. CASE AtOnce(r)
  <2>1. stage'[r] = "idle"
      BY <1>2 DEF AtOnce
  <2> QED BY <1>0, <1>2, <2>1, AtOnceClaims, HierarchyStep DEF Follows
<1>3. CASE InsertTask(r)
  <2>1. UNCHANGED <<rows, arg, seen>> /\ stage[r] = "create"
        /\ stage' = [stage EXCEPT ![r] = "insert"]
      BY <1>3 DEF InsertTask, board
  <2>2. Follows(r)'
      BY <2>1 DEF HierarchyInv, Follows, TopLevel, RequestType
  <2> QED BY <1>0, <2>1, <2>2, HierarchyStep
<1>4. ASSUME NEW t \in Tasks, NEW row, BeginCreate(r, t, row), row.parent \in Tasks \cup {None}
      PROVE HierarchyInv'
  <2>1. /\ Begin(r, t, "create", [x \in {t} |-> row]) /\ UNCHANGED rows
        /\ IsSubtask(row) => TopLevel(row.parent)
      BY <1>4 DEF BeginCreate, board, TopLevel, Live, IsSubtask
  <2>2. stage'[r] = "create" /\ seen'[r][arg'[r]] = row
      BY <1>4, <2>1, BeginClaims
  <2>3. Follows(r)'
      BY <2>1, <2>2 DEF Follows, TopLevel
  <2> QED BY <1>0, <1>4, <2>1, <2>3, BeginClaims, HierarchyStep
<1>5. ASSUME NEW t \in Tasks, NEW next \in {"update", "complete", "delete"},
             NEW S, Begin(r, t, next, [x \in S |-> rows[x]]), UNCHANGED rows,
             \A x \in S : rows[x].life # "none"
      PROVE HierarchyInv'
  <2>1. stage'[r] = next /\ seen'[r] = [x \in S |-> rows[x]]
      BY <1>5, BeginClaims
  <2>2. Follows(r)'
      BY <1>5, <2>1 DEF Follows
  <2> QED BY <1>0, <1>5, <2>2, BeginClaims, HierarchyStep
<1>6. ASSUME NEW t \in Tasks, Start(r, t) PROVE HierarchyInv'
  <2>1. ASSUME NEW quadrant PROVE NewRegular(quadrant).parent = None
      BY DEF NewRegular, NoRow
  <2>2. ASSUME NEW parent PROVE NewSubtask(parent).parent = parent
      BY DEF NewSubtask, NoRow
  <2>3. CASE BeginUpdate(r, t)
    <3>1. Begin(r, t, "update", [x \in {t} |-> rows[t]]) /\ UNCHANGED rows
          /\ rows[t].life # "none"
        BY <2>3 DEF BeginUpdate, board, Live
    <3>2. [x \in {t} |-> rows[t]] = [x \in {t} |-> rows[x]]
        OBVIOUS
    <3>3. Begin(r, t, "update", [x \in {t} |-> rows[x]])
        BY <3>1, <3>2
    <3> QED BY <1>5, <3>1, <3>3
  <2>4. CASE BeginComplete(r, t)
    <3>1. Begin(r, t, "complete", [x \in Family(t) |-> rows[x]]) /\ UNCHANGED rows
          /\ rows[t].life # "none"
        BY <2>4 DEF BeginComplete, board, Live
    <3>2. \A x \in Family(t) : rows[x].life # "none"
        BY <3>1 DEF Family, Subtasks, HierarchyInv, TopLevel
    <3> QED BY <1>5, <3>1, <3>2
  <2>5. CASE BeginDelete(r, t)
    <3>1. Begin(r, t, "delete", [x \in Doomed(t) |-> rows[x]]) /\ UNCHANGED rows
          /\ rows[t].life # "none"
        BY <2>5 DEF BeginDelete, board, Live
    <3>2. \A x \in Doomed(t) : rows[x].life # "none"
        BY <3>1 DEF Doomed, Subtasks
    <3> QED BY <1>5, <3>1, <3>2
  <2>6. CASE Reopen(r, t)
      BY <1>2, <2>6 DEF Reopen
  <2> QED BY <1>4, <1>6, <2>1, <2>2, <2>3, <2>4, <2>5, <2>6 DEF Start
<1>7. Continue(r) => InsertTask(r) \/ End(r)
    BY DEF Continue, CommitCreate, WriteUpdate, FinishComplete, FinishDelete, Rollback
<1> QED BY <1>1, <1>3, <1>6, <1>7

LEMMA HierarchyAlways ==
    ASSUME Operations \cap {"move", "promote"} = {} PROVE Spec => []HierarchyInv
<1>1. Init => HierarchyInv
    BY DEF Init, HierarchyInv, Follows, NoRow
<1>2. IInv /\ HierarchyInv /\ [Next]_vars => HierarchyInv'
  <2> SUFFICES ASSUME IInv, HierarchyInv, [Next]_vars PROVE HierarchyInv'
      OBVIOUS
  <2>1. CASE UNCHANGED vars
      BY <2>1 DEF vars, board, HierarchyInv, Follows, TopLevel
  <2> QED BY <2>1, HierarchyNext
<1> QED BY <1>1, <1>2, Invariant, PTL DEF Spec

\* Whatever requests interleave, no subtask is under a subtask, unless subtasks can
\* leave their parent: a stale write nests only what was promoted.
THEOREM NestingNeedsPromotion ==
    ASSUME Operations \cap {"move", "promote"} = {} PROVE Spec => []OneLevel
<1>1. HierarchyInv => OneLevel
    BY DEF HierarchyInv, OneLevel, TopLevel, Live
<1> QED BY <1>1, HierarchyAlways, PTL

-----------------------------------------------------------------------------
(* One request at a time.                                                   *)

OneRequest == \A p, q \in Requests : p = q

\* A subtask on the board has a parent on the board, which has none itself.
FamilyInv ==
    \A t \in Tasks : (Live(t) /\ IsSubtask(rows[t]))
        => Live(rows[t].parent) /\ ~IsSubtask(rows[rows[t].parent])

\* What the request read is still so: a draft is open, and of a parent that would
\* take it; the rows to write back are the stored ones; a task to be completed is
\* open; and all that a deletion has to take is what it read.
ReadsCurrent(r) ==
    LET row == seen[r][arg[r]] IN
    /\ stage[r] \in {"create", "insert"} =>
          /\ ~row.done
          /\ IsSubtask(row) => Live(row.parent) /\ ~IsSubtask(rows[row.parent])
    /\ stage[r] \in {"update", "complete", "delete"} =>
          \A x \in DOMAIN seen[r] : seen[r][x] = rows[x]
    /\ stage[r] = "complete" => ~row.done
    /\ stage[r] = "delete" => DOMAIN seen[r] = Doomed(arg[r])

AloneInv == FamilyInv /\ \A r \in Requests : ReadsCurrent(r)

\* The step leaves who is whose parent, and who is on the board, as it was.
SameFamily == \A x \in Tasks : rows'[x].life = rows[x].life /\ rows'[x].parent = rows[x].parent

\* Families that did not change are still in order.
LEMMA FamilyKept ==
    ASSUME IInv, FamilyInv, SameFamily
    PROVE FamilyInv'
BY DEF FamilyInv, SameFamily, Live, IsSubtask, IInv, TypeOK, BoardType, Row

\* A request that has ended has read nothing.
LEMMA EndedReads ==
    ASSUME OneRequest, IInv, FamilyInv', NEW r \in Requests, stage'[r] = "idle"
    PROVE AloneInv'
<1>1. \A s \in Requests : s = r
    BY DEF OneRequest
<1>2. \A s \in Requests : ReadsCurrent(s)'
    BY <1>1 DEF ReadsCurrent
<1> QED BY <1>2 DEF AloneInv

\* A request that begins has read the rows as they are.
LEMMA BegunReads ==
    ASSUME OneRequest, IInv, AloneInv, NEW r \in Requests, UNCHANGED rows, ReadsCurrent(r)'
    PROVE AloneInv'
<1>1. \A s \in Requests : s = r
    BY DEF OneRequest
<1>2. \A s \in Requests : ReadsCurrent(s)'
    BY <1>1, Zenon
<1>3. FamilyInv'
    BY DEF AloneInv, FamilyInv, Live
<1> QED BY <1>2, <1>3 DEF AloneInv

\* A new task joins the family of a parent that takes it; the slot it fills had
\* none.
LEMMA CreateAlone ==
    ASSUME OneRequest, IInv, AloneInv, NEW r \in Requests, CommitCreate(r)
    PROVE AloneInv'
<1> USE DEF IInv, TypeOK, BoardType, RequestType
<1>1. PICK t \in Tasks : t = arg[r]
    BY ArgType DEF CommitCreate, RequestsInv
<1>2. PICK row \in Row : row = seen[r][t]
    BY <1>1 DEF CommitCreate, RequestsOK, WellFormed
<1>3. /\ rows' = [rows EXCEPT ![t] = row] /\ rows[t].life = "none"
      /\ row.life = "live" /\ stage'[r] = "idle"
      /\ IsSubtask(row) => Live(row.parent) /\ ~IsSubtask(rows[row.parent])
    BY <1>1, <1>2 DEF CommitCreate, RequestsOK, DraftsHeld, End, AloneInv, ReadsCurrent
<1>4. ASSUME NEW x \in Tasks, Live(x)', IsSubtask(rows'[x])
      PROVE /\ rows'[x].parent \in Tasks /\ rows'[x].parent # t
            /\ Live(rows'[x].parent) /\ ~IsSubtask(rows[rows'[x].parent])
  <2>1. CASE x = t
      BY <1>3, <1>4, <2>1 DEF IsSubtask, Live, Row
  <2>2. CASE x # t
      BY <1>3, <1>4, <2>2 DEF IsSubtask, Live, Row, AloneInv, FamilyInv
  <2> QED BY <2>1, <2>2
<1>5. FamilyInv'
    BY <1>3, <1>4 DEF FamilyInv, Live
<1> QED BY <1>3, <1>5, EndedReads

\* A deletion takes whole families: who stays keeps a parent that stays.
LEMMA DeleteAlone ==
    ASSUME OneRequest, IInv, AloneInv, NEW r \in Requests, FinishDelete(r)
    PROVE AloneInv'
<1> USE DEF IInv, TypeOK, BoardType, RequestType
<1>1. PICK t \in Tasks : t = arg[r]
    BY ArgType DEF FinishDelete, RequestsInv
<1>2. /\ stage[r] = "delete" /\ stage'[r] = "idle"
      /\ rows' = [x \in Tasks |-> IF x \in Doomed(t) THEN [rows[x] EXCEPT !.life = "gone"]
                                                     ELSE rows[x]]
    BY <1>1 DEF FinishDelete, End, AloneInv, ReadsCurrent
<1>3. \A x \in Tasks : /\ rows'[x].parent = rows[x].parent
                       /\ x \in Doomed(t) => rows'[x].life = "gone"
                       /\ x \notin Doomed(t) => rows'[x].life = rows[x].life
    BY <1>2 DEF Row
<1>4. ASSUME NEW x \in Tasks, Live(x)', IsSubtask(rows[x])
      PROVE /\ rows[x].parent \in Tasks \ Doomed(t)
            /\ Live(rows[x].parent) /\ ~IsSubtask(rows[rows[x].parent])
  <2>1. /\ Live(x) /\ x \notin Doomed(t) /\ rows[x].parent \in Tasks
        /\ Live(rows[x].parent) /\ ~IsSubtask(rows[rows[x].parent])
      BY <1>3, <1>4 DEF Live, AloneInv, FamilyInv, IsSubtask, Row
  <2>2. rows[x].parent # t
    <3>1. rows[x].parent = t => x \in Doomed(t)
        BY <2>1 DEF Doomed, Subtasks, Live
    <3> QED BY <2>1, <3>1
  <2>3. rows[x].parent \notin Subtasks(rows, t)
      BY <2>1, BoardAssumption DEF Subtasks, IsSubtask
  <2>4. rows[x].parent \notin Doomed(t)
      BY <2>2, <2>3 DEF Doomed
  <2> QED BY <2>1, <2>4
<1>5. FamilyInv'
    BY <1>3, <1>4 DEF FamilyInv, Live, IsSubtask
<1> QED BY <1>2, <1>5, EndedReads

\* The step completes the open tasks of a set, pays each what its snapshot says,
\* and touches no other.
Completes(S) ==
    /\ S \subseteq Tasks
    /\ \A x \in S : /\ Live(x) /\ ~rows[x].done
                    /\ \E xp \in Nat, q \in Quadrants : /\ rows'[x] = Completed(rows[x], xp, q)
                                                        /\ net'[x] = net[x] + xp
    /\ \A x \in Tasks \ S : rows'[x] = rows[x] /\ net'[x] = net[x]
    /\ Counted' = Counted + Cardinality(S)

\* A cascade pays the task and the subtasks it read open, which still are.
LEMMA CompleteAlone ==
    ASSUME IInv, AloneInv, NEW r \in Requests, FinishComplete(r)
    PROVE \E S : Completes(S)
<1> USE DEF IInv, TypeOK, BoardType, RequestType
<1>0. PICK t \in Tasks : t = arg[r]
    BY ArgType DEF FinishComplete, RequestsInv
<1> DEFINE read == seen[r]
           quadrant == EffectiveQuadrant(read, t)
           kids == Cascade(read, t)
           won == {t} \cup kids
           pay == [x \in won |-> Reward(quadrant, IsSubtask(read[x]))]
           mine == IF IsSubtask(read[t]) THEN 1 ELSE 0
           written == [x \in Tasks |-> IF x \in won
                                       THEN Completed(read[x], pay[x], quadrant)
                                       ELSE rows[x]]
           delta == [xp |-> pay[t] + Cardinality(kids) * Reward(quadrant, TRUE),
                     tasks |-> 1 - mine, subtasks |-> mine + Cardinality(kids), created |-> 0]
<1>1. /\ stage[r] = "complete" /\ quadrant \in Quadrants
      /\ t \in DOMAIN read /\ read[t].life = "live" /\ DOMAIN read \subseteq Tasks
      /\ ~read[t].done /\ \A x \in DOMAIN read : read[x] = rows[x]
    BY <1>0 DEF FinishComplete, RequestsOK, AloneInv, ReadsCurrent
<1>2. kids \subseteq Tasks /\ t \notin kids
      /\ \A x \in won : x \in Tasks /\ read[x] = rows[x] /\ Live(x) /\ ~rows[x].done
  <2>1. \A c \in kids : /\ c \in DOMAIN read /\ read[c].parent = t
                        /\ read[c].life = "live" /\ ~read[c].done
      BY DEF Cascade, Subtasks
  <2>2. read[t].parent # t
      BY <1>1, BoardAssumption DEF AloneInv, FamilyInv, IsSubtask, Live
  <2> HIDE DEF kids
  <2>3. t \notin kids /\ kids \subseteq Tasks
      BY <1>1, <2>1, <2>2
  <2>4. \A c \in kids : read[c] = rows[c] /\ Live(c) /\ ~rows[c].done
      BY <1>1, <2>1 DEF Live
  <2>5. read[t] = rows[t] /\ Live(t) /\ ~rows[t].done
      BY <1>1 DEF Live
  <2> QED BY <2>3, <2>4, <2>5
<1>3. \A x \in won : pay[x] \in Nat
    BY <1>1, RewardType DEF IsSubtask
<1>4. /\ rows' = written
      /\ net' = [x \in Tasks |-> IF x \in won THEN net[x] + pay[x] ELSE net[x]]
      /\ ApplyProgressAndEvaluate(delta, written)
    BY <1>0 DEF FinishComplete
<1>5. IsFiniteSet(kids) /\ Cardinality(kids) \in Nat
    BY <1>2, BoardAssumption, FS_Subset, FS_CardinalityType
<1>6. Cardinality(won) = Cardinality(kids) + 1
  <2>1. won = kids \cup {t}
      OBVIOUS
  <2> HIDE DEF kids, won
  <2> QED BY <1>2, <1>5, <2>1, FS_AddElement
<1>7. mine \in {0, 1}
    OBVIOUS
<1>8. Counted' = Counted + Cardinality(won)
  <2> HIDE DEF kids, pay, mine, won, quadrant
  <2>1. /\ delta.tasks = 1 - mine /\ delta.subtasks = mine + Cardinality(kids)
      OBVIOUS
  <2> HIDE DEF delta, written
  <2>2. stats'.tasks = Applied(delta).tasks /\ stats'.subtasks = Applied(delta).subtasks
      BY <1>4 DEF ApplyProgressAndEvaluate
  <2> QED BY <1>5, <1>6, <1>7, <2>1, <2>2, AppliedCounts DEF Counted, StatsType
<1> HIDE DEF won, pay, quadrant, kids
<1>9. \A x \in won : rows'[x] = Completed(rows[x], pay[x], quadrant) /\ net'[x] = net[x] + pay[x]
    BY <1>2, <1>4
<1>10. \A x \in Tasks \ won : rows'[x] = rows[x] /\ net'[x] = net[x]
    BY <1>4
<1>11. won \subseteq Tasks
    BY <1>2
<1> HIDE DEF read, written, delta
<1> QED BY <1>1, <1>2, <1>3, <1>8, <1>9, <1>10, <1>11 DEF Completes

\* A deletion withdraws what its completed victims still hold.
Removes(S) ==
    /\ S \subseteq Tasks
    /\ \A x \in S : /\ Live(x)
                    /\ rows'[x] = [rows[x] EXCEPT !.life = "gone"]
                    /\ net'[x] = IF rows[x].done THEN net[x] - rows[x].xp ELSE net[x]
    /\ \A x \in Tasks \ S : rows'[x] = rows[x] /\ net'[x] = net[x]
    /\ Counted' = Counted - Cardinality({x \in S : rows[x].done})

\* It read them as they are, and finds them so.
LEMMA RemoveAlone ==
    ASSUME IInv, AloneInv, NEW r \in Requests, FinishDelete(r)
    PROVE \E S : Removes(S)
<1> USE DEF IInv, TypeOK, BoardType, RequestType
<1> DEFINE read == seen[r]
           doomed == DOMAIN read
           done == {x \in doomed : read[x].done}
           doneSubtasks == Cardinality({x \in done : IsSubtask(read[x])})
           total == MapThenSumSet(LAMBDA x : read[x].xp, done)
           delta == [xp |-> -total, tasks |-> doneSubtasks - Cardinality(done),
                     subtasks |-> -doneSubtasks, created |-> 0]
<1>1. /\ stage[r] = "delete" /\ doomed \subseteq Tasks
      /\ \A x \in doomed : read[x] = rows[x] /\ Live(x)
    BY DEF FinishDelete, AloneInv, ReadsCurrent, StillLive
<1>2. done = {x \in doomed : rows[x].done}
    BY <1>1
<1>3. /\ rows' = [x \in Tasks |-> IF x \in doomed THEN [rows[x] EXCEPT !.life = "gone"]
                                                  ELSE rows[x]]
      /\ net' = [x \in Tasks |-> IF x \in done THEN net[x] - read[x].xp ELSE net[x]]
      /\ stats' = Applied(delta)
    BY DEF FinishDelete, ApplyProgress
<1>4. Cardinality(done) \in Nat /\ doneSubtasks \in Nat
  <2>1. IsFiniteSet(done) /\ IsFiniteSet({x \in done : IsSubtask(read[x])})
      BY <1>1, BoardAssumption, FS_Subset
  <2> QED BY <2>1, FS_CardinalityType
<1>5. Counted' = Counted - Cardinality(done)
  <2> HIDE DEF done, doneSubtasks, total
  <2>1. delta.tasks = doneSubtasks - Cardinality(done) /\ delta.subtasks = 0 - doneSubtasks
      BY <1>4, MinusType
  <2> HIDE DEF delta
  <2> QED BY <1>3, <1>4, <2>1, AppliedCounts DEF Counted, StatsType
<1>6. \A x \in doomed : /\ rows'[x] = [rows[x] EXCEPT !.life = "gone"]
                        /\ net'[x] = IF rows[x].done THEN net[x] - rows[x].xp ELSE net[x]
  <2> HIDE DEF doomed
  <2> QED BY <1>1, <1>2, <1>3
<1>7. \A x \in Tasks \ doomed : rows'[x] = rows[x] /\ net'[x] = net[x]
  <2> HIDE DEF doomed
  <2> QED BY <1>2, <1>3
<1>8. Counted' = Counted - Cardinality({x \in doomed : rows[x].done})
    BY <1>2, <1>5
<1> HIDE DEF doomed, done, read
<1> QED BY <1>1, <1>6, <1>7, <1>8 DEF Removes

\* A reopening withdraws what the completion paid.
Resumes(t) ==
    /\ Paid(t) /\ rows' = [rows EXCEPT ![t] = Reopened(rows[t])]
    /\ net' = [net EXCEPT ![t] = @ - rows[t].xp]
    /\ Counted' = Counted - 1

\* It reads and writes one locked row in one step.
LEMMA ReopenAlone ==
    ASSUME IInv, NEW r \in Requests, NEW t \in Tasks, Reopen(r, t)
    PROVE Resumes(t)
<1> USE DEF IInv, TypeOK, BoardType
<1> DEFINE xp == -rows[t].xp
           regular == [NoDelta EXCEPT !.xp = xp, !.tasks = -1]
           nested == [NoDelta EXCEPT !.xp = xp, !.subtasks = -1]
<1>1. \/ stats' = Applied(regular)
      \/ stats' = Applied(nested)
    BY DEF Reopen, ApplyProgress
<1> HIDE DEF xp
<1>2. /\ regular.tasks = -1 /\ regular.subtasks = 0
      /\ nested.tasks = 0 /\ nested.subtasks = -1
    BY DEF NoDelta
<1> HIDE DEF regular, nested
<1>3. Counted' = Counted - 1
    BY <1>1, <1>2, AppliedCounts DEF Counted, StatsType
<1> QED BY <1>3 DEF Resumes, Reopen, Paid

\* Without another request every step completes open tasks, removes tasks with
\* what they hold, reopens one, or pays nothing; and families stay in order.
LEMMA StepAlone ==
    ASSUME OneRequest, IInv, AloneInv, Next
    PROVE /\ AloneInv'
          /\ \/ (\A x \in Tasks : SamePay(x)) /\ Counted' = Counted
             \/ \E S : Completes(S) \/ Removes(S)
             \/ \E t \in Tasks : Resumes(t)
<1> USE DEF IInv, TypeOK, BoardType, RequestType
<1> DEFINE NoPay == (\A x \in Tasks : SamePay(x)) /\ Counted' = Counted
           Effect == \/ NoPay
                     \/ \E S : Completes(S) \/ Removes(S)
                     \/ \E t \in Tasks : Resumes(t)
<1> HIDE DEF NoPay
<1> SUFFICES AloneInv' /\ Effect
    BY DEF NoPay
<1> PICK r \in Requests : Continue(r) \/ \E t \in Tasks : Start(r, t)
    BY DEF Next
<1>1. ASSUME UNCHANGED <<rows, net, stats>> PROVE NoPay
    BY <1>1 DEF NoPay, SamePay, Paid, Live, Counted
<1>2. CASE InsertTask(r)
  <2>1. UNCHANGED <<rows, net, stats>> /\ ReadsCurrent(r)'
      BY <1>2 DEF InsertTask, board, AloneInv, ReadsCurrent, Live
  <2> QED BY <1>1, <2>1, BegunReads
<1>3. CASE CommitCreate(r)
  <2> DEFINE t == arg[r]
             delta == [NoDelta EXCEPT !.created = 1]
  <2>1. /\ t \in Tasks /\ rows[t].life = "none" /\ ~seen[r][t].done
        /\ rows' = [rows EXCEPT ![t] = seen[r][t]] /\ net' = net /\ stats' = Applied(delta)
      BY <1>3, ArgType DEF CommitCreate, ApplyProgress, RequestsInv, DraftsHeld, AloneInv,
                           ReadsCurrent
  <2>2. delta.tasks = 0 /\ delta.subtasks = 0
      BY DEF NoDelta
  <2> HIDE DEF delta
  <2>3. Counted' = Counted
      BY <2>1, <2>2, AppliedCounts DEF Counted, StatsType
  <2>4. NoPay
      BY <2>1, <2>3 DEF NoPay, SamePay, Paid, Live
  <2> QED BY <1>3, <2>4, CreateAlone
<1>4. CASE WriteUpdate(r)
  <2>1. arg[r] \in Tasks /\ seen[r][arg[r]] = rows[arg[r]]
      BY <1>4, ArgType DEF WriteUpdate, RequestsInv, RequestsOK, AloneInv, ReadsCurrent
  <2>2. UNCHANGED <<rows, net, stats>> /\ stage'[r] = "idle"
      BY <1>4, <2>1 DEF WriteUpdate, End
  <2>3. FamilyInv'
      BY <2>2 DEF AloneInv, FamilyInv, Live
  <2> QED BY <1>1, <2>2, <2>3, EndedReads
<1>5. CASE Rollback(r)
  <2>1. UNCHANGED <<rows, net, stats>> /\ stage'[r] = "idle"
      BY <1>5 DEF Rollback, End, board
  <2>2. FamilyInv'
      BY <2>1 DEF AloneInv, FamilyInv, Live
  <2> QED BY <1>1, <2>1, <2>2, EndedReads
<1>6. CASE FinishComplete(r)
  <2>1. PICK S : Completes(S)
      BY <1>6, CompleteAlone
  <2>2. ASSUME NEW x \in Tasks
        PROVE rows'[x].life = rows[x].life /\ rows'[x].parent = rows[x].parent
    <3>1. rows'[x] = rows[x] \/ \E xp, q : rows'[x] = Completed(rows[x], xp, q)
        BY <2>1 DEF Completes
    <3> QED BY <3>1 DEF Completed, Row
  <2>3. stage'[r] = "idle"
      BY <1>6 DEF FinishComplete, End
  <2> QED BY <2>1, <2>2, <2>3, FamilyKept, EndedReads DEF AloneInv, SameFamily
<1>7. CASE FinishDelete(r)
    BY <1>7, RemoveAlone, DeleteAlone
<1>8. ASSUME NEW t \in Tasks, NEW row, BeginCreate(r, t, row), ~row.done
      PROVE AloneInv' /\ NoPay
  <2>1. /\ UNCHANGED <<rows, net, stats>>
        /\ stage'[r] = "create" /\ arg'[r] = t /\ seen'[r] = [x \in {t} |-> row]
      BY <1>8 DEF BeginCreate, Begin, board
  <2>2. ReadsCurrent(r)'
      BY <1>8, <2>1 DEF BeginCreate, ReadsCurrent, Live
  <2> QED BY <1>1, <2>1, <2>2, BegunReads
<1>9. ASSUME NEW t \in Tasks, BeginUpdate(r, t) \/ BeginComplete(r, t) \/ BeginDelete(r, t)
      PROVE AloneInv' /\ NoPay
  <2>1. /\ UNCHANGED <<rows, net, stats>> /\ arg'[r] = t
        /\ \/ stage'[r] = "update" /\ seen'[r] = [x \in {t} |-> rows[x]]
           \/ /\ stage'[r] = "complete" /\ seen'[r] = [x \in Family(t) |-> rows[x]]
              /\ ~rows[t].done
           \/ stage'[r] = "delete" /\ seen'[r] = [x \in Doomed(t) |-> rows[x]]
      BY <1>9 DEF BeginUpdate, BeginComplete, BeginDelete, Begin, board
  <2>2. t \in Family(t) /\ Doomed(t)' = Doomed(t)
      BY <2>1 DEF Family, Doomed
  <2>3. ReadsCurrent(r)'
      BY <2>1, <2>2 DEF ReadsCurrent
  <2> QED BY <1>1, <2>1, <2>3, BegunReads
<1>10. ASSUME NEW t \in Tasks, NEW quadrant, InQuadrant(t, quadrant), AtOnce(r),
              UNCHANGED <<net, stats>>
       PROVE AloneInv' /\ NoPay
  <2>1. /\ stage'[r] = "idle"
        /\ \A x \in Tasks : /\ rows'[x].life = rows[x].life
                            /\ rows'[x].done = rows[x].done /\ rows'[x].xp = rows[x].xp
                            /\ rows'[x].parent = IF x = t THEN None ELSE rows[x].parent
      BY <1>10 DEF InQuadrant, AtOnce, Row
  <2>2. FamilyInv'
      BY <2>1 DEF AloneInv, FamilyInv, Live, IsSubtask, Row
  <2>3. NoPay
      BY <1>10, <2>1 DEF NoPay, SamePay, Paid, Live, Counted
  <2> QED BY <2>1, <2>2, <2>3, EndedReads
<1>11. ASSUME NEW t \in Tasks, Reopen(r, t)
       PROVE AloneInv' /\ Resumes(t)
  <2>1. stage'[r] = "idle" /\ SameFamily
      BY <1>11 DEF Reopen, Reopened, AtOnce, SameFamily, Row
  <2> QED BY <1>11, <2>1, FamilyKept, ReopenAlone, EndedReads DEF AloneInv
<1>12. ASSUME NEW t \in Tasks, Start(r, t) PROVE AloneInv' /\ Effect
  <2>1. \A quadrant : ~NewRegular(quadrant).done /\ ~NewSubtask(quadrant).done
      BY DEF NewRegular, NewSubtask, NoRow
  <2> QED BY <1>8, <1>9, <1>10, <1>11, <1>12, <2>1 DEF Start, MoveTask, Promote
<1> QED BY <1>2, <1>3, <1>4, <1>5, <1>6, <1>7, <1>12 DEF Continue

\* Whatever of these a step does, ledger, snapshots and counters still agree.
LEMMA AccountsAlone ==
    ASSUME OneRequest, IInv, AloneInv, PaidOnce, CountersMatch, Next
    PROVE PaidOnce' /\ CountersMatch'
<1> DEFINE D == {t \in Tasks : Live(t) /\ rows[t].done}
<1> USE DEF IInv, TypeOK, BoardType
<1>1. IsFiniteSet(D) /\ Cardinality(D) \in Nat /\ Counted = Cardinality(D)
    BY BoardAssumption, FS_Subset, FS_CardinalityType DEF Counted, CountersMatch
<1>2. CASE (\A x \in Tasks : SamePay(x)) /\ Counted' = Counted
  <2>1. D' = D
      BY <1>2 DEF SamePay, Paid
  <2>2. PaidOnce'
      BY <1>2 DEF SamePay, Paid, PaidOnce
  <2> QED BY <1>1, <1>2, <2>1, <2>2 DEF CountersMatch, Counted
<1>3. ASSUME NEW S, Completes(S) PROVE PaidOnce' /\ CountersMatch'
  <2>1. IsFiniteSet(S) /\ Cardinality(S) \in Nat
      BY <1>3, BoardAssumption, FS_Subset, FS_CardinalityType DEF Completes
  <2>2. \A x \in S : /\ net[x] = 0 /\ net'[x] = rows'[x].xp
                     /\ rows'[x].life = "live" /\ rows'[x].done
    <3> TAKE x \in S
    <3>1. x \in Tasks /\ Live(x) /\ ~rows[x].done
        BY <1>3 DEF Completes
    <3>2. PICK xp \in Nat, q \in Quadrants :
              rows'[x] = Completed(rows[x], xp, q) /\ net'[x] = net[x] + xp
        BY <1>3 DEF Completes
    <3>3. rows'[x].xp = xp /\ rows'[x].life = "live" /\ rows'[x].done
        BY <3>1, <3>2 DEF Completed, Live, Row
    <3>4. net[x] = 0
        BY <3>1 DEF PaidOnce
    <3> QED BY <3>2, <3>3, <3>4
  <2>3. D' = D \cup S /\ D \cap S = {}
      BY <1>3, <2>2 DEF Completes, Live
  <2>4. Cardinality(D') = Cardinality(D) + Cardinality(S)
    <3>1. Cardinality(D \cap S) = 0
        BY <2>3, FS_EmptySet
    <3> HIDE DEF D
    <3>2. Cardinality(D \cup S) = Cardinality(D) + Cardinality(S) - Cardinality(D \cap S)
        BY <1>1, <2>1, FS_Union
    <3>3. Cardinality(D \cup S) = Cardinality(D) + Cardinality(S)
        BY <1>1, <2>1, <3>1, <3>2
    <3> QED BY <2>3, <3>3
  <2>5. PaidOnce'
      BY <1>3, <2>2 DEF PaidOnce, Completes, Live
  <2> QED BY <1>1, <1>3, <2>4, <2>5 DEF CountersMatch, Counted, Completes
<1>4. ASSUME NEW S, Removes(S) PROVE PaidOnce' /\ CountersMatch'
  <2>1. {x \in S : rows[x].done} = D \cap S
      BY <1>4 DEF Removes
  <2>2. \A x \in S : rows'[x].life = "gone" /\ net'[x] = 0
    <3> TAKE x \in S
    <3>1. x \in Tasks /\ Live(x) /\ rows[x] \in Row
        BY <1>4 DEF Removes
    <3>2. rows'[x] = [rows[x] EXCEPT !.life = "gone"]
          /\ net'[x] = IF rows[x].done THEN net[x] - rows[x].xp ELSE net[x]
        BY <1>4 DEF Removes
    <3>3. net[x] = IF rows[x].done THEN rows[x].xp ELSE 0
        BY <3>1 DEF PaidOnce
    <3> QED BY <3>1, <3>2, <3>3 DEF Row
  <2>3. D' = D \ S
      BY <1>4, <2>2 DEF Removes, Live
  <2>4. Cardinality(D') = Cardinality(D) - Cardinality(D \cap S)
    <3> HIDE DEF D
    <3> QED BY <1>1, <2>3, FS_Difference
  <2>5. PaidOnce'
      BY <1>4, <2>2 DEF PaidOnce, Removes, Live
  <2> QED BY <1>1, <1>4, <2>1, <2>4, <2>5 DEF CountersMatch, Counted, Removes
<1>5. ASSUME NEW t \in Tasks, Resumes(t) PROVE PaidOnce' /\ CountersMatch'
  <2>1. /\ ~rows'[t].done /\ net[t] = rows[t].xp /\ net'[t] = net[t] - rows[t].xp
        /\ rows[t].xp \in Nat
        /\ \A x \in Tasks \ {t} : rows'[x] = rows[x] /\ net'[x] = net[x]
      BY <1>5 DEF Resumes, Reopened, Paid, PaidOnce, Row
  <2>2. D' = D \ {t} /\ t \in D
      BY <1>5, <2>1 DEF Resumes, Paid, Live
  <2>3. Cardinality(D') = Cardinality(D) - 1
      BY <1>1, <2>2, FS_RemoveElement, ZenonT(40)
  <2>4. PaidOnce'
      BY <2>1 DEF PaidOnce, Live
  <2> QED BY <1>1, <1>5, <2>3, <2>4 DEF CountersMatch, Counted, Resumes
<1> QED BY <1>2, <1>3, <1>4, <1>5, StepAlone

\* What the board is like when nobody overlaps.
AloneBoard == AloneInv /\ PaidOnce /\ CountersMatch

LEMMA AloneKept ==
    ASSUME OneRequest PROVE IInv /\ AloneBoard /\ [Next]_vars => AloneBoard'
<1>1. IInv /\ AloneBoard /\ Next => AloneBoard'
    BY StepAlone, AccountsAlone DEF AloneBoard
<1>2. AloneBoard /\ UNCHANGED vars => AloneBoard'
    BY DEF AloneBoard, vars, board, AloneInv, FamilyInv, ReadsCurrent, PaidOnce,
           CountersMatch, Live, Doomed
<1> QED BY <1>1, <1>2

LEMMA AloneInit == Init => AloneBoard
BY FlatInit DEF Init, AloneBoard, AloneInv, FamilyInv, ReadsCurrent, Live, NoRow

\* With every operation, one request at a time and cut off at any step, each
\* completion is paid once, each withdrawal takes that back, and the two
\* counters together count what is completed.
THEOREM LedgerExactAlone == ASSUME OneRequest PROVE Spec => [](PaidOnce /\ CountersMatch)
<1>1. AloneBoard => PaidOnce /\ CountersMatch
    BY DEF AloneBoard
<1> QED BY <1>1, AloneInit, AloneKept, Invariant, PTL DEF Spec

\* With every operation, and one request at a time, no step takes XP back twice.
THEOREM XPNotNegativeAlone == ASSUME OneRequest PROVE Spec => []NoNegativeXP
    BY Invariant, LedgerSums, LedgerExactAlone, ExactIsNotNegative, PTL

\* And open work is never under a task that was removed.
THEOREM NoWorkLost == ASSUME OneRequest PROVE Spec => []NoOpenWorkUnderDeleted
<1>1. AloneBoard => NoOpenWorkUnderDeleted
    BY DEF AloneBoard, AloneInv, FamilyInv, NoOpenWorkUnderDeleted
<1> QED BY <1>1, AloneInit, AloneKept, Invariant, PTL DEF Spec

\* And the hierarchy has one level: no subtask on the board is under a subtask.
THEOREM OneLevelAlone == ASSUME OneRequest PROVE Spec => []OneLevel
<1>1. AloneBoard => OneLevel
    BY DEF AloneBoard, AloneInv, FamilyInv, OneLevel
<1> QED BY <1>1, AloneInit, AloneKept, Invariant, PTL DEF Spec

\* And a task of its own stays one: what a cascade or an Update writes back is
\* what is stored.
THEOREM PromotionStays == ASSUME OneRequest PROVE Spec => PromotionSticks
<1> DEFINE Stuck ==
        \A t \in Tasks : (Live(t) /\ ~IsSubtask(rows[t]) /\ rows'[t].life = "live")
                             => ~IsSubtask(rows'[t])
<1>1. ASSUME IInv, AloneBoard, Next PROVE Stuck
  <2> USE DEF IInv, TypeOK, BoardType
  <2> PICK r \in Requests : Continue(r) \/ \E t \in Tasks : Start(r, t)
      BY <1>1 DEF Next
  <2>1. ASSUME \A x \in Tasks : Live(x) => rows'[x].parent \in {None, rows[x].parent}
        PROVE Stuck
      BY <2>1 DEF IsSubtask
  <2> HIDE DEF Stuck
  <2>2. CASE InsertTask(r) \/ Rollback(r)
      BY <2>1, <2>2 DEF InsertTask, Rollback, board
  <2>3. CASE CommitCreate(r)
    <3>1. arg[r] \in Tasks /\ ~Live(arg[r]) /\ rows' = [rows EXCEPT ![arg[r]] = seen[r][arg[r]]]
        BY <1>1, <2>3, ArgType DEF CommitCreate, RequestsInv, DraftsHeld, Live
    <3> QED BY <1>1, <2>1, <3>1
  <2>4. CASE WriteUpdate(r)
    <3>1. arg[r] \in Tasks /\ seen[r][arg[r]] = rows[arg[r]]
        BY <1>1, <2>4, ArgType DEF WriteUpdate, RequestsInv, RequestsOK, AloneBoard,
                                         AloneInv, ReadsCurrent
    <3> QED BY <1>1, <2>1, <2>4, <3>1 DEF WriteUpdate
  <2>5. CASE FinishComplete(r)
    <3>1. PICK S : Completes(S)
        BY <1>1, <2>5, CompleteAlone DEF AloneBoard
    <3> QED BY <1>1, <2>1, <3>1, ZenonT(40) DEF Completes, Completed, Row
  <2>6. CASE FinishDelete(r)
    <3>1. PICK S : Removes(S)
        BY <1>1, <2>6, RemoveAlone DEF AloneBoard
    <3> QED BY <1>1, <2>1, <3>1, ZenonT(40) DEF Removes, Row
  <2>7. ASSUME NEW t \in Tasks, Start(r, t) PROVE Stuck
    <3>1. CASE Reopen(r, t)
      <4>1. rows' = [rows EXCEPT ![t] = Reopened(rows[t])] /\ rows[t] \in Row
          BY <1>1, <3>1 DEF Reopen
      <4>2. rows'[t].parent = rows[t].parent /\ \A x \in Tasks \ {t} : rows'[x] = rows[x]
          BY <1>1, <4>1 DEF Reopened, Row
      <4> QED BY <2>1, <4>2
    <3>2. ASSUME NEW quadrant, InQuadrant(t, quadrant) PROVE Stuck
        BY <1>1, <2>1, <3>2 DEF InQuadrant, Row
    <3>3. CASE UNCHANGED rows
        BY <2>1, <3>3
    <3> QED BY <2>7, <3>1, <3>2, <3>3 DEF Start, BeginCreate, BeginUpdate, MoveTask, Promote,
                                          BeginComplete, BeginDelete, board
  <2> QED BY <2>2, <2>3, <2>4, <2>5, <2>6, <2>7 DEF Continue
<1>2. IInv /\ AloneBoard /\ [Next]_vars => [Stuck]_rows
    BY <1>1 DEF vars, board
<1> QED BY <1>2, AloneInit, AloneKept, Invariant, PTL DEF Spec, PromotionSticks

\* A cascade leaves what was completed before it as it was.
THEOREM CompletedStays == ASSUME OneRequest PROVE Spec => CompletedKept
<1> DEFINE Kept ==
        \A t \in Tasks : (Live(t) /\ rows[t].done /\ rows'[t].life = "live" /\ rows'[t].done)
                             => rows'[t].xp = rows[t].xp /\ net'[t] = net[t]
<1>1. ASSUME IInv, AloneBoard, Next PROVE Kept
  <2> USE DEF IInv, TypeOK, BoardType
  <2>1. ASSUME \A x \in Tasks : SamePay(x) PROVE Kept
      BY <2>1 DEF SamePay, Paid
  <2>2. ASSUME NEW S, Completes(S) PROVE Kept
      BY <2>2 DEF Completes
  <2>3. ASSUME NEW S, Removes(S) PROVE Kept
    <3>1. ASSUME NEW x \in S PROVE rows'[x].life = "gone"
      <4>1. rows[x] \in Row /\ rows'[x] = [rows[x] EXCEPT !.life = "gone"]
          BY <1>1, <2>3 DEF Removes
      <4> QED BY <4>1 DEF Row
    <3> QED BY <2>3, <3>1 DEF Removes
  <2>4. ASSUME NEW t \in Tasks, Resumes(t) PROVE Kept
    <3>1. ~rows'[t].done /\ \A x \in Tasks \ {t} : rows'[x] = rows[x] /\ net'[x] = net[x]
        BY <1>1, <2>4 DEF Resumes, Paid, Reopened, Row
    <3> QED BY <3>1
  <2> QED BY <1>1, <2>1, <2>2, <2>3, <2>4, StepAlone DEF AloneBoard
<1>2. IInv /\ AloneBoard /\ [Next]_vars => [Kept]_<<rows, net>>
    BY <1>1 DEF vars, board
<1> QED BY <1>2, AloneInit, AloneKept, Invariant, PTL DEF Spec, CompletedKept

-----------------------------------------------------------------------------
(* Without subtasks and Update, the board of concurrent transactions is the *)
(* atomic board: each step, seen through the life of the rows, the ledger   *)
(* and the counters, is one of its operations or a stutter.                 *)

LifeNow(t) == LifeOf(rows[t])
SameLife(x) == LifeNow(x)' = LifeNow(x)
Rewards == {Reward(quadrant, FALSE) : quadrant \in Quadrants}

\* How a step can change the life of the one task it is about.
Created(t) == LifeNow(t) = "new" /\ LifeNow(t)' = "open" /\ CountActive < ActiveLimit
Finished(t) == LifeNow(t) = "open" /\ LifeNow(t)' = "done" /\ rows'[t].xp \in Rewards
Resumed(t) == LifeNow(t) = "done" /\ LifeNow(t)' = "open"
Removed(t) == LifeNow(t) \in {"open", "done"} /\ LifeNow(t)' = "gone"

\* The values of LifeOf, one per kind of row.
LEMMA LifeValues ==
    ASSUME NEW row \in Row
    PROVE /\ row.life = "none" => LifeOf(row) = "new"
          /\ row.life = "gone" => LifeOf(row) = "gone"
          /\ row.life = "live" /\ row.done => LifeOf(row) = "done"
          /\ row.life = "live" /\ ~row.done => LifeOf(row) = "open"
          /\ LifeOf(row) = "done" <=> row.life = "live" /\ row.done
          /\ LifeOf(row) = "open" <=> row.life = "live" /\ ~row.done
BY DEF Row, Lives, LifeOf

\* A step of a flat board takes at most one task on, and along its life.
LEMMA LifeStep ==
    ASSUME IInv, FlatInv, RoomHeld, Next, Operations \cap {"subtask", "update"} = {}
    PROVE \/ \A x \in Tasks : SameLife(x)
          \/ \E t \in Tasks : /\ \A x \in Tasks \ {t} : SameLife(x)
                              /\ Created(t) \/ Finished(t) \/ Resumed(t) \/ Removed(t)
<1> USE DEF IInv, TypeOK, BoardType, LifeNow
<1>0. \A x \in Tasks : rows[x] \in Row /\ rows'[x] \in Row
  <2>1. \A x \in Tasks : WellFormed(rows[x]) /\ WellFormed(rows[x])'
      BY NextInv
  <2> QED BY <2>1 DEF WellFormed
<1> PICK r \in Requests : Continue(r) \/ \E t \in Tasks : Start(r, t)
    BY DEF Next
<1>1. CASE UNCHANGED rows
    BY <1>1 DEF SameLife
<1>2. CASE CommitCreate(r)
  <2>1. PICK t \in Tasks : t = arg[r]
      BY <1>2, ArgType DEF CommitCreate, RequestsInv
  <2>2. rows[t].life = "none" /\ rows' = [rows EXCEPT ![t] = seen[r][t]]
      BY <1>2, <2>1 DEF CommitCreate, DraftsHeld
  <2>3. seen[r][t].life = "live" /\ ~seen[r][t].done
      BY <1>2, <2>1 DEF CommitCreate, RequestsOK, FlatInv
  <2>4. Created(t)
      BY <1>0, <1>2, <2>2, <2>3, LifeValues DEF Created, CommitCreate, RoomHeld
  <2>5. \A x \in Tasks \ {t} : SameLife(x)
      BY <2>2 DEF SameLife
  <2> QED BY <2>4, <2>5
<1>3. CASE FinishComplete(r)
  <2>0. PICK t \in Tasks : t = arg[r]
      BY <1>3, ArgType DEF FinishComplete, RequestsInv
  <2> DEFINE read == seen[r]
             quadrant == EffectiveQuadrant(read, t)
             won == {t} \cup Cascade(read, t)
             pay == [x \in won |-> Reward(quadrant, IsSubtask(read[x]))]
  <2>1. /\ rows[t] = read[t] /\ read[t] \in Row /\ DOMAIN read = {t}
        /\ read[t].life = "live" /\ ~read[t].done /\ read[t].parent = None
      BY <1>3, <2>0 DEF FinishComplete, RequestsOK, RequestType,
         LockedRowStable, FlatInv, WellFormed
  <2>2. won = {t} /\ ~IsSubtask(read[t])
      BY <2>1, BoardAssumption DEF Cascade, Subtasks, IsSubtask
  <2>3. rows' = [x \in Tasks |-> IF x \in won THEN Completed(read[x], pay[x], quadrant)
                                 ELSE rows[x]]
      BY <1>3, <2>0 DEF FinishComplete
  <2>4. rows'[t] = Completed(read[t], pay[t], quadrant) /\ \A x \in Tasks \ {t} : SameLife(x)
    <3> HIDE DEF pay, quadrant, read, won
    <3> QED BY <2>2, <2>3 DEF SameLife
  <2>5. pay[t] = Reward(quadrant, FALSE) /\ quadrant \in Quadrants
    <3>1. pay[t] = Reward(quadrant, FALSE)
      <4>1. pay[t] = Reward(quadrant, IsSubtask(read[t]))
          BY <2>2
      <4> HIDE DEF pay, quadrant, read
      <4> QED BY <2>2, <4>1 DEF Reward
    <3>2. read[t].quad \in Quadrants /\ read[t].quad # None
      <4>1. WellFormed(read[t])
          BY <2>1
      <4> QED BY <2>1, <4>1, BoardAssumption DEF WellFormed, Row, IsSubtask
    <3>3. quadrant = read[t].quad
        BY <3>2 DEF EffectiveQuadrant
    <3> QED BY <3>1, <3>2, <3>3
  <2>6. rows'[t].life = "live" /\ rows'[t].done /\ rows'[t].xp = pay[t]
    <3> HIDE DEF pay, quadrant
    <3> QED BY <2>1, <2>4 DEF Completed, Row
  <2>7. Finished(t)
    <3> HIDE DEF pay, quadrant, read
    <3> QED BY <1>0, <2>1, <2>5, <2>6, LifeValues DEF Finished, Rewards
  <2> QED BY <2>4, <2>7
<1>4. CASE FinishDelete(r)
  <2>1. PICK t \in Tasks : t = arg[r]
      BY <1>4, ArgType DEF FinishDelete, RequestsInv
  <2>2. DOMAIN seen[r] = {t} /\ rows[t].life = "live"
      BY <1>4, <2>1 DEF FinishDelete, FlatInv, RequestsOK, LockedRowStable
  <2>3. rows' = [x \in Tasks |-> IF x \in {t} THEN [rows[x] EXCEPT !.life = "gone"] ELSE rows[x]]
      BY <1>4, <2>2 DEF FinishDelete
  <2>4. rows'[t].life = "gone" /\ \A x \in Tasks \ {t} : SameLife(x)
      BY <1>0, <2>3 DEF Row, SameLife
  <2>5. Removed(t)
      BY <1>0, <2>2, <2>4, LifeValues DEF Removed
  <2> QED BY <2>4, <2>5
<1>5. ASSUME NEW t \in Tasks, Reopen(r, t)
      PROVE (\A x \in Tasks \ {t} : SameLife(x)) /\ Resumed(t)
  <2>1. rows' = [rows EXCEPT ![t] = Reopened(rows[t])] /\ rows[t].life = "live" /\ rows[t].done
      BY <1>5 DEF Reopen, Live
  <2>2. rows'[t].life = "live" /\ ~rows'[t].done
      BY <1>0, <2>1 DEF Reopened, Row
  <2>3. Resumed(t)
      BY <1>0, <2>1, <2>2, LifeValues DEF Resumed
  <2> QED BY <2>1, <2>3 DEF SameLife
<1>6. ASSUME NEW t \in Tasks, NEW quadrant, InQuadrant(t, quadrant)
      PROVE \A x \in Tasks : SameLife(x)
  <2>1. \A x \in Tasks : rows'[x].life = rows[x].life /\ rows'[x].done = rows[x].done
      BY <1>0, <1>6 DEF InQuadrant, Row
  <2> QED BY <2>1 DEF SameLife, LifeOf
<1>7. ASSUME NEW t \in Tasks, Start(r, t)
      PROVE UNCHANGED rows \/ Reopen(r, t) \/ \E quadrant : InQuadrant(t, quadrant)
    BY <1>7 DEF Start, BeginCreate, BeginUpdate, MoveTask, Promote, BeginComplete,
       BeginDelete, board
<1>8. CASE InsertTask(r) \/ Rollback(r) \/ WriteUpdate(r)
    BY <1>1, <1>8 DEF InsertTask, Rollback, WriteUpdate, FlatInv, board
<1> QED BY <1>1, <1>2, <1>3, <1>4, <1>5, <1>6, <1>7, <1>8 DEF Continue

-----------------------------------------------------------------------------
(* What the abstract board sees.                                            *)

\* The cap a creation is held to is asked of the same tasks.
LEMMA SameOpen ==
    ASSUME IInv
    PROVE Atomic!Cardinality(Atomic!Open) = CountActive
<1>1. \A t \in Tasks : rows[t] \in Row
    BY DEF IInv, TypeOK, BoardType, WellFormed
<1>2. \A t \in Tasks : LifeOf(rows[t]) = "open" <=> Live(t) /\ ~rows[t].done
    BY <1>1, LifeValues DEF Live
<1>3. Atomic!Open = {t \in Tasks : Live(t) /\ ~rows[t].done}
    BY <1>2 DEF Atomic!Open
\* The instance has a Cardinality of its own, with the same definition.
<1>4. Atomic!Cardinality(Atomic!Open) = Cardinality(Atomic!Open)
    BY DEF Atomic!Cardinality, Cardinality
<1> QED BY <1>3, <1>4 DEF CountActive

\* A step of a flat board is a step of the atomic one, or none.
LEMMA StepSimulated ==
    ASSUME IInv, FlatInv, RoomHeld, PaidOnce, Next,
           Operations \cap {"subtask", "update"} = {}
    PROVE [Atomic!Next]_(Atomic!view)
<1> DEFINE life == [x \in Tasks |-> LifeOf(rows[x])]
<1>0. /\ \A x \in Tasks : rows[x] \in Row /\ rows'[x] \in Row /\ net[x] \in Int /\ net'[x] \in Int
      /\ net = [x \in Tasks |-> net[x]] /\ net' = [x \in Tasks |-> net'[x]]
      /\ Counted \in Int
  <2>1. IInv /\ IInv'
      BY NextInv
  <2> QED BY <2>1 DEF IInv, TypeOK, BoardType, WellFormed, StatsType, Counted
<1>1. \A x \in Tasks : /\ LifeNow(x) = "done" <=> Paid(x)
                       /\ LifeNow(x)' = "done" <=> Paid(x)'
    BY <1>0, LifeValues DEF Paid, Live, LifeNow
<1>2. CASE \A x \in Tasks : SameLife(x)
  <2>1. (\A x \in Tasks : SamePay(x)) /\ Counted' = Counted
      BY <1>1, <1>2, FlatStep DEF SameLife, Won, Withdrawn
  <2>2. life' = life /\ net' = net
      BY <1>0, <1>2, <2>1 DEF SameLife, LifeNow, SamePay
  <2> QED BY <2>1, <2>2 DEF Atomic!view, Counted
<1>3. ASSUME NEW t \in Tasks, \A x \in Tasks \ {t} : SameLife(x),
             Created(t) \/ Finished(t) \/ Resumed(t) \/ Removed(t)
      PROVE Atomic!Next
  <2>1. life' = [life EXCEPT ![t] = LifeNow(t)']
      BY <1>3 DEF SameLife, LifeNow
  <2>2. life[t] = LifeNow(t)
      BY DEF LifeNow
  <2>3. \A x \in Tasks \ {t} : ~Won(x) /\ ~Withdrawn(x)
      BY <1>1, <1>3 DEF SameLife, Won, Withdrawn
  <2>4. \/ (\A x \in Tasks : SamePay(x)) /\ Counted' = Counted
        \/ (\A x \in Tasks \ {t} : SamePay(x)) /\ (Won(t) \/ Withdrawn(t))
      BY <2>3, FlatStep
  <2>5. net' = [net EXCEPT ![t] = net'[t]]
      BY <1>0, <2>4 DEF SamePay
  <2>6. CASE Created(t)
    <3>1. net' = net /\ Counted' = Counted
        BY <1>0, <1>1, <2>4, <2>5, <2>6 DEF Created, SamePay, Won, Withdrawn
    <3>2. Atomic!Cardinality(Atomic!Open) < ActiveLimit
        BY <2>6, SameOpen DEF Created
    <3>3. Atomic!Create(t)
        BY <2>1, <2>2, <2>6, <3>1, <3>2 DEF Created, Counted, Atomic!Create, Atomic!Becomes
    <3> QED BY <3>3 DEF Atomic!Next
  <2>7. CASE Finished(t)
    <3>1. Won(t)
        BY <1>1, <2>4, <2>7 DEF Finished, SamePay, Withdrawn
    <3>2. net[t] = 0 /\ net'[t] = rows'[t].xp /\ Counted' = Counted + 1
        BY <1>0, <3>1 DEF Won, Paid, PaidOnce, Row
    <3>3. Atomic!Complete(t)
        BY <2>1, <2>2, <2>5, <2>7, <3>2
           DEF Finished, Counted, Rewards, Atomic!Complete, Atomic!Becomes
    <3> QED BY <3>3 DEF Atomic!Next
  <2>8. ASSUME LifeNow(t) = "done", LifeNow(t)' # "done"
        PROVE net' = [net EXCEPT ![t] = 0] /\ Counted' = Counted - 1
    <3>1. Withdrawn(t)
        BY <1>1, <2>4, <2>8 DEF SamePay, Won
    <3>2. net[t] = rows[t].xp /\ rows[t].xp \in Nat
        BY <1>0, <3>1 DEF Withdrawn, Paid, PaidOnce, Row
    <3>3. net'[t] = 0
        BY <3>1, <3>2 DEF Withdrawn
    <3> QED BY <2>5, <3>1, <3>3 DEF Withdrawn
  <2>9. CASE Resumed(t)
    <3>1. Atomic!Reopen(t)
        BY <2>1, <2>2, <2>8, <2>9 DEF Resumed, Counted, Atomic!Reopen, Atomic!Becomes, Atomic!TakeBack
    <3> QED BY <3>1 DEF Atomic!Next
  <2>10. CASE Removed(t)
    <3>1. CASE LifeNow(t) = "done"
      <4>1. Atomic!Delete(t)
          BY <2>1, <2>2, <2>8, <2>10, <3>1
             DEF Removed, Counted, Atomic!Delete, Atomic!Becomes, Atomic!TakeBack
      <4> QED BY <4>1 DEF Atomic!Next
    <3>2. CASE LifeNow(t) = "open"
      <4>1. net' = net /\ Counted' = Counted
          BY <1>0, <1>1, <2>4, <2>5, <2>10, <3>2 DEF Removed, SamePay, Won, Withdrawn
      <4>2. net[t] = 0
          BY <1>1, <3>2 DEF PaidOnce, Paid
      <4>3. net' = [net EXCEPT ![t] = 0]
          BY <1>0, <4>1, <4>2
      <4>4. Atomic!Delete(t)
          BY <2>1, <2>2, <2>10, <3>2, <4>1, <4>3
             DEF Removed, Counted, Atomic!Delete, Atomic!Becomes, Atomic!TakeBack
      <4> QED BY <4>4 DEF Atomic!Next
    <3> QED BY <2>10, <3>1, <3>2 DEF Removed
  <2> QED BY <1>3, <2>6, <2>7, <2>9, <2>10
<1> QED BY <1>2, <1>3, LifeStep

\* For any number of requests and tasks: as long as there are no subtasks and
\* nobody calls Update, the concurrent transactions of Complete, Reopen, Delete,
\* MoveTask and Create commit what one operation at a time would have.
THEOREM BoardIsAtomic ==
    ASSUME Operations \cap {"subtask", "update"} = {}
    PROVE Spec => BehavesAtomically
<1> DEFINE J == FlatInv /\ PaidOnce /\ CountersMatch /\ RoomHeld
<1>1. Init => J
  <2>1. Init => RoomHeld
      BY DEF RoomHeld, Init
  <2> QED BY <2>1, FlatInit
<1>2. IInv /\ J /\ [Next]_vars => J'
  <2>1. CASE UNCHANGED vars
      BY <2>1 DEF vars, board, FlatInv, PaidOnce, CountersMatch, RoomHeld, CountActive, Live
  <2>2. CASE Next
      BY <2>2, FlatKept, AccountsKept, RoomNext
  <2> QED BY <2>1, <2>2
<1>3. Init => Atomic!Init
    BY DEF Init, NoRow, LifeOf, Atomic!Init
<1>4. IInv /\ J /\ [Next]_vars => [Atomic!Next]_(Atomic!view)
  <2>1. CASE UNCHANGED vars
      BY <2>1 DEF vars, board, Atomic!view
  <2>2. CASE Next
      BY <2>2, StepSimulated
  <2> QED BY <2>1, <2>2
<1> HIDE DEF J
<1> QED BY <1>1, <1>2, <1>3, <1>4, Invariant, PTL DEF Spec, BehavesAtomically, Atomic!Spec
=============================================================================
