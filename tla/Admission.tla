----------------------------- MODULE Admission -----------------------------
(***************************************************************************)
(* How a request is let in: the attempts counted in Redis, the slots in   *)
(* which passwords are hashed, the connections of the pool, and the       *)
(* process around them, which drains, closes and starts again.            *)
(*                                                                         *)
(* One address and one account: the counters of others are apart.  A      *)
(* timer (a counter's window, the wait for a slot, the deadline of a      *)
(* request, the shutdown budget) is an event that may come at any moment  *)
(* and comes in the end.  Redis may be out of reach at any time; what it   *)
(* holds survives that, and the process.                                   *)
(***************************************************************************)
EXTENDS Naturals, Sequences, FiniteSets

CONSTANTS
    Requests,     \* requests that can be in flight at once
    Endpoints,    \* what they ask for
    Limit,        \* the ceiling of each counter
    MaxHashes,    \* hashes that may run at once
    MaxConns      \* connections of the pool

ASSUME PoolAssumption == MaxHashes \in Nat \ {0} /\ MaxConns \in Nat \ {0}
ASSUME RequestsAssumption == IsFiniteSet(Requests)

\* What may refuse a request besides a counter: the headers and cookies of a
\* session, the cookie of a refresh, the body, the refresh token itself.
Checks == {"session", "csrf", "body", "token"}

\* The counters and checks a request passes on its way, in their order.  settings is
\* every change of a session, export every read that is counted, me one that is not.
Stages ==
    [login      |-> <<"address", "body", "account">>,
     register   |-> <<"address", "register", "body">>,
     plans      |-> <<"public">>,
     refresh    |-> <<"address", "csrf", "token">>,
     logout     |-> <<"address", "csrf">>,
     everywhere |-> <<"session">>,
     close      |-> <<"session", "body">>,
     settings   |-> <<"session", "write", "body">>,
     export     |-> <<"session", "read">>,
     me         |-> <<"session">>]

\* What its handler begins with.
First(endpoint) ==
    IF endpoint \in {"login", "close"} THEN "lookup"
    ELSE IF endpoint = "register" THEN "queue" ELSE "store"

\* The handlers that end without the database: prices, and sessions that go.
WithoutRows == {"plans", "logout", "everywhere"}

\* The counters kept for the one address and the one account.
Counters ==
    (UNION {{Stages[e][i] : i \in 1 .. Len(Stages[e])} : e \in Endpoints}) \ Checks

ASSUME EndpointsAssumption == Endpoints \subseteq DOMAIN Stages
ASSUME LimitAssumption == Limit \in [Counters -> Nat \ {0}]

VARIABLES
    hits,      \* attempts counted under each key, 0 when it is not there
    window,    \* whether the key has an expiry
    redis,     \* whether Redis answers
    req,       \* the requests
    slots,     \* the requests that hold a hashing slot
    conns,     \* the requests that hold a connection across steps
    process,   \* what the process is doing
    api,       \* whether the routes were mounted when it started
    spent      \* whether the shutdown budget has run out

vars == <<hits, window, redis, req, slots, conns, process, api, spent>>

Idle == [pc |-> "idle", endpoint |-> "none", at |-> 0, count |-> 0, live |-> TRUE]

InFlight(r) == req[r].pc # "idle"

\* The counter or check a request is at; past the last one there is none.
Here(r) == Stages[req[r].endpoint][req[r].at]

Cap(c) == Limit[c] + 1   \* counts above the ceiling are not told apart

(* ----------------------------- requests ------------------------------ *)
\* A call to Redis is answered when it is there, its client is not closed and
\* the caller's context is not done.
CanCall(r) == redis = "up" /\ process # "database" /\ req[r].live

\* So is a call to the database: a pool that is closing gives out no connection,
\* but the one a transaction holds still works.
CanQuery(r) == (process # "database" \/ r \in conns) /\ req[r].live
FreeConn(r) == r \in conns \/ Cardinality(conns) < MaxConns

\* The listener takes a request as long as nobody told the process to stop.
Accept(r, endpoint) ==
    /\ process = "serving" /\ api
    /\ req[r].pc = "idle"
    /\ req' = [req EXCEPT ![r] =
                  [Idle EXCEPT !.pc = "stage", !.endpoint = endpoint, !.at = 1]]
    /\ UNCHANGED <<hits, window, redis, slots, conns, process, api, spent>>

\* The answer, whatever it says, ends the request and its transaction.
Answer(r) ==
    /\ req' = [req EXCEPT ![r] = Idle]
    /\ conns' = conns \ {r}

\* The next counter or check, or the handler after the last one.
PassOn(r) ==
    req' = [req EXCEPT ![r].at = @ + 1, ![r].count = 0,
               ![r].pc = IF req[r].at < Len(Stages[req[r].endpoint]) THEN "stage"
                       ELSE First(req[r].endpoint)]

\* A check refuses or lets pass; the refresh token is spent in Redis.
Check(r) ==
    /\ req[r].pc = "stage" /\ Here(r) \in Checks
    /\ \/ Answer(r)
       \/ (Here(r) = "token" => CanCall(r)) /\ PassOn(r) /\ UNCHANGED conns
    /\ UNCHANGED <<hits, window, redis, slots, process, api, spent>>

\* Redis counts the attempt; when it cannot be asked the attempt is let through.
Count(r) ==
    /\ req[r].pc = "stage" /\ Here(r) \notin Checks
    /\ \/ /\ ~CanCall(r)
          /\ PassOn(r)
          /\ UNCHANGED hits
       \/ /\ CanCall(r)
          /\ hits' = [hits EXCEPT ![Here(r)] = IF @ < Cap(Here(r)) THEN @ + 1 ELSE @]
          /\ req' = [req EXCEPT ![r].pc = "window", ![r].count = hits'[Here(r)]]
    /\ UNCHANGED <<window, redis, slots, conns, process, api, spent>>

\* Within the ceiling the request goes on, above it it is refused.
Verdict(r) ==
    \/ /\ req[r].count <= Limit[Here(r)]
       /\ PassOn(r)
       /\ UNCHANGED conns
    \/ /\ req[r].count > Limit[Here(r)]
       /\ Answer(r)

\* EXPIRE; a key that is gone takes none.
SetWindow(c) == window' = [window EXCEPT ![c] = @ \/ hits[c] > 0]

\* Only the first attempt ever sets the window.
NeedsWindow_Never(r) == FALSE

\* The first attempt sets the window, a later one looks whether it is there.
NeedsWindow(r) == req[r].count # 1 /\ ~window[Here(r)]

EnsureWindow(r) ==
    /\ req[r].pc = "window"
    /\ \/ ~CanCall(r) /\ PassOn(r) /\ UNCHANGED <<window, conns>>
       \/ CanCall(r) /\ req[r].count = 1 /\ SetWindow(Here(r)) /\ Verdict(r)
       \/ /\ CanCall(r) /\ NeedsWindow(r)
          /\ req' = [req EXCEPT ![r].pc = "repair"]
          /\ UNCHANGED <<window, conns>>
       \/ /\ CanCall(r) /\ req[r].count # 1 /\ ~NeedsWindow(r)
          /\ Verdict(r)
          /\ UNCHANGED window
    /\ UNCHANGED <<hits, redis, slots, process, api, spent>>

RepairWindow(r) ==
    /\ req[r].pc = "repair"
    /\ \/ ~CanCall(r) /\ PassOn(r) /\ UNCHANGED <<window, conns>>
       \/ CanCall(r) /\ SetWindow(Here(r)) /\ Verdict(r)
    /\ UNCHANGED <<hits, redis, slots, process, api, spent>>

(* ------------------------------ handlers ----------------------------- *)
\* Signing in reads the account; closing one begins a transaction and reads it.  An
\* account that is not there, or a statement that failed, is the answer.
Lookup(r) ==
    /\ req[r].pc = "lookup"
    /\ CanQuery(r) => FreeConn(r)
    /\ \/ Answer(r)
       \/ /\ CanQuery(r)
          /\ req' = [req EXCEPT ![r].pc = "queue"]
          /\ conns' = IF req[r].endpoint = "close" THEN conns \cup {r} ELSE conns
    /\ UNCHANGED <<hits, window, redis, slots, process, api, spent>>

(* ------------------------------- hashing ----------------------------- *)
\* The three ways out of the queue: a slot, the end of the wait, the end of the
\* request.
TakeSlot(r) ==
    /\ req[r].pc = "queue" /\ Cardinality(slots) < MaxHashes
    /\ slots' = slots \cup {r}
    /\ req' = [req EXCEPT ![r].pc = "hashing"]
    /\ UNCHANGED <<hits, window, redis, conns, process, api, spent>>

\* Also where a stored hash is refused before the wait: nothing was taken.
Busy(r) ==
    /\ req[r].pc = "queue"
    /\ Answer(r)
    /\ UNCHANGED <<hits, window, redis, slots, process, api, spent>>

\* The transaction is left open by a request that gives up waiting.
GiveUp_KeepsConn(r) ==
    /\ req[r].pc = "queue" /\ ~req[r].live
    /\ req' = [req EXCEPT ![r] = Idle]
    /\ UNCHANGED <<hits, window, redis, slots, conns, process, api, spent>>

GiveUp(r) ==
    /\ req[r].pc = "queue" /\ ~req[r].live
    /\ Answer(r)
    /\ UNCHANGED <<hits, window, redis, slots, process, api, spent>>

\* A hash cannot be interrupted; its slot is given back whatever it says.
FinishHash(r) ==
    /\ req[r].pc = "hashing"
    /\ slots' = slots \ {r}
    /\ \/ req' = [req EXCEPT ![r].pc = "store"] /\ UNCHANGED conns
       \/ req[r].endpoint # "register" /\ Answer(r)
    /\ UNCHANGED <<hits, window, redis, process, api, spent>>

\* The rows are read or written, then the session in Redis: with the database there,
\* a connection comes first whatever Redis says.  A transaction ends here either way.
NeedsConn(r) == CanQuery(r) /\ req[r].endpoint \notin WithoutRows

\* The pool is waited for also when the request has ended.
Store_Waits(r) ==
    /\ req[r].pc = "store" /\ FreeConn(r)
    /\ Answer(r)
    /\ UNCHANGED <<hits, window, redis, slots, process, api, spent>>

Store(r) ==
    /\ req[r].pc = "store"
    /\ NeedsConn(r) => FreeConn(r)
    /\ Answer(r)
    /\ UNCHANGED <<hits, window, redis, slots, process, api, spent>>

\* The deadline of the request, or a client that went away.
EndContext(r) ==
    /\ InFlight(r) /\ req[r].live
    /\ req' = [req EXCEPT ![r].live = FALSE]
    /\ UNCHANGED <<hits, window, redis, slots, conns, process, api, spent>>

(* -------------------------------- Redis ------------------------------ *)
\* A window ends and its key goes.
Expire(c) ==
    /\ window[c]
    /\ hits' = [hits EXCEPT ![c] = 0]
    /\ window' = [window EXCEPT ![c] = FALSE]
    /\ UNCHANGED <<redis, req, slots, conns, process, api, spent>>

Outage ==
    /\ redis' = IF redis = "up" THEN "down" ELSE "up"
    /\ UNCHANGED <<hits, window, req, slots, conns, process, api, spent>>

(* ------------------------------ the process -------------------------- *)
\* A signal, or a listener that failed: the listener takes nothing new.
Stop ==
    /\ process = "serving"
    /\ process' = "draining"
    /\ UNCHANGED <<hits, window, redis, req, slots, conns, api, spent>>

SpendBudget ==
    /\ process \notin {"serving", "exited"} /\ ~spent
    /\ spent' = TRUE
    /\ UNCHANGED <<hits, window, redis, req, slots, conns, process, api>>

\* The listener is closed and the cache right after it.
Drained_AtOnce ==
    /\ process = "draining"
    /\ process' = "cache"
    /\ UNCHANGED <<hits, window, redis, req, slots, conns, api, spent>>

\* The requests in flight are done, or the budget is: the cache is closed next.
Drained ==
    /\ process = "draining"
    /\ spent \/ \A r \in Requests : ~InFlight(r)
    /\ process' = "cache"
    /\ UNCHANGED <<hits, window, redis, req, slots, conns, api, spent>>

\* The close of the cache is waited for without the budget.
CacheStopped_WaitsForRedis ==
    /\ process = "cache" /\ redis = "up"
    /\ process' = "database"
    /\ UNCHANGED <<hits, window, redis, req, slots, conns, api, spent>>

\* The cache is closed, in time or behind the process's back, and the pool begins
\* to close.
CacheStopped ==
    /\ process = "cache"
    /\ process' = "database"
    /\ UNCHANGED <<hits, window, redis, req, slots, conns, api, spent>>

\* What is in flight goes with the process.
Gone ==
    /\ process' = "exited"
    /\ req' = [r \in Requests |-> Idle]
    /\ slots' = {} /\ conns' = {}
    /\ spent' = FALSE /\ api' = FALSE
    /\ UNCHANGED <<hits, window, redis>>

\* The pool waits for every connection to come back, but not past the budget.
DatabaseStopped ==
    /\ process = "database"
    /\ spent \/ conns = {}
    /\ Gone

\* A crash, or the second signal, at any moment.
Crash == process # "exited" /\ Gone

\* The routes are mounted only by a process that reached Redis when it started.
Start ==
    /\ process = "exited"
    /\ process' = "serving"
    /\ api' = (redis = "up")
    /\ UNCHANGED <<hits, window, redis, req, slots, conns, spent>>

Init ==
    /\ hits = [c \in Counters |-> 0] /\ window = [c \in Counters |-> FALSE]
    /\ redis = "up"
    /\ req = [r \in Requests |-> Idle]
    /\ slots = {} /\ conns = {}
    /\ process = "exited" /\ api = FALSE /\ spent = FALSE

\* What the process does of itself for a request it has taken.
Serve(r) ==
    \/ Check(r) \/ Count(r) \/ EnsureWindow(r) \/ RepairWindow(r)
    \/ Lookup(r)
    \/ TakeSlot(r) \/ Busy(r) \/ GiveUp(r) \/ FinishHash(r) \/ Store(r)
    \/ EndContext(r)

Shutdown == SpendBudget \/ Drained \/ CacheStopped \/ DatabaseStopped

Next ==
    \/ \E r \in Requests :
          Serve(r) \/ \E endpoint \in Endpoints : Accept(r, endpoint)
    \/ \E c \in Counters : Expire(c)
    \/ Outage \/ Stop \/ Shutdown \/ Crash \/ Start

\* Goroutines run and timers fire; callers, signals, crashes and outages owe nothing.
Fairness ==
    /\ \A r \in Requests : WF_vars(Serve(r))
    /\ WF_vars(Shutdown)

Spec == Init /\ [][Next]_vars /\ Fairness

(* ----------------------------- properties ---------------------------- *)
Type == [pc : {"idle", "stage", "window", "repair", "lookup", "queue", "hashing", "store"},
         endpoint : {"none"} \cup DOMAIN Stages, at : Nat, count : Nat, live : BOOLEAN]

TypeOK ==
    /\ hits \in [Counters -> Nat] /\ window \in [Counters -> BOOLEAN]
    /\ redis \in {"up", "down"} /\ api \in BOOLEAN /\ spent \in BOOLEAN
    /\ req \in [Requests -> Type]
    /\ slots \subseteq Requests /\ conns \subseteq Requests
    /\ process \in {"serving", "draining", "cache", "database", "exited"}

\* No slot and no connection is lost or shared: each is held by a request that is
\* at a point where it needs it, whatever way the others left.
NothingLeaks ==
    /\ slots = {r \in Requests : req[r].pc = "hashing"}
    /\ Cardinality(slots) <= MaxHashes
    /\ conns = {r \in Requests : /\ req[r].endpoint = "close"
                                 /\ req[r].pc \in {"queue", "hashing", "store"}}
    /\ Cardinality(conns) <= MaxConns

\* Redis and the pool are closed only when nobody is using them, unless the one
\* budget of the shutdown has run out.
ClosedWhenDrained ==
    process \in {"cache", "database"} /\ (\E r \in Requests : InFlight(r)) => spent

\* A request refused by a counter leaves that counter with an end, or already gone:
\* a window that could not be set once does not become a refusal for ever.
Refused(r) ==
    /\ req[r].pc \in {"window", "repair"}
    /\ req'[r].pc = "idle" /\ process' # "exited"

RefusedByAWindow ==
    [][\A r \in Requests : Refused(r) => window'[Here(r)] \/ hits'[Here(r)] = 0]_vars

\* A request that was let in is answered in the end, or cut off with the process.
EveryRequestEnds == \A r \in Requests : InFlight(r) ~> ~InFlight(r)

\* A process told to stop exits: neither a slow request nor a dependency that
\* does not close keeps it.
StopEnds == process = "draining" ~> process = "exited"
=============================================================================
