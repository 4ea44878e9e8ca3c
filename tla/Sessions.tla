------------------------------ MODULE Sessions ------------------------------
(***************************************************************************)
(* The sessions of one account: the refresh tokens, the generation and the *)
(* access block that RefreshStore keeps in Redis, the auth service over    *)
(* them, and the users row that DeleteAccount marks in PostgreSQL.         *)
(*                                                                         *)
(* A step is one call to a store.  Redis executes a call, or a script, at  *)
(* once; between two calls of a request anything else can run, and the     *)
(* request can be cut off.  A refresh token outlives every run: its thirty *)
(* days do not pass.                                                       *)
(***************************************************************************)
EXTENDS Integers, FiniteSets

CONSTANTS
    Tokens,         \* the refresh token values that will ever be minted
    Requests,       \* the requests that can be open at the same time
    None,           \* no token, no request
    AccessTTL,      \* life of an access token, in clock ticks
    Grace,          \* auth.refresh_reuse_grace, in clock ticks; 0 is the strict rule
    Operations,     \* the endpoints the clients call
    MaxGeneration,  \* bound: revocations
    MaxTime         \* bound: clock ticks

ASSUME SessionsAssumption ==
    /\ None \notin Tokens \cup Requests
    /\ AccessTTL \in Nat \ {0} /\ Grace \in Nat
    /\ MaxGeneration \in Nat /\ MaxTime \in Nat

VARIABLES
    generation,    \* the account's generation key
    live,          \* the token keys: a token under the generation it was saved with
    rotated,       \* the markers of spent tokens, each with its expiry
    blockedUntil,  \* when the block on access tokens expires
    deleted,       \* users.deleted_at is set, committed
    remover,       \* the request holding the users row after its SoftDelete
    expiry,        \* per token, when the access token of its pair expires; 0: not minted
    origin,        \* per token, the first token of its session
    issued,        \* the tokens a client was answered with
    latest,        \* per session, the last of them
    signedOut,     \* sessions a Logout ended, presenting the last token answered
    revoked,       \* sessions open at a revocation
    overtaken,     \* sessions that a refresh under way was rotating at the last one
    reused,        \* sessions continued from a token already spent
    now,
    stage,         \* per request, the call it makes next
    arg,           \* per request, the token it presents
    read,          \* per request, the generation it has read
    fresh          \* per request, the token it has minted

store == <<generation, live, rotated, blockedUntil>>
row == <<deleted, remover>>
pairs == <<expiry, origin, issued, latest>>
ends == <<signedOut, revoked, overtaken, reused>>
request == <<stage, arg, read, fresh>>
vars == <<store, row, pairs, ends, now, request>>

\* The generation left out of the name of the key.
Key_NoGeneration(t, g) == [token |-> t, gen |-> 0]

Key(t, g) == [token |-> t, gen |-> g]

\* A key under the current generation: the token would open a session.
Usable(t) == Key(t, generation) \in live

Blocked == now < blockedUntil

\* Authenticate: the signature has not expired and the account is not blocked.
Believed(t) == now < expiry[t] /\ ~Blocked

-----------------------------------------------------------------------------
(* Requests.                                                                *)

Begin(r, next, t, g) ==
    /\ stage[r] = "idle"
    /\ stage' = [stage EXCEPT ![r] = next]
    /\ arg' = [arg EXCEPT ![r] = t]
    /\ read' = [read EXCEPT ![r] = g]
    /\ UNCHANGED fresh

Go(r, here, next) ==
    /\ stage[r] = here
    /\ stage' = [stage EXCEPT ![r] = next]
    /\ UNCHANGED <<arg, read, fresh>>

End(r) ==
    /\ stage' = [stage EXCEPT ![r] = "idle"]
    /\ arg' = [arg EXCEPT ![r] = None]
    /\ read' = [read EXCEPT ![r] = 0]
    /\ fresh' = [fresh EXCEPT ![r] = None]

\* The transaction left open when the request goes.
Abandon_KeepsRow(r) ==
    /\ stage[r] # "idle"
    /\ End(r)
    /\ UNCHANGED <<store, row, pairs, ends, now>>

\* A failed call, a cancelled request, a commit that fails: what Redis was told
\* stays told, what PostgreSQL was told is rolled back.
Abandon(r) ==
    /\ stage[r] # "idle"
    /\ End(r)
    /\ remover' = IF remover = r THEN None ELSE remover
    /\ UNCHANGED <<store, deleted, pairs, ends, now>>

\* A refresh under way, between its read of the generation and its answer.
Rotating(r) == stage[r] \in {"consume", "reload", "issue", "save"} /\ arg[r] # None

\* INCR.
RevokeAll ==
    /\ generation < MaxGeneration
    /\ generation' = generation + 1
    /\ revoked' = revoked \cup {origin[t] : t \in issued}
    /\ overtaken' = {origin[arg[r]] : r \in {q \in Requests : Rotating(q)}}
    /\ UNCHANGED <<live, rotated>>

-----------------------------------------------------------------------------
(* Issuing a pair.                                                          *)

\* tokens.Issue, the new refresh token, and the generation read by Save.
Issue(r) ==
    \E t \in Tokens :
        /\ stage[r] = "issue"
        /\ expiry[t] = 0
        /\ expiry' = [expiry EXCEPT ![t] = now + AccessTTL]
        /\ origin' = [origin EXCEPT ![t] = IF arg[r] = None THEN t ELSE origin[arg[r]]]
        /\ stage' = [stage EXCEPT ![r] = "save"]
        /\ read' = [read EXCEPT ![r] = generation]
        /\ fresh' = [fresh EXCEPT ![r] = t]
        /\ UNCHANGED <<store, row, issued, latest, ends, now, arg>>

\* The SET of Save, and the answer, which may be lost on its way.
Save(r) ==
    /\ stage[r] = "save"
    /\ live' = live \cup {Key(fresh[r], read[r])}
    /\ \/ /\ issued' = issued \cup {fresh[r]}
          /\ latest' = [latest EXCEPT ![origin[fresh[r]]] = fresh[r]]
       \/ UNCHANGED <<issued, latest>>
    /\ End(r)
    /\ UNCHANGED <<generation, rotated, blockedUntil, row, expiry, origin, ends, now>>

-----------------------------------------------------------------------------
(* Login.                                                                   *)

\* ByUsername and the password.
BeginLogin(r) ==
    /\ ~deleted
    /\ Begin(r, "touch", None, 0)
    /\ UNCHANGED <<store, row, pairs, ends, now>>

\* An UPDATE of the users row, which waits for a deletion and does not ask
\* whether there was one.
TouchLogin(r) ==
    /\ remover = None
    /\ Go(r, "touch", "issue")
    /\ UNCHANGED <<store, row, pairs, ends, now>>

-----------------------------------------------------------------------------
(* Refresh.                                                                 *)

\* Consume reads the generation.
BeginRefresh(r, t) ==
    /\ t \in issued
    /\ Begin(r, "consume", t, generation)
    /\ UNCHANGED <<store, row, pairs, ends, now>>

\* GET where the script has DEL.
Spent_Kept(key) == live

Spent(key) == live \ {key}

\* The script finds the token, deletes it and leaves a marker.
ConsumeValid(r) ==
    LET key == Key(arg[r], read[r]) IN
    /\ key \in live
    /\ Go(r, "consume", "reload")
    /\ live' = Spent(key)
    /\ rotated' = IF Grace > 0 THEN rotated \cup {[key |-> key, until |-> now + Grace]}
                               ELSE rotated
    /\ UNCHANGED <<generation, blockedUntil, row, pairs, ends, now>>

Marked(key) == \E m \in rotated : m.key = key

\* The script finds the marker: the pair was rotated moments ago.
ConsumeJustRotated(r) ==
    LET key == Key(arg[r], read[r]) IN
    /\ key \notin live /\ Marked(key)
    /\ Go(r, "consume", "reload")
    /\ reused' = reused \cup {origin[arg[r]]}
    /\ UNCHANGED <<store, row, pairs, signedOut, revoked, overtaken, now>>

\* The script finds neither.
ConsumeUnknown(r) ==
    LET key == Key(arg[r], read[r]) IN
    /\ key \notin live /\ ~Marked(key)
    /\ Go(r, "consume", "revoke")
    /\ UNCHANGED <<store, row, pairs, ends, now>>

\* SESSION_EXPIRED, after every session of the account.
RevokeReplayed(r) ==
    /\ stage[r] = "revoke"
    /\ RevokeAll
    /\ End(r)
    /\ UNCHANGED <<blockedUntil, row, pairs, signedOut, reused, now>>

\* ByID, which finds no deleted account.
ReloadAccount(r) ==
    /\ ~deleted
    /\ Go(r, "reload", "issue")
    /\ UNCHANGED <<store, row, pairs, ends, now>>

RefuseDeleted(r) ==
    /\ deleted /\ stage[r] = "reload"
    /\ End(r)
    /\ UNCHANGED <<store, row, pairs, ends, now>>

-----------------------------------------------------------------------------
(* Logout and LogoutAll.                                                    *)

\* Drop reads the generation.
BeginLogout(r, t) ==
    /\ t \in issued
    /\ Begin(r, "drop", t, generation)
    /\ UNCHANGED <<store, row, pairs, ends, now>>

\* Drop under the wrong key: the token stays.
Dropped_Missed(key) == live

Dropped(key) == live \ {key}

Drop(r) ==
    /\ stage[r] = "drop"
    /\ live' = Dropped(Key(arg[r], read[r]))
    /\ signedOut' = IF arg[r] = latest[origin[arg[r]]]
                     THEN signedOut \cup {origin[arg[r]]} ELSE signedOut
    /\ End(r)
    /\ UNCHANGED <<generation, rotated, blockedUntil, row, pairs, revoked, overtaken, reused, now>>

LogoutAll(r) ==
    /\ \E t \in issued : Believed(t)
    /\ stage[r] = "idle"
    /\ RevokeAll
    /\ UNCHANGED <<blockedUntil, row, pairs, signedOut, reused, now, request>>

-----------------------------------------------------------------------------
(* DeleteAccount: one database transaction around two calls to Redis.       *)

\* ByID, the password, SoftDelete.
BeginDelete(r) ==
    /\ \E t \in issued : Believed(t)
    /\ ~deleted /\ remover = None
    /\ Begin(r, "revokeClosed", None, 0)
    /\ remover' = r
    /\ UNCHANGED <<store, deleted, pairs, ends, now>>

RevokeClosed(r) ==
    /\ Go(r, "revokeClosed", "block")
    /\ RevokeAll
    /\ UNCHANGED <<blockedUntil, row, pairs, signedOut, reused, now>>

\* The block kept for less than a token may live.
BlockFor_Short == AccessTTL - 1

BlockFor == AccessTTL

BlockAccess(r) ==
    /\ Go(r, "block", "commit")
    /\ blockedUntil' = now + BlockFor
    /\ UNCHANGED <<generation, live, rotated, row, pairs, ends, now>>

CommitDelete(r) ==
    /\ stage[r] = "commit"
    /\ deleted' = TRUE
    /\ remover' = None
    /\ End(r)
    /\ UNCHANGED <<store, pairs, ends, now>>

-----------------------------------------------------------------------------
\* Time, and the keys it expires.
Tick ==
    /\ now < MaxTime
    /\ now' = now + 1
    /\ rotated' = {m \in rotated : now + 1 < m.until}
    /\ UNCHANGED <<generation, live, blockedUntil, row, pairs, ends, request>>

Init ==
    /\ generation = 0 /\ live = {} /\ rotated = {} /\ blockedUntil = 0
    /\ deleted = FALSE /\ remover = None
    /\ expiry = [t \in Tokens |-> 0]
    /\ origin = [t \in Tokens |-> t] /\ latest = [t \in Tokens |-> t]
    /\ issued = {} /\ signedOut = {} /\ revoked = {} /\ overtaken = {} /\ reused = {}
    /\ now = 0
    /\ stage = [r \in Requests |-> "idle"]
    /\ arg = [r \in Requests |-> None]
    /\ read = [r \in Requests |-> 0]
    /\ fresh = [r \in Requests |-> None]

Start(r) ==
    \/ "login" \in Operations /\ BeginLogin(r)
    \/ "refresh" \in Operations /\ \E t \in Tokens : BeginRefresh(r, t)
    \/ "logout" \in Operations /\ \E t \in Tokens : BeginLogout(r, t)
    \/ "logoutAll" \in Operations /\ LogoutAll(r)
    \/ "delete" \in Operations /\ BeginDelete(r)

Continue(r) ==
    \/ TouchLogin(r) \/ Issue(r) \/ Save(r)
    \/ ConsumeValid(r) \/ ConsumeJustRotated(r) \/ ConsumeUnknown(r)
    \/ RevokeReplayed(r) \/ ReloadAccount(r) \/ RefuseDeleted(r)
    \/ Drop(r)
    \/ RevokeClosed(r) \/ BlockAccess(r) \/ CommitDelete(r)
    \/ Abandon(r)

Next == Tick \/ \E r \in Requests : Start(r) \/ Continue(r)

Spec == Init /\ [][Next]_vars

-----------------------------------------------------------------------------
(* Properties.                                                              *)

Stages == {"idle", "touch", "issue", "save", "consume", "revoke", "reload",
           "drop", "revokeClosed", "block", "commit"}

Keys == [token : Tokens, gen : Nat]

StoreType ==
    /\ generation \in Nat /\ live \subseteq Keys
    /\ rotated \subseteq [key : Keys, until : Nat] /\ blockedUntil \in Nat
    /\ deleted \in BOOLEAN /\ remover \in Requests \cup {None}
    /\ expiry \in [Tokens -> Nat]
    /\ origin \in [Tokens -> Tokens] /\ latest \in [Tokens -> Tokens]
    /\ issued \subseteq Tokens /\ signedOut \subseteq Tokens
    /\ revoked \subseteq Tokens /\ overtaken \subseteq Tokens /\ reused \subseteq Tokens
    /\ now \in Nat

RequestType ==
    /\ stage \in [Requests -> Stages] /\ arg \in [Requests -> Tokens \cup {None}]
    /\ read \in [Requests -> Nat] /\ fresh \in [Requests -> Tokens \cup {None}]
    /\ \A r \in Requests : /\ stage[r] = "save" => fresh[r] \in Tokens
                           /\ stage[r] \in {"consume", "drop"} => arg[r] \in Tokens
                           /\ remover = r => stage[r] \in {"revokeClosed", "block", "commit"}

\* Every variable has its type; a request that saves has minted a token, one
\* that consumes or drops presents one, and only a deletion that is still
\* running keeps the users row.
TypeOK == StoreType /\ RequestType

\* The moment an account is revoked, no token it holds opens a session: Save
\* never writes under a generation that has not been reached, so counting the
\* generation up orphans every key at once.
RevocationEmpties ==
    [][generation' # generation => \A t \in Tokens : ~Usable(t)']_<<generation, live>>

\* Rotation keeps one token per session, however its requests interleave: of
\* two presenters only one finds the key, so a session forks only where the
\* grace lets a spent token through.
OneTokenPerSession ==
    \A k, l \in live : origin[k.token] = origin[l.token] => k = l \/ origin[k.token] \in reused

\* No session that was open when the account was revoked still has a token
\* that opens one.
RevokedStaysRevoked == \A t \in Tokens : Usable(t) => origin[t] \notin revoked

\* The only sessions to outlive a revocation are those that a refresh, already
\* past its read of the generation, was rotating when it came.
OnlyOvertakenSurvive ==
    \A t \in Tokens : Usable(t) /\ origin[t] \in revoked => origin[t] \in overtaken

\* No token a client was answered with opens a session that was signed out.
SignedOutStaysOut == \A t \in issued : Usable(t) => origin[t] \notin signedOut

\* With one request at a time, a session comes back from a sign-out only where
\* the grace let a spent token through.
SignedOutUnlessReused ==
    \A t \in issued : Usable(t) /\ origin[t] \in signedOut => origin[t] \in reused

\* While Redis answers, the API believes no access token of a closed account:
\* the block lasts as long as the youngest of them.
ClosedIsClosed == deleted => \A t \in issued : ~Believed(t)
=============================================================================
