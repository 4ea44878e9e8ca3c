--------------------------- MODULE SessionsProofs ---------------------------
(* Theorems about Sessions, for any tokens, requests, lifetimes and grace.  *)
EXTENDS Sessions, TLAPS

-----------------------------------------------------------------------------
\* The empty store has its type.
LEMMA TypeInit == Init => TypeOK
<1> SUFFICES ASSUME Init PROVE TypeOK
    OBVIOUS
<1>1. StoreType
    BY DEF Init, StoreType
<1>2. RequestType
    BY SessionsAssumption DEF Init, RequestType, Stages
<1> QED BY <1>1, <1>2 DEF TypeOK

\* Whatever a request has done, ending it leaves the other requests alone.
LEMMA EndType ==
    ASSUME TypeOK, NEW r \in Requests, End(r),
           remover' = IF remover = r THEN None ELSE remover
    PROVE  RequestType'
BY SessionsAssumption DEF TypeOK, StoreType, RequestType, End, Stages

\* The same for a request that does not hold the users row.
LEMMA EndOthersType ==
    ASSUME TypeOK, NEW r \in Requests, End(r), remover' = remover, remover # r
    PROVE  RequestType'
BY SessionsAssumption DEF TypeOK, StoreType, RequestType, End, Stages

\* A revocation keeps the types of what it writes.
LEMMA RevokeType ==
    ASSUME TypeOK, RevokeAll
    PROVE  /\ generation' \in Nat /\ live' = live /\ rotated' = rotated
           /\ revoked' \subseteq Tokens /\ overtaken' \subseteq Tokens
BY DEF TypeOK, StoreType, RequestType, RevokeAll, Rotating

\* Every step keeps the types, and keeps the users row with its deletion.
LEMMA TypeNext == TypeOK /\ [Next]_vars => TypeOK'
<1> SUFFICES ASSUME TypeOK, [Next]_vars PROVE TypeOK'
    OBVIOUS
<1> USE SessionsAssumption
<1>1. CASE UNCHANGED vars
    BY <1>1 DEF TypeOK, StoreType, RequestType, vars, store, row, pairs, ends, request
<1>2. CASE Tick
    BY <1>2 DEF Tick, TypeOK, StoreType, RequestType, row, pairs, ends, request
<1>3. ASSUME NEW r \in Requests, Start(r) PROVE TypeOK'
  <2>1. CASE BeginLogin(r)
      BY <2>1 DEF BeginLogin, Begin, TypeOK, StoreType, RequestType, Stages, store, row, pairs, ends
  <2>2. ASSUME NEW t \in Tokens, BeginRefresh(r, t) PROVE TypeOK'
      BY <2>2 DEF BeginRefresh, Begin, TypeOK, StoreType, RequestType, Stages, store, row, pairs, ends
  <2>3. ASSUME NEW t \in Tokens, BeginLogout(r, t) PROVE TypeOK'
      BY <2>3 DEF BeginLogout, Begin, TypeOK, StoreType, RequestType, Stages, store, row, pairs, ends
  <2>4. CASE LogoutAll(r)
      BY <2>4, RevokeType DEF LogoutAll, TypeOK, StoreType, RequestType, row, pairs, request
  <2>5. CASE BeginDelete(r)
      BY <2>5 DEF BeginDelete, Begin, TypeOK, StoreType, RequestType, Stages, store, pairs, ends
  <2> QED BY <1>3, <2>1, <2>2, <2>3, <2>4, <2>5 DEF Start
<1>4. ASSUME NEW r \in Requests, Continue(r) PROVE TypeOK'
  <2> USE DEF TypeOK
  <2>1. CASE TouchLogin(r)
      BY <2>1 DEF TouchLogin, Go, StoreType, RequestType, Stages, store, row, pairs, ends
  <2>2. CASE Issue(r)
    <3>1. PICK t \in Tokens :
              /\ stage[r] = "issue"
              /\ expiry' = [expiry EXCEPT ![t] = now + AccessTTL]
              /\ origin' = [origin EXCEPT ![t] = IF arg[r] = None THEN t ELSE origin[arg[r]]]
              /\ stage' = [stage EXCEPT ![r] = "save"]
              /\ read' = [read EXCEPT ![r] = generation]
              /\ fresh' = [fresh EXCEPT ![r] = t]
              /\ UNCHANGED <<store, row, issued, latest, ends, now, arg>>
        BY <2>2 DEF Issue
    <3>2. StoreType'
        BY <3>1 DEF StoreType, RequestType, store, row, ends
    <3>3. RequestType'
        BY <3>1 DEF StoreType, RequestType, Stages, store, row
    <3> QED BY <3>2, <3>3
  <2>3. CASE Save(r)
    <3>1. remover # r
        BY <2>3 DEF Save, RequestType
    <3>2. StoreType'
        BY <2>3 DEF Save, StoreType, RequestType, Key, Keys, row, ends
    <3> QED BY <2>3, <3>1, <3>2, EndOthersType DEF Save, row
  <2>4. CASE ConsumeValid(r)
    <3>1. Key(arg[r], read[r]) \in Keys
        BY <2>4 DEF ConsumeValid, Go, RequestType, Key, Keys
    <3>2. StoreType'
        BY <2>4, <3>1 DEF ConsumeValid, Spent, StoreType, row, pairs, ends
    <3>3. RequestType'
        BY <2>4 DEF ConsumeValid, Go, RequestType, Stages, row
    <3> QED BY <3>2, <3>3
  <2>5. CASE ConsumeJustRotated(r) \/ ConsumeUnknown(r)
      BY <2>5 DEF ConsumeJustRotated, ConsumeUnknown, Go, StoreType, RequestType, Stages,
                  store, row, pairs, ends
  <2>6. CASE RevokeReplayed(r)
    <3>1. remover # r
        BY <2>6 DEF RevokeReplayed, RequestType
    <3>2. StoreType'
        BY <2>6, RevokeType DEF RevokeReplayed, StoreType, row, pairs
    <3> QED BY <2>6, <3>1, <3>2, EndOthersType DEF RevokeReplayed, row
  <2>7. CASE ReloadAccount(r)
      BY <2>7 DEF ReloadAccount, Go, StoreType, RequestType, Stages, store, row, pairs, ends
  <2>8. CASE RefuseDeleted(r)
    <3>1. remover # r
        BY <2>8 DEF RefuseDeleted, RequestType
    <3>2. StoreType'
        BY <2>8 DEF RefuseDeleted, StoreType, store, row, pairs, ends
    <3> QED BY <2>8, <3>1, <3>2, EndOthersType DEF RefuseDeleted, row
  <2>9. CASE Drop(r)
    <3>1. remover # r
        BY <2>9 DEF Drop, RequestType
    <3>2. StoreType'
        BY <2>9 DEF Drop, Dropped, StoreType, RequestType, row, pairs
    <3> QED BY <2>9, <3>1, <3>2, EndOthersType DEF Drop, row
  <2>10. CASE RevokeClosed(r)
      BY <2>10, RevokeType DEF RevokeClosed, Go, StoreType, RequestType, Stages, row, pairs
  <2>11. CASE BlockAccess(r)
      BY <2>11 DEF BlockAccess, BlockFor, Go, StoreType, RequestType, Stages, row, pairs, ends
  <2>12. CASE CommitDelete(r)
    <3>1. StoreType'
        BY <2>12 DEF CommitDelete, StoreType, store, pairs, ends
    <3>2. RequestType'
        BY <2>12 DEF CommitDelete, End, StoreType, RequestType, Stages
    <3> QED BY <3>1, <3>2
  <2>13. CASE Abandon(r)
    <3>1. StoreType'
        BY <2>13 DEF Abandon, StoreType, store, pairs, ends
    <3> QED BY <2>13, <3>1, EndType DEF Abandon
  <2> QED BY <1>4, <2>1, <2>2, <2>3, <2>4, <2>5, <2>6, <2>7, <2>8, <2>9, <2>10, <2>11,
             <2>12, <2>13 DEF Continue
<1> QED BY <1>1, <1>2, <1>3, <1>4 DEF Next

\* Every variable keeps its type, and only a running deletion keeps the users
\* row, for any number of requests.
THEOREM SessionsTypeCorrect == Spec => []TypeOK
BY TypeInit, TypeNext, PTL DEF Spec

-----------------------------------------------------------------------------
(* Revocation.                                                              *)

\* Nothing is stored, or about to be, under a generation still to come.
GenerationsReached ==
    /\ \A k \in live : k.gen <= generation
    /\ \A r \in Requests : read[r] <= generation

\* No step stores a key, or lets a request read a generation, beyond the one
\* the account has reached.
LEMMA GenerationsNext ==
    TypeOK /\ GenerationsReached /\ [Next]_vars => GenerationsReached'
<1> SUFFICES ASSUME TypeOK, GenerationsReached, [Next]_vars PROVE GenerationsReached'
    OBVIOUS
<1> USE DEF TypeOK, StoreType, RequestType, GenerationsReached
<1>1. CASE UNCHANGED vars \/ Tick
    BY <1>1 DEF vars, Tick, store, request
<1>2. ASSUME NEW r \in Requests, Start(r) PROVE GenerationsReached'
  <2>1. CASE BeginLogin(r) \/ BeginDelete(r)
      BY <2>1 DEF BeginLogin, BeginDelete, Begin, store
  <2>2. CASE LogoutAll(r)
      BY <2>2 DEF LogoutAll, RevokeAll, Keys, request
  <2>3. ASSUME NEW t \in Tokens, BeginRefresh(r, t) \/ BeginLogout(r, t)
        PROVE  GenerationsReached'
      BY <2>3 DEF BeginRefresh, BeginLogout, Begin, store
  <2> QED BY <1>2, <2>1, <2>2, <2>3 DEF Start
<1>3. ASSUME NEW r \in Requests, Continue(r) PROVE GenerationsReached'
  <2>1. CASE Issue(r)
      BY <2>1 DEF Issue, store
  <2>2. CASE Save(r)
      BY <2>2 DEF Save, End, Key
  <2>3. CASE ConsumeValid(r) \/ Drop(r)
      BY <2>3 DEF ConsumeValid, Drop, Spent, Dropped, Go, End
  <2>4. CASE RevokeReplayed(r) \/ RevokeClosed(r)
      BY <2>4 DEF RevokeReplayed, RevokeClosed, RevokeAll, Keys, Go, End
  <2>5. CASE \/ TouchLogin(r) \/ ConsumeJustRotated(r) \/ ConsumeUnknown(r)
             \/ ReloadAccount(r) \/ BlockAccess(r)
      BY <2>5 DEF TouchLogin, ConsumeJustRotated, ConsumeUnknown, ReloadAccount,
                  BlockAccess, Go, store
  <2>6. CASE RefuseDeleted(r) \/ CommitDelete(r) \/ Abandon(r)
      BY <2>6 DEF RefuseDeleted, CommitDelete, Abandon, End, store
  <2> QED BY <1>3, <2>1, <2>2, <2>3, <2>4, <2>5, <2>6 DEF Continue
<1> QED BY <1>1, <1>2, <1>3 DEF Next

\* The generation changes in RevokeAll and nowhere else.
LEMMA GenerationStep ==
    ASSUME TypeOK, [Next]_vars, generation' # generation
    PROVE  generation' = generation + 1 /\ live' = live
<1>1. CASE UNCHANGED vars \/ Tick
    BY <1>1 DEF vars, Tick, store
<1>2. ASSUME NEW r \in Requests, Start(r)
      PROVE  generation' = generation + 1 /\ live' = live
    BY <1>2 DEF Start, BeginLogin, BeginRefresh, BeginLogout, BeginDelete, LogoutAll,
                RevokeAll, store
<1>3. ASSUME NEW r \in Requests, Continue(r)
      PROVE  generation' = generation + 1 /\ live' = live
    BY <1>3 DEF Continue, TouchLogin, Issue, Save, ConsumeValid, ConsumeJustRotated,
                ConsumeUnknown, RevokeReplayed, ReloadAccount, RefuseDeleted, Drop,
                RevokeClosed, BlockAccess, CommitDelete, Abandon, RevokeAll, store
<1> QED BY <1>1, <1>2, <1>3 DEF Next

\* The moment an account is revoked no token of it opens a session, whatever
\* requests are in flight: RevokeAll orphans every key in one INCR.
THEOREM RevocationComplete == Spec => RevocationEmpties
<1>1. Init => GenerationsReached
    BY DEF Init, GenerationsReached
<1>2. ASSUME TypeOK, GenerationsReached, [Next]_vars, generation' # generation
      PROVE  \A t \in Tokens : ~Usable(t)'
  <2>1. generation' = generation + 1 /\ live' = live
      BY <1>2, GenerationStep
  <2> QED BY <1>2, <2>1 DEF Usable, Key, GenerationsReached, TypeOK, StoreType
<1>3. TypeOK /\ GenerationsReached /\ [Next]_vars
          => [generation' # generation => \A t \in Tokens : ~Usable(t)']_<<generation, live>>
    BY <1>2
<1> QED BY <1>1, <1>3, TypeInit, TypeNext, GenerationsNext, PTL DEF Spec, RevocationEmpties

-----------------------------------------------------------------------------
(* Rotation.                                                                *)

Minted(t) == expiry[t] # 0

\* A request that will store the next token of a session, unless it is cut off.
Carries(r) ==
    \/ stage[r] = "save"
    \/ stage[r] \in {"reload", "issue"} /\ arg[r] # None

SessionOf(r) == IF stage[r] = "save" THEN origin[fresh[r]] ELSE origin[arg[r]]

\* A token that was not minted is nowhere, and begins no session but its own.
FreshOrigins ==
    \A t \in Tokens : (Minted(t) => Minted(origin[t])) /\ (~Minted(t) => origin[t] = t)

FreshStore == (\A t \in issued : Minted(t)) /\ (\A k \in live : Minted(k.token))

FreshRequests ==
    \A r \in Requests : /\ arg[r] # None => Minted(arg[r])
                        /\ stage[r] = "save" => Minted(fresh[r])
                        /\ stage[r] = "touch" => arg[r] = None
                        /\ stage[r] \in {"consume", "reload"} => arg[r] # None

FreshIsFresh == FreshOrigins /\ FreshStore /\ FreshRequests

\* A session is in one place: one key, or one request that carries it; or a
\* token already spent was honoured for it.
OnePlace ==
    /\ \A k, l \in live : origin[k.token] = origin[l.token]
                              => k = l \/ origin[k.token] \in reused
    /\ \A k \in live : \A r \in Requests :
          Carries(r) /\ origin[k.token] = SessionOf(r) => SessionOf(r) \in reused
    /\ \A r, s \in Requests : Carries(r) /\ Carries(s) /\ SessionOf(r) = SessionOf(s)
                                => r = s \/ SessionOf(r) \in reused

RotationInv == FreshIsFresh /\ OnePlace

\* The empty store is in order.
LEMMA RotationInit == Init => RotationInv
BY SessionsAssumption
   DEF Init, RotationInv, FreshIsFresh, FreshOrigins, FreshStore, FreshRequests,
       OnePlace, Minted, Carries

\* A step that mints nothing, stores nothing and makes no request carry a
\* session it did not carry keeps every session in its place.
LEMMA RotationKeep ==
    ASSUME TypeOK, RotationInv, NEW r \in Requests,
           UNCHANGED <<expiry, origin, issued>>,
           live' \subseteq live, reused \subseteq reused',
           \A s \in Requests \ {r} :
               /\ stage'[s] = stage[s] /\ arg'[s] = arg[s] /\ fresh'[s] = fresh[s],
           arg'[r] # None => Minted(arg'[r]),
           stage'[r] # "save",
           stage'[r] = "touch" => arg'[r] = None,
           stage'[r] \in {"consume", "reload"} => arg'[r] # None,
           Carries(r)' => \/ Carries(r) /\ SessionOf(r)' = SessionOf(r)
                          \/ SessionOf(r)' \in reused'
    PROVE  RotationInv'
<1>1. FreshIsFresh'
    BY DEF RotationInv, FreshIsFresh, FreshOrigins, FreshStore, FreshRequests, Minted
<1>2. OnePlace'
  <2>1. OnePlace
      BY DEF RotationInv
  <2>2. \A s \in Requests :
            Carries(s)' => \/ Carries(s) /\ SessionOf(s)' = SessionOf(s)
                           \/ SessionOf(s)' \in reused'
    <3> TAKE s \in Requests
    <3>1. CASE s = r
        BY <3>1
    <3>2. CASE s # r
        BY <3>2 DEF Carries, SessionOf
    <3> QED BY <3>1, <3>2
  <2> QED BY <2>1, <2>2 DEF OnePlace
<1> QED BY <1>1, <1>2 DEF RotationInv

\* Issue mints a token into the session that the request carries, or into a
\* session of its own.
LEMMA RotationIssue ==
    ASSUME TypeOK, RotationInv, NEW r \in Requests, Issue(r)
    PROVE  RotationInv'
<1>1. PICK t \in Tokens :
          /\ stage[r] = "issue" /\ expiry[t] = 0
          /\ expiry' = [expiry EXCEPT ![t] = now + AccessTTL]
          /\ origin' = [origin EXCEPT ![t] = IF arg[r] = None THEN t ELSE origin[arg[r]]]
          /\ stage' = [stage EXCEPT ![r] = "save"]
          /\ fresh' = [fresh EXCEPT ![r] = t]
          /\ UNCHANGED <<store, issued, arg, reused>>
    BY DEF Issue, ends
<1>2. now + AccessTTL # 0 /\ now + AccessTTL \in Nat
    BY SessionsAssumption DEF TypeOK, StoreType
<1>3. /\ \A x \in Tokens : Minted(x)' <=> x = t \/ Minted(x)
      /\ \A x \in Tokens : Minted(x) => x # t /\ origin'[x] = origin[x]
      /\ Minted(t)' /\ origin'[t] = IF arg[r] = None THEN t ELSE origin[arg[r]]
    BY <1>1, <1>2 DEF Minted, TypeOK, StoreType
<1>4. FreshIsFresh'
  <2>1. FreshOrigins'
      BY <1>1, <1>3 DEF RotationInv, FreshIsFresh, FreshOrigins, FreshStore,
                        FreshRequests, Minted, TypeOK, StoreType, RequestType
  <2>2. FreshStore'
      BY <1>1, <1>3 DEF RotationInv, FreshIsFresh, FreshOrigins, FreshStore,
                        FreshRequests, TypeOK, StoreType, Keys, store
  <2>3. FreshRequests'
      BY <1>1, <1>3 DEF RotationInv, FreshIsFresh, FreshOrigins, FreshStore,
                        FreshRequests, TypeOK, RequestType, Minted
  <2> QED BY <2>1, <2>2, <2>3 DEF FreshIsFresh
<1>5. OnePlace'
  <2>1. OnePlace
      BY DEF RotationInv
  <2>2. \A k \in live : k \in live' /\ k.token \in Tokens /\ Minted(k.token)
                      /\ origin'[k.token] = origin[k.token]
      BY <1>1, <1>3 DEF RotationInv, FreshIsFresh, FreshOrigins, FreshStore,
                        FreshRequests, TypeOK, StoreType, Keys, store
  <2>3. \A x \in Tokens : Minted(x) => origin[x] \in Tokens /\ Minted(origin[x])
      BY DEF RotationInv, FreshIsFresh, FreshOrigins, TypeOK, StoreType
  <2>4. ASSUME NEW s \in Requests \ {r}, Carries(s)'
        PROVE  Carries(s) /\ SessionOf(s)' = SessionOf(s)
               /\ SessionOf(s) \in Tokens /\ Minted(SessionOf(s))
    <3>1. stage'[s] = stage[s] /\ arg'[s] = arg[s] /\ fresh'[s] = fresh[s]
        BY <1>1 DEF TypeOK, RequestType
    <3>2. /\ stage[s] = "save" => fresh[s] \in Tokens /\ Minted(fresh[s])
          /\ arg[s] # None => arg[s] \in Tokens /\ Minted(arg[s])
        BY DEF RotationInv, FreshIsFresh, FreshRequests, TypeOK, RequestType
    <3> QED BY <1>3, <2>3, <2>4, <3>1, <3>2 DEF Carries, SessionOf
  <2>5. SessionOf(r)' = IF arg[r] = None THEN t ELSE origin[arg[r]]
      BY <1>1, <1>3 DEF SessionOf, TypeOK, RequestType
  <2>6. CASE arg[r] = None
    <3>1. \A x \in Tokens : Minted(x) => origin[x] # t
        BY <1>3, <2>3
    <3>2. \A s \in Requests \ {r} : Carries(s)' => SessionOf(s)' # t
        BY <1>3, <2>4
    <3>3. \A k \in live : origin[k.token] # t
        BY <2>2, <3>1
    <3> QED BY <1>1, <2>1, <2>2, <2>4, <2>5, <2>6, <3>2, <3>3 DEF OnePlace, store
  <2>7. CASE arg[r] # None
    <3>1. Carries(r) /\ SessionOf(r) = SessionOf(r)'
        BY <1>1, <2>5, <2>7 DEF Carries, SessionOf
    <3> QED BY <1>1, <2>1, <2>2, <2>4, <3>1 DEF OnePlace, store
  <2> QED BY <2>6, <2>7
<1> QED BY <1>1, <1>4, <1>5 DEF RotationInv, store

\* Save puts the session down where the request carried it.
LEMMA RotationSave ==
    ASSUME TypeOK, RotationInv, NEW r \in Requests, Save(r)
    PROVE  RotationInv'
<1> DEFINE key == Key(fresh[r], read[r])
<1>1. /\ stage[r] = "save" /\ fresh[r] \in Tokens /\ Minted(fresh[r])
      /\ live' = live \cup {key} /\ key.token = fresh[r]
      /\ issued' \subseteq issued \cup {fresh[r]}
      /\ UNCHANGED <<expiry, origin, reused>>
    BY DEF Save, Key, ends, RotationInv, FreshIsFresh, FreshOrigins, FreshStore, FreshRequests,
           TypeOK, RequestType
<1>2. /\ stage'[r] = "idle" /\ arg'[r] = None
      /\ \A s \in Requests \ {r} : /\ stage'[s] = stage[s] /\ arg'[s] = arg[s]
                                   /\ fresh'[s] = fresh[s]
    BY DEF Save, End, TypeOK, RequestType
<1> HIDE DEF key
<1>3. FreshIsFresh'
  <2>1. FreshOrigins'
      BY <1>1 DEF RotationInv, FreshIsFresh, FreshOrigins, FreshStore, FreshRequests, Minted
  <2>2. FreshStore'
      BY <1>1 DEF RotationInv, FreshIsFresh, FreshOrigins, FreshStore, FreshRequests, Minted
  <2>3. FreshRequests'
      BY <1>1, <1>2 DEF RotationInv, FreshIsFresh, FreshOrigins, FreshStore,
                        FreshRequests, Minted
  <2> QED BY <2>1, <2>2, <2>3 DEF FreshIsFresh
<1>4. OnePlace'
  <2>1. OnePlace
      BY DEF RotationInv
  <2>2. Carries(r) /\ SessionOf(r) = origin[fresh[r]]
      BY <1>1 DEF Carries, SessionOf
  <2>3. ~Carries(r)'
      BY <1>2 DEF Carries
  <2>4. \A s \in Requests \ {r} : Carries(s)' => Carries(s) /\ SessionOf(s)' = SessionOf(s)
      BY <1>1, <1>2 DEF Carries, SessionOf
  <2> QED BY <1>1, <2>1, <2>2, <2>3, <2>4 DEF OnePlace
<1> QED BY <1>1, <1>3, <1>4 DEF RotationInv

\* The script picks the session up from the key it deletes.
LEMMA RotationConsume ==
    ASSUME TypeOK, RotationInv, NEW r \in Requests, ConsumeValid(r)
    PROVE  RotationInv'
<1> DEFINE key == Key(arg[r], read[r])
<1>1. /\ key \in live /\ live' = live \ {key} /\ key.token = arg[r] /\ arg[r] # None
      /\ UNCHANGED <<expiry, origin, issued, arg, fresh, reused>>
      /\ stage[r] = "consume" /\ stage' = [stage EXCEPT ![r] = "reload"]
    BY DEF ConsumeValid, Spent, Key, Go, pairs, ends, RotationInv, FreshIsFresh, FreshOrigins,
           FreshStore, FreshRequests
<1> HIDE DEF key
<1>2. FreshIsFresh'
    BY <1>1 DEF RotationInv, FreshIsFresh, FreshOrigins, FreshStore, FreshRequests,
                Minted, TypeOK, RequestType
<1>3. OnePlace'
  <2>1. OnePlace
      BY DEF RotationInv
  <2>2. SessionOf(r)' = origin[key.token]
      BY <1>1 DEF SessionOf, TypeOK, RequestType
  <2>3. \A s \in Requests \ {r} : Carries(s)' => Carries(s) /\ SessionOf(s)' = SessionOf(s)
      BY <1>1 DEF Carries, SessionOf, TypeOK, RequestType
  <2> QED BY <1>1, <2>1, <2>2, <2>3 DEF OnePlace
<1> QED BY <1>2, <1>3 DEF RotationInv

\* Every step keeps a session in one place.
LEMMA RotationNext == TypeOK /\ RotationInv /\ [Next]_vars => RotationInv'
<1> SUFFICES ASSUME TypeOK, RotationInv, [Next]_vars PROVE RotationInv'
    OBVIOUS
<1>1. CASE UNCHANGED vars \/ Tick
    BY <1>1 DEF vars, Tick, store, pairs, request, ends, RotationInv, FreshIsFresh,
                FreshOrigins, FreshStore, FreshRequests, OnePlace,
                Minted, Carries, SessionOf
<1>2. ASSUME NEW r \in Requests, Start(r) PROVE RotationInv'
  <2>1. CASE BeginLogin(r) \/ BeginDelete(r)
      BY <2>1, RotationKeep DEF BeginLogin, BeginDelete, Begin, Carries, store, pairs, ends,
                                TypeOK, RequestType
  <2>2. ASSUME NEW t \in Tokens, BeginRefresh(r, t) \/ BeginLogout(r, t)
        PROVE  RotationInv'
    <3>1. Minted(t)
        BY <2>2 DEF BeginRefresh, BeginLogout, RotationInv, FreshIsFresh, FreshOrigins,
                    FreshStore, FreshRequests
    <3> QED BY <2>2, <3>1, RotationKeep, SessionsAssumption
            DEF BeginRefresh, BeginLogout, Begin, Carries, Minted, store, pairs, ends,
                TypeOK, RequestType
  <2>3. CASE LogoutAll(r)
      BY <2>3 DEF LogoutAll, RevokeAll, pairs, request, ends, RotationInv, FreshIsFresh,
                  FreshOrigins, FreshStore, FreshRequests, OnePlace,
                  Minted, Carries, SessionOf
  <2> QED BY <1>2, <2>1, <2>2, <2>3 DEF Start
<1>3. ASSUME NEW r \in Requests, Continue(r) PROVE RotationInv'
  <2>1. CASE TouchLogin(r)
      BY <2>1, RotationKeep DEF TouchLogin, Go, Carries, store, pairs, ends, TypeOK, RequestType,
                                RotationInv, FreshIsFresh, FreshOrigins, FreshStore,
                                FreshRequests
  <2>2. CASE ConsumeJustRotated(r)
    <3>1. /\ stage[r] = "consume" /\ stage' = [stage EXCEPT ![r] = "reload"]
          /\ arg[r] # None /\ Minted(arg[r]) /\ SessionOf(r)' \in reused'
          /\ UNCHANGED <<live, expiry, origin, issued, arg, fresh>>
        BY <2>2 DEF ConsumeJustRotated, Go, store, pairs, SessionOf, RotationInv,
                    FreshIsFresh, FreshRequests, TypeOK, RequestType
    <3>2. reused \subseteq reused'
        BY <2>2 DEF ConsumeJustRotated
    <3> QED BY <3>1, <3>2, RotationKeep DEF Carries, Minted, TypeOK, RequestType
  <2>3. CASE ConsumeUnknown(r)
      BY <2>3, RotationKeep DEF ConsumeUnknown, Go, Carries, Minted, store, pairs, ends, TypeOK,
                                RequestType, RotationInv, FreshIsFresh, FreshOrigins,
                                FreshStore, FreshRequests
  <2>4. CASE ReloadAccount(r)
      BY <2>4, RotationKeep DEF ReloadAccount, Go, Carries, SessionOf, Minted, store, pairs, ends,
                                TypeOK, RequestType, RotationInv, FreshIsFresh,
                                FreshOrigins, FreshStore, FreshRequests
  <2>5. CASE RevokeClosed(r)
      BY <2>5, RotationKeep DEF RevokeClosed, RevokeAll, Go, Carries, Minted, pairs, TypeOK,
                                RequestType, RotationInv, FreshIsFresh, FreshOrigins,
                                FreshStore, FreshRequests
  <2>6. CASE BlockAccess(r)
      BY <2>6, RotationKeep DEF BlockAccess, Go, Carries, Minted, pairs, ends, TypeOK,
                                RequestType,
                                RotationInv, FreshIsFresh, FreshOrigins, FreshStore,
                                FreshRequests
  <2>7. CASE RevokeReplayed(r) \/ RefuseDeleted(r) \/ CommitDelete(r) \/ Abandon(r)
    <3>1. /\ End(r) /\ live' = live /\ reused' = reused
          /\ UNCHANGED <<expiry, origin, issued>>
        BY <2>7 DEF RevokeReplayed, RefuseDeleted, CommitDelete, Abandon, RevokeAll,
                    store, pairs, ends
    <3> QED BY <3>1, RotationKeep DEF End, Carries, TypeOK, RequestType
  <2>8. CASE Drop(r)
      BY <2>8, RotationKeep DEF Drop, Dropped, End, Carries, pairs, TypeOK, RequestType
  <2> QED BY <1>3, <2>1, <2>2, <2>3, <2>4, <2>5, <2>6, <2>7, <2>8, RotationIssue,
             RotationSave, RotationConsume DEF Continue
<1> QED BY <1>1, <1>2, <1>3 DEF Next

\* A session forks only where a spent token was honoured: however refreshes,
\* sign-outs and revocations interleave, Consume hands it to one presenter.
THEOREM NoFork == Spec => []OneTokenPerSession
<1>1. RotationInv => OneTokenPerSession
    BY DEF RotationInv, OnePlace, OneTokenPerSession
<1> QED BY <1>1, TypeInit, TypeNext, RotationInit, RotationNext, PTL DEF Spec

-----------------------------------------------------------------------------
(* What outlives a revocation.                                              *)

\* A session that may go on: it was not open at a revocation, or a refresh was
\* rotating it at the last one.
Excused(o) == o \in revoked => o \in overtaken

\* A session is revoked after it began, and no marker is of a generation to come.
RevokedBegan ==
    /\ \A o \in revoked : Minted(o)
    /\ \A m \in rotated : Minted(m.key.token) /\ m.key.gen <= generation

\* Whatever opens a session under the current generation is of an excused one.
StoreExcused ==
    /\ \A k \in live : k.gen = generation => Excused(origin[k.token])
    /\ \A m \in rotated : m.key.gen = generation => Excused(origin[m.key.token])

\* So is what a request carries, unless a revocation has come since it read the
\* generation: then it was overtaken.
RequestExcused(r) ==
    /\ stage[r] = "consume" /\ read[r] # generation => origin[arg[r]] \in overtaken
    /\ stage[r] \in {"reload", "issue"} /\ arg[r] # None => Excused(origin[arg[r]])
    /\ stage[r] = "save" /\ read[r] = generation => Excused(origin[fresh[r]])

SurvivalInv == RevokedBegan /\ StoreExcused /\ \A r \in Requests : RequestExcused(r)

\* Nothing was revoked in the empty store.
LEMMA SurvivalInit == Init => SurvivalInv
BY DEF Init, SurvivalInv, RevokedBegan, StoreExcused, RequestExcused

\* A step that revokes, mints and stores nothing excuses what it did before, if
\* the request that takes it is still in order.
LEMMA SurvivalKeep ==
    ASSUME TypeOK, SurvivalInv, NEW r \in Requests,
           UNCHANGED <<generation, expiry, origin, revoked, overtaken>>,
           live' \subseteq live, rotated' \subseteq rotated,
           \A s \in Requests \ {r} : /\ stage'[s] = stage[s] /\ arg'[s] = arg[s]
                                     /\ read'[s] = read[s] /\ fresh'[s] = fresh[s],
           RequestExcused(r)'
    PROVE  SurvivalInv'
<1>1. RevokedBegan'
    BY DEF SurvivalInv, RevokedBegan, Minted
<1>2. StoreExcused'
    BY DEF SurvivalInv, StoreExcused, Excused
<1>3. ASSUME NEW s \in Requests PROVE RequestExcused(s)'
  <2>1. CASE s = r
      BY <2>1
  <2>2. CASE s # r
      BY <2>2 DEF SurvivalInv, RequestExcused, Excused
  <2> QED BY <2>1, <2>2
<1> QED BY <1>1, <1>2, <1>3 DEF SurvivalInv

\* A revocation leaves no key and no marker under the new generation, and
\* overtakes every refresh that is under way.
LEMMA SurvivalRevoke ==
    ASSUME TypeOK, FreshIsFresh, GenerationsReached, SurvivalInv, NEW r \in Requests,
           RevokeAll, UNCHANGED <<expiry, origin>>,
           \A s \in Requests : \/ /\ stage'[s] = stage[s] /\ arg'[s] = arg[s]
                                  /\ read'[s] = read[s] /\ fresh'[s] = fresh[s]
                               \/ stage'[s] \in {"idle", "block"}
    PROVE  SurvivalInv'
<1> USE DEF TypeOK, StoreType, RequestType
<1>1. /\ generation' = generation + 1 /\ live' = live /\ rotated' = rotated
      /\ revoked' = revoked \cup {origin[t] : t \in issued}
      /\ \A s \in Requests : Rotating(s) => origin[arg[s]] \in overtaken'
    BY DEF RevokeAll
<1>2. RevokedBegan'
  <2>1. \A o \in revoked' : Minted(o)
      BY <1>1 DEF SurvivalInv, RevokedBegan, FreshIsFresh, FreshStore, FreshOrigins
  <2>2. \A m \in rotated : m.key.gen \in Nat
      BY DEF Keys
  <2> QED BY <1>1, <2>1, <2>2 DEF SurvivalInv, RevokedBegan, Minted
<1>3. StoreExcused'
  <2>1. \A k \in live : k.gen \in Nat /\ k.gen <= generation
      BY DEF Keys, GenerationsReached
  <2>2. \A m \in rotated : m.key.gen \in Nat /\ m.key.gen <= generation
      BY DEF Keys, SurvivalInv, RevokedBegan
  <2> QED BY <1>1, <2>1, <2>2 DEF StoreExcused
<1>4. ASSUME NEW s \in Requests PROVE RequestExcused(s)'
  <2>1. read[s] \in Nat /\ read[s] <= generation
      BY DEF GenerationsReached
  <2>2. stage[s] = "consume" => arg[s] # None
      BY SessionsAssumption
  <2> QED BY <1>1, <2>1, <2>2 DEF RequestExcused, Excused, Rotating
<1> QED BY <1>2, <1>3, <1>4 DEF SurvivalInv

\* A minted token belongs to the session the request carries, or begins one, and
\* no session that is still to begin was revoked.
LEMMA SurvivalIssue ==
    ASSUME TypeOK, FreshIsFresh, SurvivalInv, NEW r \in Requests, Issue(r)
    PROVE  SurvivalInv'
<1> USE DEF TypeOK, StoreType, RequestType
<1>1. PICK t \in Tokens :
          /\ stage[r] = "issue" /\ expiry[t] = 0
          /\ expiry' = [expiry EXCEPT ![t] = now + AccessTTL]
          /\ origin' = [origin EXCEPT ![t] = IF arg[r] = None THEN t ELSE origin[arg[r]]]
          /\ stage' = [stage EXCEPT ![r] = "save"]
          /\ read' = [read EXCEPT ![r] = generation]
          /\ fresh' = [fresh EXCEPT ![r] = t]
          /\ UNCHANGED <<generation, live, rotated, arg, revoked, overtaken>>
    BY DEF Issue, ends, store
<1>2. now + AccessTTL # 0
    BY SessionsAssumption
<1>3. /\ \A x \in Tokens : Minted(x) => Minted(x)' /\ x # t /\ origin'[x] = origin[x]
      /\ ~Minted(t)
      /\ origin'[t] = IF arg[r] = None THEN t ELSE origin[arg[r]]
    BY <1>1, <1>2 DEF Minted
<1>4. RevokedBegan'
    BY <1>1, <1>3 DEF SurvivalInv, RevokedBegan, Keys
<1>5. StoreExcused'
  <2>1. \A k \in live : k.token \in Tokens /\ Minted(k.token)
      BY DEF FreshIsFresh, FreshStore, Keys
  <2>2. \A m \in rotated : m.key.token \in Tokens /\ Minted(m.key.token)
      BY DEF SurvivalInv, RevokedBegan, Keys
  <2> QED BY <1>1, <1>3, <2>1, <2>2 DEF SurvivalInv, StoreExcused, Excused
<1>6. ASSUME NEW s \in Requests PROVE RequestExcused(s)'
  <2>1. CASE s = r
    <3>1. t \notin revoked
        BY <1>3 DEF SurvivalInv, RevokedBegan
    <3>2. arg[r] # None => Excused(origin[arg[r]])
        BY <1>1 DEF SurvivalInv, RequestExcused
    <3> QED BY <1>1, <1>3, <2>1, <3>1, <3>2 DEF RequestExcused, Excused
  <2>2. CASE s # r
    <3>1. /\ stage'[s] = stage[s] /\ arg'[s] = arg[s]
          /\ read'[s] = read[s] /\ fresh'[s] = fresh[s]
        BY <1>1, <2>2
    <3>2. /\ stage[s] = "save" => fresh[s] \in Tokens /\ Minted(fresh[s])
          /\ arg[s] # None => arg[s] \in Tokens /\ Minted(arg[s])
          /\ stage[s] = "consume" => arg[s] # None
        BY DEF FreshIsFresh, FreshRequests
    <3>3. /\ stage[s] = "save" => origin'[fresh[s]] = origin[fresh[s]]
          /\ arg[s] # None => origin'[arg[s]] = origin[arg[s]]
        BY <1>3, <3>2
    <3> QED BY <1>1, <3>1, <3>2, <3>3 DEF SurvivalInv, RequestExcused, Excused
  <2> QED BY <2>1, <2>2
<1> QED BY <1>4, <1>5, <1>6 DEF SurvivalInv

\* The token is stored under the generation that was read for it.
LEMMA SurvivalSave ==
    ASSUME TypeOK, FreshIsFresh, SurvivalInv, NEW r \in Requests, Save(r)
    PROVE  SurvivalInv'
<1> USE DEF TypeOK, StoreType, RequestType
<1> DEFINE key == Key(fresh[r], read[r])
<1>1. /\ stage[r] = "save" /\ live' = live \cup {key}
      /\ key.token = fresh[r] /\ key.gen = read[r]
      /\ UNCHANGED <<generation, rotated, expiry, origin, revoked, overtaken>>
    BY DEF Save, Key, ends
<1>2. /\ stage'[r] = "idle"
      /\ \A s \in Requests \ {r} : /\ stage'[s] = stage[s] /\ arg'[s] = arg[s]
                                   /\ read'[s] = read[s] /\ fresh'[s] = fresh[s]
    BY DEF Save, End
<1> HIDE DEF key
<1>3. RevokedBegan'
    BY <1>1 DEF SurvivalInv, RevokedBegan, Minted
<1>4. StoreExcused'
  <2>1. key.gen = generation => Excused(origin[key.token])
      BY <1>1 DEF SurvivalInv, RequestExcused
  <2> QED BY <1>1, <2>1 DEF SurvivalInv, StoreExcused, Excused
<1>5. ASSUME NEW s \in Requests PROVE RequestExcused(s)'
  <2>1. CASE s = r
      BY <1>2, <2>1 DEF RequestExcused
  <2>2. CASE s # r
      BY <1>1, <1>2, <2>2 DEF SurvivalInv, RequestExcused, Excused
  <2> QED BY <2>1, <2>2
<1> QED BY <1>3, <1>4, <1>5 DEF SurvivalInv

\* A token that was found, or its marker, excuses the request that found it.
LEMMA SurvivalConsume ==
    ASSUME TypeOK, FreshIsFresh, GenerationsReached, SurvivalInv, NEW r \in Requests,
           ConsumeValid(r) \/ ConsumeJustRotated(r)
    PROVE  SurvivalInv'
<1> USE DEF TypeOK, StoreType, RequestType
<1> DEFINE key == Key(arg[r], read[r])
<1>1. /\ stage[r] = "consume" /\ stage' = [stage EXCEPT ![r] = "reload"]
      /\ UNCHANGED <<generation, expiry, origin, revoked, overtaken, arg, read, fresh>>
      /\ live' \subseteq live
    BY DEF ConsumeValid, ConsumeJustRotated, Go, Spent, store, pairs, ends
<1>2. key.token = arg[r] /\ key.gen = read[r]
    BY DEF Key
<1>3. \/ key \in live
      \/ \E m \in rotated : m.key = key
    BY DEF ConsumeValid, ConsumeJustRotated, Marked
<1>4. \/ rotated' = rotated
      \/ key \in live /\ rotated' = rotated \cup {[key |-> key, until |-> now + Grace]}
    BY DEF ConsumeValid, ConsumeJustRotated, store
<1> HIDE DEF key
<1>5. Excused(origin[arg[r]])
    BY <1>1, <1>2, <1>3 DEF SurvivalInv, StoreExcused, RequestExcused, Excused
<1>6. RevokedBegan'
    BY <1>1, <1>4 DEF SurvivalInv, RevokedBegan, Minted, FreshIsFresh, FreshStore,
                      GenerationsReached
<1>7. StoreExcused'
    BY <1>1, <1>4 DEF SurvivalInv, StoreExcused, Excused
<1>8. ASSUME NEW s \in Requests PROVE RequestExcused(s)'
  <2>1. CASE s = r
      BY <1>1, <1>5, <2>1 DEF RequestExcused, Excused
  <2>2. CASE s # r
      BY <1>1, <2>2 DEF SurvivalInv, RequestExcused, Excused
  <2> QED BY <2>1, <2>2
<1> QED BY <1>6, <1>7, <1>8 DEF SurvivalInv

\* Every step leaves alive only what is excused.
LEMMA SurvivalNext ==
    TypeOK /\ FreshIsFresh /\ GenerationsReached /\ SurvivalInv /\ [Next]_vars => SurvivalInv'
<1> SUFFICES ASSUME TypeOK, FreshIsFresh, GenerationsReached, SurvivalInv, [Next]_vars
             PROVE  SurvivalInv'
    OBVIOUS
<1>1. CASE UNCHANGED vars \/ Tick
    BY <1>1 DEF vars, Tick, store, pairs, request, ends, SurvivalInv, RevokedBegan,
                StoreExcused, RequestExcused, Excused, Minted
<1>2. ASSUME NEW r \in Requests, Start(r) PROVE SurvivalInv'
  <2>1. CASE BeginLogin(r) \/ BeginDelete(r)
    <3>1. RequestExcused(r)'
        BY <2>1 DEF BeginLogin, BeginDelete, Begin, RequestExcused, TypeOK, RequestType
    <3> QED BY <2>1, <3>1, SurvivalKeep
            DEF BeginLogin, BeginDelete, Begin, store, pairs, ends, TypeOK, RequestType
  <2>2. CASE LogoutAll(r)
      BY <2>2, SurvivalRevoke DEF LogoutAll, pairs, request
  <2>3. ASSUME NEW t \in Tokens, BeginRefresh(r, t) \/ BeginLogout(r, t)
        PROVE  SurvivalInv'
    <3>1. RequestExcused(r)'
        BY <2>3 DEF BeginRefresh, BeginLogout, Begin, RequestExcused, store, TypeOK,
                    RequestType
    <3> QED BY <2>3, <3>1, SurvivalKeep
            DEF BeginRefresh, BeginLogout, Begin, store, pairs, ends, TypeOK, RequestType
  <2> QED BY <1>2, <2>1, <2>2, <2>3 DEF Start
<1>3. ASSUME NEW r \in Requests, Continue(r) PROVE SurvivalInv'
  <2>1. CASE TouchLogin(r)
    <3>1. RequestExcused(r)'
        BY <2>1 DEF TouchLogin, Go, RequestExcused, TypeOK, RequestType, FreshIsFresh,
                    FreshRequests
    <3> QED BY <2>1, <3>1, SurvivalKeep
            DEF TouchLogin, Go, store, pairs, ends, TypeOK, RequestType
  <2>2. CASE ReloadAccount(r)
    <3>1. RequestExcused(r)'
        BY <2>2 DEF ReloadAccount, Go, RequestExcused, Excused, SurvivalInv, store, pairs,
                    ends, TypeOK, RequestType
    <3> QED BY <2>2, <3>1, SurvivalKeep
            DEF ReloadAccount, Go, store, pairs, ends, TypeOK, RequestType
  <2>3. CASE ConsumeUnknown(r) \/ BlockAccess(r)
    <3>1. RequestExcused(r)'
        BY <2>3 DEF ConsumeUnknown, BlockAccess, Go, RequestExcused, TypeOK, RequestType
    <3> QED BY <2>3, <3>1, SurvivalKeep
            DEF ConsumeUnknown, BlockAccess, Go, store, pairs, ends, TypeOK, RequestType
  <2>4. CASE RefuseDeleted(r) \/ CommitDelete(r) \/ Abandon(r) \/ Drop(r)
    <3>1. End(r) /\ live' \subseteq live
          /\ UNCHANGED <<generation, rotated, expiry, origin, revoked, overtaken>>
        BY <2>4 DEF RefuseDeleted, CommitDelete, Abandon, Drop, Dropped, store, pairs, ends
    <3>2. RequestExcused(r)'
        BY <3>1 DEF End, RequestExcused, TypeOK, RequestType
    <3> QED BY <3>1, <3>2, SurvivalKeep DEF End, TypeOK, RequestType
  <2>5. CASE RevokeReplayed(r) \/ RevokeClosed(r)
    <3>1. \A s \in Requests : \/ /\ stage'[s] = stage[s] /\ arg'[s] = arg[s]
                                 /\ read'[s] = read[s] /\ fresh'[s] = fresh[s]
                              \/ stage'[s] \in {"idle", "block"}
        BY <2>5 DEF RevokeReplayed, RevokeClosed, End, Go, TypeOK, RequestType
    <3> QED BY <2>5, <3>1, SurvivalRevoke DEF RevokeReplayed, RevokeClosed, pairs
  <2> QED BY <1>3, <2>1, <2>2, <2>3, <2>4, <2>5, SurvivalIssue, SurvivalSave,
             SurvivalConsume DEF Continue
<1> QED BY <1>1, <1>2, <1>3 DEF Next

\* For any number of requests, the only sessions to outlive a revocation are those
\* a refresh, already past its read of the generation, was rotating when it came.
THEOREM OnlyTheOvertakenSurvive == Spec => []OnlyOvertakenSurvive
<1>1. Init => GenerationsReached
    BY DEF Init, GenerationsReached
<1>2. SurvivalInv => OnlyOvertakenSurvive
    BY DEF SurvivalInv, StoreExcused, Excused, OnlyOvertakenSurvive, Usable, Key
<1>3. RotationInv => FreshIsFresh
    BY DEF RotationInv
<1> QED BY <1>1, <1>2, <1>3, TypeInit, TypeNext, RotationInit, RotationNext,
           GenerationsNext, SurvivalInit, SurvivalNext, PTL DEF Spec

-----------------------------------------------------------------------------
(* Closing the account, one request at a time.                              *)

OneRequest == \A p, q \in Requests : p = q

\* No access token outlives the clock by more than its life; from the block on
\* none outlives the block; and nobody mints one for a closed account.
ClosingInv ==
    /\ \A t \in Tokens : expiry[t] <= now + AccessTTL
    /\ \A r \in Requests : stage[r] = "commit" => \A t \in Tokens : expiry[t] <= blockedUntil
    /\ deleted => /\ \A t \in Tokens : expiry[t] <= blockedUntil
                  /\ \A r \in Requests : stage[r] \notin {"touch", "issue", "save"}

\* A step that mints nothing, leaves the block and the row alone and does not
\* lead to a commit changes none of it.
LEMMA ClosingKeep ==
    ASSUME TypeOK, ClosingInv, NEW r \in Requests,
           UNCHANGED <<expiry, blockedUntil, deleted>>, now' = now,
           \A s \in Requests \ {r} : stage'[s] = stage[s],
           stage'[r] # "commit",
           deleted => stage'[r] \notin {"touch", "issue", "save"}
    PROVE  ClosingInv'
BY SessionsAssumption DEF ClosingInv, TypeOK, StoreType, RequestType

\* One request at a time, every step keeps the tokens of a closed account
\* within the block.
LEMMA ClosingNext ==
    ASSUME OneRequest PROVE TypeOK /\ ClosingInv /\ [Next]_vars => ClosingInv'
<1> SUFFICES ASSUME TypeOK, ClosingInv, [Next]_vars PROVE ClosingInv'
    OBVIOUS
<1> USE SessionsAssumption
<1>1. CASE UNCHANGED vars
    BY <1>1 DEF vars, store, row, pairs, request, ClosingInv
<1>2. CASE Tick
    BY <1>2 DEF Tick, row, pairs, request, ClosingInv, TypeOK, StoreType
<1>3. ASSUME NEW r \in Requests, Start(r) PROVE ClosingInv'
  <2>1. ASSUME NEW t \in Tokens, BeginRefresh(r, t) \/ BeginLogout(r, t)
        PROVE  ClosingInv'
      BY <2>1, ClosingKeep DEF BeginRefresh, BeginLogout, Begin, store, row, pairs, TypeOK,
                               RequestType
  <2>2. CASE BeginLogin(r) \/ BeginDelete(r)
      BY <2>2, ClosingKeep DEF BeginLogin, BeginDelete, Begin, store, row, pairs, TypeOK,
                               RequestType
  <2>3. CASE LogoutAll(r)
      BY <2>3 DEF LogoutAll, row, pairs, request, ClosingInv
  <2> QED BY <1>3, <2>1, <2>2, <2>3 DEF Start
<1>4. ASSUME NEW r \in Requests, Continue(r) PROVE ClosingInv'
  <2>1. CASE \/ TouchLogin(r) \/ ConsumeValid(r) \/ ConsumeJustRotated(r)
             \/ ConsumeUnknown(r) \/ ReloadAccount(r) \/ RevokeClosed(r)
    <3>1. /\ UNCHANGED <<expiry, blockedUntil, deleted, now>>
          /\ \A s \in Requests \ {r} : stage'[s] = stage[s]
          /\ stage'[r] \notin {"commit", "touch", "save"}
          /\ stage'[r] = "issue" => ~deleted
        BY <2>1 DEF TouchLogin, ConsumeValid, ConsumeJustRotated, ConsumeUnknown,
                    ReloadAccount, RevokeClosed, Go, store, row, pairs, TypeOK, RequestType,
                    ClosingInv
    <3> QED BY <3>1, ClosingKeep
  <2>2. CASE RevokeReplayed(r) \/ RefuseDeleted(r) \/ Drop(r) \/ Abandon(r) \/ Save(r)
    <3>1. /\ UNCHANGED <<expiry, blockedUntil, deleted, now>>
          /\ End(r)
        BY <2>2 DEF RevokeReplayed, RefuseDeleted, Drop, Abandon, Save, store, row, pairs
    <3> QED BY <3>1, ClosingKeep DEF End, TypeOK, RequestType
  <2>3. CASE Issue(r)
    <3>1. ~deleted /\ \A s \in Requests : stage[s] # "commit" /\ stage'[s] # "commit"
        BY <2>3 DEF Issue, ClosingInv, OneRequest, TypeOK, RequestType
    <3>2. \A t \in Tokens : expiry'[t] <= now + AccessTTL
        BY <2>3 DEF Issue, ClosingInv, TypeOK, StoreType
    <3>3. now' = now /\ deleted' = deleted
        BY <2>3 DEF Issue, row
    <3> QED BY <3>1, <3>2, <3>3 DEF ClosingInv
  <2>4. CASE BlockAccess(r)
    <3>1. /\ blockedUntil' = now + AccessTTL /\ UNCHANGED <<expiry, deleted, now>>
          /\ \A s \in Requests : stage'[s] = "commit" \/ stage'[s] = stage[s]
        BY <2>4 DEF BlockAccess, BlockFor, Go, row, pairs, TypeOK, RequestType
    <3> QED BY <3>1 DEF ClosingInv
  <2>5. CASE CommitDelete(r)
    <3>1. /\ UNCHANGED <<expiry, blockedUntil, now>>
          /\ \A t \in Tokens : expiry[t] <= blockedUntil
          /\ \A s \in Requests : stage'[s] = "idle"
        BY <2>5 DEF CommitDelete, End, store, pairs, ClosingInv, OneRequest, TypeOK,
                    RequestType
    <3> QED BY <3>1 DEF ClosingInv
  <2> QED BY <1>4, <2>1, <2>2, <2>3, <2>4, <2>5 DEF Continue
<1> QED BY <1>1, <1>2, <1>3, <1>4 DEF Next

\* One request at a time, cut off anywhere, the API believes no access token of a
\* closed account: DeleteAccount blocks for as long as any token can still live.
THEOREM ClosedAccountIsClosed == ASSUME OneRequest PROVE Spec => []ClosedIsClosed
<1>1. Init => ClosingInv
    BY SessionsAssumption DEF Init, ClosingInv
<1>2. TypeOK /\ ClosingInv => ClosedIsClosed
    BY DEF ClosingInv, ClosedIsClosed, Believed, Blocked, TypeOK, StoreType
<1> QED BY <1>1, <1>2, ClosingNext, TypeInit, TypeNext, PTL DEF Spec

-----------------------------------------------------------------------------
(* Signing out, one request at a time.                                      *)

\* A request acts under the generation it read, on a token a client holds, and
\* mints one that no client holds yet.
Punctual(r) ==
    /\ stage[r] \in {"consume", "drop", "save"} => read[r] = generation
    /\ stage[r] \in {"consume", "drop"} => arg[r] \in issued
    /\ stage[r] = "save" => fresh[r] \notin issued

\* Of the tokens of a session that clients hold only the last opens it, unless a
\* spent one was honoured.
LatestOpens ==
    \A t \in issued : Usable(t) => t = latest[origin[t]] \/ origin[t] \in reused

\* No request brings back a session that was signed out, with the same exception.
StaysOut(r) == Carries(r) /\ SessionOf(r) \in signedOut => SessionOf(r) \in reused

SignOutInv ==
    /\ \A r \in Requests : Punctual(r) /\ StaysOut(r)
    /\ \A o \in signedOut : Minted(o)
    /\ LatestOpens
    /\ SignedOutUnlessReused

\* A step that answers nobody, mints, stores and signs out nothing keeps what was
\* signed out, if the one request that takes it is still in order.
LEMMA SignOutKeep ==
    ASSUME OneRequest, TypeOK, SignOutInv, NEW r \in Requests,
           UNCHANGED <<generation, expiry, origin, issued, latest, signedOut>>,
           live' \subseteq live, reused \subseteq reused',
           Punctual(r)', StaysOut(r)'
    PROVE  SignOutInv'
<1>1. \A s \in Requests : s = r
    BY DEF OneRequest
<1>2. \A s \in Requests : Punctual(s)' /\ StaysOut(s)'
    BY <1>1, Zenon
<1>3. LatestOpens' /\ SignedOutUnlessReused'
    BY DEF SignOutInv, LatestOpens, SignedOutUnlessReused, Usable, Key
<1>4. \A o \in signedOut' : Minted(o)'
    BY DEF SignOutInv, Minted
<1> QED BY <1>2, <1>3, <1>4 DEF SignOutInv

\* A revocation leaves no token that opens a session.
LEMMA SignOutRevoke ==
    ASSUME OneRequest, TypeOK, GenerationsReached, SignOutInv, NEW r \in Requests,
           RevokeAll, UNCHANGED <<expiry, origin, issued, latest, signedOut, reused>>,
           stage'[r] \in {"idle", "block"}
    PROVE  SignOutInv'
<1> USE DEF TypeOK, StoreType
<1>1. \A t \in Tokens : ~Usable(t)'
    BY DEF RevokeAll, GenerationsReached, Usable, Key
<1>2. \A s \in Requests : s = r
    BY DEF OneRequest
<1>3. LatestOpens' /\ SignedOutUnlessReused'
    BY <1>1 DEF LatestOpens, SignedOutUnlessReused
<1>4. \A s \in Requests : Punctual(s)' /\ StaysOut(s)'
    BY <1>2 DEF Punctual, StaysOut, Carries
<1>5. \A o \in signedOut' : Minted(o)'
    BY DEF SignOutInv, Minted
<1> QED BY <1>3, <1>4, <1>5 DEF SignOutInv

\* A minted token was answered to nobody, and begins no session signed out before.
LEMMA SignOutIssue ==
    ASSUME OneRequest, TypeOK, RotationInv, SignOutInv, NEW r \in Requests, Issue(r)
    PROVE  SignOutInv'
<1> USE DEF TypeOK, StoreType, RequestType
<1>1. PICK t \in Tokens :
          /\ stage[r] = "issue" /\ expiry[t] = 0
          /\ expiry' = [expiry EXCEPT ![t] = now + AccessTTL]
          /\ origin' = [origin EXCEPT ![t] = IF arg[r] = None THEN t ELSE origin[arg[r]]]
          /\ stage' = [stage EXCEPT ![r] = "save"]
          /\ read' = [read EXCEPT ![r] = generation]
          /\ fresh' = [fresh EXCEPT ![r] = t]
          /\ UNCHANGED <<generation, live, issued, latest, arg, signedOut, reused>>
    BY DEF Issue, ends, store
<1>2. now + AccessTTL # 0
    BY SessionsAssumption
<1>3. /\ \A x \in Tokens : Minted(x) => Minted(x)' /\ x # t /\ origin'[x] = origin[x]
      /\ ~Minted(t)
      /\ origin'[t] = IF arg[r] = None THEN t ELSE origin[arg[r]]
    BY <1>1, <1>2 DEF Minted
<1>4. \A x \in issued : x \in Tokens /\ Minted(x)
    BY DEF RotationInv, FreshIsFresh, FreshStore
<1>5. \A s \in Requests : s = r
    BY DEF OneRequest
<1>6. LatestOpens' /\ SignedOutUnlessReused'
    BY <1>1, <1>3, <1>4 DEF SignOutInv, LatestOpens, SignedOutUnlessReused, Usable, Key
<1>7. Punctual(r)'
    BY <1>1, <1>3, <1>4 DEF Punctual
<1>8. t \notin signedOut
    BY <1>3 DEF SignOutInv
<1>9. arg[r] # None => StaysOut(r) /\ Carries(r) /\ SessionOf(r) = origin[arg[r]]
    BY <1>1 DEF SignOutInv, Carries, SessionOf
<1>10. StaysOut(r)'
    BY <1>1, <1>3, <1>8, <1>9 DEF StaysOut, SessionOf
<1>11. \A o \in signedOut' : Minted(o)'
    BY <1>1, <1>3 DEF SignOutInv
<1> QED BY <1>5, <1>6, <1>7, <1>10, <1>11 DEF SignOutInv

\* The token saved is the last of its session: no other was left in the store.
LEMMA SignOutSave ==
    ASSUME OneRequest, TypeOK, RotationInv, SignOutInv, NEW r \in Requests, Save(r)
    PROVE  SignOutInv'
<1> USE DEF TypeOK, StoreType, RequestType
<1> DEFINE key == Key(fresh[r], read[r])
<1>1. /\ stage[r] = "save" /\ live' = live \cup {key} /\ key.token = fresh[r]
      /\ fresh[r] \in Tokens
      /\ UNCHANGED <<generation, expiry, origin, signedOut, reused>>
      /\ stage'[r] = "idle"
    BY DEF Save, Key, ends, End
<1>2. \/ /\ issued' = issued \cup {fresh[r]}
         /\ latest' = [latest EXCEPT ![origin[fresh[r]]] = fresh[r]]
      \/ UNCHANGED <<issued, latest>>
    BY DEF Save
<1> HIDE DEF key
<1>3. Carries(r) /\ SessionOf(r) = origin[fresh[r]] /\ fresh[r] \notin issued
    BY <1>1 DEF Carries, SessionOf, SignOutInv, Punctual
<1>4. ASSUME NEW t \in issued, Usable(t)' PROVE Usable(t)
    BY <1>1, <1>3, <1>4 DEF Usable, Key
<1>5. ASSUME NEW t \in issued, Usable(t), origin[t] = origin[fresh[r]]
      PROVE  origin[t] \in reused
    BY <1>3, <1>5 DEF Usable, Key, RotationInv, OnePlace
<1>6. origin[fresh[r]] \in signedOut => origin[fresh[r]] \in reused
    BY <1>3 DEF SignOutInv, StaysOut
<1>7. LatestOpens'
  <2>1. ASSUME NEW t \in issued', Usable(t)'
        PROVE  t = latest'[origin[t]] \/ origin[t] \in reused
    <3>1. CASE t \in issued /\ origin[t] = origin[fresh[r]]
        BY <1>4, <1>5, <2>1, <3>1
    <3>2. CASE t \in issued /\ origin[t] # origin[fresh[r]]
      <4>1. t = latest[origin[t]] \/ origin[t] \in reused
          BY <1>4, <2>1, <3>2 DEF SignOutInv, LatestOpens
      <4> QED BY <1>2, <3>2, <4>1
    <3>3. CASE t \notin issued
        BY <1>1, <1>2, <2>1, <3>3
    <3> QED BY <3>1, <3>2, <3>3
  <2> QED BY <1>1, <2>1 DEF LatestOpens
<1>8. SignedOutUnlessReused'
    BY <1>1, <1>2, <1>4, <1>6 DEF SignOutInv, SignedOutUnlessReused
<1>9. \A s \in Requests : s = r
    BY DEF OneRequest
<1>10. \A s \in Requests : Punctual(s)' /\ StaysOut(s)'
    BY <1>1, <1>9 DEF Punctual, StaysOut, Carries
<1>11. \A o \in signedOut' : Minted(o)'
    BY <1>1 DEF SignOutInv, Minted
<1> QED BY <1>7, <1>8, <1>10, <1>11 DEF SignOutInv

\* Dropping the last token of a session leaves none that opens it.
LEMMA SignOutDrop ==
    ASSUME OneRequest, TypeOK, RotationInv, SignOutInv, NEW r \in Requests, Drop(r)
    PROVE  SignOutInv'
<1> USE DEF TypeOK, StoreType, RequestType
<1>1. /\ stage[r] = "drop" /\ live' = live \ {Key(arg[r], generation)}
      /\ arg[r] \in issued /\ arg[r] \in Tokens
      /\ signedOut' = IF arg[r] = latest[origin[arg[r]]]
                      THEN signedOut \cup {origin[arg[r]]} ELSE signedOut
      /\ UNCHANGED <<generation, expiry, origin, issued, latest, reused>>
      /\ stage'[r] = "idle"
    BY DEF Drop, Dropped, End, SignOutInv, Punctual, pairs
<1>2. \A t \in issued : Usable(t)' => Usable(t) /\ t # arg[r]
    BY <1>1 DEF Usable, Key
<1>3. LatestOpens'
    BY <1>1, <1>2 DEF SignOutInv, LatestOpens
<1>4. SignedOutUnlessReused'
    BY <1>1, <1>2 DEF SignOutInv, SignedOutUnlessReused, LatestOpens
<1>5. \A s \in Requests : s = r
    BY DEF OneRequest
<1>6. \A s \in Requests : Punctual(s)' /\ StaysOut(s)'
    BY <1>1, <1>5 DEF Punctual, StaysOut, Carries
<1>7. Minted(origin[arg[r]])
    BY <1>1 DEF RotationInv, FreshIsFresh, FreshStore, FreshOrigins
<1>8. \A o \in signedOut' : Minted(o)'
    BY <1>1, <1>7 DEF SignOutInv, Minted
<1> QED BY <1>3, <1>4, <1>6, <1>8 DEF SignOutInv

\* One request at a time, every step keeps signed out what was.
LEMMA SignOutNext ==
    ASSUME OneRequest
    PROVE  TypeOK /\ GenerationsReached /\ RotationInv /\ SignOutInv /\ [Next]_vars
              => SignOutInv'
<1> SUFFICES ASSUME TypeOK, GenerationsReached, RotationInv, SignOutInv, [Next]_vars
             PROVE  SignOutInv'
    OBVIOUS
<1>1. CASE UNCHANGED vars \/ Tick
    BY <1>1 DEF vars, Tick, store, pairs, request, ends, SignOutInv, Punctual, StaysOut,
                Carries, SessionOf, LatestOpens, SignedOutUnlessReused, Usable, Key, Minted
<1>2. ASSUME NEW r \in Requests, Start(r) PROVE SignOutInv'
  <2>1. CASE BeginLogin(r) \/ BeginDelete(r)
    <3>1. Punctual(r)' /\ StaysOut(r)'
        BY <2>1 DEF BeginLogin, BeginDelete, Begin, Punctual, StaysOut, Carries, TypeOK,
                    RequestType
    <3> QED BY <2>1, <3>1, SignOutKeep
            DEF BeginLogin, BeginDelete, store, pairs, ends
  <2>2. CASE LogoutAll(r)
      BY <2>2, SignOutRevoke DEF LogoutAll, pairs, request
  <2>3. ASSUME NEW t \in Tokens, BeginRefresh(r, t) \/ BeginLogout(r, t)
        PROVE  SignOutInv'
    <3>1. Punctual(r)' /\ StaysOut(r)'
        BY <2>3 DEF BeginRefresh, BeginLogout, Begin, Punctual, StaysOut, Carries, store,
                    pairs, TypeOK, RequestType
    <3> QED BY <2>3, <3>1, SignOutKeep
            DEF BeginRefresh, BeginLogout, store, pairs, ends
  <2> QED BY <1>2, <2>1, <2>2, <2>3 DEF Start
<1>3. ASSUME NEW r \in Requests, Continue(r) PROVE SignOutInv'
  <2>1. CASE TouchLogin(r)
    <3>1. Punctual(r)' /\ StaysOut(r)'
        BY <2>1 DEF TouchLogin, Go, Punctual, StaysOut, Carries, TypeOK, RequestType,
                    RotationInv, FreshIsFresh, FreshRequests
    <3> QED BY <2>1, <3>1, SignOutKeep DEF TouchLogin, store, pairs, ends
  <2>2. CASE ReloadAccount(r)
    <3>1. Punctual(r)' /\ StaysOut(r)'
        BY <2>2 DEF ReloadAccount, Go, Punctual, StaysOut, Carries, SessionOf, SignOutInv,
                    store, pairs, ends, TypeOK, RequestType
    <3> QED BY <2>2, <3>1, SignOutKeep DEF ReloadAccount, store, pairs, ends
  <2>3. CASE ConsumeUnknown(r) \/ BlockAccess(r)
    <3>1. Punctual(r)' /\ StaysOut(r)'
        BY <2>3 DEF ConsumeUnknown, BlockAccess, Go, Punctual, StaysOut, Carries, TypeOK,
                    RequestType
    <3> QED BY <2>3, <3>1, SignOutKeep DEF ConsumeUnknown, BlockAccess, store, pairs, ends
  <2>4. CASE ConsumeValid(r)
    <3>1. /\ Usable(arg[r]) /\ arg[r] \in issued /\ live' \subseteq live
          /\ stage'[r] = "reload" /\ UNCHANGED <<generation, arg, pairs, ends>>
        BY <2>4 DEF ConsumeValid, Go, Spent, Usable, SignOutInv, Punctual, TypeOK, RequestType
    <3>2. SessionOf(r)' = origin[arg[r]]
        BY <3>1 DEF SessionOf, pairs
    <3>3. Punctual(r)' /\ StaysOut(r)'
        BY <3>1, <3>2 DEF Punctual, StaysOut, SignOutInv, SignedOutUnlessReused, ends
    <3> QED BY <3>1, <3>3, SignOutKeep DEF pairs, ends
  <2>5. CASE ConsumeJustRotated(r)
    <3>1. Punctual(r)' /\ StaysOut(r)'
        BY <2>5 DEF ConsumeJustRotated, Go, Punctual, StaysOut, SessionOf, pairs, TypeOK,
                    RequestType
    <3> QED BY <2>5, <3>1, SignOutKeep DEF ConsumeJustRotated, store, pairs
  <2>6. CASE RefuseDeleted(r) \/ CommitDelete(r) \/ Abandon(r)
    <3>1. Punctual(r)' /\ StaysOut(r)'
        BY <2>6 DEF RefuseDeleted, CommitDelete, Abandon, End, Punctual, StaysOut, Carries,
                    TypeOK, RequestType
    <3> QED BY <2>6, <3>1, SignOutKeep
            DEF RefuseDeleted, CommitDelete, Abandon, store, pairs, ends
  <2>7. CASE RevokeReplayed(r) \/ RevokeClosed(r)
      BY <2>7, SignOutRevoke DEF RevokeReplayed, RevokeClosed, End, Go, pairs, TypeOK,
                                 RequestType
  <2> QED BY <1>3, <2>1, <2>2, <2>3, <2>4, <2>5, <2>6, <2>7, SignOutIssue, SignOutSave,
             SignOutDrop DEF Continue
<1> QED BY <1>1, <1>2, <1>3 DEF Next

\* One request at a time, cut off anywhere, a session comes back from a sign-out
\* only where the grace let a spent token through.
THEOREM SignedOutIsOut == ASSUME OneRequest PROVE Spec => []SignedOutUnlessReused
<1>1. Init => GenerationsReached
    BY DEF Init, GenerationsReached
<1>2. Init => SignOutInv
    BY DEF Init, SignOutInv, Punctual, StaysOut, Carries, LatestOpens, SignedOutUnlessReused
<1>3. SignOutInv => SignedOutUnlessReused
    BY DEF SignOutInv
<1> QED BY <1>1, <1>2, <1>3, TypeInit, TypeNext, RotationInit, RotationNext,
           GenerationsNext, SignOutNext, PTL DEF Spec
=============================================================================
