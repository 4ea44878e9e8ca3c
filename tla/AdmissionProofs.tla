-------------------------- MODULE AdmissionProofs --------------------------
(* What holds of admission for any requests, ceilings and pool sizes.      *)
EXTENDS Admission, FiniteSetTheorems, TLAPS

USE PoolAssumption, EndpointsAssumption

\* What a step of Next can be, with its parameters.
LEMMA NextCases ==
    ASSUME NEW P, Next,
           \A r \in Requests, endpoint \in Endpoints : Accept(r, endpoint) => P,
           \A r \in Requests : Check(r) => P,
           \A r \in Requests : Count(r) => P,
           \A r \in Requests : EnsureWindow(r) => P,
           \A r \in Requests : RepairWindow(r) => P,
           \A r \in Requests : Lookup(r) => P,
           \A r \in Requests : TakeSlot(r) => P,
           \A r \in Requests : Busy(r) => P,
           \A r \in Requests : GiveUp(r) => P,
           \A r \in Requests : FinishHash(r) => P,
           \A r \in Requests : Store(r) => P,
           \A r \in Requests : EndContext(r) => P,
           \A c \in Counters : Expire(c) => P,
           Outage => P, Stop => P, SpendBudget => P, Drained => P,
           CacheStopped => P, DatabaseStopped => P, Crash => P, Start => P
    PROVE  P
BY Zenon DEF Next, Serve, Shutdown

-----------------------------------------------------------------------------
(* Types, and where a request can be.                                       *)

\* The endpoints, and where the handler of each begins.
LEMMA PathsType ==
    ASSUME NEW e \in DOMAIN Stages
    PROVE  /\ First(e) \in {"lookup", "queue", "store"}
           /\ e = "close" => First(e) = "lookup"
           /\ Len(Stages[e]) \in Nat /\ 1 \in 1 .. Len(Stages[e])
<1>1. /\ Stages["login"] = <<"address", "body", "account">>
      /\ Stages["register"] = <<"address", "register", "body">>
      /\ Stages["plans"] = <<"public">>
      /\ Stages["refresh"] = <<"address", "csrf", "token">>
      /\ Stages["logout"] = <<"address", "csrf">>
      /\ Stages["everywhere"] = <<"session">>
      /\ Stages["close"] = <<"session", "body">>
      /\ Stages["settings"] = <<"session", "write", "body">>
      /\ Stages["export"] = <<"session", "read">>
      /\ Stages["me"] = <<"session">>
    BY DEF Stages
<1>2. e \in {"login", "register", "plans", "refresh", "logout", "everywhere", "close",
             "settings", "export", "me"}
    BY DEF Stages
<1>3. \A a, b, c : Len(<<a, b, c>>) = 3 /\ Len(<<a, b>>) = 2 /\ Len(<<a>>) = 1
    OBVIOUS
<1>4. Len(Stages[e]) \in 1 .. 3
    BY <1>1, <1>2, <1>3
<1> QED BY <1>4 DEF First

\* A request that has not reached its handler is at one of its counters and checks,
\* and while it is counted at a counter.
Placed ==
    \A r \in Requests :
        /\ InFlight(r) => req[r].endpoint \in Endpoints
        /\ req[r].pc \in {"stage", "window", "repair"} =>
              req[r].at \in 1 .. Len(Stages[req[r].endpoint])
        /\ req[r].pc \in {"window", "repair"} => Here(r) \notin Checks

TypeInv == TypeOK /\ Placed

LEMMA IdleType == Idle \in Type /\ Idle.pc = "idle"
BY DEF Idle, Type

LEMMA HereType ==
    ASSUME TypeInv, NEW r \in Requests, req[r].pc \in {"stage", "window", "repair"},
           Here(r) \notin Checks
    PROVE  Here(r) \in Counters
<1>1. InFlight(r)
    BY DEF InFlight
<1>2. req[r].endpoint \in Endpoints /\ req[r].at \in 1 .. Len(Stages[req[r].endpoint])
    BY <1>1 DEF TypeInv, Placed
<1> DEFINE Along(e) == {Stages[e][i] : i \in 1 .. Len(Stages[e])}
<1>3. Here(r) \in Along(req[r].endpoint)
    BY <1>2 DEF Here
<1>4. Along(req[r].endpoint) \in {Along(e) : e \in Endpoints}
    BY <1>2
<1>5. Here(r) \in UNION {Along(e) : e \in Endpoints}
    BY <1>3, <1>4
<1> QED BY <1>5 DEF Counters

LEMMA TypeInit == Init => TypeInv
<1> SUFFICES ASSUME Init PROVE TypeInv
    OBVIOUS
<1>1. TypeOK
    BY IdleType DEF Init, TypeOK
<1>2. Placed
    BY IdleType DEF Init, Placed, InFlight
<1> QED BY <1>1, <1>2 DEF TypeInv

\* A request that changes to a record of the right kind keeps the types of all.
LEMMA Moved ==
    ASSUME TypeInv, NEW r \in Requests, NEW rec \in Type,
           req' = [req EXCEPT ![r] = rec],
           rec.pc # "idle" => rec.endpoint \in Endpoints,
           rec.pc \in {"stage", "window", "repair"} =>
              rec.at \in 1 .. Len(Stages[rec.endpoint]),
           rec.pc \in {"window", "repair"} => Stages[rec.endpoint][rec.at] \notin Checks
    PROVE  req' \in [Requests -> Type] /\ Placed'
BY DEF TypeInv, TypeOK, Placed, InFlight, Here

LEMMA AnswerType ==
    ASSUME TypeInv, NEW r \in Requests, Answer(r)
    PROVE  req' \in [Requests -> Type] /\ Placed' /\ conns' \subseteq Requests
<1>1. req' \in [Requests -> Type] /\ Placed'
    BY Moved, IdleType DEF Answer
<1> QED BY <1>1 DEF Answer, TypeInv, TypeOK

\* Moving on within the handler changes nothing but the place.
LEMMA StepType ==
    ASSUME TypeInv, NEW r \in Requests, InFlight(r),
           NEW pc \in {"queue", "hashing", "store", "repair"},
           pc = "repair" => req[r].pc = "window",
           req' = [req EXCEPT ![r].pc = pc]
    PROVE  req' \in [Requests -> Type] /\ Placed'
<1> DEFINE rec == [req[r] EXCEPT !.pc = pc]
<1>1. req[r] \in Type /\ req[r].endpoint \in Endpoints
    BY DEF TypeInv, TypeOK, Placed
<1>2. /\ rec \in Type /\ rec.pc = pc /\ rec.endpoint = req[r].endpoint
      /\ rec.at = req[r].at
    BY <1>1 DEF Type
<1>3. rec.pc = "repair" => /\ rec.at \in 1 .. Len(Stages[rec.endpoint])
                           /\ Stages[rec.endpoint][rec.at] \notin Checks
    BY <1>2 DEF TypeInv, Placed, Here
<1>4. req' = [req EXCEPT ![r] = rec]
    OBVIOUS
<1> HIDE DEF rec
<1> QED BY <1>1, <1>2, <1>3, <1>4, Moved

LEMMA PassOnType ==
    ASSUME TypeInv, NEW r \in Requests, req[r].pc \in {"stage", "window", "repair"}, PassOn(r)
    PROVE  /\ req' \in [Requests -> Type] /\ Placed'
           /\ req'[r].pc \in {"stage", "lookup", "queue", "store"}
           /\ req'[r].endpoint = req[r].endpoint
           /\ \A x \in Requests \ {r} : req'[x] = req[x]
           /\ req[r].endpoint = "close" => req'[r].pc \in {"stage", "lookup"}
<1>1. /\ req[r] \in Type /\ req[r].endpoint \in Endpoints
      /\ req[r].at \in 1 .. Len(Stages[req[r].endpoint])
    BY DEF TypeInv, TypeOK, Placed, InFlight, Here
<1>2. /\ req[r].endpoint \in DOMAIN Stages /\ Len(Stages[req[r].endpoint]) \in Nat
    BY <1>1, PathsType
<1> DEFINE pc == IF req[r].at < Len(Stages[req[r].endpoint]) THEN "stage"
                 ELSE First(req[r].endpoint)
           rec == [req[r] EXCEPT !.at = @ + 1, !.count = 0, !.pc = pc]
<1>3. /\ pc \in {"stage", "lookup", "queue", "store"}
      /\ req[r].endpoint = "close" => pc \in {"stage", "lookup"}
    BY <1>2, PathsType
<1>4. /\ rec \in Type /\ rec.pc = pc /\ rec.endpoint = req[r].endpoint
      /\ rec.at = req[r].at + 1
    <2> HIDE DEF pc
    <2>1. req[r].at + 1 \in Nat
        BY <1>1 DEF Type
    <2>2. rec = [[[req[r] EXCEPT !.at = req[r].at + 1] EXCEPT !.count = 0] EXCEPT !.pc = pc]
        BY <1>1 DEF Type
    <2> QED BY <1>1, <1>3, <2>1, <2>2 DEF Type
<1>5. pc = "stage" => rec.at \in 1 .. Len(Stages[req[r].endpoint])
    <2>1. pc = "stage" => req[r].at < Len(Stages[req[r].endpoint])
        BY <1>2, PathsType
    <2> QED BY <1>1, <1>2, <1>4, <2>1
<1>6. req' = [req EXCEPT ![r] = rec]
    BY DEF PassOn
<1>7. req'[r] = rec /\ \A x \in Requests \ {r} : req'[x] = req[x]
    BY <1>6 DEF TypeInv, TypeOK
<1> HIDE DEF rec, pc
<1> QED BY <1>1, <1>3, <1>4, <1>5, <1>6, <1>7, Moved

LEMMA VerdictType ==
    ASSUME TypeInv, NEW r \in Requests, req[r].pc \in {"stage", "window", "repair"}, Verdict(r)
    PROVE  req' \in [Requests -> Type] /\ Placed' /\ conns' \subseteq Requests
<1>1. CASE PassOn(r) /\ UNCHANGED conns
    BY <1>1, PassOnType DEF TypeInv, TypeOK
<1>2. CASE Answer(r)
    BY <1>2, AnswerType
<1> QED BY <1>1, <1>2 DEF Verdict

LEMMA TypeNext == TypeInv /\ [Next]_vars => TypeInv'
<1> SUFFICES ASSUME TypeInv, [Next]_vars PROVE TypeInv'
    OBVIOUS
<1> USE DEF TypeInv
<1>1. ASSUME NEW r \in Requests, NEW endpoint \in Endpoints, Accept(r, endpoint) PROVE TypeInv'
    <2> DEFINE rec == [Idle EXCEPT !.pc = "stage", !.endpoint = endpoint, !.at = 1]
    <2>1. endpoint \in DOMAIN Stages
        OBVIOUS
    <2>2. rec \in Type /\ rec.pc = "stage" /\ rec.endpoint = endpoint /\ rec.at = 1
        BY <2>1 DEF Type, Idle
    <2>3. req' = [req EXCEPT ![r] = rec] /\ 1 \in 1 .. Len(Stages[endpoint])
        BY <1>1, PathsType DEF Accept
    <2> HIDE DEF rec
    <2>4. req' \in [Requests -> Type] /\ Placed'
        BY <2>2, <2>3, Moved
    <2> QED BY <1>1, <2>4 DEF Accept, TypeOK
<1>2. ASSUME NEW r \in Requests, Count(r) PROVE TypeInv'
    <2>1. CASE ~CanCall(r)
        BY <1>2, <2>1, PassOnType DEF Count, TypeOK
    <2>2. CASE CanCall(r)
        <3> DEFINE rec == [req[r] EXCEPT !.pc = "window", !.count = hits'[Here(r)]]
        <3>1. Here(r) \in Counters
            BY <1>2, HereType DEF Count
        <3>2. hits' \in [Counters -> Nat]
            BY <1>2, <2>2, <3>1 DEF Count, TypeOK
        <3>3. hits'[Here(r)] \in Nat
            BY <3>1, <3>2
        <3>4. req' = [req EXCEPT ![r] = rec]
            BY <1>2, <2>2 DEF Count
        <3>5. /\ rec \in Type /\ rec.pc = "window" /\ rec.endpoint = req[r].endpoint
              /\ rec.at = req[r].at
            BY <3>3 DEF TypeOK, Type
        <3>6. /\ rec.endpoint \in Endpoints /\ rec.at \in 1 .. Len(Stages[rec.endpoint])
              /\ Stages[rec.endpoint][rec.at] \notin Checks
            BY <1>2, <3>5 DEF Count, Placed, InFlight, Here
        <3> HIDE DEF rec
        <3>7. req' \in [Requests -> Type] /\ Placed'
            BY <3>4, <3>5, <3>6, Moved
        <3> QED BY <1>2, <3>2, <3>7 DEF Count, TypeOK
    <2> QED BY <2>1, <2>2
<1>3. ASSUME NEW r \in Requests, EnsureWindow(r) PROVE TypeInv'
    <2>1. window' \in [Counters -> BOOLEAN]
        BY <1>3 DEF EnsureWindow, SetWindow, TypeOK
    <2>2. req' \in [Requests -> Type] /\ Placed' /\ conns' \subseteq Requests
        <3>1. CASE PassOn(r) /\ UNCHANGED conns
            BY <1>3, <3>1, PassOnType DEF EnsureWindow, TypeOK
        <3>2. CASE Verdict(r)
            BY <1>3, <3>2, VerdictType DEF EnsureWindow
        <3>3. CASE req' = [req EXCEPT ![r].pc = "repair"] /\ UNCHANGED conns
            BY <1>3, <3>3, StepType DEF EnsureWindow, TypeOK, InFlight
        <3> QED BY <1>3, <3>1, <3>2, <3>3 DEF EnsureWindow
    <2> QED BY <1>3, <2>1, <2>2 DEF EnsureWindow, TypeOK
<1>4. ASSUME NEW r \in Requests, RepairWindow(r) PROVE TypeInv'
    <2>1. window' \in [Counters -> BOOLEAN]
        BY <1>4 DEF RepairWindow, SetWindow, TypeOK
    <2>2. req' \in [Requests -> Type] /\ Placed' /\ conns' \subseteq Requests
        <3>1. CASE PassOn(r) /\ UNCHANGED conns
            BY <1>4, <3>1, PassOnType DEF RepairWindow, TypeOK
        <3>2. CASE Verdict(r)
            BY <1>4, <3>2, VerdictType DEF RepairWindow
        <3> QED BY <1>4, <3>1, <3>2 DEF RepairWindow
    <2> QED BY <1>4, <2>1, <2>2 DEF RepairWindow, TypeOK
<1>5. ASSUME NEW r \in Requests, Check(r) PROVE TypeInv'
    BY <1>5, AnswerType, PassOnType DEF Check, TypeOK
<1>6. ASSUME NEW r \in Requests, Lookup(r) PROVE TypeInv'
    BY <1>6, AnswerType, StepType DEF Lookup, TypeOK, InFlight
<1>7. ASSUME NEW r \in Requests, TakeSlot(r) PROVE TypeInv'
    BY <1>7, StepType DEF TakeSlot, TypeOK, InFlight
<1>8. ASSUME NEW r \in Requests, Busy(r) PROVE TypeInv'
    BY <1>8, AnswerType DEF Busy, TypeOK
<1>9. ASSUME NEW r \in Requests, GiveUp(r) PROVE TypeInv'
    BY <1>9, AnswerType DEF GiveUp, TypeOK
<1>10. ASSUME NEW r \in Requests, FinishHash(r) PROVE TypeInv'
    BY <1>10, AnswerType, StepType DEF FinishHash, TypeOK, InFlight
<1>11. ASSUME NEW r \in Requests, Store(r) PROVE TypeInv'
    BY <1>11, AnswerType DEF Store, TypeOK
<1>12. ASSUME NEW r \in Requests, EndContext(r) PROVE TypeInv'
    <2> DEFINE rec == [req[r] EXCEPT !.live = FALSE]
    <2>1. /\ rec \in Type /\ rec.pc = req[r].pc /\ rec.endpoint = req[r].endpoint
          /\ rec.at = req[r].at
        BY DEF TypeOK, Type
    <2>2. req' = [req EXCEPT ![r] = rec]
        BY <1>12 DEF EndContext
    <2> HIDE DEF rec
    <2>3. req' \in [Requests -> Type] /\ Placed'
        BY <2>1, <2>2, Moved DEF Placed, InFlight, Here
    <2> QED BY <1>12, <2>3 DEF EndContext, TypeOK
<1>13. ASSUME NEW c \in Counters, Expire(c) PROVE TypeInv'
    BY <1>13 DEF Expire, TypeOK, Placed, InFlight, Here
<1>14. ASSUME Outage PROVE TypeInv'
    BY <1>14 DEF Outage, TypeOK, Placed, InFlight, Here
<1>15. ASSUME Stop \/ SpendBudget \/ Drained \/ CacheStopped \/ Start PROVE TypeInv'
    BY <1>15 DEF Stop, SpendBudget, Drained, CacheStopped, Start, TypeOK, Placed, InFlight, Here
<1>16. ASSUME Gone PROVE TypeInv'
    <2>1. \A x \in Requests : req'[x] = Idle
        BY <1>16 DEF Gone
    <2>2. Placed'
        BY <2>1, IdleType DEF Placed, InFlight
    <2> QED BY <1>16, <2>2, IdleType DEF Gone, TypeOK
<1>17. CASE UNCHANGED vars
    BY <1>17 DEF vars, TypeOK, Placed, InFlight, Here
<1>18. CASE Next
    BY <1>1, <1>2, <1>3, <1>4, <1>5, <1>6, <1>7, <1>8, <1>9, <1>10, <1>11, <1>12, <1>13,
       <1>14, <1>15, <1>16, <1>18, NextCases DEF DatabaseStopped, Crash
<1> QED BY <1>17, <1>18

THEOREM AdmissionTypeCorrect == Spec => []TypeInv
<1> QED BY TypeInit, TypeNext, PTL DEF Spec

-----------------------------------------------------------------------------
(* Slots and connections.                                                   *)

\* Who needs a connection across steps.
Holding(r) == req[r].endpoint = "close" /\ req[r].pc \in {"queue", "hashing", "store"}

\* Besides the types: the slots and the connections are those of the requests that
\* need them, and no more of them are out than there are.
Accounted ==
    /\ \A r \in Requests : r \in slots <=> req[r].pc = "hashing"
    /\ \A r \in Requests : r \in conns <=> Holding(r)
    /\ Cardinality(slots) <= MaxHashes
    /\ Cardinality(conns) <= MaxConns

LEMMA AccountedMeans == TypeInv /\ Accounted => NothingLeaks
BY DEF TypeInv, TypeOK, Accounted, NothingLeaks, Holding

\* Taking one more of a pool that is not used up stays within it.
LEMMA OneMore ==
    ASSUME NEW S \in SUBSET Requests, NEW r \in Requests, NEW n \in Nat,
           Cardinality(S) < n
    PROVE  Cardinality(S \cup {r}) <= n
<1>1. IsFiniteSet(S)
    BY RequestsAssumption, FS_Subset
<1>2. Cardinality(S) \in Nat /\ Cardinality(S \cup {r}) \in Nat
    BY <1>1, FS_CardinalityType, FS_AddElement
<1> QED BY <1>1, <1>2, FS_AddElement

\* Giving one back stays within it too.
LEMMA OneLess ==
    ASSUME NEW S \in SUBSET Requests, NEW r \in Requests, NEW n \in Nat,
           Cardinality(S) <= n
    PROVE  Cardinality(S \ {r}) <= n
<1>1. IsFiniteSet(S)
    BY RequestsAssumption, FS_Subset
<1>2. IsFiniteSet(S \ {r}) /\ Cardinality(S \ {r}) <= Cardinality(S)
    BY <1>1, FS_Subset
<1>3. Cardinality(S) \in Nat /\ Cardinality(S \ {r}) \in Nat
    BY <1>1, <1>2, FS_CardinalityType
<1> QED BY <1>2, <1>3

\* A request that neither holds a slot nor comes to hold one, and keeps what it has
\* of a connection, leaves the accounts as they are.
LEMMA Unmoved ==
    ASSUME TypeInv, Accounted, UNCHANGED <<slots, conns>>,
           \A x \in Requests : /\ req'[x].pc = "hashing" <=> req[x].pc = "hashing"
                               /\ Holding(x)' <=> Holding(x)
    PROVE  Accounted'
BY DEF Accounted

\* The end of a request that is not hashing gives its connection back.
LEMMA AnswerAccounted ==
    ASSUME TypeInv, Accounted, NEW r \in Requests, Answer(r),
           slots' = slots \ {r}
    PROVE  Accounted'
<1>1. req'[r] = Idle /\ \A x \in Requests \ {r} : req'[x] = req[x]
    BY DEF Answer, TypeInv, TypeOK
<1>2. Cardinality(conns') <= MaxConns /\ Cardinality(slots') <= MaxHashes
    BY OneLess DEF Answer, Accounted, TypeInv, TypeOK
<1> QED BY <1>1, <1>2, IdleType DEF Answer, Accounted, Holding

LEMMA NotHashing ==
    ASSUME TypeInv, Accounted, NEW r \in Requests, req[r].pc # "hashing"
    PROVE  slots = slots \ {r}
BY DEF Accounted, TypeInv, TypeOK

LEMMA PassOnAccounted ==
    ASSUME TypeInv, Accounted, NEW r \in Requests,
           req[r].pc \in {"stage", "window", "repair"}, PassOn(r), UNCHANGED <<slots, conns>>
    PROVE  Accounted'
BY PassOnType, Unmoved DEF Holding

\* Placing a request elsewhere in its handler changes nothing else of it.
LEMMA Step ==
    ASSUME TypeInv, NEW r \in Requests, NEW pc, req' = [req EXCEPT ![r].pc = pc]
    PROVE  /\ req'[r].pc = pc /\ req'[r].endpoint = req[r].endpoint
           /\ \A x \in Requests \ {r} : req'[x] = req[x]
BY DEF TypeInv, TypeOK, Type

LEMMA AccountedInit == Init => Accounted
<1> SUFFICES ASSUME Init PROVE Accounted
    OBVIOUS
<1>1. Cardinality({}) = 0
    BY FS_EmptySet
<1> QED BY <1>1, IdleType DEF Init, Accounted, Holding

LEMMA AccountedNext == TypeInv /\ Accounted /\ [Next]_vars => Accounted'
<1> SUFFICES ASSUME TypeInv, Accounted, [Next]_vars PROVE Accounted'
    OBVIOUS
<1>1. ASSUME NEW r \in Requests, NEW endpoint \in Endpoints, Accept(r, endpoint) PROVE Accounted'
    <2>1. /\ req[r].pc = "idle" /\ req'[r].pc = "stage"
          /\ \A x \in Requests \ {r} : req'[x] = req[x]
        BY <1>1 DEF Accept, Idle, TypeInv, TypeOK
    <2> QED BY <1>1, <2>1, Unmoved DEF Accept, Holding
<1>2. ASSUME NEW r \in Requests, Count(r) PROVE Accounted'
    <2>1. CASE PassOn(r)
        BY <1>2, <2>1, PassOnAccounted DEF Count
    <2>2. CASE req' = [req EXCEPT ![r].pc = "window", ![r].count = hits'[Here(r)]]
        <3>1. /\ req'[r].pc = "window" /\ req'[r].endpoint = req[r].endpoint
              /\ \A x \in Requests \ {r} : req'[x] = req[x]
            BY <2>2 DEF TypeInv, TypeOK, Type
        <3> QED BY <1>2, <3>1, Unmoved DEF Count, Holding
    <2> QED BY <1>2, <2>1, <2>2 DEF Count
<1>3. ASSUME NEW r \in Requests, EnsureWindow(r) PROVE Accounted'
    <2>1. CASE PassOn(r) /\ UNCHANGED conns
        BY <1>3, <2>1, PassOnAccounted DEF EnsureWindow
    <2>2. CASE Answer(r)
        BY <1>3, <2>2, AnswerAccounted, NotHashing DEF EnsureWindow
    <2>3. CASE req' = [req EXCEPT ![r].pc = "repair"] /\ UNCHANGED conns
        BY <1>3, <2>3, Step, Unmoved DEF EnsureWindow, Holding
    <2> QED BY <1>3, <2>1, <2>2, <2>3 DEF EnsureWindow, Verdict
<1>4. ASSUME NEW r \in Requests, RepairWindow(r) PROVE Accounted'
    <2>1. CASE PassOn(r) /\ UNCHANGED conns
        BY <1>4, <2>1, PassOnAccounted DEF RepairWindow
    <2>2. CASE Answer(r)
        BY <1>4, <2>2, AnswerAccounted, NotHashing DEF RepairWindow
    <2> QED BY <1>4, <2>1, <2>2 DEF RepairWindow, Verdict
<1>5. ASSUME NEW r \in Requests, Check(r) PROVE Accounted'
    <2>1. CASE Answer(r)
        BY <1>5, <2>1, AnswerAccounted, NotHashing DEF Check
    <2>2. CASE PassOn(r) /\ UNCHANGED conns
        BY <1>5, <2>2, PassOnAccounted DEF Check
    <2> QED BY <1>5, <2>1, <2>2 DEF Check
<1>6. ASSUME NEW r \in Requests, Lookup(r) PROVE Accounted'
    <2>1. CASE Answer(r)
        BY <1>6, <2>1, AnswerAccounted, NotHashing DEF Lookup
    <2>2. CASE req' = [req EXCEPT ![r].pc = "queue"] /\ req[r].endpoint # "close"
        <3>1. /\ req[r].pc = "lookup" /\ req'[r].pc = "queue" /\ req'[r].endpoint = req[r].endpoint
              /\ \A x \in Requests \ {r} : req'[x] = req[x]
            BY <1>6, <2>2, Step DEF Lookup
        <3>2. UNCHANGED <<slots, conns>>
            BY <1>6, <2>2, <3>1, IdleType DEF Lookup, Answer, TypeInv, TypeOK
        <3> QED BY <2>2, <3>1, <3>2, Unmoved DEF Holding
    <2>3. CASE /\ req' = [req EXCEPT ![r].pc = "queue"] /\ req[r].endpoint = "close"
               /\ FreeConn(r) /\ conns' = conns \cup {r}
        <3>1. Cardinality(conns) < MaxConns
            BY <1>6, <2>3 DEF Lookup, FreeConn, Accounted, Holding
        <3>2. Cardinality(conns') <= MaxConns
            BY <2>3, <3>1, OneMore DEF TypeInv, TypeOK
        <3>3. /\ req[r].pc = "lookup" /\ req'[r].pc = "queue" /\ req'[r].endpoint = "close"
              /\ \A x \in Requests \ {r} : req'[x] = req[x]
            BY <1>6, <2>3, Step DEF Lookup
        <3>4. UNCHANGED slots
            BY <1>6 DEF Lookup
        <3> QED BY <2>3, <3>2, <3>3, <3>4 DEF Accounted, Holding
    <2> QED BY <1>6, <2>1, <2>2, <2>3 DEF Lookup
<1>7. ASSUME NEW r \in Requests, TakeSlot(r) PROVE Accounted'
    <2>1. Cardinality(slots') <= MaxHashes
        BY <1>7, OneMore DEF TakeSlot, TypeInv, TypeOK
    <2>2. /\ req[r].pc = "queue" /\ req'[r].pc = "hashing" /\ req'[r].endpoint = req[r].endpoint
          /\ \A x \in Requests \ {r} : req'[x] = req[x]
        BY <1>7, Step DEF TakeSlot
    <2>3. slots' = slots \cup {r} /\ UNCHANGED conns
        BY <1>7 DEF TakeSlot
    <2> QED BY <2>1, <2>2, <2>3 DEF Accounted, Holding
<1>8. ASSUME NEW r \in Requests, Busy(r) PROVE Accounted'
    BY <1>8, AnswerAccounted, NotHashing DEF Busy
<1>9. ASSUME NEW r \in Requests, GiveUp(r) PROVE Accounted'
    BY <1>9, AnswerAccounted, NotHashing DEF GiveUp
<1>10. ASSUME NEW r \in Requests, FinishHash(r) PROVE Accounted'
    <2>1. CASE Answer(r)
        BY <1>10, <2>1, AnswerAccounted DEF FinishHash
    <2>2. CASE req' = [req EXCEPT ![r].pc = "store"] /\ UNCHANGED conns
        <3>1. Cardinality(slots') <= MaxHashes
            BY <1>10, OneLess DEF FinishHash, Accounted, TypeInv, TypeOK
        <3>2. /\ req[r].pc = "hashing" /\ req'[r].pc = "store" /\ req'[r].endpoint = req[r].endpoint
              /\ \A x \in Requests \ {r} : req'[x] = req[x]
            BY <1>10, <2>2, Step DEF FinishHash
        <3>3. slots' = slots \ {r} /\ UNCHANGED conns
            BY <1>10, <2>2 DEF FinishHash
        <3> QED BY <3>1, <3>2, <3>3 DEF Accounted, Holding
    <2> QED BY <1>10, <2>1, <2>2 DEF FinishHash
<1>11. ASSUME NEW r \in Requests, Store(r) PROVE Accounted'
    BY <1>11, AnswerAccounted, NotHashing DEF Store
<1>12. ASSUME NEW r \in Requests, EndContext(r) PROVE Accounted'
    <2>1. /\ req'[r].pc = req[r].pc /\ req'[r].endpoint = req[r].endpoint
          /\ \A x \in Requests \ {r} : req'[x] = req[x]
        BY <1>12 DEF EndContext, TypeInv, TypeOK, Type
    <2> QED BY <1>12, <2>1, Unmoved DEF EndContext, Holding
<1>13. ASSUME UNCHANGED <<req, slots, conns>> PROVE Accounted'
    BY <1>13 DEF Accounted, Holding
<1>14. ASSUME Gone PROVE Accounted'
    <2>1. Cardinality({}) = 0
        BY FS_EmptySet
    <2> QED BY <1>14, <2>1, IdleType DEF Gone, Accounted, Holding
<1>15. CASE Next
    <2>1. \A c \in Counters : Expire(c) => UNCHANGED <<req, slots, conns>>
        BY DEF Expire
    <2>2. Outage \/ Stop \/ SpendBudget \/ Drained \/ CacheStopped \/ Start =>
             UNCHANGED <<req, slots, conns>>
        BY DEF Outage, Stop, SpendBudget, Drained, CacheStopped, Start
    <2> QED BY <1>1, <1>2, <1>3, <1>4, <1>5, <1>6, <1>7, <1>8, <1>9, <1>10, <1>11, <1>12,
               <1>13, <1>14, <1>15, <2>1, <2>2, NextCases DEF DatabaseStopped, Crash
<1> QED BY <1>13, <1>15 DEF vars

\* However the requests leave the queue, the hash and the transaction, every slot
\* and every connection is held by one that needs it.
THEOREM NothingIsLeaked == Spec => []NothingLeaks
<1>1. TypeInv /\ Accounted /\ [Next]_vars => (TypeInv /\ Accounted)'
    BY TypeNext, AccountedNext
<1> QED BY TypeInit, AccountedInit, AccountedMeans, <1>1, PTL DEF Spec

-----------------------------------------------------------------------------
(* The shutdown.                                                            *)

LEMMA DrainedInit == Init => ClosedWhenDrained
BY DEF Init, ClosedWhenDrained

LEMMA DrainedNext == TypeInv /\ ClosedWhenDrained /\ [Next]_vars => ClosedWhenDrained'
<1> SUFFICES ASSUME TypeInv, ClosedWhenDrained, [Next]_vars PROVE ClosedWhenDrained'
    OBVIOUS
\* Only a listener that is open brings a request in.
<1>1. ASSUME UNCHANGED <<process, spent>>,
             \A x \in Requests : InFlight(x)' => InFlight(x)
      PROVE  ClosedWhenDrained'
    BY <1>1 DEF ClosedWhenDrained
<1>2. ASSUME NEW r \in Requests, InFlight(r), \A x \in Requests \ {r} : req'[x] = req[x],
             UNCHANGED <<process, spent>>
      PROVE  ClosedWhenDrained'
    BY <1>1, <1>2 DEF InFlight
<1>3. ASSUME NEW r \in Requests, Serve(r) PROVE ClosedWhenDrained'
    <2>1. InFlight(r) /\ UNCHANGED <<process, spent>>
        BY <1>3 DEF Serve, Check, Count, EnsureWindow, RepairWindow, Lookup, TakeSlot,
                    Busy, GiveUp, FinishHash, Store, EndContext, InFlight
    <2>2. \A x \in Requests \ {r} : req'[x] = req[x]
        BY <1>3 DEF Serve, Check, Count, EnsureWindow, RepairWindow, Lookup, TakeSlot,
                    Busy, GiveUp, FinishHash, Store, EndContext, Verdict, PassOn, Answer,
                    TypeInv, TypeOK
    <2> QED BY <1>2, <2>1, <2>2
<1>4. ASSUME NEW r \in Requests, NEW endpoint \in Endpoints, Accept(r, endpoint)
      PROVE  ClosedWhenDrained'
    BY <1>4 DEF Accept, ClosedWhenDrained
<1>5. ASSUME NEW c \in Counters, Expire(c) PROVE ClosedWhenDrained'
    BY <1>5, <1>1 DEF Expire, InFlight
<1>6. ASSUME Outage \/ Stop \/ Start \/ SpendBudget \/ Drained \/ CacheStopped
      PROVE  ClosedWhenDrained'
    BY <1>6 DEF Outage, Stop, Start, SpendBudget, Drained, CacheStopped,
                ClosedWhenDrained, InFlight
<1>7. ASSUME Gone PROVE ClosedWhenDrained'
    BY <1>7 DEF Gone, ClosedWhenDrained
<1>8. CASE UNCHANGED vars
    BY <1>8, <1>1 DEF vars, InFlight
<1>9. CASE Next
    BY <1>3, <1>4, <1>5, <1>6, <1>7, <1>9 DEF Next, Shutdown, DatabaseStopped, Crash
<1> QED BY <1>8, <1>9

\* With any number of requests, nothing is closed under one that is being served
\* unless the budget of the shutdown has run out.
THEOREM ClosesWhenDrained == Spec => []ClosedWhenDrained
<1>1. TypeInv /\ ClosedWhenDrained /\ [Next]_vars => (TypeInv /\ ClosedWhenDrained)'
    BY TypeNext, DrainedNext
<1> QED BY TypeInit, DrainedInit, <1>1, PTL DEF Spec

-----------------------------------------------------------------------------
(* Refusals.                                                                *)

\* EXPIRE on a key that is there gives it a window.
LEMMA WindowSet ==
    ASSUME NEW c \in Counters, hits[c] \in Nat, window \in [Counters -> BOOLEAN], SetWindow(c)
    PROVE  window'[c] \/ hits[c] = 0
<1>1. CASE hits[c] > 0
    <2>1. (window[c] \/ hits[c] > 0) = TRUE
        BY <1>1
    <2>2. window' = [window EXCEPT ![c] = TRUE]
        BY <2>1 DEF SetWindow
    <2> QED BY <2>2
<1> QED BY <1>1

LEMMA RefusalStep ==
    ASSUME TypeInv, [Next]_vars, NEW r \in Requests, Refused(r)
    PROVE  window'[Here(r)] \/ hits'[Here(r)] = 0
<1>1. Here(r) \in Counters /\ hits[Here(r)] \in Nat /\ window \in [Counters -> BOOLEAN]
    BY HereType DEF Refused, TypeInv, TypeOK, Placed
<1>2. PassOn(r) => req'[r].pc # "idle"
    BY PassOnType DEF Refused
<1>3. CASE EnsureWindow(r)
    <2>1. CASE SetWindow(Here(r)) /\ UNCHANGED hits
        BY <1>1, <2>1, WindowSet
    <2>2. CASE ~NeedsWindow(r) /\ req[r].count # 1 /\ UNCHANGED window
        BY <2>2 DEF NeedsWindow
    <2>3. CASE req' = [req EXCEPT ![r].pc = "repair"]
        BY <2>3, Step DEF Refused
    <2> QED BY <1>2, <1>3, <2>1, <2>2, <2>3 DEF EnsureWindow, Refused
<1>4. CASE RepairWindow(r)
    <2>1. CASE SetWindow(Here(r)) /\ UNCHANGED hits
        BY <1>1, <2>1, WindowSet
    <2> QED BY <1>2, <1>4, <2>1 DEF RepairWindow, Refused
\* No other step ends a request that is being counted.
<1>5. ASSUME NEW x \in Requests, x # r, Serve(x) PROVE FALSE
    <2>1. req'[r] = req[r]
        BY <1>5 DEF Serve, Check, Count, EnsureWindow, RepairWindow, Lookup, TakeSlot,
                    Busy, GiveUp, FinishHash, Store, EndContext, Verdict, PassOn, Answer,
                    TypeInv, TypeOK
    <2> QED BY <2>1 DEF Refused
<1>6. ASSUME EndContext(r) PROVE FALSE
    BY <1>6 DEF EndContext, Refused, TypeInv, TypeOK, Type
<1>7. ASSUME Serve(r) PROVE EnsureWindow(r) \/ RepairWindow(r)
    BY <1>6, <1>7 DEF Serve, Check, Count, Lookup, TakeSlot, Busy, GiveUp,
                      FinishHash, Store, Refused
<1>8. ASSUME NEW x \in Requests, NEW endpoint \in Endpoints, Accept(x, endpoint) PROVE FALSE
    <2>1. x # r /\ req'[r] = req[r]
        BY <1>8 DEF Accept, Refused, TypeInv, TypeOK
    <2> QED BY <2>1 DEF Refused
<1>9. ASSUME UNCHANGED req PROVE FALSE
    BY <1>9 DEF Refused
<1>10. ASSUME Gone PROVE FALSE
    BY <1>10 DEF Gone, Refused
<1>11. CASE Next
    <2>1. \A c \in Counters : Expire(c) => UNCHANGED req
        BY DEF Expire
    <2>2. Outage \/ Stop \/ SpendBudget \/ Drained \/ CacheStopped \/ Start => UNCHANGED req
        BY DEF Outage, Stop, SpendBudget, Drained, CacheStopped, Start
    <2> QED BY <1>3, <1>4, <1>5, <1>7, <1>8, <1>9, <1>10, <1>11, <2>1, <2>2
            DEF Next, Shutdown, DatabaseStopped, Crash
<1> QED BY <1>9, <1>11 DEF vars

\* Whatever calls to Redis failed before, nobody is refused by a counter that
\* would never start again.
THEOREM RefusalsHaveAnEnd == Spec => RefusedByAWindow
<1>1. TypeInv /\ [Next]_vars =>
         [\A r \in Requests : Refused(r) => window'[Here(r)] \/ hits'[Here(r)] = 0]_vars
    BY RefusalStep
<1> QED BY TypeInit, TypeNext, <1>1, PTL DEF Spec, RefusedByAWindow
=============================================================================
