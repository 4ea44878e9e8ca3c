---------------------------- MODULE LinksProofs ----------------------------
(* What holds of the links for any tasks, link ids and requests.           *)
EXTENDS Links, FiniteSetTheorems, TLAPS

USE LinksAssumption

\* What a step of Next can be, with its parameters.
LEMMA NextCases ==
    ASSUME NEW P, Next,
           \A r \in Requests, ends \in Ends : ReadEnds(r, ends) => P,
           \A r \in Requests : CountLinks(r) => P,
           \A r \in Requests, l \in Ids : InsertLink(r, l) => P,
           \A r \in Requests : Refuse(r) => P,
           \A l \in Ids : RemoveLink(l) => P,
           \A l \in Ids, type \in Types : Retype(l, type) => P,
           \A t \in Tasks : Detach(t) => P,
           \A t \in Tasks : PutBack(t) => P,
           \A t \in Tasks : DeleteTask(t) => P,
           \A t \in Tasks, p \in Tasks \cup {None} : AddTask(t, p) => P,
           Checkout => P
    PROVE  P
BY Zenon DEF Next, Create

-----------------------------------------------------------------------------
(* Types.                                                                   *)

LEMMA NoEndsIsNone == NoEnds \notin Ends
BY DEF NoEnds, Ends

LEMMA TypeInit == Init => TypeOK
BY DEF Init, TypeOK

\* Ending a transaction leaves its request idle and without a draft.
LEMMA CloseType ==
    ASSUME TypeOK, NEW r \in Requests, Close(r)
    PROVE  /\ stage' \in [Requests -> {"idle", "count", "insert"}]
           /\ draft' \in [Requests -> Ends \cup {NoEnds}]
           /\ account' \in Requests \cup {None}
           /\ \A x \in Requests : stage'[x] = "idle" <=> draft'[x] = NoEnds
BY DEF TypeOK, Close

LEMMA TypeNext == TypeOK /\ [Next]_vars => TypeOK'
<1> SUFFICES ASSUME TypeOK, [Next]_vars PROVE TypeOK'
    OBVIOUS
<1>1. ASSUME NEW r \in Requests, NEW ends \in Ends, ReadEnds(r, ends) PROVE TypeOK'
    BY <1>1, NoEndsIsNone DEF ReadEnds, TypeOK, tasks
<1>2. ASSUME NEW r \in Requests, CountLinks(r) PROVE TypeOK'
    BY <1>2 DEF CountLinks, TypeOK, tasks
<1>3. ASSUME NEW r \in Requests, NEW l \in Ids, InsertLink(r, l) PROVE TypeOK'
    BY <1>3, CloseType DEF InsertLink, TypeOK, tasks
<1>4. ASSUME NEW r \in Requests, Refuse(r) PROVE TypeOK'
    BY <1>4, CloseType DEF Refuse, TypeOK, tasks
<1>5. ASSUME NEW l \in Ids, RemoveLink(l) PROVE TypeOK'
    BY <1>5 DEF RemoveLink, TypeOK, tasks
<1>6. ASSUME NEW l \in Ids, NEW type \in Types, Retype(l, type) PROVE TypeOK'
    <2>1. [links[l] EXCEPT !.type = type] \in Ends
        BY <1>6 DEF Retype, Held, TypeOK, Ends
    <2> QED BY <1>6, <2>1 DEF Retype, TypeOK, tasks
<1>7. ASSUME NEW t \in Tasks, Detach(t) PROVE TypeOK'
    BY <1>7 DEF Detach, TypeOK
<1>8. ASSUME NEW t \in Tasks, PutBack(t) PROVE TypeOK'
    BY <1>8 DEF PutBack, TypeOK
<1>9. ASSUME NEW t \in Tasks, DeleteTask(t) PROVE TypeOK'
    BY <1>9 DEF DeleteTask, TypeOK
<1>10. ASSUME NEW t \in Tasks, NEW p \in Tasks \cup {None}, AddTask(t, p) PROVE TypeOK'
    BY <1>10 DEF AddTask, TypeOK
<1>11. CASE Checkout
    BY <1>11 DEF Checkout, TypeOK, tasks
<1>12. CASE UNCHANGED vars
    BY <1>12 DEF vars, tasks, TypeOK
<1>13. ASSUME Next PROVE TypeOK'
    BY <1>1, <1>2, <1>3, <1>4, <1>5, <1>6, <1>7, <1>8, <1>9, <1>10, <1>11, <1>13, NextCases
<1> QED BY <1>12, <1>13

\* A request past its first step has a draft, and every stored link has two
\* tasks for its ends, wherever requests are cut off.
THEOREM LinksTypeCorrect == Spec => []TypeOK
BY TypeInit, TypeNext, PTL DEF Spec

-----------------------------------------------------------------------------
(* Pairs.                                                                   *)

\* The indexes say what SameEnds of the domain says.
LEMMA KeysAreEnds ==
    ASSUME NEW a \in Ends, NEW b \in Ends
    PROVE  /\ SameEnds(a, b) <=> Collides(a, b)
           /\ SameEnds(a, b) <=> SameEnds(b, a)
BY DEF SameEnds, Collides, Ends

LEMMA HeldIsEnds ==
    ASSUME TypeOK, NEW l \in Held
    PROVE  l \in Ids /\ links[l] \in Ends
BY DEF TypeOK, Held

\* Writing one row whose key is free joins no pair twice.
LEMMA FreeKeyKeepsPairs ==
    ASSUME TypeOK, NoPairTwice, NEW l \in Ids, NEW ends \in Ends, FreeKey(l, ends),
           links' = [links EXCEPT ![l] = ends]
    PROVE  NoPairTwice'
<1> SUFFICES ASSUME NEW x \in Held', NEW y \in Held', SameEnds(links'[x], links'[y]), x # y
             PROVE  FALSE
    BY DEF NoPairTwice
<1>1. x \in Ids /\ y \in Ids
    BY DEF Held
<1>2. links'[l] = ends /\ \A m \in Ids \ {l} : links'[m] = links[m]
    BY DEF TypeOK
<1>3. \A m \in Ids \ {l} : m \in Held' => m \in Held \ {l}
    BY <1>2 DEF Held
<1>4. CASE x = l
    BY <1>1, <1>2, <1>3, <1>4, KeysAreEnds, HeldIsEnds DEF FreeKey
<1>5. CASE y = l
    BY <1>1, <1>2, <1>3, <1>5, KeysAreEnds, HeldIsEnds DEF FreeKey
<1>6. CASE x # l /\ y # l
    BY <1>1, <1>2, <1>3, <1>6 DEF NoPairTwice
<1> QED BY <1>4, <1>5, <1>6

\* Taking rows away joins no pair twice.
LEMMA FewerKeepPairs ==
    ASSUME NoPairTwice, \A l \in Ids : links'[l] \in {links[l], NoEnds}
    PROVE  NoPairTwice'
BY DEF NoPairTwice, Held

LEMMA PairsNext == TypeOK /\ NoPairTwice /\ [Next]_vars => NoPairTwice'
<1> SUFFICES ASSUME TypeOK, NoPairTwice, [Next]_vars PROVE NoPairTwice'
    OBVIOUS
<1>1. ASSUME UNCHANGED links PROVE NoPairTwice'
    BY <1>1 DEF NoPairTwice, Held
<1>2. ASSUME NEW r \in Requests, NEW l \in Ids, InsertLink(r, l) PROVE NoPairTwice'
    <2>1. draft[r] \in Ends
        BY <1>2 DEF InsertLink, TypeOK
    <2> QED BY <1>2, <2>1, FreeKeyKeepsPairs DEF InsertLink
<1>3. ASSUME NEW l \in Ids, NEW type \in Types, Retype(l, type) PROVE NoPairTwice'
    <2>1. [links[l] EXCEPT !.type = type] \in Ends
        BY <1>3, HeldIsEnds DEF Retype, Ends
    <2>2. links' = [links EXCEPT ![l] = [links[l] EXCEPT !.type = type]]
        BY <1>3 DEF Retype
    <2> QED BY <1>3, <2>1, <2>2, FreeKeyKeepsPairs DEF Retype
<1>4. ASSUME NEW l \in Ids, RemoveLink(l) PROVE NoPairTwice'
    BY <1>4, FewerKeepPairs DEF RemoveLink, TypeOK
<1>5. ASSUME NEW t \in Tasks, DeleteTask(t) PROVE NoPairTwice'
    BY <1>5, FewerKeepPairs DEF DeleteTask
<1>6. CASE UNCHANGED vars
    BY <1>6, <1>1 DEF vars
<1>7. ASSUME Next PROVE NoPairTwice'
    <2>1. \A r \in Requests, ends \in Ends : ReadEnds(r, ends) => NoPairTwice'
        BY <1>1 DEF ReadEnds
    <2>2. \A r \in Requests : CountLinks(r) \/ Refuse(r) => NoPairTwice'
        BY <1>1 DEF CountLinks, Refuse
    <2>3. \A t \in Tasks : Detach(t) \/ PutBack(t) => NoPairTwice'
        BY <1>1 DEF Detach, PutBack
    <2>4. \A t \in Tasks, p \in Tasks \cup {None} : AddTask(t, p) => NoPairTwice'
        BY <1>1 DEF AddTask
    <2>5. Checkout => NoPairTwice'
        BY <1>1 DEF Checkout
    <2> QED BY <1>2, <1>3, <1>4, <1>5, <1>7, <2>1, <2>2, <2>3, <2>4, <2>5, NextCases
<1> QED BY <1>6, <1>7

\* No pair of tasks is joined twice in one meaning, whatever is created and
\* retyped at the same time.
THEOREM NoPairJoinedTwice == Spec => []NoPairTwice
<1>1. Init => NoPairTwice
    BY DEF Init, NoPairTwice, Held
<1> QED BY <1>1, PairsNext, LinksTypeCorrect, PTL DEF Spec

-----------------------------------------------------------------------------
(* Deleted ends.                                                            *)

LEMMA OutrunNext == TypeOK /\ DanglesOnlyWhenOutrun /\ [Next]_vars => DanglesOnlyWhenOutrun'
<1> SUFFICES ASSUME TypeOK, DanglesOnlyWhenOutrun, [Next]_vars PROVE DanglesOnlyWhenOutrun'
    OBVIOUS
<1>1. ASSUME UNCHANGED <<life, links, outrun>> PROVE DanglesOnlyWhenOutrun'
    BY <1>1 DEF DanglesOnlyWhenOutrun, Held, Dangling, Live
<1>2. ASSUME NEW r \in Requests, NEW l \in Ids, InsertLink(r, l) PROVE DanglesOnlyWhenOutrun'
    BY <1>2 DEF InsertLink, DanglesOnlyWhenOutrun, Held, Dangling, Live, TypeOK, tasks
<1>3. ASSUME NEW l \in Ids, NEW type \in Types, Retype(l, type) PROVE DanglesOnlyWhenOutrun'
    <2>1. \A m \in Ids : /\ links'[m].source = links[m].source
                         /\ links'[m].target = links[m].target
                         /\ m \in Held' => m \in Held
        BY <1>3 DEF Retype, TypeOK, Ends, NoEnds, Held
    <2> QED BY <1>3, <2>1 DEF Retype, DanglesOnlyWhenOutrun, Held, Dangling, Live, tasks
<1>4. ASSUME NEW l \in Ids, RemoveLink(l) PROVE DanglesOnlyWhenOutrun'
    BY <1>4 DEF RemoveLink, DanglesOnlyWhenOutrun, Held, Dangling, Live, TypeOK, tasks
<1>5. ASSUME NEW t \in Tasks, DeleteTask(t) PROVE DanglesOnlyWhenOutrun'
    <2> SUFFICES ASSUME NEW l \in Held', Dangling(l)' PROVE l \in outrun'
        BY DEF DanglesOnlyWhenOutrun
    <2>1. l \in Ids /\ l \in Held /\ links'[l] = links[l] /\ l \notin Touching(Doomed(t))
        BY <1>5 DEF DeleteTask, Held
    <2>2. links[l].source \in Tasks \ Doomed(t) /\ links[l].target \in Tasks \ Doomed(t)
        BY <2>1, HeldIsEnds DEF Touching, Ends
    <2>3. Dangling(l)
        BY <1>5, <2>1, <2>2 DEF DeleteTask, Dangling, Live
    <2> QED BY <1>5, <2>1, <2>3 DEF DeleteTask, DanglesOnlyWhenOutrun
<1>6. ASSUME NEW t \in Tasks, NEW p \in Tasks \cup {None}, AddTask(t, p)
      PROVE  DanglesOnlyWhenOutrun'
    <2>1. \A l \in Held : Dangling(l)' => Dangling(l)
        BY <1>6 DEF AddTask, Dangling, Live, TypeOK
    <2> QED BY <1>6, <2>1 DEF AddTask, DanglesOnlyWhenOutrun, Held
<1>7. CASE UNCHANGED vars
    BY <1>1, <1>7 DEF vars, tasks
<1>8. ASSUME Next PROVE DanglesOnlyWhenOutrun'
    <2>1. \A r \in Requests, ends \in Ends : ReadEnds(r, ends) => DanglesOnlyWhenOutrun'
        BY <1>1 DEF ReadEnds, tasks
    <2>2. \A r \in Requests : CountLinks(r) \/ Refuse(r) => DanglesOnlyWhenOutrun'
        BY <1>1 DEF CountLinks, Refuse, tasks
    <2>3. \A t \in Tasks : Detach(t) \/ PutBack(t) => DanglesOnlyWhenOutrun'
        BY <1>1 DEF Detach, PutBack
    <2>4. Checkout => DanglesOnlyWhenOutrun'
        BY <1>1 DEF Checkout, tasks
    <2> QED BY <1>2, <1>3, <1>4, <1>5, <1>6, <1>8, <2>1, <2>2, <2>3, <2>4, NextCases
<1> QED BY <1>7, <1>8

\* A deletion, cascade included, leaves no link behind it; the only link to a
\* deleted task was inserted after it by a request that had read the task.
THEOREM DeletionReleases == Spec => []DanglesOnlyWhenOutrun
<1>1. Init => DanglesOnlyWhenOutrun
    BY DEF Init, DanglesOnlyWhenOutrun, Held
<1> QED BY <1>1, OutrunNext, LinksTypeCorrect, PTL DEF Spec

-----------------------------------------------------------------------------
(* The cap.                                                                 *)

\* A request that has counted holds the users row, and there is still room.
RoomHeld ==
    \A r \in Requests : stage[r] = "insert" =>
        account = r /\ (plan = "FREE" => Cardinality(Held) < LinkLimit)

QuotaInv == RoomHeld /\ LinkQuota

LEMMA HeldFinite == IsFiniteSet(Held) /\ IsFiniteSet(Held') /\ Cardinality(Held) \in Nat
<1>1. Held \subseteq Ids /\ Held' \subseteq Ids
    BY DEF Held
<1> QED BY <1>1, FS_Subset, FS_CardinalityType

\* A step that takes no slot and lets nobody past the count keeps the cap.
LEMMA NoSlotTaken ==
    ASSUME QuotaInv, Held' \subseteq Held, plan' = plan \/ (plan' = "PRO" /\ account = None),
           \A r \in Requests : stage'[r] = "insert" => stage[r] = "insert" /\ account' = account
    PROVE  QuotaInv'
<1>1. Cardinality(Held') <= Cardinality(Held) /\ Cardinality(Held') \in Nat
    BY HeldFinite, FS_Subset, FS_CardinalityType
<1>2. CASE plan' = plan
    BY <1>1, <1>2, HeldFinite DEF QuotaInv, RoomHeld, LinkQuota
<1>3. CASE plan' = "PRO"
    BY <1>3 DEF QuotaInv, RoomHeld, LinkQuota
<1> QED BY <1>2, <1>3

LEMMA QuotaNext == TypeOK /\ QuotaInv /\ [Next]_vars => QuotaInv'
<1> SUFFICES ASSUME TypeOK, QuotaInv, [Next]_vars PROVE QuotaInv'
    OBVIOUS
<1>1. ASSUME UNCHANGED <<links, plan, stage, account>> PROVE QuotaInv'
    BY <1>1, NoSlotTaken DEF Held
<1>2. ASSUME NEW r \in Requests, NEW ends \in Ends, ReadEnds(r, ends) PROVE QuotaInv'
    <2>1. Held' = Held
        BY <1>2 DEF ReadEnds, Held
    <2> QED BY <1>2, <2>1, NoSlotTaken DEF ReadEnds, TypeOK
<1>3. ASSUME NEW r \in Requests, CountLinks(r) PROVE QuotaInv'
    <2>1. Held' = Held
        BY <1>3 DEF CountLinks, Held
    <2>2. \A x \in Requests \ {r} : stage'[x] # "insert"
        BY <1>3 DEF CountLinks, AccountFree, QuotaInv, RoomHeld, TypeOK
    <2> QED BY <1>3, <2>1, <2>2 DEF CountLinks, QuotaInv, RoomHeld, LinkQuota
<1>4. ASSUME NEW r \in Requests, NEW l \in Ids, InsertLink(r, l) PROVE QuotaInv'
    <2>1. l \notin Held /\ draft[r] \in Ends
        BY <1>4 DEF InsertLink, Held, TypeOK
    <2>2. Held' = Held \cup {l}
        BY <1>4, <2>1, NoEndsIsNone DEF InsertLink, Held, TypeOK
    <2>3. Cardinality(Held') = Cardinality(Held) + 1
        BY <2>1, <2>2, HeldFinite, FS_AddElement
    <2>4. plan = "FREE" => Cardinality(Held) < LinkLimit
        BY <1>4 DEF InsertLink, QuotaInv, RoomHeld
    <2>5. \A x \in Requests : stage'[x] # "insert"
        BY <1>4 DEF InsertLink, Close, QuotaInv, RoomHeld, TypeOK
    <2> QED BY <1>4, <2>3, <2>4, <2>5, HeldFinite DEF InsertLink, QuotaInv, RoomHeld, LinkQuota
<1>5. ASSUME NEW r \in Requests, Refuse(r) PROVE QuotaInv'
    <2>1. Held' = Held
        BY <1>5 DEF Refuse, Held
    <2>2. \A x \in Requests : stage'[x] = "insert" => stage[x] = "insert" /\ account' = account
        BY <1>5 DEF Refuse, Close, QuotaInv, RoomHeld, TypeOK
    <2> QED BY <1>5, <2>1, <2>2, NoSlotTaken DEF Refuse
<1>6. ASSUME NEW l \in Ids, RemoveLink(l) PROVE QuotaInv'
    <2>1. Held' \subseteq Held
        BY <1>6 DEF RemoveLink, Held, TypeOK
    <2> QED BY <1>6, <2>1, NoSlotTaken DEF RemoveLink
<1>7. ASSUME NEW l \in Ids, NEW type \in Types, Retype(l, type) PROVE QuotaInv'
    <2>1. Held' \subseteq Held
        BY <1>7 DEF Retype, Held, TypeOK
    <2> QED BY <1>7, <2>1, NoSlotTaken DEF Retype
<1>8. ASSUME NEW t \in Tasks, DeleteTask(t) PROVE QuotaInv'
    <2>1. Held' \subseteq Held
        BY <1>8 DEF DeleteTask, Held
    <2> QED BY <1>8, <2>1, NoSlotTaken DEF DeleteTask
<1>9. CASE Checkout
    <2>1. Held' = Held
        BY <1>9 DEF Checkout, Held
    <2> QED BY <1>9, <2>1, NoSlotTaken DEF Checkout, AccountFree
<1>10. CASE UNCHANGED vars
    BY <1>1, <1>10 DEF vars
<1>11. ASSUME Next PROVE QuotaInv'
    <2>1. \A t \in Tasks : Detach(t) \/ PutBack(t) => QuotaInv'
        BY <1>1 DEF Detach, PutBack
    <2>2. \A t \in Tasks, p \in Tasks \cup {None} : AddTask(t, p) => QuotaInv'
        BY <1>1 DEF AddTask
    <2> QED BY <1>2, <1>3, <1>4, <1>5, <1>6, <1>7, <1>8, <1>9, <1>11, <2>1, <2>2, NextCases
<1> QED BY <1>10, <1>11

\* Any number of concurrent creations stop at the cap of the free plan, also
\* next to deletions and a purchase.
THEOREM LinksWithinPlan == Spec => []LinkQuota
<1>1. Init => QuotaInv
    <2> SUFFICES ASSUME Init PROVE QuotaInv
        OBVIOUS
    <2>1. Held = {}
        BY DEF Init, Held
    <2>2. Cardinality(Held) = 0
        BY <2>1, FS_EmptySet
    <2> QED BY <2>2 DEF Init, QuotaInv, RoomHeld, LinkQuota
<1>2. QuotaInv => LinkQuota
    BY DEF QuotaInv
<1> QED BY <1>1, <1>2, QuotaNext, LinksTypeCorrect, PTL DEF Spec

-----------------------------------------------------------------------------
(* Links and parents.                                                       *)

\* Ends that were read: both tasks exist, and neither is the other's parent
\* unless it was put back.
Known(ends) ==
    life[ends.source] # "none" /\ life[ends.target] # "none" /\ PutBackOnly(ends)

KnownInv ==
    /\ \A l \in Held : Known(links[l])
    /\ \A r \in Requests : stage[r] # "idle" => Known(draft[r])

\* What the board does to tasks keeps ends known.
LEMMA KnownStays ==
    ASSUME TypeOK, NEW ends \in Ends, Known(ends),
           \/ UNCHANGED tasks
           \/ \E t \in Tasks : Detach(t) \/ PutBack(t) \/ DeleteTask(t)
                                \/ \E p \in Tasks \cup {None} : AddTask(t, p)
    PROVE  Known(ends)'
<1>1. CASE UNCHANGED tasks
    BY <1>1 DEF tasks, Known, PutBackOnly
<1>2. ASSUME NEW t \in Tasks, Detach(t) PROVE Known(ends)'
    BY <1>2 DEF Detach, Known, PutBackOnly, TypeOK, Ends
<1>3. ASSUME NEW t \in Tasks, PutBack(t) PROVE Known(ends)'
    BY <1>3 DEF PutBack, Known, PutBackOnly, TypeOK, Ends
<1>4. ASSUME NEW t \in Tasks, DeleteTask(t) PROVE Known(ends)'
    BY <1>4 DEF DeleteTask, Known, PutBackOnly, TypeOK, Ends
<1>5. ASSUME NEW t \in Tasks, NEW p \in Tasks \cup {None}, AddTask(t, p) PROVE Known(ends)'
    BY <1>5 DEF AddTask, Known, PutBackOnly, TypeOK, Ends
<1> QED BY <1>1, <1>2, <1>3, <1>4, <1>5

LEMMA KnownNext == TypeOK /\ KnownInv /\ [Next]_vars => KnownInv'
<1> SUFFICES ASSUME TypeOK, KnownInv, [Next]_vars PROVE KnownInv'
    OBVIOUS
<1>1. \A r \in Requests : stage[r] # "idle" => draft[r] \in Ends
    BY DEF TypeOK
<1>2. ASSUME UNCHANGED tasks \/ \E t \in Tasks : Detach(t) \/ PutBack(t) \/ DeleteTask(t)
                                   \/ \E p \in Tasks \cup {None} : AddTask(t, p),
             UNCHANGED <<stage, draft>>, \A l \in Ids : links'[l] \in {links[l], NoEnds}
      PROVE  KnownInv'
    <2>1. \A l \in Held' : l \in Held /\ links'[l] = links[l]
        BY <1>2 DEF Held
    <2>2. \A l \in Held : links[l] \in Ends /\ Known(links[l])
        BY HeldIsEnds DEF KnownInv
    <2>3. \A ends \in Ends : Known(ends) => Known(ends)'
        BY <1>2, KnownStays
    <2>4. \A l \in Held' : Known(links[l])'
        BY <2>1, <2>2, <2>3 DEF Known, PutBackOnly
    <2>5. \A r \in Requests : stage'[r] # "idle" => Known(draft[r])'
        <3>1. \A r \in Requests : stage'[r] # "idle" => draft'[r] \in Ends /\ Known(draft'[r])
            BY <1>1, <1>2 DEF KnownInv
        <3> QED BY <2>3, <3>1 DEF Known, PutBackOnly
    <2> QED BY <2>4, <2>5 DEF KnownInv
<1>3. ASSUME UNCHANGED <<tasks, links>>,
             \A r \in Requests : stage'[r] # "idle" =>
                 (stage[r] # "idle" /\ draft'[r] = draft[r]) \/ Known(draft'[r])
      PROVE  KnownInv'
    <2>1. \A r \in Requests : stage'[r] # "idle" => Known(draft'[r])
        BY <1>3 DEF KnownInv
    <2> QED BY <1>3, <2>1 DEF KnownInv, Known, PutBackOnly, Held, tasks
<1>4. ASSUME NEW r \in Requests, NEW ends \in Ends, ReadEnds(r, ends) PROVE KnownInv'
    <2>1. Known(ends)
        BY <1>4 DEF ReadEnds, Live, Related, Known, PutBackOnly
    <2>2. draft'[r] = ends /\ \A x \in Requests \ {r} : draft'[x] = draft[x] /\ stage'[x] = stage[x]
        BY <1>4 DEF ReadEnds, TypeOK
    <2> QED BY <1>3, <1>4, <2>1, <2>2 DEF ReadEnds
<1>5. ASSUME NEW r \in Requests, CountLinks(r) PROVE KnownInv'
    BY <1>3, <1>5 DEF CountLinks, TypeOK
<1>6. ASSUME NEW r \in Requests, Refuse(r) PROVE KnownInv'
    BY <1>3, <1>6 DEF Refuse, Close, TypeOK
<1>7. ASSUME NEW r \in Requests, NEW l \in Ids, InsertLink(r, l) PROVE KnownInv'
    <2>1. Known(draft[r])
        BY <1>7 DEF InsertLink, KnownInv
    <2>2. links'[l] = draft[r] /\ \A m \in Ids \ {l} : links'[m] = links[m]
        BY <1>7 DEF InsertLink, TypeOK
    <2>3. \A m \in Held' : Known(links'[m])
        BY <2>1, <2>2 DEF KnownInv, Held
    <2>4. \A x \in Requests : stage'[x] # "idle" => stage[x] # "idle" /\ draft'[x] = draft[x]
        BY <1>7 DEF InsertLink, Close, TypeOK
    <2>5. \A x \in Requests : stage'[x] # "idle" => Known(draft'[x])
        BY <2>4 DEF KnownInv
    <2> QED BY <1>7, <2>3, <2>5 DEF InsertLink, KnownInv, Known, PutBackOnly, tasks
<1>8. ASSUME NEW l \in Ids, NEW type \in Types, Retype(l, type) PROVE KnownInv'
    <2>1. \A m \in Ids : /\ links'[m].source = links[m].source
                         /\ links'[m].target = links[m].target
                         /\ m \in Held' => m \in Held
        BY <1>8 DEF Retype, TypeOK, Ends, NoEnds, Held
    <2> QED BY <1>8, <2>1 DEF Retype, KnownInv, Known, PutBackOnly, Held, tasks
<1>9. ASSUME NEW l \in Ids, RemoveLink(l) PROVE KnownInv'
    BY <1>2, <1>9 DEF RemoveLink, TypeOK
<1>10. ASSUME NEW t \in Tasks, DeleteTask(t) PROVE KnownInv'
    <2>1. UNCHANGED <<stage, draft>> /\ \A l \in Ids : links'[l] \in {links[l], NoEnds}
        BY <1>10 DEF DeleteTask
    <2> QED BY <1>2, <1>10, <2>1
<1>11. ASSUME NEW t \in Tasks, Detach(t) \/ PutBack(t) PROVE KnownInv'
    <2>1. UNCHANGED <<stage, draft>> /\ \A l \in Ids : links'[l] \in {links[l], NoEnds}
        BY <1>11 DEF Detach, PutBack
    <2> QED BY <1>2, <1>11, <2>1
<1>12. ASSUME NEW t \in Tasks, NEW p \in Tasks \cup {None}, AddTask(t, p) PROVE KnownInv'
    <2>1. UNCHANGED <<stage, draft>> /\ \A l \in Ids : links'[l] \in {links[l], NoEnds}
        BY <1>12 DEF AddTask
    <2> QED BY <1>2, <1>12, <2>1
<1>13. CASE Checkout
    BY <1>3, <1>13 DEF Checkout
<1>14. CASE UNCHANGED vars
    BY <1>3, <1>14 DEF vars
<1>15. ASSUME Next PROVE KnownInv'
    BY <1>4, <1>5, <1>6, <1>7, <1>8, <1>9, <1>10, <1>11, <1>12, <1>13, <1>15, NextCases
<1> QED BY <1>14, <1>15

\* No link doubles the relation of a task and its parent, but where a stale
\* Update put the task back.
THEOREM LinksBesideParents == Spec => []DoublesOnlyWhenPutBack
<1>1. Init => KnownInv
    BY DEF Init, KnownInv, Held
<1>2. KnownInv => DoublesOnlyWhenPutBack
    BY DEF KnownInv, Known, DoublesOnlyWhenPutBack
<1> QED BY <1>1, <1>2, KnownNext, LinksTypeCorrect, PTL DEF Spec

=============================================================================
