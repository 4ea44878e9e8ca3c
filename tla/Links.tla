------------------------------- MODULE Links -------------------------------
(***************************************************************************)
(* The links a user draws between tasks: task_links, its two uniqueness    *)
(* indexes, the graph service, and what the board does to the tasks at     *)
(* their ends.  Creating a link is split where it acts on what no lock     *)
(* protects: its ends are read before the users row is locked, and the     *)
(* links are counted under that lock before one is inserted.               *)
(***************************************************************************)
EXTENDS Integers, FiniteSets

CONSTANTS
    Tasks,       \* task ids
    Ids,         \* link ids
    Requests,    \* the link creations that can be open at the same time
    None,        \* no link, no task, no request
    Types,       \* link_type_enum
    DirectedTypes,
    LinkLimit    \* TaskLinkLimit of the free plan

ASSUME LinksAssumption ==
    /\ IsFiniteSet(Ids) /\ LinkLimit \in Nat
    /\ DirectedTypes \subseteq Types
    /\ None \notin Tasks \cup Requests

VARIABLES
    life,       \* per task: never inserted, live, or deleted_at set
    parent,     \* per task, as committed
    born,       \* per task, the parent it was created under
    links,      \* task_links, as committed: per link id
    plan,       \* users.plan
    stage,      \* per request, the step it takes next
    draft,      \* per request, the link it will insert
    account,    \* the request that holds the users row
    outrun,     \* links whose end was deleted before they were inserted
    putBack     \* tasks that an Update put back under a parent they had left

tasks == <<life, parent, born, putBack>>
vars == <<tasks, links, plan, stage, draft, account, outrun>>

Ends == [source : Tasks, target : Tasks, type : Types]

NoEnds == [source |-> None, target |-> None, type |-> None]

Held == {l \in Ids : links[l] # NoEnds}

Live(t) == life[t] = "live"

-----------------------------------------------------------------------------
(* Constraints of the database.                                             *)

\* The undirected index over the ends as they are given.
Collides_AsGiven(a, b) ==
    a.type = b.type /\ a.source = b.source /\ a.target = b.target

\* The two rows have the same key in task_links_directed_key, or in
\* task_links_undirected_key.
Collides(a, b) ==
    /\ a.type = b.type
    /\ IF a.type \in DirectedTypes THEN a.source = b.source /\ a.target = b.target
       ELSE {a.source, a.target} = {b.source, b.target}

\* No other row has the key.
FreeKey(l, ends) == \A m \in Held \ {l} : ~Collides(links[m], ends)

\* LockAccount left out.
AccountFree_NotAsked == TRUE

\* SELECT ... FOR UPDATE of the users row, and an UPDATE of it, go on.
AccountFree == account = None

-----------------------------------------------------------------------------
(* Create.                                                                  *)

\* parentOf asked of one order of the two.
Related_OneWay(ends) == parent[ends.source] = ends.target

\* One of the two ends is the parent of the other.
Related(ends) == parent[ends.source] = ends.target \/ parent[ends.target] = ends.source

\* link.New, and the two ends read.
ReadEnds(r, ends) ==
    /\ stage[r] = "idle"
    /\ ends.source # ends.target
    /\ Live(ends.source) /\ Live(ends.target)
    /\ ~Related(ends)
    /\ stage' = [stage EXCEPT ![r] = "count"]
    /\ draft' = [draft EXCEPT ![r] = ends]
    /\ UNCHANGED <<tasks, links, plan, account, outrun>>

\* LockAccount and withinQuota.
CountLinks(r) ==
    /\ stage[r] = "count"
    /\ AccountFree
    /\ plan = "FREE" => Cardinality(Held) < LinkLimit
    /\ stage' = [stage EXCEPT ![r] = "insert"]
    /\ account' = r
    /\ UNCHANGED <<tasks, links, plan, draft, outrun>>

\* The transaction ends and its request keeps what it was about to insert.
Close_Kept(r) ==
    /\ stage' = [stage EXCEPT ![r] = "idle"]
    /\ account' = (IF account = r THEN None ELSE account)
    /\ UNCHANGED draft

\* The transaction ends, and with it its lock.
Close(r) ==
    /\ stage' = [stage EXCEPT ![r] = "idle"]
    /\ draft' = [draft EXCEPT ![r] = NoEnds]
    /\ account' = (IF account = r THEN None ELSE account)

\* The INSERT and the commit.  The foreign keys are satisfied by a deleted
\* task, whose row stays.
InsertLink(r, l) ==
    /\ stage[r] = "insert"
    /\ links[l] = NoEnds
    /\ FreeKey(l, draft[r])
    /\ links' = [links EXCEPT ![l] = draft[r]]
    /\ outrun' = IF Live(draft[r].source) /\ Live(draft[r].target) THEN outrun \ {l}
                 ELSE outrun \cup {l}
    /\ Close(r)
    /\ UNCHANGED <<tasks, plan>>

\* A full quota, a taken key, a cancelled request.
Refuse(r) ==
    /\ stage[r] # "idle"
    /\ Close(r)
    /\ UNCHANGED <<tasks, links, plan, outrun>>

-----------------------------------------------------------------------------
(* Retype and Delete: one statement that acts on the link as it finds it.   *)

Retype(l, type) ==
    /\ l \in Held
    /\ FreeKey(l, [links[l] EXCEPT !.type = type])
    /\ links' = [links EXCEPT ![l].type = type]
    /\ UNCHANGED <<tasks, plan, stage, draft, account, outrun>>

RemoveLink(l) ==
    /\ l \in Held
    /\ links' = [links EXCEPT ![l] = NoEnds]
    /\ UNCHANGED <<tasks, plan, stage, draft, account, outrun>>

-----------------------------------------------------------------------------
(* The board and the plan, as far as links see them.                        *)

\* Create of a task, perhaps under a parent.
AddTask(t, p) ==
    /\ life[t] = "none"
    /\ AccountFree
    /\ p # None => Live(p) /\ parent[p] = None
    /\ life' = [life EXCEPT ![t] = "live"]
    /\ parent' = [parent EXCEPT ![t] = p] /\ born' = [born EXCEPT ![t] = p]
    /\ UNCHANGED <<putBack, links, plan, stage, draft, account, outrun>>

\* MoveTask and Promote: a subtask leaves its parent.
Detach(t) ==
    /\ Live(t) /\ parent[t] # None
    /\ parent' = [parent EXCEPT ![t] = None]
    /\ putBack' = putBack \ {t}
    /\ UNCHANGED <<life, born, links, plan, stage, draft, account, outrun>>

\* An Update, or the cascade of a completion, that read the task as a subtask
\* writes the whole row back (Board): the only way to get a parent later on.
PutBack(t) ==
    /\ Live(t) /\ parent[t] = None /\ born[t] # None
    /\ parent[born[t]] = None /\ \A c \in Tasks : parent[c] # t
    /\ parent' = [parent EXCEPT ![t] = born[t]]
    /\ putBack' = putBack \cup {t}
    /\ UNCHANGED <<life, born, links, plan, stage, draft, account, outrun>>

Doomed(t) == {t} \cup {c \in Tasks : parent[c] = t /\ Live(c)}

\* RemoveForTasks by one of its two conditions.
Touching_Source(gone) == {l \in Held : links[l].source \in gone}

\* RemoveForTasks.
Touching(gone) == {l \in Held : links[l].source \in gone \/ links[l].target \in gone}

\* Delete, which takes the finished subtasks along, at its RemoveForTasks: a
\* creation that runs into it from there on still inserts.
DeleteTask(t) ==
    /\ Live(t)
    /\ life' = [x \in Tasks |-> IF x \in Doomed(t) THEN "gone" ELSE life[x]]
    /\ links' = [l \in Ids |-> IF l \in Touching(Doomed(t)) THEN NoEnds ELSE links[l]]
    /\ UNCHANGED <<parent, born, putBack, plan, stage, draft, account, outrun>>

\* Checkout with billing off: the plan that has no cap.
Checkout ==
    /\ AccountFree
    /\ plan' = "PRO"
    /\ UNCHANGED <<tasks, links, stage, draft, account, outrun>>

-----------------------------------------------------------------------------
Init ==
    /\ life = [t \in Tasks |-> "none"] /\ parent = [t \in Tasks |-> None]
    /\ born = [t \in Tasks |-> None] /\ putBack = {}
    /\ links = [l \in Ids |-> NoEnds]
    /\ plan = "FREE"
    /\ stage = [r \in Requests |-> "idle"] /\ draft = [r \in Requests |-> NoEnds]
    /\ account = None
    /\ outrun = {}

Create(r) ==
    \/ \E ends \in Ends : ReadEnds(r, ends)
    \/ CountLinks(r)
    \/ \E l \in Ids : InsertLink(r, l)
    \/ Refuse(r)

Next ==
    \/ \E r \in Requests : Create(r)
    \/ \E l \in Ids : RemoveLink(l) \/ \E type \in Types : Retype(l, type)
    \/ \E t \in Tasks : Detach(t) \/ PutBack(t) \/ DeleteTask(t) \/ \E p \in Tasks \cup {None} : AddTask(t, p)
    \/ Checkout

Spec == Init /\ [][Next]_vars

-----------------------------------------------------------------------------
(* Properties.                                                              *)

\* Every variable has its type; a request past its first step has a draft.
TypeOK ==
    /\ life \in [Tasks -> {"none", "live", "gone"}] /\ parent \in [Tasks -> Tasks \cup {None}]
    /\ born \in [Tasks -> Tasks \cup {None}] /\ putBack \subseteq Tasks
    /\ links \in [Ids -> Ends \cup {NoEnds}]
    /\ plan \in {"FREE", "PRO"}
    /\ stage \in [Requests -> {"idle", "count", "insert"}]
    /\ draft \in [Requests -> Ends \cup {NoEnds}]
    /\ account \in Requests \cup {None}
    /\ outrun \subseteq Ids
    /\ \A r \in Requests : stage[r] = "idle" <=> draft[r] = NoEnds

\* SameEnds of the domain: the same pair, in either order where order means
\* nothing.
SameEnds(a, b) ==
    /\ a.type = b.type
    /\ \/ a.source = b.source /\ a.target = b.target
       \/ a.type \notin DirectedTypes /\ a.source = b.target /\ a.target = b.source

\* No pair is joined twice in one meaning, whether by two creations or by a
\* retype: the indexes of the table enforce what SameEnds of the domain says.
NoPairTwice == \A l, m \in Held : SameEnds(links[l], links[m]) => l = m

\* Concurrent creations do not take a free account past its cap: the count and
\* the INSERT are under one lock, and so is a purchase.
LinkQuota == plan = "FREE" => Cardinality(Held) <= LinkLimit

\* If one end is the other's parent, it was put back under it.
PutBackOnly(ends) ==
    /\ parent[ends.source] = ends.target => ends.source \in putBack
    /\ parent[ends.target] = ends.source => ends.target \in putBack

\* A link never doubles the relation of a task and its parent, although that is
\* asked before the lock and not again: no task gets a parent it did not have
\* when it was read, but for one put back under it by a stale Update.
DoublesOnlyWhenPutBack == \A l \in Held : PutBackOnly(links[l])

Dangling(l) == ~Live(links[l].source) \/ ~Live(links[l].target)

\* No link names a deleted task: deleting a task releases its links.
LinksLive == \A l \in Held : ~Dangling(l)

\* A deletion leaves no link behind; the only link to a deleted task is one
\* that was inserted after the deletion, by a request that read the task before.
DanglesOnlyWhenOutrun == \A l \in Held : Dangling(l) => l \in outrun
=============================================================================
