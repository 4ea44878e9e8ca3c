----------------------------- MODULE AtomicBoard -----------------------------
(***************************************************************************)
(* What the board promises its owner: every operation on a task happens   *)
(* at once, row, ledger and counter together, as if nobody else was there. *)
(* A task is created open, below the cap; completing it pays one reward,   *)
(* reopening or deleting it takes back what it was paid.                   *)
(***************************************************************************)
EXTENDS Integers, FiniteSets

CONSTANTS
    Tasks,        \* the ids the account will ever have used
    ActiveLimit,  \* the cap on open tasks a creation has to respect
    Rewards       \* what a completion may pay

VARIABLES
    life,         \* per task, where it is in its life
    pay,          \* per task, what it has been paid and not had taken back
    completions   \* completed tasks, as the owner is shown

view == <<life, pay, completions>>

Lives == {"new", "open", "done", "gone"}
Open == {t \in Tasks : life[t] = "open"}

Init ==
    /\ life = [t \in Tasks |-> "new"]
    /\ pay = [t \in Tasks |-> 0]
    /\ completions = 0

Becomes(t, next) == life' = [life EXCEPT ![t] = next]
TakeBack(t) == pay' = [pay EXCEPT ![t] = 0]

Create(t) ==
    /\ life[t] = "new" /\ Cardinality(Open) < ActiveLimit
    /\ Becomes(t, "open")
    /\ UNCHANGED <<pay, completions>>

Complete(t) ==
    /\ life[t] = "open" /\ Becomes(t, "done")
    /\ pay'[t] \in Rewards /\ pay' = [pay EXCEPT ![t] = pay'[t]]
    /\ completions' = completions + 1

Reopen(t) ==
    /\ life[t] = "done" /\ Becomes(t, "open")
    /\ TakeBack(t)
    /\ completions' = completions - 1

Delete(t) ==
    /\ life[t] \in {"open", "done"} /\ Becomes(t, "gone")
    /\ TakeBack(t)
    /\ completions' = IF life[t] = "done" THEN completions - 1 ELSE completions

Next == \E t \in Tasks : Create(t) \/ Complete(t) \/ Reopen(t) \/ Delete(t)

Spec == Init /\ [][Next]_view
=============================================================================
