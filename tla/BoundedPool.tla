----------------------------- MODULE BoundedPool -----------------------------
(***************************************************************************)
(* What a capped pool promises its callers, in one atomic step per answer: *)
(* a caller gets a new item while there is room, and is turned away only   *)
(* at a moment when the pool is full.  A caller may also give up, or fail  *)
(* for reasons of its own.                                                 *)
(***************************************************************************)
EXTENDS Integers, FiniteSets

CONSTANTS
    Callers,
    Items,
    Cap

VARIABLES
    pool,       \* the items in use
    answer      \* what each caller has been told

vars == <<pool, answer>>

Init ==
    /\ pool = {}
    /\ answer = [c \in Callers |-> "none"]

Accept(c) ==
    /\ answer[c] = "none"
    /\ Cardinality(pool) < Cap
    /\ \E i \in Items \ pool : pool' = pool \cup {i}
    /\ answer' = [answer EXCEPT ![c] = "accepted"]

TurnAway(c) ==
    /\ answer[c] = "none"
    /\ Cardinality(pool) >= Cap
    /\ answer' = [answer EXCEPT ![c] = "turned away"]
    /\ UNCHANGED pool

GiveUp(c) ==
    /\ answer[c] = "none"
    /\ answer' = [answer EXCEPT ![c] = "gave up"]
    /\ UNCHANGED pool

Remove(i) ==
    /\ i \in pool
    /\ pool' = pool \ {i}
    /\ UNCHANGED answer

Next ==
    \/ \E c \in Callers : Accept(c) \/ TurnAway(c) \/ GiveUp(c)
    \/ \E i \in Items : Remove(i)

Spec == Init /\ [][Next]_vars

=============================================================================
