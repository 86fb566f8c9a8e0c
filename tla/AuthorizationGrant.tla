-------------------------- MODULE AuthorizationGrant --------------------------
(***************************************************************************)
(* What the OAuth proxy promises of every authorization a client asks for: *)
(* the client is called back at most once, and after that, at most once,   *)
(* a token is issued to it.                                                *)
(***************************************************************************)
EXTENDS Integers

CONSTANT Clients

VARIABLES
    calledBack,     \* how often each client was called back
    granted         \* how many tokens were issued to it for its code

vars == <<calledBack, granted>>

Init ==
    /\ calledBack = [h \in Clients |-> 0]
    /\ granted = [h \in Clients |-> 0]

CallBack(h) ==
    /\ calledBack[h] = 0
    /\ calledBack' = [calledBack EXCEPT ![h] = 1]
    /\ UNCHANGED granted

Grant(h) ==
    /\ calledBack[h] = 1 /\ granted[h] = 0
    /\ granted' = [granted EXCEPT ![h] = 1]
    /\ UNCHANGED calledBack

Next == \E h \in Clients : CallBack(h) \/ Grant(h)

Spec == Init /\ [][Next]_vars
=============================================================================
