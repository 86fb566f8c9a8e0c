----------------------------- MODULE SessionCap ------------------------------
(***************************************************************************)
(* The global cap on MCP sessions: CappedSessionManager (src/session.rs)   *)
(* around rmcp's LocalSessionManager.  create_session() holds create_gate  *)
(* from before the count to after the insertion, but removals (DELETE,     *)
(* idle expiry) never take it, and a client that disconnects drops the     *)
(* handler's future at any of its awaits, which gives the gate back.       *)
(***************************************************************************)
EXTENDS Integers, FiniteSets

CONSTANTS
    Requests,       \* initialize requests
    Ids,            \* session ids rmcp can generate
    MaxSessions,    \* MAX_SESSIONS
    Nobody

ASSUME SessionCapAssumption ==
    /\ MaxSessions \in Nat \ {0}
    /\ Nobody \notin Requests

VARIABLES
    sessions,   \* LocalSessionManager.sessions
    gate,       \* the request holding create_gate, or Nobody
    rq          \* the create_session() calls: step and the count they read

sessionVars == <<sessions, gate, rq>>

Steps == {"waiting", "counting", "creating",
          "created", "capped", "failed", "dropped"}

SessionTypeOK ==
    /\ sessions \subseteq Ids
    /\ gate \in Requests \cup {Nobody}
    /\ rq \in [Requests -> [pc: Steps, count: 0 .. MaxSessions]]

SessionInit ==
    /\ sessions = {}
    /\ gate = Nobody
    /\ rq = [r \in Requests |-> [pc |-> "waiting", count |-> 0]]

-----------------------------------------------------------------------------

\* Mutant: check-then-insert without the gate.
NoGate(r) == TRUE

GateFree(r) == gate = Nobody

\* create_gate.lock().await
AcquireGate(r) ==
    /\ rq[r].pc = "waiting"
    /\ GateFree(r)
    /\ gate' = r
    /\ rq' = [rq EXCEPT ![r].pc = "counting"]
    /\ UNCHANGED sessions

\* Mutant: one session too many.
OverCap(count) == count > MaxSessions

AtCap(count) == count >= MaxSessions

\* Mutant: the rejecting return leaks the guard.
GateLeaked(r) == r

\* The guard is dropped on the early return.
GateAfterReject(r) == Nobody

\* sessions.read().await.len(), and the check on it.
ReadCount(r) ==
    LET count == Cardinality(sessions) IN
    /\ rq[r].pc = "counting"
    /\ IF AtCap(count)
       THEN /\ rq' = [rq EXCEPT ![r] = [pc |-> "capped", count |-> count]]
            /\ gate' = GateAfterReject(r)
       ELSE /\ rq' = [rq EXCEPT ![r] = [pc |-> "creating", count |-> count]]
            /\ UNCHANGED gate
    /\ UNCHANGED sessions

\* inner.create_session().await: a session under an unused id, or an error.
InnerCreate(r) ==
    /\ rq[r].pc = "creating"
    /\ \/ /\ \E id \in Ids \ sessions : sessions' = sessions \cup {id}
          /\ rq' = [rq EXCEPT ![r].pc = "created"]
       \/ /\ rq' = [rq EXCEPT ![r].pc = "failed"]
          /\ UNCHANGED sessions
    /\ gate' = Nobody

\* The client goes away; the future is dropped at the await it is in.
Drop(r) ==
    /\ rq[r].pc \in {"waiting", "counting", "creating"}
    /\ rq' = [rq EXCEPT ![r].pc = "dropped"]
    /\ gate' = IF gate = r THEN Nobody ELSE gate
    /\ UNCHANGED sessions

\* close_session(): a DELETE, or the end of a session idle for
\* SESSION_KEEP_ALIVE.  Takes no gate.
CloseSession(id) ==
    /\ id \in sessions
    /\ sessions' = sessions \ {id}
    /\ UNCHANGED <<gate, rq>>

SessionNext ==
    \/ \E r \in Requests : AcquireGate(r) \/ ReadCount(r) \/ InnerCreate(r) \/ Drop(r)
    \/ \E id \in Ids : CloseSession(id)

SessionSpec == SessionInit /\ [][SessionNext]_sessionVars

\* The runtime polls a handler whose await can complete.
FairSpec ==
    /\ SessionSpec
    /\ \A r \in Requests : WF_sessionVars(AcquireGate(r) \/ ReadCount(r) \/ InnerCreate(r))

-----------------------------------------------------------------------------
(* Properties                                                              *)

\* N parallel initializes that all found room cannot overshoot the cap.
CapRespected == Cardinality(sessions) <= MaxSessions

\* What the client of request r has been told.
Told(r) ==
    CASE rq[r].pc = "created" -> "accepted"
      [] rq[r].pc = "capped" -> "turned away"
      [] rq[r].pc \in {"failed", "dropped"} -> "gave up"
      [] OTHER -> "none"

Pool == INSTANCE BoundedPool WITH
    Callers <- Requests, Items <- Ids, Cap <- MaxSessions,
    pool <- sessions, answer <- [r \in Requests |-> Told(r)]

\* Count, check and insertion look like one atomic step although sessions
\* close in between: CapReached is answered only while the map is full, and a
\* session is added only while it is not.
ImplementsPool == Pool!Spec

\* Every initialize is answered or dropped: no path keeps the gate.
RequestsAnswered ==
    \A r \in Requests : <>(rq[r].pc \in {"created", "capped", "failed", "dropped"})

=============================================================================
