------------------------------ MODULE PsiServe ------------------------------
(***************************************************************************)
(* The serve command of pool-psi-cli (main.rs): the accept loop, the       *)
(* semaphore that caps the sessions, the timeout around each of them, and  *)
(* the preprocessed state that a session owns and lends to the blocking    *)
(* task of blind_eval (pool-oprf/src/server.rs, serve_next).  A timeout    *)
(* drops the session's future and its permit; it does not stop a blocking  *)
(* task, which keeps its own reference to the state.                       *)
(***************************************************************************)
EXTENDS Integers, FiniteSets

CONSTANTS
    Connections,    \* bound: the connections that clients make
    MaxSessions     \* max_sessions

ASSUME ServeAssumption ==
    /\ IsFiniteSet(Connections)
    /\ MaxSessions \in Nat \ {0}

VARIABLES
    conn,       \* each connection: "new", "refused", "running" or "ended"
    permits,    \* permits left in the semaphore
    state,      \* the connections whose session owns a preprocessed state
    task        \* the connections whose state a blocking task holds

serveVars == <<conn, permits, state, task>>

Running == {c \in Connections : conn[c] = "running"}

ServeInit ==
    /\ conn = [c \in Connections |-> "new"]
    /\ permits = MaxSessions
    /\ state = {} /\ task = {}

----------------------------------------------------------------------------
\* accept, then try_acquire_owned: without a permit the connection is dropped.
Accept(c) ==
    /\ conn[c] = "new"
    /\ \/ /\ permits > 0
          /\ permits' = permits - 1
          /\ conn' = [conn EXCEPT ![c] = "running"]
       \/ /\ permits = 0
          /\ conn' = [conn EXCEPT ![c] = "refused"]
          /\ UNCHANGED permits
    /\ UNCHANGED <<state, task>>

\* A client that was refused connects again.
Reconnect(c) ==
    /\ conn[c] = "refused"
    /\ conn' = [conn EXCEPT ![c] = "new"]
    /\ UNCHANGED <<permits, state, task>>

\* PsiServer::session returns: the session has its preprocessed state.
Preprocessed(c) ==
    /\ conn[c] = "running" /\ c \notin state
    /\ state' = state \union {c}
    /\ UNCHANGED <<conn, permits, task>>

\* serve_next: blind_eval starts on a clone of the state's Arc, and ends.
StartBlindEval(c) ==
    /\ conn[c] = "running" /\ c \in state /\ c \notin task
    /\ task' = task \union {c}
    /\ UNCHANGED <<conn, permits, state>>

EndBlindEval(c) ==
    /\ c \in task
    /\ task' = task \ {c}
    /\ UNCHANGED <<conn, permits, state>>

\* The session's future ends, by itself or dropped by the timeout, and with it its permit and
\* its reference to the state.
End(c) ==
    /\ conn' = [conn EXCEPT ![c] = "ended"]
    /\ permits' = permits + 1
    /\ state' = state \ {c}
    /\ UNCHANGED task

\* session returns, with what it served or with an error.
Finish(c) == conn[c] = "running" /\ c \notin task /\ End(c)

\* timeout fires: the future is dropped wherever it waits.
TimeoutLeaks(c) ==
    /\ conn[c] = "running"
    /\ conn' = [conn EXCEPT ![c] = "ended"]
    /\ state' = state \ {c}
    /\ UNCHANGED <<permits, task>>
TimeoutLate(c) == conn[c] = "running" /\ c \in state /\ End(c)
Timeout(c) == conn[c] = "running" /\ End(c)

ServeStep ==
    \E c \in Connections :
        \/ Accept(c) \/ Reconnect(c) \/ Preprocessed(c)
        \/ StartBlindEval(c) \/ EndBlindEval(c) \/ Finish(c) \/ Timeout(c)

ServeSpec == ServeInit /\ [][ServeStep]_serveVars

(* Fairness.  The timer of every running session fires if the session has    *)
(* not ended before.  No client has to make progress, and no task has to end.*)
FairServe == ServeSpec /\ \A c \in Connections : WF_serveVars(Timeout(c))

----------------------------------------------------------------------------
(* Properties.                                                             *)

\* Every variable has its type.
ServeTypeOK ==
    /\ conn \in [Connections -> {"new", "refused", "running", "ended"}]
    /\ permits \in 0 .. MaxSessions
    /\ state \subseteq Connections /\ task \subseteq Connections

\* Permits are neither lost nor made: every session that runs holds one, whichever way sessions
\* end, so --max-sessions caps what runs at once and the server never runs out of permits.
PermitsConserved == permits + Cardinality(Running) = MaxSessions

\* A session that runs ends, and gives its permit back.
SessionsEnd == \A c \in Connections : conn[c] = "running" ~> conn[c] = "ended"

\* README: "Set --max-sessions to what your memory allows. Each session holds its
\* preprocessing, sized to the set its client announced, until it ends."  Preprocessed states in
\* memory, owned by a session or held by a blocking task, are capped by max_sessions.
StatesCapped == Cardinality(state \union task) <= MaxSessions

=============================================================================
