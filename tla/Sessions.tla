------------------------------ MODULE Sessions ------------------------------
(***************************************************************************)
(* The database sessions of the receiver and the worker (db.py): an engine *)
(* with a pool of its own in each process, and a scope around each use of  *)
(* a connection which commits, or rolls back, and gives the connection     *)
(* back whichever way it is left.                                          *)
(*                                                                         *)
(* The pool and the connections are SQLAlchemy's and PostgreSQL's; they    *)
(* are here as the settings in db.py make them behave.                     *)
(***************************************************************************)
EXTENDS Integers, FiniteSets

CONSTANTS
    Requests,        \* posts to the receiver, each about an event of its own
    Poll,            \* the worker's iteration, the one task it has
    PoolSize,        \* pool_size
    MaxOverflow,     \* max_overflow
    MaxDisruptions   \* bound: outages, crashes, stops, timeouts, exceptions

ASSUME SessionsAssumption ==
    /\ IsFiniteSet(Requests)
    /\ Poll \notin Requests
    /\ PoolSize \in Nat \ {0}
    /\ MaxOverflow \in Nat
    /\ MaxDisruptions \in Nat

VARIABLES
    db,            \* PostgreSQL: "down", "initialising" or "up"
    session,       \* task -> its session, see Session
    pool,          \* process -> its pool, see Pool
    stored,        \* the requests whose insert is committed
    answered,      \* the requests that have had their 200
    disruptions    \* how many disruptions have happened

sessionVars == <<db, session, pool, stored, answered, disruptions>>

Tasks == Requests \cup {Poll}

Services == {"server", "worker"}

Process(t) == IF t = Poll THEN "worker" ELSE "server"

\* hit is history: the database was lost while the session was open.
Session == [pc   : {"none", "waiting", "open", "committed"},
            conn : {"none", "live", "dead"},
            hit  : BOOLEAN]

NoSession == [pc |-> "none", conn |-> "none", hit |-> FALSE]

Capacity == PoolSize + MaxOverflow

\* Connections that wait in the pool, broken ones among them, and how many the
\* pool counts as opened.
Pool == [live : 0 .. PoolSize, dead : 0 .. PoolSize, opened : 0 .. Capacity]

EmptyPool == [live |-> 0, dead |-> 0, opened |-> 0]

Waiting(p) == pool[p].live + pool[p].dead

InitSessions ==
    /\ db = "down"
    /\ session = [t \in Tasks |-> NoSession]
    /\ pool = [p \in Services |-> EmptyPool]
    /\ stored = {}
    /\ answered = {}
    /\ disruptions = 0

Disrupt == /\ disruptions < MaxDisruptions
           /\ disruptions' = disruptions + 1

-----------------------------------------------------------------------------
(* A session.                                                              *)

Begin(t) ==
    /\ session[t].pc = "none"
    /\ t \notin answered
    /\ session' = [session EXCEPT ![t].pc = "waiting"]
    /\ UNCHANGED <<db, pool, stored, answered, disruptions>>

Open(t, conn) ==
    session' = [session EXCEPT ![t].pc = "open", ![t].conn = conn]

\* Mutant: pool_pre_ping is left out.
CheckoutUnchecked(t) ==
    /\ session[t].pc = "waiting"
    /\ LET p == Process(t)
       IN  \/ /\ pool[p].live > 0
              /\ pool' = [pool EXCEPT ![p].live = @ - 1]
              /\ Open(t, "live")
           \/ /\ pool[p].dead > 0
              /\ pool' = [pool EXCEPT ![p].dead = @ - 1]
              /\ Open(t, "dead")
           \/ /\ db = "up"
              /\ Waiting(p) = 0 /\ pool[p].opened < Capacity
              /\ pool' = [pool EXCEPT ![p].opened = @ + 1]
              /\ Open(t, "live")
    /\ UNCHANGED <<db, stored, answered, disruptions>>

\* A connection that waits and still answers, a broken one opened again
\* (pool_pre_ping), or one more.
Checkout(t) ==
    /\ session[t].pc = "waiting"
    /\ db = "up"
    /\ LET p == Process(t)
       IN  \/ /\ pool[p].live > 0
              /\ pool' = [pool EXCEPT ![p].live = @ - 1]
           \/ /\ pool[p].dead > 0
              /\ pool' = [pool EXCEPT ![p].dead = @ - 1]
           \/ /\ Waiting(p) = 0 /\ pool[p].opened < Capacity
              /\ pool' = [pool EXCEPT ![p].opened = @ + 1]
    /\ Open(t, "live")
    /\ UNCHANGED <<db, stored, answered, disruptions>>

\* The connection is refused; the pool is as it was.
CheckoutFails(t) ==
    /\ session[t].pc = "waiting"
    /\ db # "up"
    /\ Waiting(Process(t)) > 0 \/ pool[Process(t)].opened < Capacity
    /\ session' = [session EXCEPT ![t] = NoSession]
    /\ UNCHANGED <<db, pool, stored, answered, disruptions>>

\* pool_timeout: every connection has been in use for all of 30 seconds.
CheckoutTimesOut(t) ==
    /\ Disrupt
    /\ session[t].pc = "waiting"
    /\ Waiting(Process(t)) = 0 /\ pool[Process(t)].opened = Capacity
    /\ session' = [session EXCEPT ![t] = NoSession]
    /\ UNCHANGED <<db, pool, stored, answered>>

\* Mutant: the pool keeps what overflows it.
GiveBackAll(p, conn) == pool' = [pool EXCEPT ![p][conn] = @ + 1]

\* The pool takes a connection back, or closes one that overflows it.
GiveBack(p, conn) ==
    pool' = IF Waiting(p) = PoolSize THEN [pool EXCEPT ![p].opened = @ - 1]
            ELSE [pool EXCEPT ![p][conn] = @ + 1]

Close(t) == /\ GiveBack(Process(t), session[t].conn)
            /\ session' = [session EXCEPT ![t] = NoSession]

\* The statements of the session, and the commit, carried out by the database.
Commit(t) ==
    /\ session[t].pc = "open"
    /\ session[t].conn = "live"
    /\ session' = [session EXCEPT ![t].pc = "committed"]
    /\ stored' = stored \cup ({t} \cap Requests)
    /\ UNCHANGED <<db, pool, answered, disruptions>>

\* The reply to the commit; then the 200.
Finish(t) ==
    /\ session[t].pc = "committed"
    /\ session[t].conn = "live"
    /\ Close(t)
    /\ answered' = answered \cup ({t} \cap Requests)
    /\ UNCHANGED <<db, stored, disruptions>>

\* The connection turns out broken: a 500, or the worker logs and polls again.
Fail(t) ==
    /\ session[t].pc \in {"open", "committed"}
    /\ session[t].conn = "dead"
    /\ Close(t)
    /\ UNCHANGED <<db, stored, answered, disruptions>>

\* Mutant: no `finally`, what is not an Exception passes by the close.
AbortLeaks(t) ==
    /\ Disrupt
    /\ session[t].pc = "open"
    /\ session[t].conn = "live"
    /\ session' = [session EXCEPT ![t] = NoSession]
    /\ UNCHANGED <<db, pool, stored, answered>>

\* Any exception inside the scope, a cancellation among them.
Abort(t) ==
    /\ Disrupt
    /\ session[t].pc = "open"
    /\ session[t].conn = "live"
    /\ Close(t)
    /\ UNCHANGED <<db, stored, answered>>

-----------------------------------------------------------------------------
(* The database, and the end of a process.                                 *)

\* Every connection breaks, every open transaction is undone.
LoseConnections ==
    /\ session' = [t \in Tasks |->
          IF session[t].pc = "none" THEN session[t]
          ELSE [session[t] EXCEPT !.hit = TRUE,
                                  !.conn = IF @ = "live" THEN "dead" ELSE @]]
    /\ pool' = [p \in Services |->
          [pool[p] EXCEPT !.live = 0, !.dead = Waiting(p)]]
    /\ UNCHANGED <<stored, answered>>

\* The processes' sessions and engines go with them.
Drop(ps) ==
    /\ session' = [t \in Tasks |-> IF Process(t) \in ps THEN NoSession ELSE session[t]]
    /\ pool' = [p \in Services |-> IF p \in ps THEN EmptyPool ELSE pool[p]]
    /\ UNCHANGED <<stored, answered>>

Quiet(p) == \A t \in Tasks : Process(t) = p => session[t].pc = "none"
=============================================================================
