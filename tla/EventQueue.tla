----------------------------- MODULE EventQueue -----------------------------
(***************************************************************************)
(* The queue between the webhook receiver and the workers: the table       *)
(* webhook_events, Stripe's deliveries into it (server.py) and the claim,  *)
(* verdict and retry of its rows by any number of workers (worker.py).     *)
(*                                                                         *)
(* A worker claims a row, runs the handler and writes the verdict in ONE   *)
(* transaction.  Nothing of it is visible before the commit, so the model  *)
(* has two steps for it, the claim (which takes the row lock) and the      *)
(* commit (which writes the row and drops the lock), and everything that   *)
(* can end the transaction otherwise restores the row by rollback.         *)
(*                                                                         *)
(* What a handler does is its verdict here: any of its outcomes may come.  *)
(***************************************************************************)
EXTENDS Integers, FiniteSets

CONSTANTS
    Events,          \* Stripe events: the webhook_events primary keys
    Valid,           \* events whose posts pass verification and have id, type
    Registered,      \* events whose type is a key of HANDLERS
    Workers,         \* worker processes
    NoEvent,         \* "this worker holds no row"
    MaxAttempts,     \* WORKER_MAX_ATTEMPTS
    RetryBase,       \* WORKER_RETRY_BASE_SECONDS, in ticks
    RetryCap,        \* WORKER_RETRY_CAP_SECONDS, in ticks
    MaxShift,        \* last attempt whose 2^(attempts-1) is a float (1024)
    MaxDisruptions,  \* bound: crashes, rollbacks, stops and lost requests
    MaxReplays       \* bound: operator replays

ASSUME EventsAssumption ==
    /\ IsFiniteSet(Events)
    /\ Valid \subseteq Events
    /\ Registered \subseteq Events
    /\ NoEvent \notin Events

\* The lower bounds are those of the pydantic Settings.
ASSUME SettingsAssumption ==
    /\ MaxAttempts \in Nat \ {0}
    /\ RetryBase \in Nat \ {0}
    /\ RetryCap \in Nat \ {0}
    /\ MaxShift \in Nat \ {0}

ASSUME BoundsAssumption ==
    /\ MaxDisruptions \in Nat
    /\ MaxReplays \in Nat

VARIABLES
    rows,         \* webhook_events as committed, one record per event
    requests,     \* posts in flight: <<event, how far the receiver got>>
    acked,        \* events Stripe has had a 200 for
    holding,      \* worker -> the event whose row its transaction locks
    mode,         \* worker -> "running", "stopping" or "down"
    disruptions,  \* how many disruptions have happened
    replays       \* how many replays have happened

vars == <<rows, requests, acked, holding, mode, disruptions, replays>>

-----------------------------------------------------------------------------
(* The table.  wait is next_attempt_at as the ticks left until it, rank is *)
(* received_at as the place in the order of insertion, error is the kind   *)
(* of message in last_error.                                               *)

Statuses == {"absent", "pending", "processed", "failed"}

Errors == {"none", "transient", "permanent", "exhausted"}

Row == [status : Statuses, attempts : Nat, wait : Nat, error : Errors, rank : Nat]

NoRow == [status |-> "absent", attempts |-> 0, wait |-> 0,
          error |-> "none", rank |-> 0]

\* The column defaults of an inserted row; a replay restores them.
FreshRow(rank) == [NoRow EXCEPT !.status = "pending", !.rank = rank]

Stored(e) == rows[e].status # "absent"

Settled(e) == rows[e].status \in {"processed", "failed"}

Locked(e) == \E w \in Workers : holding[w] = e

NextRank == Cardinality({e \in Events : Stored(e)}) + 1

Requests == Events \X {"received", "persisted"}

Init ==
    /\ rows = [e \in Events |-> NoRow]
    /\ requests = {}
    /\ acked = {}
    /\ holding = [w \in Workers |-> NoEvent]
    /\ mode = [w \in Workers |-> "running"]
    /\ disruptions = 0
    /\ replays = 0

Disrupt == /\ disruptions < MaxDisruptions
           /\ disruptions' = disruptions + 1

-----------------------------------------------------------------------------
(* The receiver.                                                           *)

\* Stripe posts an event: the first time, again, or twice at once.
Deliver(e) ==
    /\ <<e, "received">> \notin requests
    /\ requests' = requests \cup {<<e, "received">>}
    /\ UNCHANGED <<rows, acked, holding, mode, disruptions, replays>>

\* A bad signature, a body that does not parse, a missing id or type: 400.
Reject(e) ==
    /\ <<e, "received">> \in requests
    /\ e \notin Valid
    /\ requests' = requests \ {<<e, "received">>}
    /\ UNCHANGED <<rows, acked, holding, mode, disruptions, replays>>

\* Mutant: the session is closed without a commit.
PersistUncommitted(e) ==
    /\ <<e, "received">> \in requests
    /\ e \in Valid
    /\ requests' = (requests \ {<<e, "received">>}) \cup {<<e, "persisted">>}
    /\ UNCHANGED <<rows, acked, holding, mode, disruptions, replays>>

\* Mutant: ON CONFLICT DO UPDATE.
PersistUpsert(e) ==
    /\ <<e, "received">> \in requests
    /\ e \in Valid
    /\ requests' = (requests \ {<<e, "received">>}) \cup {<<e, "persisted">>}
    /\ rows' = [rows EXCEPT ![e] = FreshRow(NextRank)]
    /\ UNCHANGED <<acked, holding, mode, disruptions, replays>>

\* INSERT ... ON CONFLICT DO NOTHING, committed before the response.
Persist(e) ==
    /\ <<e, "received">> \in requests
    /\ e \in Valid
    /\ requests' = (requests \ {<<e, "received">>}) \cup {<<e, "persisted">>}
    /\ rows' = IF Stored(e) THEN rows
                            ELSE [rows EXCEPT ![e] = FreshRow(NextRank)]
    /\ UNCHANGED <<acked, holding, mode, disruptions, replays>>

Respond(e) ==
    /\ <<e, "persisted">> \in requests
    /\ requests' = requests \ {<<e, "persisted">>}
    /\ acked' = acked \cup {e}
    /\ UNCHANGED <<rows, holding, mode, disruptions, replays>>

\* A receiver crash, a failed insert, a connection lost on either way.
LoseRequests ==
    /\ Disrupt
    /\ \E lost \in SUBSET requests \ {{}} : requests' = requests \ lost
    /\ UNCHANGED <<rows, acked, holding, mode, replays>>

-----------------------------------------------------------------------------
(* The worker: one iteration of Worker.run.                                *)

\* Mutant: FOR UPDATE SKIP LOCKED is dropped from the select.
ClaimableUnlocked(e) == rows[e].status = "pending" /\ rows[e].wait = 0

\* Mutant: the status filter is dropped from the select.
ClaimableAnyStatus(e) == Stored(e) /\ rows[e].wait = 0 /\ ~Locked(e)

\* Mutant: the budget is tested in the select too, off by one.
ClaimableWithSpareAttempt(e) ==
    /\ rows[e].status = "pending"
    /\ rows[e].attempts + 1 < MaxAttempts
    /\ rows[e].wait = 0
    /\ ~Locked(e)

Claimable(e) == /\ rows[e].status = "pending"
                /\ rows[e].wait = 0
                /\ ~Locked(e)

\* Mutant: "claim the row in tx 1", with the attempt counted there.
ClaimCountsAttempt(w) ==
    /\ mode[w] = "running"
    /\ holding[w] = NoEvent
    /\ \E e \in Events :
          /\ Claimable(e)
          /\ holding' = [holding EXCEPT ![w] = e]
          /\ rows' = [rows EXCEPT ![e].attempts = @ + 1]
    /\ UNCHANGED <<requests, acked, mode, disruptions, replays>>

\* SELECT ... ORDER BY received_at LIMIT 1 FOR UPDATE SKIP LOCKED.
Claim(w) ==
    /\ mode[w] = "running"
    /\ holding[w] = NoEvent
    /\ \E e \in Events :
          /\ Claimable(e)
          /\ \A f \in Events : Claimable(f) => rows[e].rank <= rows[f].rank
          /\ holding' = [holding EXCEPT ![w] = e]
    /\ UNCHANGED <<rows, requests, acked, mode, disruptions, replays>>

\* Mutant: event.attempts += 1 is forgotten.
TriedUncounted(e) == rows[e]

\* The row as the transaction sees it once event.attempts += 1 has run.
Tried(e) == [rows[e] EXCEPT !.attempts = @ + 1]

Release(w) == holding' = [holding EXCEPT ![w] = NoEvent]

Commit(w, row) ==
    /\ rows' = [rows EXCEPT ![holding[w]] = row]
    /\ Release(w)
    /\ UNCHANGED <<requests, acked, mode, disruptions, replays>>

Failed(row, error) == [row EXCEPT !.status = "failed", !.error = error]

\* Mutant: the reserved status "processing" is written.
MarkProcessing(w) ==
    /\ holding[w] # NoEvent
    /\ Commit(w, [Tried(holding[w]) EXCEPT !.status = "processing", !.error = "none"])

\* The handler returned, or the event's type has no handler.
MarkProcessed(w) ==
    /\ holding[w] # NoEvent
    /\ Commit(w, [Tried(holding[w]) EXCEPT !.status = "processed", !.error = "none"])

\* PermanentHandlerError.
MarkFailed(w) ==
    /\ holding[w] \in Registered
    /\ Commit(w, Failed(Tried(holding[w]), "permanent"))

\* max(1, uniform(0, min(base * 2^(attempts-1), cap))), rounded up to ticks.
BackoffDelays(attempts) ==
    {d \in 1 .. RetryCap : d = 1 \/ d <= RetryBase * 2^(attempts - 1)}

\* Mutant: > for >=.
ExhaustedLate(row) == row.attempts > MaxAttempts

Exhausted(row) == row.attempts >= MaxAttempts

\* RetryableHandlerError or an exception no handler classified.
ScheduleRetryOrFail(w) ==
    /\ holding[w] \in Registered
    /\ LET row == Tried(holding[w])
       IN  \/ /\ Exhausted(row)
              /\ Commit(w, Failed(row, "exhausted"))
           \/ /\ ~Exhausted(row)
              /\ row.attempts <= MaxShift
              /\ \E d \in BackoffDelays(row.attempts) :
                    Commit(w, [row EXCEPT !.status = "pending", !.wait = d,
                                          !.error = "transient"])

\* base * 2^(attempts-1) no longer fits a float: the OverflowError leaves
\* _handle_event and rolls the transaction back.
BackoffOverflows(w) ==
    /\ holding[w] \in Registered
    /\ ~Exhausted(Tried(holding[w]))
    /\ Tried(holding[w]).attempts > MaxShift
    /\ Release(w)
    /\ UNCHANGED <<rows, requests, acked, mode, disruptions, replays>>

Verdict(w) == MarkProcessed(w) \/ MarkFailed(w) \/ ScheduleRetryOrFail(w)
                \/ BackoffOverflows(w)

\* Mutant: the attempt is committed although the work is rolled back.
RollbackCountsAttempt(w) ==
    /\ Disrupt
    /\ holding[w] # NoEvent
    /\ rows' = [rows EXCEPT ![holding[w]] = Tried(holding[w])]
    /\ Release(w)
    /\ UNCHANGED <<requests, acked, mode, replays>>

\* A database error inside the transaction: run() logs it and polls again.
Rollback(w) ==
    /\ Disrupt
    /\ holding[w] # NoEvent
    /\ Release(w)
    /\ UNCHANGED <<rows, requests, acked, mode, replays>>

\* Mutant: the lock outlives the worker's session.
CrashKeepsLock(w) ==
    /\ Disrupt
    /\ mode[w] # "down"
    /\ mode' = [mode EXCEPT ![w] = "down"]
    /\ UNCHANGED <<rows, requests, acked, holding, replays>>

Crash(w) ==
    /\ Disrupt
    /\ mode[w] # "down"
    /\ mode' = [mode EXCEPT ![w] = "down"]
    /\ Release(w)
    /\ UNCHANGED <<rows, requests, acked, replays>>

\* SIGTERM or SIGINT sets the stop event.
RequestStop(w) ==
    /\ Disrupt
    /\ mode[w] = "running"
    /\ mode' = [mode EXCEPT ![w] = "stopping"]
    /\ UNCHANGED <<rows, requests, acked, holding, replays>>

\* The loop test finds the stop event set once the current event is done.
Exit(w) ==
    /\ mode[w] = "stopping"
    /\ holding[w] = NoEvent
    /\ mode' = [mode EXCEPT ![w] = "down"]
    /\ UNCHANGED <<rows, requests, acked, holding, disruptions, replays>>

Restart(w) ==
    /\ mode[w] = "down"
    /\ mode' = [mode EXCEPT ![w] = "running"]
    /\ UNCHANGED <<rows, requests, acked, holding, disruptions, replays>>

-----------------------------------------------------------------------------
(* Time, and the operator.                                                 *)

Tick ==
    /\ \E e \in Events : rows[e].wait > 0
    /\ rows' = [e \in Events |->
                   [rows[e] EXCEPT !.wait = IF @ > 0 THEN @ - 1 ELSE 0]]
    /\ UNCHANGED <<requests, acked, holding, mode, disruptions, replays>>

\* UPDATE webhook_events SET status='pending', attempts=0, ... on a failed row.
Replay(e) ==
    /\ replays < MaxReplays
    /\ replays' = replays + 1
    /\ rows[e].status = "failed"
    /\ rows' = [rows EXCEPT ![e] = FreshRow(@.rank)]
    /\ UNCHANGED <<requests, acked, holding, mode, disruptions>>

-----------------------------------------------------------------------------

Receiver(e) == Deliver(e) \/ Reject(e) \/ Persist(e) \/ Respond(e)

Worker(w) == \/ Claim(w) \/ Verdict(w) \/ Rollback(w) \/ Crash(w)
             \/ RequestStop(w) \/ Exit(w) \/ Restart(w)

Next == \/ \E e \in Events : Receiver(e) \/ Replay(e)
        \/ \E w \in Workers : Worker(w)
        \/ LoseRequests
        \/ Tick

Spec == Init /\ [][Next]_vars

\* Stripe posts a valid event again until it has had a 200 for it.
Redeliver(e) == e \in Valid \ acked /\ Deliver(e)

\* The event loops of both processes keep running, compose restarts what is
\* down, handlers end (every Metronome call has a timeout) and time passes.
Fairness ==
    /\ \A e \in Events : /\ WF_vars(Redeliver(e))
                         /\ WF_vars(Persist(e))
                         /\ WF_vars(Respond(e))
    /\ \A w \in Workers : /\ WF_vars(Claim(w))
                          /\ WF_vars(Verdict(w))
                          /\ WF_vars(Exit(w))
                          /\ WF_vars(Restart(w))
    /\ WF_vars(Tick)

FairSpec == Spec /\ Fairness
-----------------------------------------------------------------------------
(* Properties.                                                             *)

\* Every variable keeps to the values the columns, the sessions and the
\* process states can hold.
TypeOK ==
    /\ rows \in [Events -> Row]
    /\ requests \subseteq Requests
    /\ acked \subseteq Events
    /\ holding \in [Workers -> Events \cup {NoEvent}]
    /\ mode \in [Workers -> {"running", "stopping", "down"}]
    /\ disruptions \in 0 .. MaxDisruptions
    /\ replays \in 0 .. MaxReplays

\* SKIP LOCKED and one transaction per event: no two workers process the same
\* row, whatever crashes, rollbacks, retries and replays come in between.
NoSharedRow ==
    \A v, w \in Workers :
        holding[v] = holding[w] /\ holding[v] # NoEvent => v = w

\* A locked row is pending and due until its holder's verdict (a retry, a
\* replay or the clock of another process never gets under the lock), a
\* worker that is down holds none, and only a pending row waits for anything.
HeldRowIsDue ==
    /\ \A w \in Workers :
          holding[w] # NoEvent =>
              /\ mode[w] # "down"
              /\ rows[holding[w]].status = "pending"
              /\ rows[holding[w]].wait = 0
    /\ \A e \in Events : rows[e].wait > 0 => rows[e].status = "pending"

\* The retry budget of _schedule_retry_or_fail: a row that may still be tried
\* has attempts left, no row is tried more than MaxAttempts times between two
\* replays, and "EXHAUSTED RETRIES" is written when all of them are spent.
AttemptsBudget ==
    \A e \in Events :
        /\ rows[e].attempts <= MaxAttempts
        /\ rows[e].status = "pending" => rows[e].attempts < MaxAttempts
        /\ rows[e].error = "exhausted" =>
               rows[e].status = "failed" /\ rows[e].attempts = MaxAttempts

\* A 200 is a promise: an event that has had one, or is about to have one
\* (the receiver commits before it responds), is in the table, and nothing that failed verification
\* ever gets there.
AckedIsStored ==
    /\ \A e \in Events : e \in acked \/ <<e, "persisted">> \in requests => Stored(e)
    /\ \A e \in Events : Stored(e) => e \in Valid

\* A verdict leaves one attempt on the row and comes from the worker that
\* locked it, which lets go of it in the same commit; a crash or a rollback
\* therefore costs no attempt (worker.py, "Crash safety").
VerdictStep(e) ==
    \/ rows[e].status # "pending"
    \/ rows'[e].status = "pending" /\ rows'[e].attempts = rows[e].attempts
    \/ /\ rows'[e].attempts = rows[e].attempts + 1
       /\ disruptions' = disruptions
       /\ \E w \in Workers : holding[w] = e /\ holding'[w] # e

VerdictsUnderLock == [][\A e \in Events : VerdictStep(e)]_vars

\* Redelivery, late workers and the clock leave a processed or failed row
\* exactly as it is; only the operator's replay of a failed row reopens it.
SettledStep(e) ==
    Settled(e) => \/ rows'[e] = rows[e]
                  \/ /\ rows[e].status = "failed"
                     /\ rows'[e] = FreshRow(rows[e].rank)
                     /\ replays' = replays + 1

SettledRowsStay == [][\A e \in Events : SettledStep(e)]_vars

\* Every event Stripe has to deliver ends up processed or failed for good:
\* redelivery gets it into the table, and claims, retries and the budget get
\* it out of "pending" in spite of crashes, rollbacks and stops.
EveryEventSettles == \A e \in Valid : <>[]Settled(e)

-----------------------------------------------------------------------------
(* The lifecycle of a row, seen through the queue.                         *)

Lifecycle == INSTANCE EventLifecycle
                 WITH status <- [e \in Events |-> rows[e].status],
                      attempts <- [e \in Events |-> rows[e].attempts]

\* docs/architecture.md:107 calls the state machine of a row "the entire
\* retry/failure contract": every step of the queue is one of its
\* transitions or leaves every row's status and attempts alone.
ImplementsLifecycle == Lifecycle!Spec
=============================================================================
