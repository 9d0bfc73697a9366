---------------------------- MODULE HandlerRuns ----------------------------
(***************************************************************************)
(* What the handlers of both kinds of events share: the rows of            *)
(* webhook_events, the workers' transactions on them, and the verdict that *)
(* ends a transaction.  CustomerSync and SubscriptionSync extend it with   *)
(* the handlers themselves.                                                *)
(*                                                                         *)
(* The queue is the one of EventQueue with the delays abstracted away: an  *)
(* event that has been retried may be backing off for any time, every      *)
(* other one is claimed in its order of arrival.                           *)
(***************************************************************************)
EXTENDS Integers, FiniteSets, Sequences

CONSTANTS
    Events,        \* events of the types the handlers are for
    Workers,       \* worker processes
    None,          \* no event
    MaxAttempts,   \* WORKER_MAX_ATTEMPTS
    MaxFaults,     \* bound: crashes, rollbacks, timeouts and 5xx replies
    MaxRefusals    \* bound: 4xx replies and replies without an id

ASSUME HandlerRunsAssumption ==
    /\ IsFiniteSet(Events)
    /\ None \notin Events
    /\ MaxAttempts \in Nat \ {0}
    /\ MaxFaults \in Nat
    /\ MaxRefusals \in Nat

VARIABLES
    rows,       \* webhook_events as committed; rank 0 before the arrival
    work,       \* worker -> its open transaction and its call
    faults,     \* how many faults have happened
    refusals    \* how many refusals have happened

Statuses == {"absent", "pending", "processed", "failed"}

Row == [status : Statuses, attempts : Nat, rank : Nat]

ReplyKinds == {"none", "ok", "transient", "permanent", "notFound"}

\* id is the Metronome id of an "ok".
Reply == [kind : ReplyKinds, id : Nat]

Bad(kind) == [kind |-> kind, id |-> 0]

Steps == {"idle", "claimed", "calling", "listing", "replied"}

\* seen is the Metronome customer the handler's lookup found, 0 for none.
Work == [pc : Steps, event : Events \cup {None}, seen : Nat, reply : Reply]

Idle == [pc |-> "idle", event |-> None, seen |-> 0, reply |-> Bad("none")]

InitRuns ==
    /\ rows = [e \in Events |-> [status |-> "absent", attempts |-> 0, rank |-> 0]]
    /\ work = [w \in Workers |-> Idle]
    /\ faults = 0
    /\ refusals = 0

TypeOKRuns ==
    /\ rows \in [Events -> Row]
    /\ work \in [Workers -> Work]
    /\ faults \in 0 .. MaxFaults
    /\ refusals \in 0 .. MaxRefusals

Fault == faults < MaxFaults /\ faults' = faults + 1

Refusal == refusals < MaxRefusals /\ refusals' = refusals + 1

-----------------------------------------------------------------------------
(* The queue.                                                              *)

NextRank == Cardinality({e \in Events : rows[e].rank # 0}) + 1

Insert(e) ==
    /\ rows[e].status = "absent"
    /\ rows' = [rows EXCEPT ![e].status = "pending", ![e].rank = NextRank]

Available(e) == /\ rows[e].status = "pending"
                /\ \A w \in Workers : work[w].event # e

\* An older event is passed over only while it may be backing off.
Claim(w) ==
    /\ work[w].pc = "idle"
    /\ \E e \in Events :
          /\ Available(e)
          /\ \A f \in Events : Available(f) /\ rows[f].rank < rows[e].rank
                                  => rows[f].attempts > 0
          /\ work' = [work EXCEPT ![w].pc = "claimed", ![w].event = e]
    /\ UNCHANGED <<rows, faults, refusals>>

\* The transaction ends and the row lock is gone.
EndWork(w) == work' = [work EXCEPT ![w] = Idle]

\* The verdict the commit leaves on the row: one attempt more, and a status.
Rule(w, status) ==
    /\ rows' = [rows EXCEPT ![work[w].event].attempts = @ + 1,
                            ![work[w].event].status = status]
    /\ EndWork(w)
    /\ UNCHANGED <<faults, refusals>>

\* The status of an event whose attempt failed and may be tried again.
RetryStatus(w) ==
    IF rows[work[w].event].attempts + 1 >= MaxAttempts THEN "failed" ELSE "pending"

-----------------------------------------------------------------------------
(* The answer to a call, and the verdicts it leads to.                     *)

Answer(w, reply) ==
    /\ work' = [work EXCEPT ![w].pc = "replied", ![w].reply = reply]
    /\ UNCHANGED rows

Answered(w, kinds) == work[w].pc = "replied" /\ work[w].reply.kind \in kinds

RuleOnFailure(w) ==
    \* PermanentMetronomeError
    \/ Answered(w, {"permanent"}) /\ Rule(w, "failed")
    \* TransientMetronomeError, or an error no handler classifies
    \/ Answered(w, {"transient", "notFound"}) /\ Rule(w, RetryStatus(w))
=============================================================================
