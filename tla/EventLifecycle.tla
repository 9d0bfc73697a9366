--------------------------- MODULE EventLifecycle ---------------------------
(***************************************************************************)
(* What a row of webhook_events promises, with the receiver, the workers,  *)
(* the row locks and the clock abstracted away: the status column and the  *)
(* attempts counter, and the five ways they may change.  EventQueue is     *)
(* shown to implement this module.                                         *)
(***************************************************************************)
EXTENDS Integers

CONSTANTS Events,       \* Stripe event ids
          MaxAttempts   \* WORKER_MAX_ATTEMPTS

VARIABLES status,       \* webhook_events.status, "absent" before the insert
          attempts      \* webhook_events.attempts

vars == <<status, attempts>>

Statuses == {"absent", "pending", "processed", "failed"}

Init == /\ status = [e \in Events |-> "absent"]
        /\ attempts = [e \in Events |-> 0]

\* Every verdict of a worker on a pending row costs exactly one attempt.
Verdict(e, s) == /\ status[e] = "pending"
                 /\ status' = [status EXCEPT ![e] = s]
                 /\ attempts' = [attempts EXCEPT ![e] = @ + 1]

\* The column defaults of the insert.
Receive(e) == /\ status[e] = "absent"
              /\ status' = [status EXCEPT ![e] = "pending"]
              /\ attempts' = [attempts EXCEPT ![e] = 0]

Process(e) == Verdict(e, "processed")

Fail(e) == Verdict(e, "failed")

\* A retry leaves the row with attempts to spare.
Retry(e) == /\ attempts[e] + 1 < MaxAttempts
            /\ Verdict(e, "pending")

\* The operator's UPDATE gives a failed row its whole budget back.
Replay(e) == /\ status[e] = "failed"
             /\ status' = [status EXCEPT ![e] = "pending"]
             /\ attempts' = [attempts EXCEPT ![e] = 0]

Next == \E e \in Events :
           Receive(e) \/ Process(e) \/ Fail(e) \/ Retry(e) \/ Replay(e)

Spec == Init /\ [][Next]_vars
=============================================================================
