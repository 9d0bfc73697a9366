-------------------------- MODULE EventQueueProofs --------------------------
(***************************************************************************)
(* What holds of the event queue for every set of events and workers,      *)
(* every retry budget and every number of crashes, rollbacks, stops,       *)
(* losses and replays.                                                     *)
(*                                                                         *)
(* The inductive invariant is the conjunction of the type invariant with   *)
(* the four safety invariants: the budget needs the held row to be pending *)
(* (only then is there an attempt left for the verdict to spend), and that *)
(* needs the row to have no other holder whose verdict could settle it.    *)
(***************************************************************************)
EXTENDS EventQueue, FiniteSetTheorems, TLAPS

IInv == TypeOK /\ NoSharedRow /\ HeldRowIsDue /\ AttemptsBudget /\ AckedIsStored

-----------------------------------------------------------------------------
(* The rows the actions write.                                             *)

\* The place of a new row in the order of arrival is a number.
LEMMA NextRankType == NextRank \in Nat
<1>. DEFINE stored == {e \in Events : Stored(e)}
<1>1. IsFiniteSet(stored)
  BY EventsAssumption, FS_Subset, stored \subseteq Events
<1>2. Cardinality(stored) \in Nat
  BY <1>1, FS_CardinalityType
<1>. QED  BY <1>2 DEF NextRank

\* The defaults of an inserted or replayed row.
LEMMA FreshRowFields ==
  ASSUME NEW rank \in Nat
  PROVE  /\ FreshRow(rank) \in Row
         /\ FreshRow(rank).status = "pending"
         /\ FreshRow(rank).attempts = 0
         /\ FreshRow(rank).wait = 0
         /\ FreshRow(rank).error = "none"
         /\ FreshRow(rank).rank = rank
BY DEF FreshRow, NoRow, Row, Statuses, Errors

\* One more attempt and nothing else.
LEMMA TriedFields ==
  ASSUME rows \in [Events -> Row], NEW e \in Events
  PROVE  /\ Tried(e) \in Row
         /\ Tried(e).attempts = rows[e].attempts + 1
         /\ Tried(e).status = rows[e].status
         /\ Tried(e).wait = rows[e].wait
         /\ Tried(e).error = rows[e].error
         /\ Tried(e).rank = rows[e].rank
BY DEF Tried, Row

\* What a verdict of the worker w makes of the row it holds.
VerdictRow(w, row) ==
    /\ row \in Row
    /\ row.attempts = rows[holding[w]].attempts + 1
    /\ row.rank = rows[holding[w]].rank
    /\ \/ row.status = "processed" /\ row.error = "none"
       \/ row.status = "failed" /\ row.error = "permanent"
       \/ row.status = "failed" /\ row.error = "exhausted" /\ row.attempts >= MaxAttempts
       \/ row.status = "pending" /\ row.error = "transient" /\ row.attempts < MaxAttempts
    /\ row.status # "pending" => row.wait = rows[holding[w]].wait

\* A verdict either commits such a row or, when the backoff overflows, only
\* gives the lock back.
LEMMA VerdictCommits ==
  ASSUME TypeOK, NEW w \in Workers, Verdict(w)
  PROVE  /\ holding[w] \in Events
         /\ \/ \E row : VerdictRow(w, row) /\ Commit(w, row)
            \/ BackoffOverflows(w)
<1>1. holding[w] \in Events
  BY EventsAssumption
  DEF TypeOK, Verdict, MarkProcessed, MarkFailed, ScheduleRetryOrFail, BackoffOverflows
<1>. DEFINE old == rows[holding[w]]  tried == Tried(holding[w])
<1>2. /\ old \in Row  /\ tried \in Row
      /\ tried.attempts = old.attempts + 1
      /\ tried.rank = old.rank
      /\ tried.wait = old.wait
  BY <1>1, TriedFields DEF TypeOK
<1>3. CASE MarkProcessed(w)
  <2>. DEFINE row == [tried EXCEPT !.status = "processed", !.error = "none"]
  <2>1. VerdictRow(w, row)
    BY <1>2 DEF VerdictRow, Row, Statuses, Errors
  <2>. QED  BY <1>1, <1>3, <2>1 DEF MarkProcessed
<1>4. CASE MarkFailed(w)
  <2>. DEFINE row == Failed(tried, "permanent")
  <2>1. VerdictRow(w, row)
    BY <1>2 DEF VerdictRow, Failed, Row, Statuses, Errors
  <2>. QED  BY <1>1, <1>4, <2>1 DEF MarkFailed
<1>5. CASE ScheduleRetryOrFail(w)
  <2>1. CASE Exhausted(tried) /\ Commit(w, Failed(tried, "exhausted"))
    <3>1. VerdictRow(w, Failed(tried, "exhausted"))
      BY <1>2, <2>1 DEF VerdictRow, Failed, Exhausted, Row, Statuses, Errors
    <3>. QED  BY <1>1, <2>1, <3>1
  <2>2. ASSUME ~Exhausted(tried), NEW d \in BackoffDelays(tried.attempts),
               Commit(w, [tried EXCEPT !.status = "pending", !.wait = d,
                                       !.error = "transient"])
        PROVE  \E row : VerdictRow(w, row) /\ Commit(w, row)
    <3>. DEFINE row == [tried EXCEPT !.status = "pending", !.wait = d,
                                     !.error = "transient"]
    <3>1. d \in Nat
      BY SettingsAssumption DEF BackoffDelays
    <3>2. tried.attempts < MaxAttempts
      BY <1>2, <2>2, SettingsAssumption DEF Exhausted, Row
    <3>3. VerdictRow(w, row)
      BY <1>2, <3>1, <3>2 DEF VerdictRow, Row, Statuses, Errors
    <3>. QED  BY <2>2, <3>3
  <2>. QED  BY <1>1, <1>5, <2>1, <2>2 DEF ScheduleRetryOrFail
<1>. QED  BY <1>1, <1>3, <1>4, <1>5 DEF Verdict

-----------------------------------------------------------------------------
(* Type correctness.                                                       *)

\* Every step keeps every variable in its type.
LEMMA TypeStep == TypeOK /\ [Next]_vars => TypeOK'
<1>. SUFFICES ASSUME TypeOK, [Next]_vars  PROVE TypeOK'
  OBVIOUS
<1>1. ASSUME NEW e \in Events, Receiver(e)  PROVE TypeOK'
  <2>1. CASE Deliver(e)
    BY <2>1 DEF Deliver, TypeOK, Requests
  <2>2. CASE Reject(e)
    BY <2>2 DEF Reject, TypeOK
  <2>3. CASE Persist(e)
    <3>1. rows' \in [Events -> Row]
      BY <2>3, NextRankType, FreshRowFields DEF Persist, TypeOK
    <3>2. requests' \subseteq Requests
      BY <2>3 DEF Persist, TypeOK, Requests
    <3>. QED  BY <2>3, <3>1, <3>2 DEF Persist, TypeOK
  <2>4. CASE Respond(e)
    BY <2>4 DEF Respond, TypeOK
  <2>. QED  BY <1>1, <2>1, <2>2, <2>3, <2>4 DEF Receiver
<1>2. ASSUME NEW e \in Events, Replay(e)  PROVE TypeOK'
  <2>1. rows[e].rank \in Nat
    BY DEF TypeOK, Row
  <2>2. rows' \in [Events -> Row]
    BY <1>2, <2>1, FreshRowFields DEF Replay, TypeOK
  <2>3. replays' \in 0 .. MaxReplays
    BY <1>2, BoundsAssumption DEF Replay, TypeOK
  <2>. QED  BY <1>2, <2>2, <2>3 DEF Replay, TypeOK
<1>3. ASSUME NEW w \in Workers, Worker(w)  PROVE TypeOK'
  <2>1. CASE Claim(w)
    BY <2>1 DEF Claim, TypeOK
  <2>2. CASE Verdict(w)
    <3>1. ASSUME NEW row, VerdictRow(w, row), Commit(w, row)  PROVE TypeOK'
      <4>1. rows' \in [Events -> Row]
        BY <3>1 DEF VerdictRow, Commit, TypeOK
      <4>. QED  BY <3>1, <4>1 DEF Commit, Release, TypeOK
    <3>2. CASE BackoffOverflows(w)
      BY <3>2 DEF BackoffOverflows, Release, TypeOK
    <3>. QED  BY <2>2, <3>1, <3>2, VerdictCommits
  <2>3. CASE Rollback(w)
    BY <2>3, BoundsAssumption DEF Rollback, Release, Disrupt, TypeOK
  <2>4. CASE Crash(w)
    BY <2>4, BoundsAssumption DEF Crash, Release, Disrupt, TypeOK
  <2>5. CASE RequestStop(w)
    BY <2>5, BoundsAssumption DEF RequestStop, Disrupt, TypeOK
  <2>6. CASE Exit(w)
    BY <2>6 DEF Exit, TypeOK
  <2>7. CASE Restart(w)
    BY <2>7 DEF Restart, TypeOK
  <2>. QED  BY <1>3, <2>1, <2>2, <2>3, <2>4, <2>5, <2>6, <2>7 DEF Worker
<1>4. CASE LoseRequests
  BY <1>4, BoundsAssumption DEF LoseRequests, Disrupt, TypeOK
<1>5. CASE Tick
  <2>. DEFINE ticked(e) == [rows[e] EXCEPT !.wait = IF @ > 0 THEN @ - 1 ELSE 0]
  <2>1. ASSUME NEW e \in Events  PROVE ticked(e) \in Row
    BY DEF TypeOK, Row
  <2>2. rows' = [e \in Events |-> ticked(e)]
    BY <1>5 DEF Tick
  <2>3. rows' \in [Events -> Row]
    BY <2>1, <2>2
  <2>. QED  BY <1>5, <2>3 DEF Tick, TypeOK
<1>6. CASE UNCHANGED vars
  BY <1>6 DEF vars, TypeOK
<1>. QED  BY <1>1, <1>2, <1>3, <1>4, <1>5, <1>6 DEF Next

\* Before the first post nothing is stored and every worker is running.
LEMMA TypeInit == Init => TypeOK
<1>. SUFFICES ASSUME Init  PROVE TypeOK
  OBVIOUS
<1>1. NoRow \in Row
  BY DEF NoRow, Row, Statuses, Errors
<1>. QED  BY <1>1, BoundsAssumption DEF Init, TypeOK, Requests

\* The columns, sessions and process states keep to their types whatever the
\* receiver, the workers and the operator do.
THEOREM TypeCorrect == Spec => []TypeOK
BY TypeInit, TypeStep, PTL DEF Spec

-----------------------------------------------------------------------------
(* The inductive invariant.                                                *)

\* Only Claim takes a lock, and it skips the rows that are locked.
LEMMA NoSharedRowStep == TypeOK /\ NoSharedRow /\ [Next]_vars => NoSharedRow'
<1>. SUFFICES ASSUME TypeOK, NoSharedRow, [Next]_vars  PROVE NoSharedRow'
  OBVIOUS
<1>1. CASE UNCHANGED holding
  BY <1>1 DEF NoSharedRow
<1>2. ASSUME NEW w \in Workers, Release(w)  PROVE NoSharedRow'
  BY <1>2 DEF Release, NoSharedRow, TypeOK
<1>3. ASSUME NEW w \in Workers, Claim(w)  PROVE NoSharedRow'
  <2>1. PICK e \in Events : Claimable(e) /\ holding' = [holding EXCEPT ![w] = e]
    BY <1>3 DEF Claim
  <2>2. \A v \in Workers : holding[v] # e
    BY <2>1 DEF Claimable, Locked
  <2>. QED  BY <2>1, <2>2 DEF NoSharedRow, TypeOK
<1>4. ASSUME NEW w \in Workers, Verdict(w)  PROVE Release(w)
  BY <1>4, VerdictCommits DEF Commit, BackoffOverflows
<1>. QED
  BY <1>1, <1>2, <1>3, <1>4
  DEF Next, vars, Receiver, Deliver, Reject, Persist, Respond, Replay, Worker,
      Rollback, Crash, RequestStop, Exit, Restart, LoseRequests, Tick

-----------------------------------------------------------------------------
(* How one row changes in one step: the five cases the remaining proofs    *)
(* distinguish.                                                            *)

Inserted(e) == /\ e \in Valid
               /\ ~Stored(e)
               /\ rows'[e] = FreshRow(NextRank)

Ruled(e) == /\ disruptions' = disruptions
            /\ \E w \in Workers : /\ holding[w] = e
                                  /\ holding'[w] = NoEvent
                                  /\ VerdictRow(w, rows'[e])

Aged(e) == \E d \in Nat : rows'[e] = [rows[e] EXCEPT !.wait = d]

Reopened(e) == /\ rows[e].status = "failed"
               /\ rows'[e] = FreshRow(rows[e].rank)
               /\ replays' = replays + 1

\* The receiver inserts, the lock holder rules, the clock ages pending rows
\* only (no other row has a delay to count down), the operator reopens.
LEMMA RowStep ==
  ASSUME TypeOK, [Next]_vars, NEW e \in Events
  PROVE  \/ rows'[e] = rows[e]
         \/ Inserted(e)
         \/ Ruled(e)
         \/ Aged(e) /\ rows[e].wait > 0
         \/ Reopened(e)
<1>. DEFINE Goal == \/ rows'[e] = rows[e]
                    \/ Inserted(e)
                    \/ Ruled(e)
                    \/ Aged(e) /\ rows[e].wait > 0
                    \/ Reopened(e)
<1>1. CASE UNCHANGED rows
  BY <1>1
<1>2. ASSUME NEW f \in Events, Persist(f)  PROVE Goal
  BY <1>2 DEF Persist, Inserted, TypeOK
<1>3. ASSUME NEW f \in Events, Replay(f)  PROVE Goal
  BY <1>3 DEF Replay, Reopened, TypeOK
<1>4. ASSUME NEW w \in Workers, Verdict(w)  PROVE Goal
  <2>1. CASE BackoffOverflows(w)
    BY <2>1 DEF BackoffOverflows
  <2>2. ASSUME NEW row, VerdictRow(w, row), Commit(w, row), holding[w] = e
        PROVE  Ruled(e)
    BY <2>2 DEF Commit, Release, Ruled, TypeOK
  <2>3. ASSUME NEW row, Commit(w, row), holding[w] # e  PROVE rows'[e] = rows[e]
    BY <2>3 DEF Commit, TypeOK
  <2>. QED  BY <1>4, <2>1, <2>2, <2>3, VerdictCommits
<1>5. CASE Tick
  <2>1. CASE rows[e].wait > 0
    <3>1. /\ rows[e].wait - 1 \in Nat
          /\ rows'[e] = [rows[e] EXCEPT !.wait = rows[e].wait - 1]
      BY <1>5, <2>1 DEF Tick, TypeOK, Row
    <3>. QED  BY <2>1, <3>1 DEF Aged
  <2>2. CASE ~(rows[e].wait > 0)
    <3>1. rows[e].wait = 0 /\ rows'[e] = [rows[e] EXCEPT !.wait = 0]
      BY <1>5, <2>2 DEF Tick, TypeOK, Row
    <3>2. rows'[e] = rows[e]
      BY <3>1 DEF TypeOK, Row
    <3>. QED  BY <3>2
  <2>. QED  BY <2>1, <2>2
<1>. QED
  BY <1>1, <1>2, <1>3, <1>4, <1>5
  DEF Next, vars, Receiver, Deliver, Reject, Respond, Worker, Claim, Rollback,
      Crash, RequestStop, Exit, Restart, LoseRequests

\* A delay is only ever given to a row that stays pending, and a row settles
\* when its delay has run out.
LEMMA WaitingIsPendingStep ==
  ASSUME TypeOK, HeldRowIsDue, [Next]_vars, NEW e \in Events, rows'[e].wait > 0
  PROVE  rows'[e].status = "pending"
<1>1. rows[e] \in Row /\ (rows[e].wait > 0 => rows[e].status = "pending")
  BY DEF TypeOK, HeldRowIsDue
<1>2. CASE Ruled(e)
  BY <1>1, <1>2, EventsAssumption DEF Ruled, VerdictRow, HeldRowIsDue
<1>3. CASE Inserted(e) \/ Reopened(e)
  BY <1>1, <1>3, NextRankType, FreshRowFields DEF Inserted, Reopened, Row
<1>4. CASE Aged(e) /\ rows[e].wait > 0
  BY <1>1, <1>4 DEF Aged, Row
<1>. QED  BY <1>1, <1>2, <1>3, <1>4, RowStep

\* The row under a lock is written by its holder only: the receiver writes
\* absent rows, the operator failed ones, and the clock has run out for it.
LEMMA HeldRowIsDueStep ==
  TypeOK /\ NoSharedRow /\ HeldRowIsDue /\ [Next]_vars => HeldRowIsDue'
<1>. SUFFICES ASSUME TypeOK, NoSharedRow, HeldRowIsDue, [Next]_vars,
                     NEW v \in Workers, holding'[v] # NoEvent
              PROVE  /\ mode'[v] # "down"
                     /\ rows'[holding'[v]].status = "pending"
                     /\ rows'[holding'[v]].wait = 0
  BY WaitingIsPendingStep DEF HeldRowIsDue
<1>. DEFINE Due == /\ mode'[v] # "down"
                   /\ rows'[holding'[v]].status = "pending"
                   /\ rows'[holding'[v]].wait = 0
<1>1. ASSUME NEW e \in Events, Receiver(e)  PROVE Due
  <2>1. CASE Persist(e)
    <3>1. holding[v] \in Events /\ Stored(holding[v])
      BY <2>1 DEF Persist, HeldRowIsDue, Stored, TypeOK
    <3>2. rows'[holding[v]] = rows[holding[v]]
      BY <2>1, <3>1 DEF Persist, TypeOK
    <3>. QED  BY <2>1, <3>2 DEF Persist, HeldRowIsDue
  <2>. QED  BY <1>1, <2>1 DEF Receiver, Deliver, Reject, Respond, HeldRowIsDue
<1>2. ASSUME NEW e \in Events, Replay(e)  PROVE Due
  <2>1. holding[v] # e /\ holding' = holding /\ mode' = mode
    BY <1>2 DEF Replay, HeldRowIsDue
  <2>2. rows'[holding[v]] = rows[holding[v]]
    BY <1>2, <2>1 DEF Replay, TypeOK
  <2>. QED  BY <2>1, <2>2 DEF HeldRowIsDue
<1>3. ASSUME NEW w \in Workers, Worker(w)  PROVE Due
  <2>1. CASE Claim(w)
    <3>1. PICK e \in Events : Claimable(e) /\ holding' = [holding EXCEPT ![w] = e]
      BY <2>1 DEF Claim
    <3>. QED  BY <2>1, <3>1 DEF Claim, Claimable, HeldRowIsDue, TypeOK
  <2>2. CASE Verdict(w)
    <3>1. holding[w] \in Events
      BY <2>2, VerdictCommits
    <3>2. ASSUME NEW row, Commit(w, row)  PROVE Due
      <4>1. v # w /\ holding'[v] = holding[v] /\ mode' = mode
        BY <3>2 DEF Commit, Release, TypeOK
      <4>2. holding[v] # holding[w]
        BY <4>1, <3>1, EventsAssumption DEF NoSharedRow
      <4>3. rows'[holding[v]] = rows[holding[v]]
        BY <3>1, <3>2, <4>2 DEF Commit, TypeOK
      <4>. QED  BY <4>1, <4>3 DEF HeldRowIsDue
    <3>3. CASE BackoffOverflows(w)
      BY <3>3 DEF BackoffOverflows, Release, HeldRowIsDue, TypeOK
    <3>. QED  BY <2>2, <3>2, <3>3, VerdictCommits
  <2>3. CASE Rollback(w)
    BY <2>3 DEF Rollback, Release, HeldRowIsDue, TypeOK
  <2>4. CASE Crash(w)
    BY <2>4 DEF Crash, Release, HeldRowIsDue, TypeOK
  <2>5. CASE RequestStop(w)
    BY <2>5 DEF RequestStop, HeldRowIsDue, TypeOK
  <2>6. CASE Exit(w)
    BY <2>6 DEF Exit, HeldRowIsDue, TypeOK
  <2>7. CASE Restart(w)
    BY <2>7 DEF Restart, HeldRowIsDue, TypeOK
  <2>. QED  BY <1>3, <2>1, <2>2, <2>3, <2>4, <2>5, <2>6, <2>7 DEF Worker
<1>4. CASE LoseRequests
  BY <1>4 DEF LoseRequests, HeldRowIsDue
<1>5. CASE Tick
  <2>1. holding[v] \in Events /\ rows[holding[v]] \in Row
    BY <1>5 DEF Tick, TypeOK
  <2>2. /\ rows'[holding[v]].status = rows[holding[v]].status
        /\ rows'[holding[v]].wait = 0
    BY <1>5, <2>1 DEF Tick, HeldRowIsDue, Row
  <2>. QED  BY <1>5, <2>2 DEF Tick, HeldRowIsDue
<1>6. CASE UNCHANGED vars
  BY <1>6 DEF vars, HeldRowIsDue
<1>. QED  BY <1>1, <1>2, <1>3, <1>4, <1>5, <1>6 DEF Next

\* A verdict spends an attempt of a pending row, which had one left.
LEMMA AttemptsBudgetStep ==
  TypeOK /\ HeldRowIsDue /\ AttemptsBudget /\ [Next]_vars => AttemptsBudget'
<1>. SUFFICES ASSUME TypeOK, HeldRowIsDue, AttemptsBudget, [Next]_vars,
                     NEW e \in Events
              PROVE  /\ rows'[e].attempts <= MaxAttempts
                     /\ rows'[e].status = "pending" => rows'[e].attempts < MaxAttempts
                     /\ rows'[e].error = "exhausted" =>
                          rows'[e].status = "failed" /\ rows'[e].attempts = MaxAttempts
  BY DEF AttemptsBudget
<1>1. /\ rows[e].attempts <= MaxAttempts
      /\ rows[e].status = "pending" => rows[e].attempts < MaxAttempts
      /\ rows[e].error = "exhausted" =>
           rows[e].status = "failed" /\ rows[e].attempts = MaxAttempts
  BY DEF AttemptsBudget
<1>2. rows[e] \in Row
  BY DEF TypeOK
<1>3. CASE rows'[e] = rows[e]
  BY <1>1, <1>3
<1>4. CASE Inserted(e)
  BY <1>4, NextRankType, FreshRowFields, SettingsAssumption DEF Inserted
<1>5. CASE Ruled(e)
  <2>1. PICK w \in Workers : holding[w] = e /\ VerdictRow(w, rows'[e])
    BY <1>5 DEF Ruled
  <2>2. rows[e].status = "pending"
    BY <2>1, EventsAssumption DEF HeldRowIsDue
  <2>. QED  BY <1>1, <1>2, <2>1, <2>2, SettingsAssumption DEF VerdictRow, Row
<1>6. CASE Aged(e)
  BY <1>1, <1>2, <1>6 DEF Aged, Row
<1>7. CASE Reopened(e)
  BY <1>2, <1>7, FreshRowFields, SettingsAssumption DEF Reopened, Row
<1>. QED  BY <1>3, <1>4, <1>5, <1>6, <1>7, RowStep

\* No step empties a row, and only the receiver fills one, before it responds.
LEMMA AckedIsStoredStep ==
  TypeOK /\ HeldRowIsDue /\ AckedIsStored /\ [Next]_vars => AckedIsStored'
<1>. SUFFICES ASSUME TypeOK, HeldRowIsDue, AckedIsStored, [Next]_vars,
                     NEW e \in Events
              PROVE  /\ e \in acked' \/ <<e, "persisted">> \in requests' => Stored(e)'
                     /\ Stored(e)' => e \in Valid
  BY DEF AckedIsStored
<1>1. rows[e] \in Row
  BY DEF TypeOK
<1>2. Stored(e) => Stored(e)'
  BY <1>1, RowStep, NextRankType, FreshRowFields
  DEF Inserted, Ruled, VerdictRow, Aged, Reopened, Stored, Row
<1>3. Stored(e)' => e \in Valid
  <2>1. Ruled(e) => Stored(e)
    BY EventsAssumption DEF Ruled, HeldRowIsDue, Stored
  <2>2. Stored(e) => e \in Valid
    BY DEF AckedIsStored
  <2>3. Aged(e) \/ Reopened(e) \/ rows'[e] = rows[e] => (Stored(e)' => Stored(e))
    BY <1>1 DEF Aged, Reopened, Stored, Row
  <2>. QED  BY <2>1, <2>2, <2>3, RowStep DEF Inserted
<1>4. ASSUME e \in acked' \/ <<e, "persisted">> \in requests',
             ~(e \in acked \/ <<e, "persisted">> \in requests)
      PROVE  Stored(e)'
  <2>1. Persist(e)
    <3>. DEFINE promised == e \in acked' \/ <<e, "persisted">> \in requests'
    <3>1. ~(UNCHANGED <<requests, acked>>)
      BY <1>4
    <3>2. ASSUME NEW f \in Events, Deliver(f) \/ Reject(f) \/ Respond(f)
          PROVE  ~promised
      BY <1>4, <3>2 DEF Deliver, Reject, Respond
    <3>3. ASSUME NEW f \in Events, Persist(f), f # e  PROVE ~promised
      BY <1>4, <3>3 DEF Persist
    <3>4. LoseRequests => ~promised
      BY <1>4 DEF LoseRequests
    <3>5. ASSUME NEW w \in Workers, Verdict(w)  PROVE UNCHANGED <<requests, acked>>
      BY <3>5, VerdictCommits DEF Commit, BackoffOverflows
    <3>6. ASSUME NEW w \in Workers, Worker(w)  PROVE UNCHANGED <<requests, acked>>
      BY <3>5, <3>6
      DEF Worker, Claim, Rollback, Crash, RequestStop, Exit, Restart
    <3>7. Tick \/ (\E f \in Events : Replay(f)) \/ UNCHANGED vars
            => UNCHANGED <<requests, acked>>
      BY DEF Tick, Replay, vars
    <3>. QED  BY <1>4, <3>1, <3>2, <3>3, <3>4, <3>6, <3>7 DEF Next, Receiver
  <2>. QED  BY <2>1, NextRankType, FreshRowFields DEF Persist, Stored, TypeOK
<1>5. e \in acked \/ <<e, "persisted">> \in requests => Stored(e)
  BY DEF AckedIsStored
<1>. QED  BY <1>2, <1>3, <1>4, <1>5

\* The strengthened invariant is inductive.
THEOREM Invariance == Spec => []IInv
<1>1. Init => IInv
  <2>. SUFFICES ASSUME Init  PROVE IInv
    OBVIOUS
  <2>1. TypeOK
    BY TypeInit
  <2>2. /\ \A e \in Events : rows[e] = NoRow
        /\ \A w \in Workers : holding[w] = NoEvent
        /\ requests = {} /\ acked = {}
    BY DEF Init
  <2>. QED  BY <2>1, <2>2, SettingsAssumption
            DEF IInv, NoSharedRow, HeldRowIsDue, AttemptsBudget, AckedIsStored, NoRow, Stored
<1>2. IInv /\ [Next]_vars => IInv'
  BY TypeStep, NoSharedRowStep, HeldRowIsDueStep, AttemptsBudgetStep, AckedIsStoredStep
  DEF IInv
<1>. QED  BY <1>1, <1>2, PTL DEF Spec

-----------------------------------------------------------------------------
(* The properties of the queue.                                            *)

\* SKIP LOCKED and one transaction per event keep two workers off one row.
THEOREM NoSharedRowHolds == Spec => []NoSharedRow
BY Invariance, PTL DEF IInv

\* A pending row has an attempt left, whatever has happened to it; the message
\* EXHAUSTED RETRIES is written after exactly MaxAttempts verdicts.
THEOREM AttemptsBudgetHolds == Spec => []AttemptsBudget
BY Invariance, PTL DEF IInv

\* Stripe stops sending an event only when it is in the table.
THEOREM AckedIsStoredHolds == Spec => []AckedIsStored
BY Invariance, PTL DEF IInv

\* A row is locked while and only while it is pending and due.
THEOREM HeldRowIsDueHolds == Spec => []HeldRowIsDue
BY Invariance, PTL DEF IInv

\* Pending rows change by a verdict of their lock holder, one attempt each.
THEOREM VerdictsUnderLockHolds == Spec => VerdictsUnderLock
<1>1. ASSUME IInv, [Next]_vars, NEW e \in Events  PROVE VerdictStep(e)
  <2>1. rows[e] \in Row
    BY <1>1 DEF IInv, TypeOK
  <2>2. CASE Ruled(e)
    BY <2>2, EventsAssumption DEF Ruled, VerdictRow, VerdictStep
  <2>3. Aged(e) => VerdictStep(e)
    BY <2>1 DEF Aged, VerdictStep, Row
  <2>. QED  BY <1>1, <2>2, <2>3, RowStep DEF IInv, Inserted, Reopened, Stored, VerdictStep
<1>2. IInv /\ [Next]_vars => [\A e \in Events : VerdictStep(e)]_vars
  BY <1>1
<1>. QED  BY <1>2, Invariance, PTL DEF Spec, VerdictsUnderLock

\* Processed and failed rows stay, but for the operator's replay.
THEOREM SettledRowsStayHolds == Spec => SettledRowsStay
<1>1. ASSUME IInv, [Next]_vars, NEW e \in Events  PROVE SettledStep(e)
  <2>1. ~Ruled(e) \/ ~Settled(e)
    BY <1>1, EventsAssumption DEF IInv, Ruled, HeldRowIsDue, Settled
  <2>2. ~(rows[e].wait > 0) \/ ~Settled(e)
    BY <1>1 DEF IInv, HeldRowIsDue, Settled
  <2>. QED  BY <1>1, <2>1, <2>2, RowStep
            DEF IInv, Inserted, Reopened, Stored, Settled, SettledStep
<1>2. IInv /\ [Next]_vars => [\A e \in Events : SettledStep(e)]_vars
  BY <1>1
<1>. QED  BY <1>2, Invariance, PTL DEF Spec, SettledRowsStay

-----------------------------------------------------------------------------
(* The queue implements the lifecycle of a row.                            *)

\* What one changed row does to the two columns the lifecycle sees.
LEMMA ColumnsOfOneRow ==
  ASSUME NEW e \in Events, NEW row,
         rows \in [Events -> Row],
         rows' = [rows EXCEPT ![e] = row]
  PROVE  /\ [f \in Events |-> rows'[f].status]
              = [[f \in Events |-> rows[f].status] EXCEPT ![e] = row.status]
         /\ [f \in Events |-> rows'[f].attempts]
              = [[f \in Events |-> rows[f].attempts] EXCEPT ![e] = row.attempts]
OBVIOUS

\* Every step of the queue is a transition of the lifecycle or a stutter.
LEMMA LifecycleStep ==
  ASSUME TypeOK, HeldRowIsDue, [Next]_vars
  PROVE  [Lifecycle!Next]_(Lifecycle!vars)
<1>. DEFINE Goal == [Lifecycle!Next]_(Lifecycle!vars)
<1>1. rows \in [Events -> Row]
  BY DEF TypeOK
<1>2. CASE UNCHANGED rows
  BY <1>2 DEF Lifecycle!vars
<1>3. ASSUME NEW e \in Events, Persist(e)  PROVE Goal
  <2>1. CASE Stored(e)
    BY <1>2, <1>3, <2>1 DEF Persist
  <2>2. CASE ~Stored(e)
    <3>1. rows' = [rows EXCEPT ![e] = FreshRow(NextRank)]
      BY <1>3, <2>2 DEF Persist
    <3>2. /\ FreshRow(NextRank).status = "pending"
          /\ FreshRow(NextRank).attempts = 0
      BY NextRankType, FreshRowFields
    <3>3. Lifecycle!Receive(e)
      BY <1>1, <2>2, <3>1, <3>2, ColumnsOfOneRow DEF Lifecycle!Receive, Stored
    <3>. QED  BY <3>3 DEF Lifecycle!Next
  <2>. QED  BY <2>1, <2>2
<1>4. ASSUME NEW e \in Events, Replay(e)  PROVE Goal
  <2>. DEFINE fresh == FreshRow(rows[e].rank)
  <2>1. rows' = [rows EXCEPT ![e] = fresh] /\ rows[e].status = "failed"
    BY <1>4 DEF Replay
  <2>2. fresh.status = "pending" /\ fresh.attempts = 0
    BY <1>1, FreshRowFields DEF Row
  <2>. HIDE DEF fresh
  <2>3. Lifecycle!Replay(e)
    BY <1>1, <2>1, <2>2, ColumnsOfOneRow DEF Lifecycle!Replay
  <2>. QED  BY <2>3 DEF Lifecycle!Next
<1>5. ASSUME NEW w \in Workers, NEW row, holding[w] \in Events,
             VerdictRow(w, row), Commit(w, row)
      PROVE  Goal
  <2>0. PICK e \in Events : e = holding[w]
    BY <1>5
  <2>1. /\ rows[e].status = "pending"
        /\ rows' = [rows EXCEPT ![e] = row]
        /\ row.attempts = rows[e].attempts + 1
    BY <1>5, <2>0, EventsAssumption DEF HeldRowIsDue, Commit, VerdictRow
  <2>2. \/ row.status \in {"processed", "failed"}
        \/ row.status = "pending" /\ row.attempts < MaxAttempts
    BY <1>5 DEF VerdictRow
  <2>3. Lifecycle!Verdict(e, row.status)
    BY <1>1, <2>1, ColumnsOfOneRow DEF Lifecycle!Verdict
  <2>4. Lifecycle!Process(e) \/ Lifecycle!Fail(e) \/ Lifecycle!Retry(e)
    BY <2>1, <2>2, <2>3 DEF Lifecycle!Process, Lifecycle!Fail, Lifecycle!Retry
  <2>. QED  BY <2>4 DEF Lifecycle!Next
<1>6. CASE Tick
  <2>1. \A e \in Events : /\ rows'[e].status = rows[e].status
                          /\ rows'[e].attempts = rows[e].attempts
    BY <1>1, <1>6 DEF Tick, Row
  <2>. QED  BY <2>1 DEF Lifecycle!vars
<1>7. ASSUME NEW w \in Workers, Verdict(w)  PROVE Goal
  BY <1>2, <1>5, <1>7, VerdictCommits DEF BackoffOverflows
<1>. QED
  BY <1>2, <1>3, <1>4, <1>6, <1>7
  DEF Next, vars, Receiver, Deliver, Reject, Respond, Worker, Claim, Rollback,
      Crash, RequestStop, Exit, Restart, LoseRequests

\* The documented lifecycle is all that ever happens to a row's status and
\* attempts, with any number of workers, crashes and redeliveries.
THEOREM Refinement == Spec => ImplementsLifecycle
<1>1. Init => Lifecycle!Init
  BY DEF Init, Lifecycle!Init, NoRow
<1>2. IInv /\ [Next]_vars => [Lifecycle!Next]_(Lifecycle!vars)
  BY LifecycleStep DEF IInv
<1>. QED  BY <1>1, <1>2, Invariance, PTL DEF Spec, ImplementsLifecycle, Lifecycle!Spec
=============================================================================
