---------------------------- MODULE SidecarProofs ----------------------------
(***************************************************************************)
(* That the handlers do not get in each other's way: with both kinds of    *)
(* events on one queue, with delays and backoff, the customer events are   *)
(* handled as CustomerSync says and the subscription events as             *)
(* SubscriptionSync says, for every set of events, customers, workers and  *)
(* budgets.  What is proved of either by itself then holds of the sidecar, *)
(* and the two together keep the promise of Provisioning.                  *)
(***************************************************************************)
EXTENDS Sidecar, HandlerRunsProofs

-----------------------------------------------------------------------------
(* The inductive invariant.                                                *)

Session(pc, event, seen, reply) ==
    [pc |-> pc, event |-> event, seen |-> seen, reply |-> reply]

Whole(x) == x = Session(x.pc, x.event, x.seen, x.reply)

\* A session is on an event, or it is as it was at the start.
SessionsWhole ==
    /\ work = [w \in Workers |-> work[w]]
    /\ \A w \in Workers : /\ Whole(work[w])
                          /\ IF Holds(w) THEN work[w].event \in Events
                             ELSE work[w] = Idle

\* Only what has been retried waits.
WaitSound == \A e \in Events : wait[e] > 0 => rows[e].attempts > 0

\* The faults and refusals of customer events are among all of them.
HitsSound ==
    /\ hits \in [faults : Nat, refusals : Nat]
    /\ hits.faults <= faults
    /\ hits.refusals <= refusals

\* What may still arrive in Metronome was sent for an event of its kind.
RequestsOwn ==
    /\ \A r \in renames : r.event \in CustomerEvents
    /\ \A r \in creates : r.event \in SubscriptionEvents

Inv ==
    /\ rows \in [Events -> Row]
    /\ faults \in 0 .. MaxFaults
    /\ refusals \in 0 .. MaxRefusals
    /\ wait \in [Events -> Nat]
    /\ DOMAIN mapping = Customers
    /\ DOMAIN links = Subscriptions
    /\ SessionsWhole
    /\ LocksSound
    /\ RanksSound
    /\ WaitSound
    /\ HitsSound
    /\ RequestsOwn

-----------------------------------------------------------------------------
(* The steps, as the rows and the sessions see them.                        *)

Verdicts == {"processed", "failed", "pending"}

\* The worker lets go of its event, with a verdict or without.
LetsGo(w) ==
    /\ Holds(w)
    /\ work' = [work EXCEPT ![w] = Idle]
    /\ rows' = rows \/ \E status \in Verdicts : Ruled(w, status)

\* The worker goes on with its event.
GoesOn(w) ==
    /\ Holds(w)
    /\ rows' = rows
    /\ \E x : /\ Whole(x)
              /\ x.pc # "idle"
              /\ x.event = work[w].event
              /\ work' = [work EXCEPT ![w] = x]

LEMMA SessionFields ==
  ASSUME NEW pc, NEW event, NEW seen, NEW reply
  PROVE  /\ Whole(Session(pc, event, seen, reply))
         /\ Session(pc, event, seen, reply).pc = pc
         /\ Session(pc, event, seen, reply).event = event
BY DEF Session, Whole

\* The other updates of the handlers' steps.
Calls(w, seen) == work' = [work EXCEPT ![w].pc = "calling", ![w].seen = seen]

Moves(w, pc) == work' = [work EXCEPT ![w].pc = pc]

LEMMA ReplyUpdate ==
  ASSUME SessionsWhole, NEW w \in Workers, NEW reply, Answer(w, reply)
  PROVE  work' = [work EXCEPT ![w] = Session("replied", work[w].event, work[w].seen, reply)]
<1>. DEFINE pc == "replied"
<1>1. PICK a, b, c, d : /\ work[w] = Session(a, b, c, d)
                        /\ work[w].event = b /\ work[w].seen = c /\ work[w].reply = d
  BY DEF SessionsWhole, Whole
<1>2. PICK values : work \in [Workers -> values]
  <2>1. work \in [Workers -> {work[v] : v \in Workers}]
    BY DEF SessionsWhole
  <2>. QED  BY <2>1
<1>3. [work[w] EXCEPT !.pc = pc] = Session(pc, b, c, d)
  <2>1. [Session(a, b, c, d) EXCEPT !.pc = pc] = Session(pc, b, c, d)
    BY DEF Session
  <2>. QED  BY <1>1, <2>1
<1>4. [work[w] EXCEPT !.pc = pc, !.reply = reply] = Session(pc, b, c, reply)
  <2>1. [Session(pc, b, c, d) EXCEPT !.reply = reply] = Session(pc, b, c, reply)
    BY DEF Session
  <2>. QED  BY <1>3, <2>1
<1>5. [work EXCEPT ![w].pc = pc, ![w].reply = reply] =
        [work EXCEPT ![w] = [work[w] EXCEPT !.pc = pc, !.reply = reply]]
  BY <1>2
<1>. QED  BY <1>1, <1>4, <1>5 DEF Answer

LEMMA SeenUpdate ==
  ASSUME SessionsWhole, NEW w \in Workers, NEW seen, Calls(w, seen)
  PROVE  work' = [work EXCEPT ![w] = Session("calling", work[w].event, seen, work[w].reply)]
<1>. DEFINE pc == "calling"
<1>1. PICK a, b, c, d : /\ work[w] = Session(a, b, c, d)
                        /\ work[w].event = b /\ work[w].seen = c /\ work[w].reply = d
  BY DEF SessionsWhole, Whole
<1>2. PICK values : work \in [Workers -> values]
  <2>1. work \in [Workers -> {work[v] : v \in Workers}]
    BY DEF SessionsWhole
  <2>. QED  BY <2>1
<1>3. [work[w] EXCEPT !.pc = pc] = Session(pc, b, c, d)
  <2>1. [Session(a, b, c, d) EXCEPT !.pc = pc] = Session(pc, b, c, d)
    BY DEF Session
  <2>. QED  BY <1>1, <2>1
<1>4. [work[w] EXCEPT !.pc = pc, !.seen = seen] = Session(pc, b, seen, d)
  <2>1. [Session(pc, b, c, d) EXCEPT !.seen = seen] = Session(pc, b, seen, d)
    BY DEF Session
  <2>. QED  BY <1>3, <2>1
<1>5. [work EXCEPT ![w].pc = pc, ![w].seen = seen] =
        [work EXCEPT ![w] = [work[w] EXCEPT !.pc = pc, !.seen = seen]]
  BY <1>2
<1>. QED  BY <1>1, <1>4, <1>5 DEF Calls

LEMMA StepUpdate ==
  ASSUME SessionsWhole, NEW w \in Workers, NEW pc, Moves(w, pc)
  PROVE  work' = [work EXCEPT ![w] = Session(pc, work[w].event, work[w].seen, work[w].reply)]
<1>1. PICK a, b, c, d : /\ work[w] = Session(a, b, c, d)
                        /\ work[w].event = b /\ work[w].seen = c /\ work[w].reply = d
  BY DEF SessionsWhole, Whole
<1>2. PICK values : work \in [Workers -> values]
  <2>1. work \in [Workers -> {work[v] : v \in Workers}]
    BY DEF SessionsWhole
  <2>. QED  BY <2>1
<1>3. [work[w] EXCEPT !.pc = pc] = Session(pc, b, c, d)
  <2>1. [Session(a, b, c, d) EXCEPT !.pc = pc] = Session(pc, b, c, d)
    BY DEF Session
  <2>. QED  BY <1>1, <2>1
<1>4. [work EXCEPT ![w].pc = pc] = [work EXCEPT ![w] = [work[w] EXCEPT !.pc = pc]]
  BY <1>2
<1>. QED  BY <1>1, <1>3, <1>4 DEF Moves

LEMMA GoOn ==
  ASSUME NEW w \in Workers, Holds(w), rows' = rows,
         NEW pc, NEW seen, NEW reply, pc # "idle",
         work' = [work EXCEPT ![w] = Session(pc, work[w].event, seen, reply)]
  PROVE  GoesOn(w)
<1>1. PICK x : x = Session(pc, work[w].event, seen, reply)
  OBVIOUS
<1>2. Whole(x) /\ x.pc = pc /\ x.event = work[w].event
  BY <1>1, SessionFields
<1>. QED  BY <1>1, <1>2 DEF GoesOn

LEMMA StayOn ==
  ASSUME SessionsWhole, NEW w \in Workers, Holds(w), rows' = rows, work' = work
  PROVE  GoesOn(w)
<1>1. PICK x : x = work[w]
  OBVIOUS
<1>2. Whole(x) /\ x.pc # "idle"
  BY <1>1 DEF SessionsWhole, Holds
<1>3. work' = [work EXCEPT ![w] = x]
  BY <1>1 DEF SessionsWhole
<1>. QED  BY <1>1, <1>2, <1>3 DEF GoesOn

\* A step of a worker on a customer event.
CustomerStep(w) == HandleCustomer(w) \/ AnswerCustomer(w) \/ CustomerCallGoesWrong(w)

\* A step of a worker on a subscription event.
SubscriptionStep(w) ==
    HandleSubscription(w) \/ AnswerSubscription(w) \/ SubscriptionCallGoesWrong(w)

LEMMA CustomerForms ==
  ASSUME Inv, NEW w \in Workers, CustomerStep(w)
  PROVE  /\ LetsGo(w) \/ GoesOn(w)
         /\ faults' = faults \/ Fault
         /\ refusals' = refusals \/ Refusal
         /\ DOMAIN mapping' = DOMAIN mapping
         /\ \A r \in renames' : r \in renames \/ r.event = work[w].event
<1>1. SessionsWhole
  BY DEF Inv
<1>2. CASE C!Handle(w)
  <2>1. Holds(w)
    BY <1>2 DEF C!Handle, C!SkipAlreadyMapped, C!FailUnmappable, C!NeedsCall, C!CallMetronome,
       C!InsertMapping, C!InsertCollides, C!TouchMapping, C!CallFailed, C!RuleOnFailure,
       C!Answered, Holds
  <2>2. CASE C!CallMetronome(w)
    <3>1. Calls(w, C!Found(w)) /\ rows' = rows
      BY <2>1, <2>2 DEF C!CallMetronome, Calls
    <3>2. work' = [work EXCEPT ![w] = Session("calling", work[w].event, C!Found(w), work[w].reply)]
      BY <1>1, <3>1, SeenUpdate
    <3>3. GoesOn(w)
      BY <2>1, <2>2, <3>1, <3>2, GoOn
    <3>. QED  BY <2>1, <2>2, <3>3 DEF C!CallMetronome
  <2>3. ASSUME NEW status \in Verdicts, C!Rule(w, status)
        PROVE  LetsGo(w) /\ faults' = faults /\ refusals' = refusals
    BY <2>1, <2>3 DEF C!Rule, C!EndWork, C!Idle, C!Bad, Idle, Bad, LetsGo, Ruled
  <2>4. CASE C!InsertCollides(w)
    BY <2>1, <2>4 DEF C!InsertCollides, C!EndWork, C!Idle, C!Bad, Idle, Bad, LetsGo
  <2>5. C!RetryStatus(w) \in Verdicts
    BY DEF C!RetryStatus, Verdicts
  <2>. QED
    BY <1>2, <2>2, <2>3, <2>4, <2>5 DEF C!Handle, C!SkipAlreadyMapped, C!FailUnmappable,
       C!InsertMapping, C!TouchMapping, C!CallFailed, C!RuleOnFailure, Verdicts
<1>3. ASSUME NEW reply, C!Answer(w, reply), Holds(w)
      PROVE  GoesOn(w)
  <2>1. Answer(w, reply) /\ rows' = rows
    BY <1>3 DEF C!Answer, Answer
  <2>2. work' = [work EXCEPT ![w] = Session("replied", work[w].event, work[w].seen, reply)]
    BY <1>1, <2>1, ReplyUpdate
  <2>3. GoesOn(w)
    BY <1>3, <2>1, <2>2, GoOn
  <2>. QED  BY <1>3, <2>3 DEF C!Answer
<1>4. CASE C!MetronomeAnswers(w)
  BY <1>3, <1>4 DEF C!MetronomeAnswers, Holds
<1>5. CASE C!MetronomeRefuses(w)
  BY <1>3, <1>5 DEF C!MetronomeRefuses, Holds, C!Refusal, Refusal
<1>6. CASE C!CallFails(w)
  BY <1>3, <1>6 DEF C!CallFails, C!RequestOf, Holds, C!Fault, Fault
<1>7. CASE C!LoseReply(w)
  BY <1>3, <1>7 DEF C!LoseReply, C!Answered, Holds, C!Fault, Fault
<1>8. CASE C!Rollback(w)
  BY <1>8 DEF C!Rollback, C!RequestOf, C!EndWork, C!Idle, C!Bad, Idle, Bad, LetsGo, Holds,
     C!Fault, Fault
<1>9. CASE C!Resend(w)
  <2>1. GoesOn(w)
    BY <1>1, <1>9, StayOn DEF C!Resend, Holds
  <2>. QED  BY <1>9, <2>1 DEF C!Resend, C!RequestOf, C!Fault, Fault
<1>. QED
  BY <1>2, <1>4, <1>5, <1>6, <1>7, <1>8, <1>9 DEF CustomerStep, HandleCustomer, AnswerCustomer,
     CustomerCallGoesWrong, OnCustomer

LEMMA SubscriptionForms ==
  ASSUME Inv, NEW w \in Workers, SubscriptionStep(w)
  PROVE  /\ LetsGo(w) \/ GoesOn(w)
         /\ faults' = faults \/ Fault
         /\ refusals' = refusals \/ Refusal
         /\ DOMAIN links' = DOMAIN links
         /\ \A r \in creates' : r \in creates \/ r.event = work[w].event
<1>1. SessionsWhole
  BY DEF Inv
<1>2. ASSUME NEW status \in Verdicts, S!Rule(w, status), Holds(w)
      PROVE  LetsGo(w) /\ faults' = faults /\ refusals' = refusals
  BY <1>2 DEF S!Rule, S!EndWork, S!Idle, S!Bad, Idle, Bad, LetsGo, Ruled
<1>3. ASSUME NEW reply, S!Answer(w, reply), Holds(w)
      PROVE  GoesOn(w)
  <2>1. Answer(w, reply) /\ rows' = rows
    BY <1>3 DEF S!Answer, Answer
  <2>2. work' = [work EXCEPT ![w] = Session("replied", work[w].event, work[w].seen, reply)]
    BY <1>1, <2>1, ReplyUpdate
  <2>3. GoesOn(w)
    BY <1>3, <2>1, <2>2, GoOn
  <2>. QED  BY <1>3, <2>3 DEF S!Answer
<1>4. CASE S!Handle(w)
  <2>1. Holds(w)
    BY <1>4 DEF S!Handle, S!Acknowledge, S!SkipAlreadyMapped, S!RejectPayload, S!AwaitCustomer,
       S!PayloadIs, S!CallMetronome, S!InsertLink, S!InsertCollides, S!CallFailed,
       S!RuleOnFailure, S!Answered, Holds
  <2>2. CASE S!CallMetronome(w)
    <3>1. Moves(w, "calling") /\ rows' = rows
      BY <2>1, <2>2 DEF S!CallMetronome, Moves
    <3>2. work' = [work EXCEPT ![w] = Session("calling", work[w].event, work[w].seen, work[w].reply)]
      BY <1>1, <3>1, StepUpdate
    <3>3. GoesOn(w)
      BY <2>1, <2>2, <3>1, <3>2, GoOn
    <3>. QED  BY <2>1, <2>2, <3>3 DEF S!CallMetronome
  <2>3. CASE S!InsertCollides(w)
    BY <2>1, <2>3 DEF S!InsertCollides, S!EndWork, S!Idle, S!Bad, Idle, Bad, LetsGo
  <2>4. S!RetryStatus(w) \in Verdicts
    BY DEF S!RetryStatus, Verdicts
  <2>. QED
    BY <1>2, <1>4, <2>1, <2>2, <2>3, <2>4 DEF S!Handle, S!Acknowledge, S!Settle,
       S!SkipAlreadyMapped, S!RejectPayload, S!AwaitCustomer, S!InsertLink, S!CallFailed,
       S!RuleOnFailure, Verdicts
<1>5. CASE S!MetronomeCreates(w)
  <2>1. Holds(w)
    BY <1>5 DEF S!MetronomeCreates, Holds
  <2>2. CASE Moves(w, "listing") /\ rows' = rows
    <3>1. work' = [work EXCEPT ![w] = Session("listing", work[w].event, work[w].seen, work[w].reply)]
      BY <1>1, <2>2, StepUpdate
    <3>2. GoesOn(w)
      BY <2>1, <2>2, <3>1, GoOn
    <3>. QED  BY <1>5, <3>2 DEF S!MetronomeCreates
  <2>. QED  BY <1>3, <1>5, <2>1, <2>2 DEF S!MetronomeCreates, Moves
<1>6. CASE S!MetronomeLists(w)
  BY <1>3, <1>6 DEF S!MetronomeLists, Holds
<1>7. CASE S!ListMisses(w)
  BY <1>3, <1>7 DEF S!ListMisses, Holds, S!Refusal, Refusal
<1>8. CASE S!MetronomeRefuses(w)
  BY <1>3, <1>8 DEF S!MetronomeRefuses, Holds, S!Refusal, Refusal
<1>9. CASE S!CallFails(w)
  BY <1>3, <1>9 DEF S!CallFails, S!RequestOf, Holds, S!Fault, Fault
<1>10. CASE S!LoseReply(w)
  BY <1>3, <1>10 DEF S!LoseReply, S!Answered, Holds, S!Fault, Fault
<1>11. CASE S!Rollback(w)
  BY <1>11 DEF S!Rollback, S!RequestOf, S!EndWork, S!Idle, S!Bad, Idle, Bad, LetsGo, Holds,
     S!Fault, Fault
<1>12. CASE S!Resend(w)
  <2>1. GoesOn(w)
    BY <1>1, <1>12, StayOn DEF S!Resend, Holds
  <2>. QED  BY <1>12, <2>1 DEF S!Resend, S!RequestOf, S!Fault, Fault
<1>. QED
  BY <1>4, <1>5, <1>6, <1>7, <1>8, <1>9, <1>10, <1>11, <1>12 DEF SubscriptionStep,
     HandleSubscription, AnswerSubscription, SubscriptionCallGoesWrong, OnSubscription

\* What a step on an event leaves of the invariant.
LEMMA HandlerKeeps ==
  ASSUME Inv, NEW w \in Workers, LetsGo(w) \/ GoesOn(w)
  PROVE  /\ rows' \in [Events -> Row]
         /\ \A e \in Events : rows'[e].attempts >= rows[e].attempts
         /\ SessionsWhole'
         /\ LocksSound'
         /\ RanksSound'
<1>1. /\ rows \in [Events -> Row] /\ SessionsWhole /\ LocksSound /\ RanksSound
      /\ Holds(w) /\ work[w].event \in Events
  BY DEF Inv, SessionsWhole, LetsGo, GoesOn
<1>2. rows' = rows \/ \E status \in Verdicts : Ruled(w, status)
  BY DEF LetsGo, GoesOn
<1>3. rows' \in [Events -> Row]
  BY <1>1, <1>2, RuledType DEF Verdicts, Statuses
<1>4. \A e \in Events : /\ rows'[e].rank = rows[e].rank
                        /\ rows'[e].status = "absent" <=> rows[e].status = "absent"
                        /\ rows'[e].attempts >= rows[e].attempts
                        /\ rows'[e] # rows[e] => e = work[w].event
  <2>1. rows[work[w].event].status = "pending"
    BY <1>1 DEF LocksSound
  <2>2. CASE rows' = rows
    BY <1>1, <2>2 DEF Row
  <2>3. ASSUME NEW status \in Verdicts, Ruled(w, status), NEW e \in Events
        PROVE  /\ rows'[e].rank = rows[e].rank
               /\ rows'[e].status = "absent" <=> rows[e].status = "absent"
               /\ rows'[e].attempts >= rows[e].attempts
               /\ rows'[e] # rows[e] => e = work[w].event
    BY <1>1, <2>1, <2>3 DEF Ruled, Row, Verdicts
  <2>. QED  BY <1>2, <2>2, <2>3
<1>5. RanksSound'
  BY <1>1, <1>4, RanksKept
<1>6. PICK x : /\ Whole(x)
               /\ IF x.pc # "idle" THEN x.event = work[w].event ELSE x = Idle
               /\ work' = [work EXCEPT ![w] = x]
               /\ rows' = rows \/ x = Idle
  <2>1. CASE LetsGo(w)
    <3>1. Whole(Idle) /\ Idle.pc = "idle"
      BY DEF Idle, Whole, Session
    <3>. QED  BY <2>1, <3>1 DEF LetsGo
  <2>2. CASE GoesOn(w)
    BY <2>2 DEF GoesOn
  <2>. QED  BY <2>1, <2>2
<1>7. /\ work = [v \in Workers |-> work[v]]
      /\ work' = [v \in Workers |-> work'[v]]
      /\ work'[w] = x
      /\ \A v \in Workers : v # w => work'[v] = work[v]
  BY <1>1, <1>6 DEF SessionsWhole
<1>8. SessionsWhole'
  <2>1. SUFFICES ASSUME NEW v \in Workers
                 PROVE  /\ Whole(work'[v])
                        /\ IF work'[v].pc # "idle" THEN work'[v].event \in Events
                           ELSE work'[v] = Idle
    BY <1>7 DEF SessionsWhole, Holds
  <2>2. CASE v = w
    BY <1>1, <1>6, <1>7, <2>2
  <2>3. CASE v # w
    BY <1>1, <1>7, <2>3 DEF SessionsWhole, Holds
  <2>. QED  BY <2>2, <2>3
<1>9. UnderLock
  BY <1>1, <1>4, <1>6, <1>7 DEF UnderLock, EndWork
<1>10. NobodyClaims
  BY <1>1, <1>6, <1>7 DEF NobodyClaims
<1>11. EventsHeld /\ DOMAIN work = Workers
  BY <1>1, <1>7 DEF EventsHeld, SessionsWhole, Idle
<1>. QED  BY <1>1, <1>3, <1>4, <1>5, <1>8, <1>9, <1>10, <1>11, LocksKept

\* Poll takes an event up that is free and pending, and past which no event
\* that has never been tried is waiting.
LEMMA PollForm ==
  ASSUME Inv, NEW w \in Workers, Poll(w)
  PROVE  \E e \in Events :
           /\ Takes(w, e)
           /\ work[w] = Idle
           /\ work' = [work EXCEPT ![w] = [Idle EXCEPT !.pc = "claimed", !.event = e]]
           /\ \A f \in Events : Available(f) /\ rows[f].rank < rows[e].rank
                                   => rows[f].attempts > 0
<1>1. PICK e \in Events :
         /\ Due(e)
         /\ \A f \in Events : Due(f) => rows[e].rank <= rows[f].rank
         /\ work' = [work EXCEPT ![w].pc = "claimed", ![w].event = e]
  BY DEF Poll
<1>2. work[w] = Idle
  BY DEF Poll, Inv, SessionsWhole, Holds
<1>3. work = [v \in Workers |-> work[v]]
  BY DEF Inv, SessionsWhole
<1>4. work' = [work EXCEPT ![w] = [Idle EXCEPT !.pc = "claimed", !.event = e]]
  <2>1. PICK values : work \in [Workers -> values]
    <3>1. work \in [Workers -> {work[v] : v \in Workers}]
      BY <1>3
    <3>. QED  BY <3>1
  <2>2. work' = [work EXCEPT ![w] = [work[w] EXCEPT !.pc = "claimed", !.event = e]]
    BY <1>1, <2>1
  <2>. QED  BY <1>2, <2>2
<1>5. Takes(w, e)
  <2>1. [Idle EXCEPT !.pc = "claimed", !.event = e].event = e
    BY DEF Idle
  <2>. QED  BY <1>1, <1>3, <1>4, <2>1 DEF Takes, Poll, Due
<1>6. \A f \in Events : Available(f) /\ rows[f].rank < rows[e].rank => rows[f].attempts > 0
  <2>1. SUFFICES ASSUME NEW f \in Events, Available(f), rows[f].rank < rows[e].rank
                 PROVE  rows[f].attempts > 0
    OBVIOUS
  <2>2. rows[e].rank \in Nat /\ rows[f].rank \in Nat /\ wait[f] \in Nat
    BY DEF Inv, Row
  <2>3. ~ Due(f)
    BY <1>1, <2>1, <2>2
  <2>. QED  BY <2>1, <2>2, <2>3 DEF Due, Inv, WaitSound
<1>. QED  BY <1>2, <1>4, <1>5, <1>6

LEMMA FaultType ==
  ASSUME Inv, faults' = faults \/ Fault, refusals' = refusals \/ Refusal
  PROVE  /\ faults' \in 0 .. MaxFaults /\ refusals' \in 0 .. MaxRefusals
         /\ faults <= faults' /\ refusals <= refusals'
BY HandlerRunsAssumption DEF Inv, Fault, Refusal

LEMMA ScheduleKeeps ==
  ASSUME Inv, NEW w \in Workers, Schedule(w), work[w].event \in Events,
         rows' \in [Events -> Row],
         \A e \in Events : rows'[e].attempts >= rows[e].attempts
  PROVE  wait' \in [Events -> Nat] /\ WaitSound'
<1>1. /\ wait \in [Events -> Nat] /\ WaitSound
      /\ \A e \in Events : rows[e].attempts \in Nat /\ rows'[e].attempts \in Nat
  BY DEF Inv, Row
<1>2. CASE UNCHANGED wait
  BY <1>1, <1>2 DEF WaitSound
<1>3. ASSUME NEW e \in Events, Retried(e), NEW d \in BackoffDelays(rows'[e].attempts),
             wait' = [wait EXCEPT ![e] = d]
      PROVE  wait' \in [Events -> Nat] /\ WaitSound'
  <2>1. d \in Nat
    BY SidecarAssumption DEF BackoffDelays
  <2>2. rows'[e].attempts > 0
    BY <1>1, <1>3 DEF Retried
  <2>. QED  BY <1>1, <1>3, <2>1, <2>2 DEF WaitSound
<1>. QED  BY <1>2, <1>3 DEF Schedule

\* hits counts with faults and refusals on customer events.
LEMMA HitsKeep ==
  ASSUME Inv, faults' = faults \/ Fault, refusals' = refusals \/ Refusal,
         \/ hits' = hits
         \/ hits' = [faults   |-> hits.faults + (faults' - faults),
                     refusals |-> hits.refusals + (refusals' - refusals)]
  PROVE  HitsSound'
<1>1. PICK hf \in Nat, hr \in Nat : /\ hits = [faults |-> hf, refusals |-> hr]
                                   /\ hf <= faults /\ hr <= refusals
  BY DEF Inv, HitsSound
<1>2. faults \in Nat /\ refusals \in Nat
  BY HandlerRunsAssumption DEF Inv
<1>3. /\ faults' \in Nat /\ faults <= faults'
      /\ refusals' \in Nat /\ refusals <= refusals'
  BY <1>2 DEF Fault, Refusal
<1>4. CASE hits' = hits
  BY <1>1, <1>2, <1>3, <1>4 DEF HitsSound
<1>5. CASE hits' = [faults   |-> hits.faults + (faults' - faults),
                    refusals |-> hits.refusals + (refusals' - refusals)]
  <2>1. hits' = [faults |-> hf + (faults' - faults), refusals |-> hr + (refusals' - refusals)]
    BY <1>1, <1>5
  <2>2. /\ hf + (faults' - faults) \in Nat /\ hf + (faults' - faults) <= faults'
        /\ hr + (refusals' - refusals) \in Nat /\ hr + (refusals' - refusals) <= refusals'
    <3>1. \A h, m, n \in Nat : h <= m /\ m <= n => h + (n - m) \in Nat /\ h + (n - m) <= n
      OBVIOUS
    <3>. QED  BY <1>1, <1>2, <1>3, <3>1
  <2>. QED  BY <2>1, <2>2 DEF HitsSound
<1>. QED  BY <1>4, <1>5

LEMMA StepCases ==
  ASSUME [Next]_vars
  PROVE  \/ \E e \in Events : Arrive(e)
         \/ \E w \in Workers : Poll(w) \/ CustomerStep(w) \/ SubscriptionStep(w)
         \/ RenameArrives
         \/ CreateArrives
         \/ Tick
         \/ UNCHANGED vars
BY DEF Next, CustomerStep, SubscriptionStep

LEMMA InvStep ==
  ASSUME Inv, [Next]_vars
  PROVE  Inv'
<1>1. ASSUME NEW e \in Events, Arrive(e)
      PROVE  Inv'
  <2>1. rows' \in [Events -> Row] /\ RanksSound'
        /\ \A f \in Events : rows'[f].attempts = rows[f].attempts
    BY <1>1, InsertType, InsertRanks DEF Inv, Arrive
  <2>2. LocksSound'
    <3>1. \A w \in Workers : Holds(w) => work[w].event \in Events
      BY DEF Inv, SessionsWhole
    <3>2. rows[e].status = "absent" /\ \A f \in Events : f # e => rows'[f] = rows[f]
      BY <1>1 DEF Arrive, Insert, Inv
    <3>3. \A w \in Workers : Holds(w) => rows'[work[w].event] = rows[work[w].event]
      BY <3>1, <3>2 DEF Inv, LocksSound
    <3>. QED  BY <1>1, <3>3 DEF Arrive, Inv, LocksSound, Holds
  <2>3. SessionsWhole'
    BY <1>1 DEF Arrive, Inv, SessionsWhole, Holds
  <2>4. /\ UNCHANGED <<work, faults, refusals, wait, hits>>
        /\ UNCHANGED <<mapping, renames, links, creates>>
    BY <1>1 DEF Arrive, customerVars, subscriptionVars
  <2>. QED  BY <2>1, <2>2, <2>3, <2>4 DEF Inv, WaitSound, HitsSound, RequestsOwn
<1>2. ASSUME NEW w \in Workers, Poll(w)
      PROVE  Inv'
  <2>1. PICK e \in Events :
           /\ Takes(w, e)
           /\ work' = [work EXCEPT ![w] = [Idle EXCEPT !.pc = "claimed", !.event = e]]
    BY <1>2, PollForm
  <2>2. PICK x : x = [Idle EXCEPT !.pc = "claimed", !.event = e]
    OBVIOUS
  <2>3. Whole(x) /\ x.pc = "claimed" /\ x.event = e
    BY <2>2 DEF Idle, Whole, Session
  <2>4. /\ work' = [v \in Workers |-> work'[v]] /\ work'[w] = x
        /\ \A v \in Workers : v # w => work'[v] = work[v]
    BY <2>1, <2>2 DEF Inv, SessionsWhole
  <2>5. SessionsWhole'
    BY <2>3, <2>4 DEF Inv, SessionsWhole, Holds
  <2>6. /\ UNCHANGED <<rows, faults, refusals, wait, hits>>
        /\ UNCHANGED <<mapping, renames, links, creates>>
    BY <1>2 DEF Poll, customerVars, subscriptionVars
  <2>7. UnderLock /\ EventsHeld /\ DOMAIN work = Workers
    BY <2>6 DEF UnderLock, EventsHeld, Inv, SessionsWhole, Idle
  <2>8. LocksSound'
    BY <2>1, <2>7, LocksKept DEF Inv
  <2>9. RanksSound'
    BY <2>6, RanksKept DEF Inv
  <2>. QED  BY <2>5, <2>6, <2>8, <2>9 DEF Inv, WaitSound, HitsSound, RequestsOwn
<1>3. ASSUME NEW w \in Workers, CustomerStep(w)
      PROVE  Inv'
  <2>1. /\ LetsGo(w) \/ GoesOn(w)
        /\ faults' = faults \/ Fault
        /\ refusals' = refusals \/ Refusal
        /\ DOMAIN mapping' = DOMAIN mapping
        /\ \A r \in renames' : r \in renames \/ r.event = work[w].event
    BY <1>3, CustomerForms
  <2>2. /\ work[w].event \in CustomerEvents /\ Schedule(w)
        /\ UNCHANGED <<links, creates>>
        /\ hits' = [faults   |-> hits.faults + (faults' - faults),
                    refusals |-> hits.refusals + (refusals' - refusals)]
    BY <1>3 DEF CustomerStep, HandleCustomer, AnswerCustomer, CustomerCallGoesWrong,
       OnCustomer, subscriptionVars
  <2>3. /\ rows' \in [Events -> Row]
        /\ \A e \in Events : rows'[e].attempts >= rows[e].attempts
        /\ SessionsWhole' /\ LocksSound' /\ RanksSound'
    BY <2>1, HandlerKeeps
  <2>4. wait' \in [Events -> Nat] /\ WaitSound'
    BY <2>2, <2>3, ScheduleKeeps, SidecarAssumption
  <2>5. HitsSound'
    BY <2>1, <2>2, HitsKeep
  <2>6. RequestsOwn'
    BY <2>1, <2>2 DEF Inv, RequestsOwn
  <2>. QED  BY <2>1, <2>2, <2>3, <2>4, <2>5, <2>6, FaultType DEF Inv
<1>4. ASSUME NEW w \in Workers, SubscriptionStep(w)
      PROVE  Inv'
  <2>1. /\ LetsGo(w) \/ GoesOn(w)
        /\ faults' = faults \/ Fault
        /\ refusals' = refusals \/ Refusal
        /\ DOMAIN links' = DOMAIN links
        /\ \A r \in creates' : r \in creates \/ r.event = work[w].event
    BY <1>4, SubscriptionForms
  <2>2. /\ work[w].event \in SubscriptionEvents /\ Schedule(w)
        /\ UNCHANGED <<mapping, renames, hits>>
    BY <1>4 DEF SubscriptionStep, HandleSubscription, AnswerSubscription,
       SubscriptionCallGoesWrong, OnSubscription, customerVars
  <2>3. /\ rows' \in [Events -> Row]
        /\ \A e \in Events : rows'[e].attempts >= rows[e].attempts
        /\ SessionsWhole' /\ LocksSound' /\ RanksSound'
    BY <2>1, HandlerKeeps
  <2>4. wait' \in [Events -> Nat] /\ WaitSound'
    BY <2>2, <2>3, ScheduleKeeps DEF SubscriptionEvents
  <2>5. HitsSound'
    BY <2>1, <2>2, HitsKeep
  <2>6. RequestsOwn'
    BY <2>1, <2>2 DEF Inv, RequestsOwn
  <2>. QED  BY <2>1, <2>2, <2>3, <2>4, <2>5, <2>6, FaultType DEF Inv
<1>5. ASSUME UNCHANGED <<rows, work, faults, refusals, hits, mapping, links>>,
             wait' \in [Events -> Nat], WaitSound', RequestsOwn'
      PROVE  Inv'
  <2>1. RanksSound'
    BY <1>5, RanksKept DEF Inv
  <2>2. SessionsWhole' /\ LocksSound' /\ HitsSound'
    BY <1>5 DEF Inv, SessionsWhole, LocksSound, HitsSound, Holds
  <2>. QED  BY <1>5, <2>1, <2>2 DEF Inv
<1>6. CASE RenameArrives
  BY <1>5, <1>6 DEF RenameArrives, C!StrayEnds, subscriptionVars, Inv, WaitSound, RequestsOwn
<1>7. CASE CreateArrives
  BY <1>5, <1>7 DEF CreateArrives, S!StrayEnds, customerVars, Inv, WaitSound, RequestsOwn
<1>8. CASE Tick
  <2>1. wait' \in [Events -> Nat] /\ WaitSound'
    BY <1>8 DEF Tick, Inv, WaitSound
  <2>. QED
    BY <1>5, <1>8, <2>1 DEF Tick, customerVars, subscriptionVars, Inv, RequestsOwn
<1>9. CASE UNCHANGED vars
  BY <1>5, <1>9 DEF vars, customerVars, subscriptionVars, Inv, WaitSound, RequestsOwn
<1>. QED  BY <1>1, <1>2, <1>3, <1>4, <1>6, <1>7, <1>8, <1>9, StepCases

LEMMA InitInv ==
  ASSUME Init
  PROVE  Inv
<1>1. {e \in Events : rows[e].rank # 0} = {}
  BY DEF Init, C!Init, C!InitRuns
<1>2. NextRank = 1
  BY <1>1, FS_EmptySet DEF NextRank
<1>3. RanksSound
  BY <1>2 DEF RanksSound, Init, C!Init, C!InitRuns
<1>4. Whole(Idle) /\ Idle.pc = "idle"
  BY DEF Idle, Whole, Session
<1>5. /\ work = [w \in Workers |-> Idle]
      /\ rows = [e \in Events |-> [status |-> "absent", attempts |-> 0, rank |-> 0]]
      /\ faults = 0 /\ refusals = 0
      /\ mapping = [c \in Customers |-> 0] /\ renames = {}
      /\ DOMAIN links = Subscriptions /\ creates = {}
      /\ wait = [e \in Events |-> 0] /\ hits = [faults |-> 0, refusals |-> 0]
  BY DEF Init, C!Init, C!InitRuns, C!Idle, C!Bad, Idle, Bad
<1>6. SessionsWhole /\ LocksSound
  BY <1>4, <1>5 DEF SessionsWhole, LocksSound, Holds
<1>7. rows \in [Events -> Row]
  BY <1>5 DEF Row, Statuses
<1>8. wait \in [Events -> Nat] /\ WaitSound /\ HitsSound /\ RequestsOwn
  BY <1>5 DEF WaitSound, HitsSound, RequestsOwn
<1>. QED
  BY <1>3, <1>5, <1>6, <1>7, <1>8, HandlerRunsAssumption DEF Inv

\* The sidecar's rows, sessions, waits and counters are as its invariant says.
THEOREM InvHolds == Spec => []Inv
BY InitInv, InvStep, PTL DEF Spec

-----------------------------------------------------------------------------
(* What one kind of handler sees of the rows.                               *)

\* The row of an event among its own, with its place among them.
LEMMA OwnRow ==
  ASSUME Inv, NEW own \in SUBSET Events, NEW e \in own
  PROVE  /\ OwnRank(e, own) \in Nat
         /\ OwnRows(own)[e] \in Row
         /\ OwnRows(own)[e].status = rows[e].status
         /\ OwnRows(own)[e].attempts = rows[e].attempts
         /\ OwnRows(own)[e].rank = OwnRank(e, own)
<1>1. IsFiniteSet({f \in own : rows[f].rank \in 1 .. rows[e].rank})
  BY HandlerRunsAssumption, FS_Subset, {f \in own : rows[f].rank \in 1 .. rows[e].rank} \subseteq Events
<1>2. OwnRank(e, own) \in Nat
  BY <1>1, FS_CardinalityType DEF OwnRank
<1>3. rows[e] \in Row
  BY DEF Inv
<1>4. OwnRows(own)[e] = [rows[e] EXCEPT !.rank = OwnRank(e, own)]
  BY DEF OwnRows
<1>. QED  BY <1>2, <1>3, <1>4 DEF Row

LEMMA OwnRankOrder ==
  ASSUME Inv, NEW own \in SUBSET Events, NEW e \in own, NEW f \in own,
         rows[f].rank <= rows[e].rank
  PROVE  OwnRank(f, own) <= OwnRank(e, own)
<1>. DEFINE before(g) == {h \in own : rows[h].rank \in 1 .. rows[g].rank}
<1>1. IsFiniteSet(before(e))
  BY HandlerRunsAssumption, FS_Subset, before(e) \subseteq Events
<1>2. before(f) \subseteq before(e)
  BY DEF Inv, Row
<1>3. Cardinality(before(f)) <= Cardinality(before(e))
  BY <1>1, <1>2, FS_Subset
<1>. QED  BY <1>3 DEF OwnRank

LEMMA OwnRankZero ==
  ASSUME Inv, NEW own \in SUBSET Events, NEW e \in own
  PROVE  OwnRank(e, own) = 0 <=> rows[e].rank = 0
<1>. DEFINE before == {f \in own : rows[f].rank \in 1 .. rows[e].rank}
<1>1. IsFiniteSet(before)
  BY HandlerRunsAssumption, FS_Subset, before \subseteq Events
<1>2. Cardinality(before) = 0 <=> before = {}
  BY <1>1, FS_EmptySet
<1>3. rows[e].rank \in Nat /\ \A f \in own : rows[f].rank \in Nat
  BY DEF Inv, Row
<1>4. before = {} <=> rows[e].rank = 0
  BY <1>3
<1>. QED  BY <1>2, <1>4 DEF OwnRank

\* Rows whose ranks stay keep their places.
LEMMA OwnRanksKept ==
  ASSUME NEW own \in SUBSET Events, \A e \in own : rows'[e].rank = rows[e].rank,
         NEW e \in own
  PROVE  OwnRank(e, own)' = OwnRank(e, own)
<1>1. {f \in own : rows'[f].rank \in 1 .. rows'[e].rank}
        = {f \in own : rows[f].rank \in 1 .. rows[e].rank}
  OBVIOUS
<1>. QED  BY <1>1 DEF OwnRank

\* A verdict on another event is none of theirs.
LEMMA OwnRowsKept ==
  ASSUME NEW own \in SUBSET Events, \A e \in own : rows'[e] = rows[e]
  PROVE  OwnRows(own)' = OwnRows(own)
<1>1. \A e \in own : OwnRank(e, own)' = OwnRank(e, own)
  BY OwnRanksKept
<1>. QED  BY <1>1 DEF OwnRows

\* What they see after a step.
LEMMA OwnRowNext ==
  ASSUME rows' \in [Events -> Row], NEW own \in SUBSET Events, NEW e \in own,
         OwnRank(e, own)' \in Nat
  PROVE  /\ OwnRows(own)'[e] \in Row
         /\ OwnRows(own)'[e].status = rows'[e].status
         /\ OwnRows(own)'[e].attempts = rows'[e].attempts
         /\ OwnRows(own)'[e].rank = OwnRank(e, own)'
<1>1. rows'[e] \in Row
  OBVIOUS
<1>2. OwnRows(own)'[e] = [rows'[e] EXCEPT !.rank = OwnRank(e, own)']
  BY DEF OwnRows
<1>. QED  BY <1>1, <1>2 DEF Row

\* Rows that differ in the fields that a verdict, or an arrival, writes.
LEMMA RowRuled ==
  ASSUME NEW own, NEW R \in [own -> Row], NEW Q \in [own -> Row], NEW e \in own, NEW status,
         Q[e].status = status, Q[e].attempts = R[e].attempts + 1, Q[e].rank = R[e].rank,
         \A f \in own : f # e => Q[f] = R[f]
  PROVE  Q = [R EXCEPT ![e].attempts = @ + 1, ![e].status = status]
<1>. DEFINE tried == [R[e] EXCEPT !.attempts = @ + 1]
            row == [tried EXCEPT !.status = status]
<1>1. tried \in Row /\ tried.attempts = R[e].attempts + 1 /\ tried.rank = R[e].rank
  BY DEF Row
<1>2. row \in Row /\ row.status = status /\ row.attempts = tried.attempts /\ row.rank = tried.rank
  <2>. HIDE DEF tried
  <2>1. status \in Statuses
    BY DEF Row
  <2>. QED  BY <1>1, <2>1 DEF Row
<1>3. Q[e] = row
  <2>. HIDE DEF row, tried
  <2>. QED  BY <1>1, <1>2 DEF Row
<1>4. [R EXCEPT ![e].attempts = @ + 1, ![e].status = status] = [R EXCEPT ![e] = row]
  OBVIOUS
<1>. HIDE DEF row
<1>. QED  BY <1>3, <1>4

LEMMA RowInserted ==
  ASSUME NEW own, NEW R \in [own -> Row], NEW Q \in [own -> Row], NEW e \in own, NEW n,
         Q[e].status = "pending", Q[e].attempts = R[e].attempts, Q[e].rank = n,
         \A f \in own : f # e => Q[f] = R[f]
  PROVE  Q = [R EXCEPT ![e].status = "pending", ![e].rank = n]
<1>. DEFINE there == [R[e] EXCEPT !.status = "pending"]
            row == [there EXCEPT !.rank = n]
<1>1. there \in Row /\ there.attempts = R[e].attempts /\ there.status = "pending"
  BY DEF Row, Statuses
<1>2. row \in Row /\ row.status = there.status /\ row.attempts = there.attempts /\ row.rank = n
  <2>. HIDE DEF there
  <2>1. n \in Nat
    BY DEF Row
  <2>. QED  BY <1>1, <2>1 DEF Row
<1>3. Q[e] = row
  <2>. HIDE DEF row, there
  <2>. QED  BY <1>1, <1>2 DEF Row
<1>4. [R EXCEPT ![e].status = "pending", ![e].rank = n] = [R EXCEPT ![e] = row]
  OBVIOUS
<1>. HIDE DEF row
<1>. QED  BY <1>3, <1>4

Judged(R, e, status) == [R EXCEPT ![e].attempts = @ + 1, ![e].status = status]

\* A verdict on one of their events is the same verdict on what they see.
LEMMA OwnVerdict ==
  ASSUME Inv, NEW own \in SUBSET Events, NEW w \in Workers, work[w].event \in own,
         NEW status \in Verdicts, Ruled(w, status)
  PROVE  OwnRows(own)' = Judged(OwnRows(own), work[w].event, status)
<1>1. PICK e \in own : e = work[w].event
  OBVIOUS
<1>2. rows \in [Events -> Row] /\ e \in Events
  BY <1>1 DEF Inv
<1>3. rows' \in [Events -> Row]
  BY <1>1, <1>2, RuledType DEF Verdicts, Statuses
<1>4. /\ rows'[e].status = status
      /\ rows'[e].attempts = rows[e].attempts + 1
      /\ rows'[e].rank = rows[e].rank
      /\ \A f \in own : f # e => rows'[f] = rows[f]
  BY <1>1, <1>2 DEF Ruled, Row
<1>5. \A f \in own : OwnRank(f, own)' = OwnRank(f, own) /\ OwnRank(f, own) \in Nat
  BY <1>4, OwnRanksKept, OwnRow
<1>6. OwnRows(own) \in [own -> Row] /\ OwnRows(own)' \in [own -> Row]
  <2>1. \A f \in own : OwnRows(own)[f] \in Row /\ OwnRows(own)'[f] \in Row
    BY <1>3, <1>5, OwnRow, OwnRowNext
  <2>2. /\ OwnRows(own) = [f \in own |-> OwnRows(own)[f]]
        /\ OwnRows(own)' = [f \in own |-> OwnRows(own)'[f]]
    BY DEF OwnRows
  <2>. QED  BY <2>1, <2>2
<1>7. /\ OwnRows(own)'[e].status = status
      /\ OwnRows(own)'[e].attempts = OwnRows(own)[e].attempts + 1
      /\ OwnRows(own)'[e].rank = OwnRows(own)[e].rank
  BY <1>3, <1>4, <1>5, OwnRow, OwnRowNext
<1>8. \A f \in own : f # e => OwnRows(own)'[f] = OwnRows(own)[f]
  <2>1. SUFFICES ASSUME NEW f \in own, f # e
                 PROVE  OwnRows(own)'[f] = OwnRows(own)[f]
    OBVIOUS
  <2>2. /\ OwnRows(own)'[f].status = OwnRows(own)[f].status
        /\ OwnRows(own)'[f].attempts = OwnRows(own)[f].attempts
        /\ OwnRows(own)'[f].rank = OwnRows(own)[f].rank
    BY <1>3, <1>4, <1>5, <2>1, OwnRow, OwnRowNext
  <2>. QED  BY <1>6, <2>2 DEF Row
<1>9. OwnRows(own)' = Judged(OwnRows(own), e, status)
  BY <1>6, <1>7, <1>8, RowRuled DEF Judged
<1>. QED  BY <1>1, <1>9

\* A new row of theirs comes after the rows they see.
LEMMA OwnInsert ==
  ASSUME Inv, NEW own \in SUBSET Events, NEW e \in own, Insert(e)
  PROVE  OwnRows(own)' =
           [OwnRows(own) EXCEPT
               ![e].status = "pending",
               ![e].rank = Cardinality({f \in own : OwnRows(own)[f].rank # 0}) + 1]
<1>1. rows \in [Events -> Row] /\ e \in Events /\ RanksSound
  BY DEF Inv
<1>2. rows' \in [Events -> Row]
  BY <1>1, InsertType
<1>3. /\ rows'[e].rank = NextRank /\ rows'[e].status = "pending"
      /\ rows'[e].attempts = rows[e].attempts
      /\ \A f \in own : f # e => rows'[f] = rows[f]
  BY <1>1, InsertRanks DEF Insert
<1>. DEFINE arrived == {f \in own : rows[f].rank # 0}
<1>4. IsFiniteSet(arrived)
  BY HandlerRunsAssumption, FS_Subset, arrived \subseteq Events
<1>5. arrived = {f \in own : OwnRows(own)[f].rank # 0}
  BY OwnRow, OwnRankZero
<1>6. NextRank \in Nat /\ rows[e].rank = 0
      /\ \A f \in own : rows[f].rank \in Nat /\ rows[f].rank < NextRank
  BY <1>1, NextRankType DEF RanksSound, Insert, Row
<1>7. OwnRank(e, own)' = Cardinality(arrived) + 1
  <2>1. {f \in own : rows'[f].rank \in 1 .. rows'[e].rank} = arrived \cup {e}
    BY <1>3, <1>6
  <2>2. e \notin arrived
    BY <1>6
  <2>. QED  BY <1>4, <2>1, <2>2, FS_AddElement DEF OwnRank
<1>8. \A f \in own : f # e => OwnRank(f, own)' = OwnRank(f, own)
  <2>1. SUFFICES ASSUME NEW f \in own, f # e
                 PROVE  OwnRank(f, own)' = OwnRank(f, own)
    OBVIOUS
  <2>2. {g \in own : rows'[g].rank \in 1 .. rows'[f].rank}
          = {g \in own : rows[g].rank \in 1 .. rows[f].rank}
    BY <1>3, <1>6, <2>1
  <2>. QED  BY <2>2 DEF OwnRank
<1>9. Cardinality(arrived) \in Nat
  BY <1>4, FS_CardinalityType
<1>. HIDE DEF arrived
<1>10. \A f \in own : OwnRank(f, own) \in Nat /\ OwnRank(f, own)' \in Nat
  BY <1>7, <1>8, <1>9, OwnRow
<1>11. OwnRows(own) \in [own -> Row] /\ OwnRows(own)' \in [own -> Row]
  <2>1. \A f \in own : OwnRows(own)[f] \in Row /\ OwnRows(own)'[f] \in Row
    BY <1>2, <1>10, OwnRow, OwnRowNext
  <2>2. /\ OwnRows(own) = [f \in own |-> OwnRows(own)[f]]
        /\ OwnRows(own)' = [f \in own |-> OwnRows(own)'[f]]
    BY DEF OwnRows
  <2>. QED  BY <2>1, <2>2
<1>12. /\ OwnRows(own)'[e].status = "pending"
       /\ OwnRows(own)'[e].attempts = OwnRows(own)[e].attempts
       /\ OwnRows(own)'[e].rank = Cardinality(arrived) + 1
  BY <1>2, <1>3, <1>7, <1>10, OwnRow, OwnRowNext
<1>13. \A f \in own : f # e => OwnRows(own)'[f] = OwnRows(own)[f]
  <2>1. SUFFICES ASSUME NEW f \in own, f # e
                 PROVE  OwnRows(own)'[f] = OwnRows(own)[f]
    OBVIOUS
  <2>2. /\ OwnRows(own)'[f].status = OwnRows(own)[f].status
        /\ OwnRows(own)'[f].attempts = OwnRows(own)[f].attempts
        /\ OwnRows(own)'[f].rank = OwnRows(own)[f].rank
    BY <1>2, <1>3, <1>8, <1>10, <2>1, OwnRow, OwnRowNext
  <2>. QED  BY <1>11, <2>2 DEF Row
<1>14. OwnRows(own)' = [OwnRows(own) EXCEPT ![e].status = "pending",
                                            ![e].rank = Cardinality(arrived) + 1]
  BY <1>11, <1>12, <1>13, RowInserted
<1>. QED  BY <1>5, <1>14

-----------------------------------------------------------------------------
(* What one kind of handler sees of the sessions.                           *)

\* The sessions after a step of a worker, as they are or as one side sees them.
With(F, w, x) == [F EXCEPT ![w] = x]

Replied(F, w, reply) == [F EXCEPT ![w].pc = "replied", ![w].reply = reply]

Calling(F, w, seen) == [F EXCEPT ![w].pc = "calling", ![w].seen = seen]

Moved(F, w, pc) == [F EXCEPT ![w].pc = pc]

LEMMA SessionReplied ==
  ASSUME NEW A, NEW F \in [Workers -> A], NEW w \in Workers,
         NEW a, NEW b, NEW c, NEW d, F[w] = Session(a, b, c, d), NEW reply
  PROVE  Replied(F, w, reply) = With(F, w, Session("replied", b, c, reply))
<1>2. [F[w] EXCEPT !.pc = "replied"] = Session("replied", b, c, d)
  <2>1. [Session(a, b, c, d) EXCEPT !.pc = "replied"] = Session("replied", b, c, d)
    BY DEF Session
  <2>. QED  BY <2>1
<1>3. [F[w] EXCEPT !.pc = "replied", !.reply = reply] = Session("replied", b, c, reply)
  <2>1. [Session("replied", b, c, d) EXCEPT !.reply = reply] = Session("replied", b, c, reply)
    BY DEF Session
  <2>. QED  BY <1>2, <2>1
<1>4. [F EXCEPT ![w].pc = "replied", ![w].reply = reply] =
        [F EXCEPT ![w] = [F[w] EXCEPT !.pc = "replied", !.reply = reply]]
  OBVIOUS
<1>. QED  BY <1>3, <1>4 DEF Replied, With

LEMMA SessionCalling ==
  ASSUME NEW A, NEW F \in [Workers -> A], NEW w \in Workers,
         NEW a, NEW b, NEW c, NEW d, F[w] = Session(a, b, c, d), NEW seen
  PROVE  Calling(F, w, seen) = With(F, w, Session("calling", b, seen, d))
<1>2. [F[w] EXCEPT !.pc = "calling"] = Session("calling", b, c, d)
  <2>1. [Session(a, b, c, d) EXCEPT !.pc = "calling"] = Session("calling", b, c, d)
    BY DEF Session
  <2>. QED  BY <2>1
<1>3. [F[w] EXCEPT !.pc = "calling", !.seen = seen] = Session("calling", b, seen, d)
  <2>1. [Session("calling", b, c, d) EXCEPT !.seen = seen] = Session("calling", b, seen, d)
    BY DEF Session
  <2>. QED  BY <1>2, <2>1
<1>4. [F EXCEPT ![w].pc = "calling", ![w].seen = seen] =
        [F EXCEPT ![w] = [F[w] EXCEPT !.pc = "calling", !.seen = seen]]
  OBVIOUS
<1>. QED  BY <1>3, <1>4 DEF Calling, With

LEMMA SessionMoved ==
  ASSUME NEW A, NEW F \in [Workers -> A], NEW w \in Workers,
         NEW a, NEW b, NEW c, NEW d, F[w] = Session(a, b, c, d), NEW pc
  PROVE  Moved(F, w, pc) = With(F, w, Session(pc, b, c, d))
<1>2. [Session(a, b, c, d) EXCEPT !.pc = pc] = Session(pc, b, c, d)
  BY DEF Session
<1>. QED  BY <1>2 DEF Moved, With

\* The steps of a worker on one of their events.
LEMMA OwnWorks ==
  ASSUME NEW own \in SUBSET Events
  PROVE  /\ \E A, B : OwnWork(own) \in [Workers -> A] /\ OwnWork(own)' \in [Workers -> B]
         /\ \A v \in Workers : /\ work[v].event \in own => OwnWork(own)[v] = work[v]
                               /\ work[v].event \notin own => OwnWork(own)[v] = Idle
                               /\ work'[v].event \in own => OwnWork(own)'[v] = work'[v]
                               /\ work'[v].event \notin own => OwnWork(own)'[v] = Idle
<1>1. /\ OwnWork(own) \in [Workers -> {OwnWork(own)[v] : v \in Workers}]
      /\ OwnWork(own)' \in [Workers -> {OwnWork(own)'[v] : v \in Workers}]
  BY DEF OwnWork
<1>2. \E A, B : OwnWork(own) \in [Workers -> A] /\ OwnWork(own)' \in [Workers -> B]
  BY <1>1
<1>. QED  BY <1>2 DEF OwnWork

LEMMA OwnChange ==
  ASSUME Inv, NEW own \in SUBSET Events, NEW w \in Workers,
         NEW x, x.event \in own \/ x = Idle, work' = [work EXCEPT ![w] = x]
  PROVE  OwnWork(own)' = With(OwnWork(own), w, x)
<1>1. /\ work'[w] = x
      /\ \A v \in Workers : v # w => work'[v] = work[v]
  BY DEF Inv, SessionsWhole
<1>2. Idle.event \notin own
  BY HandlerRunsAssumption DEF Idle
<1>3. /\ OwnWork(own)'[w] = x
      /\ \A v \in Workers : v # w => OwnWork(own)'[v] = OwnWork(own)[v]
  BY <1>1, <1>2, OwnWorks
<1>4. PICK A, B : OwnWork(own) \in [Workers -> A] /\ OwnWork(own)' \in [Workers -> B]
  BY OwnWorks
<1>. QED  BY <1>3, <1>4 DEF With

LEMMA OwnAnswer ==
  ASSUME Inv, NEW own \in SUBSET Events, NEW w \in Workers, work[w].event \in own,
         NEW reply, Answer(w, reply)
  PROVE  OwnWork(own)' = Replied(OwnWork(own), w, reply)
<1>1. PICK a, b, c, d : /\ work[w] = Session(a, b, c, d)
                        /\ work[w].event = b /\ work[w].seen = c /\ work[w].reply = d
  BY DEF Inv, SessionsWhole, Whole
<1>2. PICK x : x = Session("replied", b, c, reply) /\ work' = [work EXCEPT ![w] = x]
  BY <1>1, ReplyUpdate DEF Inv
<1>3. x.event = b
  BY <1>2, SessionFields
<1>4. OwnWork(own)' = With(OwnWork(own), w, x)
  BY <1>1, <1>2, <1>3, OwnChange
<1>5. OwnWork(own)[w] = Session(a, b, c, d) /\ \E A : OwnWork(own) \in [Workers -> A]
  BY <1>1, OwnWorks
<1>6. PICK A : OwnWork(own) \in [Workers -> A]
  BY <1>5
<1>7. Replied(OwnWork(own), w, reply)
        = With(OwnWork(own), w, Session("replied", b, c, reply))
  BY <1>5, <1>6, SessionReplied
<1>. QED  BY <1>2, <1>4, <1>7

LEMMA OwnCalls ==
  ASSUME Inv, NEW own \in SUBSET Events, NEW w \in Workers, work[w].event \in own,
         NEW seen, Calls(w, seen)
  PROVE  OwnWork(own)' = Calling(OwnWork(own), w, seen)
<1>1. PICK a, b, c, d : /\ work[w] = Session(a, b, c, d)
                        /\ work[w].event = b /\ work[w].seen = c /\ work[w].reply = d
  BY DEF Inv, SessionsWhole, Whole
<1>2. PICK x : x = Session("calling", b, seen, d) /\ work' = [work EXCEPT ![w] = x]
  BY <1>1, SeenUpdate DEF Inv
<1>3. x.event = b
  BY <1>2, SessionFields
<1>4. OwnWork(own)' = With(OwnWork(own), w, x)
  BY <1>1, <1>2, <1>3, OwnChange
<1>5. OwnWork(own)[w] = Session(a, b, c, d) /\ \E A : OwnWork(own) \in [Workers -> A]
  BY <1>1, OwnWorks
<1>6. PICK A : OwnWork(own) \in [Workers -> A]
  BY <1>5
<1>7. Calling(OwnWork(own), w, seen) = With(OwnWork(own), w, Session("calling", b, seen, d))
  BY <1>5, <1>6, SessionCalling
<1>. QED  BY <1>2, <1>4, <1>7

LEMMA OwnMoves ==
  ASSUME Inv, NEW own \in SUBSET Events, NEW w \in Workers, work[w].event \in own,
         NEW pc, Moves(w, pc)
  PROVE  OwnWork(own)' = Moved(OwnWork(own), w, pc)
<1>1. PICK a, b, c, d : /\ work[w] = Session(a, b, c, d)
                        /\ work[w].event = b /\ work[w].seen = c /\ work[w].reply = d
  BY DEF Inv, SessionsWhole, Whole
<1>2. PICK x : x = Session(pc, b, c, d) /\ work' = [work EXCEPT ![w] = x]
  BY <1>1, StepUpdate DEF Inv
<1>3. x.event = b
  BY <1>2, SessionFields
<1>4. OwnWork(own)' = With(OwnWork(own), w, x)
  BY <1>1, <1>2, <1>3, OwnChange
<1>5. OwnWork(own)[w] = Session(a, b, c, d) /\ \E A : OwnWork(own) \in [Workers -> A]
  BY <1>1, OwnWorks
<1>6. PICK A : OwnWork(own) \in [Workers -> A]
  BY <1>5
<1>7. Moved(OwnWork(own), w, pc) = With(OwnWork(own), w, Session(pc, b, c, d))
  BY <1>5, <1>6, SessionMoved
<1>. QED  BY <1>2, <1>4, <1>7

LEMMA OwnEnd ==
  ASSUME Inv, NEW own \in SUBSET Events, NEW w \in Workers, EndWork(w)
  PROVE  OwnWork(own)' = With(OwnWork(own), w, Idle)
BY OwnChange DEF EndWork

\* Steps on other events leave what they see as it is.
LEMMA OthersKeep ==
  ASSUME Inv, NEW own \in SUBSET Events, NEW w \in Workers, work[w].event \in Events \ own,
         LetsGo(w) \/ GoesOn(w)
  PROVE  OwnWork(own)' = OwnWork(own) /\ OwnRows(own)' = OwnRows(own)
<1>1. PICK x : work' = [work EXCEPT ![w] = x] /\ x.event \notin own
  BY HandlerRunsAssumption DEF LetsGo, GoesOn, Idle
<1>2. /\ work'[w] = x
      /\ \A v \in Workers : v # w => work'[v] = work[v]
  BY <1>1 DEF Inv, SessionsWhole
<1>3. OwnWork(own)' = OwnWork(own)
  BY <1>1, <1>2, OwnWorks
<1>4. \A e \in own : rows'[e] = rows[e]
  BY DEF LetsGo, GoesOn, Ruled, Inv
<1>. QED  BY <1>3, <1>4, OwnRowsKept

-----------------------------------------------------------------------------
(* The customer events' side.                                               *)

\* hits counts for the customer events.
Counted == hits' = [faults   |-> hits.faults + (faults' - faults),
                    refusals |-> hits.refusals + (refusals' - refusals)]

LEMMA CountedHits ==
  ASSUME Inv, Counted
  PROVE  /\ faults' = faults => hits.faults' = hits.faults
         /\ refusals' = refusals => hits.refusals' = hits.refusals
         /\ Fault => CustomerSide!Fault
         /\ Refusal => CustomerSide!Refusal
<1>1. /\ hits.faults \in Nat /\ hits.refusals \in Nat
      /\ hits.faults <= faults /\ hits.refusals <= refusals
      /\ faults \in Nat /\ refusals \in Nat
  BY HandlerRunsAssumption DEF Inv, HitsSound
<1>2. /\ hits'.faults = hits.faults + (faults' - faults)
      /\ hits'.refusals = hits.refusals + (refusals' - refusals)
  BY DEF Counted
<1>3. MaxFaults \in Nat /\ MaxRefusals \in Nat
  BY HandlerRunsAssumption
<1>. QED  BY <1>1, <1>2, <1>3 DEF Fault, Refusal, CustomerSide!Fault, CustomerSide!Refusal

\* A handler of a customer event reads what it reads by itself.
LEMMA CustomerSame ==
  ASSUME Inv, NEW w \in Workers, work[w].event \in CustomerEvents
  PROVE  /\ OwnWork(CustomerEvents)[w] = work[w]
         /\ CustomerSide!Subject(w) = C!Subject(w)
         /\ CustomerSide!Found(w) = C!Found(w)
         /\ CustomerSide!RequestOf(w) = C!RequestOf(w)
         /\ CustomerSide!RetryStatus(w) = C!RetryStatus(w)
         /\ \A kinds : CustomerSide!Answered(w, kinds) <=> C!Answered(w, kinds)
<1>1. OwnWork(CustomerEvents)[w] = work[w]
  BY OwnWorks, SidecarAssumption
<1>2. OwnRows(CustomerEvents)[work[w].event].attempts = rows[work[w].event].attempts
  BY OwnRow, SidecarAssumption
<1>3. About[work[w].event] = Customer[work[w].event]
  BY SidecarAssumption DEF About
<1>. QED
  BY <1>1, <1>2, <1>3 DEF CustomerSide!Subject, C!Subject, CustomerSide!Found, C!Found,
     CustomerSide!RequestOf, C!RequestOf, CustomerSide!RetryStatus, C!RetryStatus,
     CustomerSide!Answered, C!Answered

LEMMA CustomerApplied ==
  ASSUME NEW r, r.event \in CustomerEvents
  PROVE  /\ CustomerSide!Applied(r) = C!Applied(r)
         /\ ~ CustomerSide!Conflicts(r) /\ ~ C!Conflicts(r)
<1>1. About[r.event] = Customer[r.event]
  BY SidecarAssumption DEF About
<1>. QED
  BY <1>1 DEF CustomerSide!Applied, C!Applied, CustomerSide!Conflicts, C!Conflicts

LEMMA CustomerRules ==
  ASSUME Inv, Counted, NEW w \in Workers, work[w].event \in CustomerEvents,
         NEW status \in Verdicts, C!Rule(w, status)
  PROVE  CustomerSide!Rule(w, status)
<1>1. Ruled(w, status) /\ EndWork(w) /\ UNCHANGED <<faults, refusals>>
  BY DEF C!Rule, Ruled, C!EndWork, EndWork, C!Idle, Idle, C!Bad, Bad
<1>2. OwnRows(CustomerEvents)' = Judged(OwnRows(CustomerEvents), work[w].event, status)
  <2>1. CustomerEvents \in SUBSET Events
    BY SidecarAssumption
  <2>. QED  BY <1>1, <2>1, OwnVerdict
<1>3. OwnWork(CustomerEvents)' = With(OwnWork(CustomerEvents), w, Idle)
  BY <1>1, OwnEnd, SidecarAssumption
<1>4. OwnWork(CustomerEvents)[w] = work[w]
  BY CustomerSame
<1>5. UNCHANGED <<hits.faults, hits.refusals>>
  BY <1>1, CountedHits
<1>. QED
  BY <1>2, <1>3, <1>4, <1>5 DEF CustomerSide!Rule, CustomerSide!EndWork, CustomerSide!Idle,
     CustomerSide!Bad, Idle, Bad, With, Judged

LEMMA CustomerAnswered ==
  ASSUME Inv, NEW w \in Workers, work[w].event \in CustomerEvents,
         NEW reply, C!Answer(w, reply)
  PROVE  CustomerSide!Answer(w, reply)
<1>1. Answer(w, reply) /\ rows' = rows
  BY DEF C!Answer, Answer
<1>2. OwnWork(CustomerEvents)' = Replied(OwnWork(CustomerEvents), w, reply)
  BY <1>1, OwnAnswer, SidecarAssumption
<1>3. OwnRows(CustomerEvents)' = OwnRows(CustomerEvents)
  BY <1>1, OwnRowsKept, SidecarAssumption
<1>. QED  BY <1>2, <1>3 DEF CustomerSide!Answer, Replied

LEMMA CustomerEnds ==
  ASSUME Inv, NEW w \in Workers, C!EndWork(w), rows' = rows
  PROVE  /\ CustomerSide!EndWork(w)
         /\ UNCHANGED OwnRows(CustomerEvents)
<1>1. EndWork(w)
  BY DEF C!EndWork, EndWork, C!Idle, Idle, C!Bad, Bad
<1>2. OwnWork(CustomerEvents)' = With(OwnWork(CustomerEvents), w, Idle)
  BY <1>1, OwnEnd, SidecarAssumption
<1>3. OwnRows(CustomerEvents)' = OwnRows(CustomerEvents)
  BY OwnRowsKept, SidecarAssumption
<1>. QED
  BY <1>2, <1>3 DEF CustomerSide!EndWork, CustomerSide!Idle, CustomerSide!Bad, Idle, Bad, With

LEMMA CustomerHandles ==
  ASSUME Inv, Counted, NEW w \in Workers, work[w].event \in CustomerEvents, C!Handle(w)
  PROVE  CustomerSide!Handle(w)
<1>1. /\ OwnWork(CustomerEvents)[w] = work[w]
      /\ CustomerSide!Subject(w) = C!Subject(w)
      /\ CustomerSide!Found(w) = C!Found(w)
      /\ CustomerSide!RetryStatus(w) = C!RetryStatus(w)
      /\ \A kinds : CustomerSide!Answered(w, kinds) <=> C!Answered(w, kinds)
  BY CustomerSame
<1>2. ASSUME NEW status \in Verdicts, C!Rule(w, status)
      PROVE  CustomerSide!Rule(w, status)
  BY <1>2, CustomerRules
<1>3. CASE C!SkipAlreadyMapped(w)
  BY <1>1, <1>2, <1>3 DEF C!SkipAlreadyMapped, CustomerSide!SkipAlreadyMapped, Verdicts,
     CustomerSide!Handle
<1>4. ~ C!FailUnmappable(w)
  BY SidecarAssumption DEF C!FailUnmappable
<1>5. CASE C!CallMetronome(w)
  <2>1. Calls(w, C!Found(w)) /\ rows' = rows
    BY <1>5 DEF C!CallMetronome, Calls
  <2>2. OwnWork(CustomerEvents)' = Calling(OwnWork(CustomerEvents), w, C!Found(w))
    BY <2>1, OwnCalls, SidecarAssumption
  <2>3. OwnRows(CustomerEvents)' = OwnRows(CustomerEvents)
    BY <2>1, OwnRowsKept, SidecarAssumption
  <2>4. CustomerSide!NeedsCall(w)
    BY <1>1, <1>5 DEF C!CallMetronome, C!NeedsCall, CustomerSide!NeedsCall
  <2>5. UNCHANGED <<hits.faults, hits.refusals>>
    BY <1>5, CountedHits DEF C!CallMetronome
  <2>. QED
    BY <1>1, <1>5, <2>2, <2>3, <2>4, <2>5 DEF C!CallMetronome, CustomerSide!CallMetronome,
       Calling, CustomerSide!Handle
<1>6. CASE C!InsertMapping(w)
  BY <1>1, <1>2, <1>6 DEF C!InsertMapping, CustomerSide!InsertMapping, Verdicts,
     CustomerSide!Handle
<1>7. CASE C!InsertCollides(w)
  <2>1. CustomerSide!EndWork(w) /\ UNCHANGED OwnRows(CustomerEvents)
    BY <1>7, CustomerEnds DEF C!InsertCollides
  <2>2. UNCHANGED <<hits.faults, hits.refusals>>
    BY <1>7, CountedHits DEF C!InsertCollides
  <2>. QED
    BY <1>1, <1>7, <2>1, <2>2 DEF C!InsertCollides, CustomerSide!InsertCollides,
       CustomerSide!Handle
<1>8. CASE C!TouchMapping(w)
  BY <1>1, <1>2, <1>8 DEF C!TouchMapping, CustomerSide!TouchMapping, Verdicts,
     CustomerSide!Handle
<1>9. CASE C!CallFailed(w)
  <2>1. C!RetryStatus(w) \in Verdicts
    BY DEF C!RetryStatus, Verdicts
  <2>2. CustomerSide!RuleOnFailure(w)
    BY <1>1, <1>2, <1>9, <2>1 DEF C!CallFailed, C!RuleOnFailure, CustomerSide!RuleOnFailure,
       Verdicts
  <2>. QED
    BY <1>9, <2>2 DEF C!CallFailed, CustomerSide!CallFailed, CustomerSide!Handle
<1>. QED
  BY <1>3, <1>4, <1>5, <1>6, <1>7, <1>8, <1>9 DEF C!Handle

LEMMA CustomerSteps ==
  ASSUME Inv, NEW w \in Workers, CustomerStep(w)
  PROVE  CustomerSide!Next
<1>1. work[w].event \in CustomerEvents /\ Counted
  BY DEF CustomerStep, HandleCustomer, AnswerCustomer, CustomerCallGoesWrong, OnCustomer, Counted
<1>2. /\ OwnWork(CustomerEvents)[w] = work[w]
      /\ CustomerSide!RequestOf(w) = C!RequestOf(w)
      /\ \A kinds : CustomerSide!Answered(w, kinds) <=> C!Answered(w, kinds)
  BY <1>1, CustomerSame
<1>3. ASSUME NEW reply, C!Answer(w, reply)
      PROVE  CustomerSide!Answer(w, reply)
  BY <1>1, <1>3, CustomerAnswered
<1>4. /\ CustomerSide!Applied(C!RequestOf(w)) = C!Applied(C!RequestOf(w))
      /\ ~ CustomerSide!Conflicts(C!RequestOf(w)) /\ ~ C!Conflicts(C!RequestOf(w))
  BY <1>1, CustomerApplied DEF C!RequestOf
<1>5. /\ faults' = faults => hits.faults' = hits.faults
      /\ refusals' = refusals => hits.refusals' = hits.refusals
      /\ C!Fault => CustomerSide!Fault
      /\ C!Refusal => CustomerSide!Refusal
  BY <1>1, CountedHits DEF C!Fault, Fault, C!Refusal, Refusal
<1>6. CASE C!Handle(w)
  BY <1>1, <1>6, CustomerHandles DEF CustomerSide!Next
<1>7. CASE C!MetronomeAnswers(w)
  <2>1. CustomerSide!MetronomeAnswers(w)
    BY <1>2, <1>3, <1>4, <1>5, <1>7 DEF C!MetronomeAnswers, CustomerSide!MetronomeAnswers,
       C!Bad, CustomerSide!Bad
  <2>. QED  BY <2>1 DEF CustomerSide!Next
<1>8. CASE C!MetronomeRefuses(w)
  <2>1. CustomerSide!MetronomeRefuses(w)
    BY <1>2, <1>3, <1>4, <1>5, <1>8 DEF C!MetronomeRefuses, CustomerSide!MetronomeRefuses,
       C!Bad, CustomerSide!Bad
  <2>. QED  BY <2>1 DEF CustomerSide!Next
<1>9. CASE C!CallFails(w)
  <2>1. CustomerSide!CallFails(w)
    BY <1>2, <1>3, <1>5, <1>9 DEF C!CallFails, CustomerSide!CallFails, C!Bad, CustomerSide!Bad
  <2>. QED  BY <2>1 DEF CustomerSide!Next
<1>10. CASE C!LoseReply(w)
  <2>1. CustomerSide!LoseReply(w)
    BY <1>2, <1>3, <1>5, <1>10 DEF C!LoseReply, CustomerSide!LoseReply, C!Bad, CustomerSide!Bad
  <2>. QED  BY <2>1 DEF CustomerSide!Next
<1>11. CASE C!Rollback(w)
  <2>1. CustomerSide!EndWork(w) /\ UNCHANGED OwnRows(CustomerEvents)
    BY <1>11, CustomerEnds DEF C!Rollback
  <2>2. CustomerSide!Rollback(w)
    BY <1>2, <1>5, <1>11, <2>1 DEF C!Rollback, CustomerSide!Rollback
  <2>. QED  BY <2>2 DEF CustomerSide!Next
<1>12. CASE C!Resend(w)
  <2>1. UNCHANGED <<OwnRows(CustomerEvents), OwnWork(CustomerEvents)>>
    <3>1. CustomerEvents \in SUBSET Events
      BY SidecarAssumption
    <3>. QED  BY <1>12, <3>1, OwnRowsKept DEF C!Resend, OwnWork
  <2>2. CustomerSide!Resend(w)
    BY <1>2, <1>5, <1>12, <2>1 DEF C!Resend, CustomerSide!Resend
  <2>. QED  BY <2>2 DEF CustomerSide!Next
<1>. QED
  BY <1>6, <1>7, <1>8, <1>9, <1>10, <1>11, <1>12 DEF CustomerStep, HandleCustomer, AnswerCustomer,
     CustomerCallGoesWrong, OnCustomer

\* A poll takes up one of their events in their order, or none of theirs.
LEMMA OwnPoll ==
  ASSUME Inv, NEW own \in SUBSET Events, NEW w \in Workers, Poll(w)
  PROVE  /\ OwnRows(own)' = OwnRows(own)
         /\ OwnWork(own)[w] = Idle
         /\ \/ OwnWork(own)' = OwnWork(own)
            \/ \E e \in own :
                  /\ rows[e].status = "pending"
                  /\ \A v \in Workers : OwnWork(own)[v].event # e
                  /\ \A f \in own : /\ rows[f].status = "pending"
                                    /\ \A v \in Workers : OwnWork(own)[v].event # f
                                    /\ OwnRank(f, own) < OwnRank(e, own)
                                    => rows[f].attempts > 0
                  /\ OwnWork(own)' = With(OwnWork(own), w,
                                          [Idle EXCEPT !.pc = "claimed", !.event = e])
<1>1. PICK e \in Events :
        /\ Takes(w, e)
        /\ work[w] = Idle
        /\ work' = [work EXCEPT ![w] = [Idle EXCEPT !.pc = "claimed", !.event = e]]
        /\ \A f \in Events : Available(f) /\ rows[f].rank < rows[e].rank
                                => rows[f].attempts > 0
  BY PollForm
<1>2. PICK x : x = [Idle EXCEPT !.pc = "claimed", !.event = e]
  OBVIOUS
<1>3. x.event = e
  BY <1>2 DEF Idle
<1>4. OwnRows(own)' = OwnRows(own)
  BY OwnRowsKept DEF Poll
<1>5. OwnWork(own)[w] = Idle
  BY <1>1, OwnWorks
<1>6. CASE e \notin own
  <2>1. /\ work'[w] = x
        /\ \A v \in Workers : v # w => work'[v] = work[v]
    BY <1>1, <1>2 DEF Inv, SessionsWhole
  <2>2. \A v \in Workers : OwnWork(own)'[v] = OwnWork(own)[v]
    BY <1>3, <1>5, <1>6, <2>1, OwnWorks
  <2>3. OwnWork(own)' = OwnWork(own)
    BY <2>2, OwnWorks
  <2>. QED  BY <1>4, <1>5, <2>3
<1>7. CASE e \in own
  <2>1. OwnWork(own)' = With(OwnWork(own), w, x)
    BY <1>1, <1>2, <1>3, <1>7, OwnChange
  <2>2. Available(e)
    BY <1>1 DEF Takes
  <2>3. \A v \in Workers : OwnWork(own)[v].event # e
    BY <1>7, <2>2, OwnWorks, HandlerRunsAssumption DEF Available, Idle
  <2>4. ASSUME NEW f \in own, rows[f].status = "pending",
               \A v \in Workers : OwnWork(own)[v].event # f,
               OwnRank(f, own) < OwnRank(e, own)
        PROVE  rows[f].attempts > 0
    <3>1. Available(f)
      BY <2>4, OwnWorks DEF Available
    <3>2. rows[f].rank < rows[e].rank
      <4>1. OwnRank(f, own) \in Nat /\ OwnRank(e, own) \in Nat
        BY <1>7, OwnRow
      <4>2. rows[f].rank \in Nat /\ rows[e].rank \in Nat
        BY DEF Inv, Row
      <4>3. ~ rows[e].rank <= rows[f].rank
        BY <1>7, <2>4, <4>1, OwnRankOrder
      <4>. QED  BY <4>2, <4>3
    <3>. QED  BY <1>1, <3>1, <3>2
  <2>. QED  BY <1>2, <1>4, <1>5, <1>7, <2>1, <2>2, <2>3, <2>4 DEF Available
<1>. QED  BY <1>6, <1>7

Claimed(F, w, e) == [F EXCEPT ![w].pc = "claimed", ![w].event = e]

LEMMA SessionClaimed ==
  ASSUME NEW A, NEW F \in [Workers -> A], NEW w \in Workers, F[w] = Idle, NEW e
  PROVE  Claimed(F, w, e) = With(F, w, [Idle EXCEPT !.pc = "claimed", !.event = e])
<1>1. [F EXCEPT ![w].pc = "claimed", ![w].event = e] =
        [F EXCEPT ![w] = [F[w] EXCEPT !.pc = "claimed", !.event = e]]
  OBVIOUS
<1>. QED  BY <1>1 DEF Claimed, With

LEMMA CustomerPolls ==
  ASSUME Inv, NEW w \in Workers, Poll(w)
  PROVE  CustomerSide!Next \/ UNCHANGED CustomerSide!vars
<1>1. CustomerEvents \in SUBSET Events
  BY SidecarAssumption
<1>2. /\ OwnRows(CustomerEvents)' = OwnRows(CustomerEvents)
      /\ OwnWork(CustomerEvents)[w] = Idle
  BY <1>1, OwnPoll
<1>3. UNCHANGED <<hits.faults, hits.refusals, mapping, accounts, renames>>
  BY DEF Poll, customerVars
<1>4. CASE OwnWork(CustomerEvents)' = OwnWork(CustomerEvents)
  BY <1>2, <1>3, <1>4 DEF CustomerSide!vars
<1>5. ASSUME NEW e \in CustomerEvents,
             rows[e].status = "pending",
             \A v \in Workers : OwnWork(CustomerEvents)[v].event # e,
             \A f \in CustomerEvents :
                /\ rows[f].status = "pending"
                /\ \A v \in Workers : OwnWork(CustomerEvents)[v].event # f
                /\ OwnRank(f, CustomerEvents) < OwnRank(e, CustomerEvents)
                => rows[f].attempts > 0,
             OwnWork(CustomerEvents)' = With(OwnWork(CustomerEvents), w,
                                             [Idle EXCEPT !.pc = "claimed", !.event = e])
      PROVE  CustomerSide!Poll(w)
  <2>1. PICK A : OwnWork(CustomerEvents) \in [Workers -> A]
    BY <1>1, OwnWorks
  <2>2. OwnWork(CustomerEvents)' = Claimed(OwnWork(CustomerEvents), w, e)
    BY <1>2, <1>5, <2>1, SessionClaimed
  <2>3. OwnWork(CustomerEvents)[w].pc = "idle"
    BY <1>2 DEF Idle
  <2>4. \A f \in CustomerEvents :
           /\ OwnRows(CustomerEvents)[f].status = rows[f].status
           /\ OwnRows(CustomerEvents)[f].attempts = rows[f].attempts
           /\ OwnRows(CustomerEvents)[f].rank = OwnRank(f, CustomerEvents)
    BY <1>1, OwnRow
  <2>5. CustomerSide!Available(e)
    BY <1>5, <2>4 DEF CustomerSide!Available
  <2>6. \A f \in CustomerEvents :
           /\ CustomerSide!Available(f)
           /\ OwnRows(CustomerEvents)[f].rank < OwnRows(CustomerEvents)[e].rank
           => OwnRows(CustomerEvents)[f].attempts > 0
    BY <1>5, <2>4 DEF CustomerSide!Available
  <2>. QED
    BY <1>2, <1>3, <2>2, <2>3, <2>5, <2>6 DEF CustomerSide!Poll, CustomerSide!Claim, Claimed
<1>. QED  BY <1>1, <1>2, <1>4, <1>5, OwnPoll DEF CustomerSide!Next

LEMMA CustomerArrives ==
  ASSUME Inv, NEW e \in Events, Arrive(e)
  PROVE  CustomerSide!Next \/ UNCHANGED CustomerSide!vars
<1>1. UNCHANGED <<work, hits, mapping, accounts, renames>>
  BY DEF Arrive, customerVars
<1>2. UNCHANGED OwnWork(CustomerEvents) /\ UNCHANGED <<hits.faults, hits.refusals>>
  BY <1>1 DEF OwnWork
<1>3. CASE e \in CustomerEvents
  <2>1. OwnRows(CustomerEvents)' =
          [OwnRows(CustomerEvents) EXCEPT
              ![e].status = "pending",
              ![e].rank = Cardinality({f \in CustomerEvents :
                                         OwnRows(CustomerEvents)[f].rank # 0}) + 1]
    BY <1>3, OwnInsert, SidecarAssumption DEF Arrive
  <2>2. OwnRows(CustomerEvents)[e].status = "absent"
    BY <1>3, OwnRow, SidecarAssumption DEF Arrive, Insert
  <2>3. CustomerSide!Insert(e)
    <3>1. CustomerSide!NextRank = Cardinality({f \in CustomerEvents :
                                     OwnRows(CustomerEvents)[f].rank # 0}) + 1
      BY DEF CustomerSide!NextRank, CustomerSide!Cardinality, Cardinality
    <3>. QED  BY <2>1, <2>2, <3>1 DEF CustomerSide!Insert
  <2>4. CustomerSide!Arrive(e)
    BY <1>1, <1>2, <2>3 DEF CustomerSide!Arrive
  <2>. QED  BY <1>3, <2>4 DEF CustomerSide!Next
<1>4. CASE e \notin CustomerEvents
  <2>1. \A f \in CustomerEvents : rows'[f] = rows[f]
    BY <1>4, SidecarAssumption DEF Arrive, Insert, Inv
  <2>2. UNCHANGED OwnRows(CustomerEvents)
    BY <2>1, OwnRowsKept, SidecarAssumption
  <2>. QED  BY <1>1, <1>2, <2>2 DEF CustomerSide!vars
<1>. QED  BY <1>3, <1>4

LEMMA CustomerSideStep ==
  ASSUME Inv, [Next]_vars
  PROVE  [CustomerSide!Next]_(CustomerSide!vars)
<1>1. ASSUME UNCHANGED <<OwnRows(CustomerEvents), OwnWork(CustomerEvents), hits, customerVars>>
      PROVE  UNCHANGED CustomerSide!vars
  BY <1>1 DEF CustomerSide!vars, customerVars
<1>2. ASSUME UNCHANGED <<rows, work>>
      PROVE  UNCHANGED <<OwnRows(CustomerEvents), OwnWork(CustomerEvents)>>
  BY <1>2, OwnRowsKept, SidecarAssumption DEF OwnWork
<1>3. ASSUME NEW w \in Workers, SubscriptionStep(w)
      PROVE  UNCHANGED CustomerSide!vars
  <2>1. work[w].event \in Events \ CustomerEvents /\ UNCHANGED <<hits, customerVars>>
    BY <1>3 DEF SubscriptionStep, HandleSubscription, AnswerSubscription,
       SubscriptionCallGoesWrong, OnSubscription, SubscriptionEvents
  <2>2. LetsGo(w) \/ GoesOn(w)
    BY <1>3, SubscriptionForms
  <2>3. UNCHANGED <<OwnRows(CustomerEvents), OwnWork(CustomerEvents)>>
    BY <2>1, <2>2, OthersKeep, SidecarAssumption
  <2>. QED  BY <1>1, <2>1, <2>3
<1>4. CASE RenameArrives
  <2>1. PICK r \in renames : C!StrayEnds(r) /\ UNCHANGED hits
    BY <1>4 DEF RenameArrives
  <2>2. CustomerSide!Applied(r) = C!Applied(r)
    BY CustomerApplied DEF Inv, RequestsOwn
  <2>3. UNCHANGED <<OwnRows(CustomerEvents), OwnWork(CustomerEvents)>>
    BY <1>2, <2>1 DEF C!StrayEnds
  <2>4. CustomerSide!StrayEnds(r)
    BY <2>1, <2>2, <2>3 DEF C!StrayEnds, CustomerSide!StrayEnds
  <2>. QED  BY <2>4 DEF CustomerSide!Next
<1>5. CASE CreateArrives
  BY <1>1, <1>2, <1>5 DEF CreateArrives, S!StrayEnds
<1>6. CASE Tick
  BY <1>1, <1>2, <1>6 DEF Tick
<1>7. CASE UNCHANGED vars
  BY <1>1, <1>2, <1>7 DEF vars
<1>. QED
  BY <1>3, <1>4, <1>5, <1>6, <1>7, StepCases, CustomerArrives, CustomerPolls, CustomerSteps

LEMMA CustomerSideInit ==
  ASSUME Init
  PROVE  CustomerSide!Init
<1>1. /\ work = [w \in Workers |-> Idle]
      /\ rows = [e \in Events |-> [status |-> "absent", attempts |-> 0, rank |-> 0]]
      /\ mapping = [c \in Customers |-> 0] /\ renames = {} /\ accounts = << >>
      /\ hits = [faults |-> 0, refusals |-> 0]
  BY DEF Init, C!Init, C!InitRuns, C!Idle, C!Bad, Idle, Bad
<1>2. OwnWork(CustomerEvents) = [w \in Workers |-> Idle]
  BY <1>1 DEF OwnWork
<1>3. OwnRows(CustomerEvents) =
        [e \in CustomerEvents |-> [status |-> "absent", attempts |-> 0, rank |-> 0]]
  <2>1. \A e \in CustomerEvents : OwnRank(e, CustomerEvents) = 0
    BY InitInv, OwnRankZero, <1>1, SidecarAssumption
  <2>2. \A e \in CustomerEvents : rows[e] = [status |-> "absent", attempts |-> 0, rank |-> 0]
    BY <1>1, SidecarAssumption
  <2>3. \A e \in CustomerEvents : [rows[e] EXCEPT !.rank = OwnRank(e, CustomerEvents)]
                                   = [status |-> "absent", attempts |-> 0, rank |-> 0]
    BY <2>1, <2>2
  <2>. QED  BY <2>3 DEF OwnRows
<1>. QED
  BY <1>1, <1>2, <1>3 DEF CustomerSide!Init, CustomerSide!InitRuns, CustomerSide!Idle,
     CustomerSide!Bad, Idle, Bad

\* worker.py:76-85: next to the subscriptions' events, with whatever delays, the
\* customer events are handled as CustomerSync says, by itself.
THEOREM ImplementsCustomerSyncHolds == Spec => ImplementsCustomerSync
BY InvHolds, CustomerSideInit, CustomerSideStep, PTL DEF Spec, ImplementsCustomerSync,
   CustomerSide!Spec

-----------------------------------------------------------------------------
(* The subscription events' side.                                           *)

LEMMA SubscriptionOwn == SubscriptionEvents \in SUBSET Events
BY DEF SubscriptionEvents

\* The faults and refusals that hits does not count are of subscription events.
LEMMA OtherHits ==
  ASSUME Inv, UNCHANGED hits
  PROVE  /\ faults' = faults => UNCHANGED (faults - hits.faults)
         /\ refusals' = refusals => UNCHANGED (refusals - hits.refusals)
         /\ Fault => SubscriptionSide!Fault
         /\ Refusal => SubscriptionSide!Refusal
<1>1. /\ hits.faults \in Nat /\ hits.refusals \in Nat
      /\ hits.faults <= faults /\ hits.refusals <= refusals
      /\ faults \in Nat /\ refusals \in Nat
  BY HandlerRunsAssumption DEF Inv, HitsSound
<1>2. MaxFaults \in Nat /\ MaxRefusals \in Nat
  BY HandlerRunsAssumption
<1>. QED
  BY <1>1, <1>2 DEF Fault, Refusal, SubscriptionSide!Fault, SubscriptionSide!Refusal

LEMMA OnlyHits ==
  ASSUME Inv, Counted, faults' = faults \/ Fault, refusals' = refusals \/ Refusal
  PROVE  UNCHANGED <<faults - hits.faults, refusals - hits.refusals>>
<1>1. /\ hits.faults \in Nat /\ hits.refusals \in Nat
      /\ faults \in Nat /\ refusals \in Nat
      /\ faults' \in Nat /\ refusals' \in Nat
  BY HandlerRunsAssumption DEF Inv, HitsSound, Fault, Refusal
<1>2. /\ hits'.faults = hits.faults + (faults' - faults)
      /\ hits'.refusals = hits.refusals + (refusals' - refusals)
  BY DEF Counted
<1>. QED  BY <1>1, <1>2

\* A handler of a subscription event reads what it reads by itself.
LEMMA SubscriptionReads ==
  ASSUME NEW e \in SubscriptionEvents
  PROVE  /\ OnAllEvents(Subscription, CHOOSE s \in Subscriptions : TRUE)[e] = Subscription[e]
         /\ OnAllEvents(Terms, 0)[e] = Terms[e]
         /\ [f \in Events |-> "ok"][e] = "ok"
         /\ [f \in SubscriptionEvents |-> "ok"][e] = "ok"
BY SidecarAssumption DEF OnAllEvents, SubscriptionEvents

LEMMA SubscriptionSame ==
  ASSUME Inv, NEW w \in Workers, work[w].event \in SubscriptionEvents
  PROVE  /\ OwnWork(SubscriptionEvents)[w] = work[w]
         /\ SubscriptionSide!Subject(w) = S!Subject(w)
         /\ SubscriptionSide!Found(w) <=> S!Found(w)
         /\ SubscriptionSide!CustomerFound(w) <=> S!CustomerFound(w)
         /\ SubscriptionSide!RequestOf(w) = S!RequestOf(w)
         /\ SubscriptionSide!RetryStatus(w) = S!RetryStatus(w)
         /\ SubscriptionSide!NewLink(w) = S!NewLink(w)
         /\ SubscriptionSide!Taken(w) <=> S!Taken(w)
         /\ \A kinds : SubscriptionSide!Answered(w, kinds) <=> S!Answered(w, kinds)
         /\ \A shapes : SubscriptionSide!PayloadIs(w, shapes) <=> S!PayloadIs(w, shapes)
<1>1. OwnWork(SubscriptionEvents)[w] = work[w]
  BY OwnWorks DEF SubscriptionEvents
<1>2. OwnRows(SubscriptionEvents)[work[w].event].attempts = rows[work[w].event].attempts
  BY OwnRow DEF SubscriptionEvents
<1>3. SubscriptionSide!Subject(w) = S!Subject(w)
  BY <1>1, SubscriptionReads DEF SubscriptionSide!Subject, S!Subject
<1>4. /\ SubscriptionSide!NoLink = S!NoLink
      /\ SubscriptionSide!NewLink(w) = S!NewLink(w)
  BY <1>1, SubscriptionReads DEF SubscriptionSide!NoLink, S!NoLink,
     SubscriptionSide!NewLink, S!NewLink
<1>5. /\ SubscriptionSide!RequestOf(w) = S!RequestOf(w)
      /\ SubscriptionSide!RetryStatus(w) = S!RetryStatus(w)
  BY <1>1, <1>2 DEF SubscriptionSide!RequestOf, S!RequestOf,
     SubscriptionSide!RetryStatus, S!RetryStatus
<1>6. \A shapes : SubscriptionSide!PayloadIs(w, shapes) <=> S!PayloadIs(w, shapes)
  BY <1>1, SubscriptionReads DEF SubscriptionSide!PayloadIs, S!PayloadIs
<1>7. /\ SubscriptionSide!Found(w) <=> S!Found(w)
      /\ SubscriptionSide!CustomerFound(w) <=> S!CustomerFound(w)
      /\ SubscriptionSide!Taken(w) <=> S!Taken(w)
      /\ \A kinds : SubscriptionSide!Answered(w, kinds) <=> S!Answered(w, kinds)
  BY <1>1, <1>3, <1>4 DEF SubscriptionSide!Found, S!Found, SubscriptionSide!CustomerFound,
     S!CustomerFound, SubscriptionSide!Taken, S!Taken, SubscriptionSide!Answered, S!Answered
<1>. QED  BY <1>1, <1>3, <1>4, <1>5, <1>6, <1>7

LEMMA SubscriptionApplied ==
  ASSUME NEW r, r.event \in SubscriptionEvents
  PROVE  /\ SubscriptionSide!KeyOf(r) = S!KeyOf(r)
         /\ SubscriptionSide!Conflicts(r) <=> S!Conflicts(r)
         /\ SubscriptionSide!Applied(r) = S!Applied(r)
<1>1. SubscriptionSide!KeyOf(r) = S!KeyOf(r)
  BY SubscriptionReads DEF SubscriptionSide!KeyOf, S!KeyOf
<1>2. SubscriptionSide!Conflicts(r) <=> S!Conflicts(r)
  BY <1>1 DEF SubscriptionSide!Conflicts, S!Conflicts
<1>. QED
  BY <1>1, <1>2, SubscriptionReads DEF SubscriptionSide!Applied, S!Applied

LEMMA SubscriptionRules ==
  ASSUME Inv, UNCHANGED hits, NEW w \in Workers, work[w].event \in SubscriptionEvents,
         NEW status \in Verdicts, S!Rule(w, status)
  PROVE  SubscriptionSide!Rule(w, status)
<1>1. Ruled(w, status) /\ EndWork(w) /\ UNCHANGED <<faults, refusals>>
  BY DEF S!Rule, Ruled, S!EndWork, EndWork, S!Idle, Idle, S!Bad, Bad
<1>2. OwnRows(SubscriptionEvents)' = Judged(OwnRows(SubscriptionEvents), work[w].event, status)
  BY <1>1, SubscriptionOwn, OwnVerdict
<1>3. OwnWork(SubscriptionEvents)' = With(OwnWork(SubscriptionEvents), w, Idle)
  BY <1>1, SubscriptionOwn, OwnEnd
<1>4. OwnWork(SubscriptionEvents)[w] = work[w]
  BY SubscriptionSame
<1>5. UNCHANGED <<faults - hits.faults, refusals - hits.refusals>>
  BY <1>1, OtherHits
<1>. QED
  BY <1>2, <1>3, <1>4, <1>5 DEF SubscriptionSide!Rule, SubscriptionSide!EndWork,
     SubscriptionSide!Idle, SubscriptionSide!Bad, Idle, Bad, With, Judged

LEMMA SubscriptionAnswered ==
  ASSUME Inv, NEW w \in Workers, work[w].event \in SubscriptionEvents,
         NEW reply, S!Answer(w, reply)
  PROVE  SubscriptionSide!Answer(w, reply)
<1>1. Answer(w, reply) /\ rows' = rows
  BY DEF S!Answer, Answer
<1>2. OwnWork(SubscriptionEvents)' = Replied(OwnWork(SubscriptionEvents), w, reply)
  BY <1>1, SubscriptionOwn, OwnAnswer
<1>3. OwnRows(SubscriptionEvents)' = OwnRows(SubscriptionEvents)
  BY <1>1, SubscriptionOwn, OwnRowsKept
<1>. QED  BY <1>2, <1>3 DEF SubscriptionSide!Answer, Replied

LEMMA SubscriptionEnds ==
  ASSUME Inv, NEW w \in Workers, S!EndWork(w), rows' = rows
  PROVE  /\ SubscriptionSide!EndWork(w)
         /\ UNCHANGED OwnRows(SubscriptionEvents)
<1>1. EndWork(w)
  BY DEF S!EndWork, EndWork, S!Idle, Idle, S!Bad, Bad
<1>2. OwnWork(SubscriptionEvents)' = With(OwnWork(SubscriptionEvents), w, Idle)
  BY <1>1, SubscriptionOwn, OwnEnd
<1>3. OwnRows(SubscriptionEvents)' = OwnRows(SubscriptionEvents)
  BY SubscriptionOwn, OwnRowsKept
<1>. QED
  BY <1>2, <1>3 DEF SubscriptionSide!EndWork, SubscriptionSide!Idle, SubscriptionSide!Bad,
     Idle, Bad, With

LEMMA SubscriptionMoves ==
  ASSUME Inv, NEW w \in Workers, work[w].event \in SubscriptionEvents,
         NEW pc, Moves(w, pc), rows' = rows
  PROVE  /\ OwnWork(SubscriptionEvents)' = [OwnWork(SubscriptionEvents) EXCEPT ![w].pc = pc]
         /\ UNCHANGED OwnRows(SubscriptionEvents)
<1>1. OwnWork(SubscriptionEvents)' = Moved(OwnWork(SubscriptionEvents), w, pc)
  BY SubscriptionOwn, OwnMoves
<1>2. OwnRows(SubscriptionEvents)' = OwnRows(SubscriptionEvents)
  BY SubscriptionOwn, OwnRowsKept
<1>. QED  BY <1>1, <1>2 DEF Moved

\* The customers that are mapped, as the subscriptions' handlers see them.
MappedCustomers == {c \in Customers : mapping[c] # 0}

OneMoreMapped == \E c \in Customers : /\ c \notin MappedCustomers
                                      /\ MappedCustomers' = MappedCustomers \cup {c}

LEMMA SubscriptionHandles ==
  ASSUME Inv, UNCHANGED hits, UNCHANGED mapping,
         NEW w \in Workers, work[w].event \in SubscriptionEvents, S!Handle(w)
  PROVE  SubscriptionSide!Handle(w)
<1>1. /\ OwnWork(SubscriptionEvents)[w] = work[w]
      /\ SubscriptionSide!Subject(w) = S!Subject(w)
      /\ SubscriptionSide!Found(w) <=> S!Found(w)
      /\ SubscriptionSide!CustomerFound(w) <=> S!CustomerFound(w)
      /\ SubscriptionSide!RetryStatus(w) = S!RetryStatus(w)
      /\ SubscriptionSide!NewLink(w) = S!NewLink(w)
      /\ SubscriptionSide!Taken(w) <=> S!Taken(w)
      /\ \A kinds : SubscriptionSide!Answered(w, kinds) <=> S!Answered(w, kinds)
      /\ \A shapes : SubscriptionSide!PayloadIs(w, shapes) <=> S!PayloadIs(w, shapes)
  BY SubscriptionSame
<1>2. UNCHANGED MappedCustomers
  BY DEF MappedCustomers
<1>3. SubscriptionSide!Shapes = S!Shapes
  BY DEF SubscriptionSide!Shapes, S!Shapes
<1>4. SubscriptionSide!IsNoOp(w) <=> S!IsNoOp(w)
  BY <1>1 DEF SubscriptionSide!IsNoOp, S!IsNoOp
<1>5. SubscriptionSide!IsNew(w) <=> S!IsNew(w)
  BY <1>1, <1>4 DEF SubscriptionSide!IsNew, S!IsNew
<1>6. ASSUME NEW status \in Verdicts, S!Rule(w, status)
      PROVE  SubscriptionSide!Rule(w, status)
  BY <1>6, SubscriptionRules
<1>7. ASSUME NEW status \in Verdicts, S!Settle(w, status)
      PROVE  SubscriptionSide!Settle(w, status)
  BY <1>2, <1>6, <1>7 DEF S!Settle, SubscriptionSide!Settle, MappedCustomers
<1>8. S!RetryStatus(w) \in Verdicts
  BY DEF S!RetryStatus, Verdicts
<1>9. CASE S!Acknowledge(w)
  BY <1>1, <1>3, <1>4, <1>7, <1>9 DEF S!Acknowledge, SubscriptionSide!Acknowledge, Verdicts,
     SubscriptionSide!Handle
<1>10. CASE S!SkipAlreadyMapped(w)
  BY <1>1, <1>3, <1>4, <1>7, <1>10 DEF S!SkipAlreadyMapped,
     SubscriptionSide!SkipAlreadyMapped, Verdicts, SubscriptionSide!Handle
<1>11. CASE S!RejectPayload(w)
  BY <1>1, <1>5, <1>7, <1>11 DEF S!RejectPayload, SubscriptionSide!RejectPayload, Verdicts,
     SubscriptionSide!Handle
<1>12. CASE S!AwaitCustomer(w)
  BY <1>1, <1>5, <1>7, <1>8, <1>12 DEF S!AwaitCustomer, SubscriptionSide!AwaitCustomer,
     SubscriptionSide!Handle
<1>13. CASE S!CallMetronome(w)
  <2>1. Moves(w, "calling") /\ rows' = rows
    BY <1>13 DEF S!CallMetronome, Moves
  <2>2. /\ OwnWork(SubscriptionEvents)' =
             [OwnWork(SubscriptionEvents) EXCEPT ![w].pc = "calling"]
        /\ UNCHANGED OwnRows(SubscriptionEvents)
    BY <2>1, SubscriptionMoves
  <2>3. UNCHANGED <<faults - hits.faults, refusals - hits.refusals>>
    BY <1>13, OtherHits DEF S!CallMetronome
  <2>. QED
    BY <1>1, <1>2, <1>5, <1>13, <2>2, <2>3 DEF S!CallMetronome,
       SubscriptionSide!CallMetronome, MappedCustomers, SubscriptionSide!Handle
<1>14. CASE S!InsertLink(w)
  BY <1>1, <1>2, <1>6, <1>14 DEF S!InsertLink, SubscriptionSide!InsertLink, Verdicts,
     MappedCustomers, SubscriptionSide!Handle
<1>15. CASE S!InsertCollides(w)
  <2>1. SubscriptionSide!EndWork(w) /\ UNCHANGED OwnRows(SubscriptionEvents)
    BY <1>15, SubscriptionEnds DEF S!InsertCollides
  <2>2. UNCHANGED <<faults - hits.faults, refusals - hits.refusals>>
    BY <1>15, OtherHits DEF S!InsertCollides
  <2>. QED
    BY <1>1, <1>2, <1>15, <2>1, <2>2 DEF S!InsertCollides, SubscriptionSide!InsertCollides,
       MappedCustomers, SubscriptionSide!Handle
<1>16. CASE S!CallFailed(w)
  <2>1. SubscriptionSide!RuleOnFailure(w)
    BY <1>1, <1>6, <1>8, <1>16 DEF S!CallFailed, S!RuleOnFailure,
       SubscriptionSide!RuleOnFailure, Verdicts
  <2>. QED
    BY <1>2, <1>16, <2>1 DEF S!CallFailed, SubscriptionSide!CallFailed, MappedCustomers,
       SubscriptionSide!Handle
<1>. QED
  BY <1>9, <1>10, <1>11, <1>12, <1>13, <1>14, <1>15, <1>16 DEF S!Handle

LEMMA SubscriptionSteps ==
  ASSUME Inv, NEW w \in Workers, SubscriptionStep(w)
  PROVE  SubscriptionSide!Next
<1>1. /\ work[w].event \in SubscriptionEvents
      /\ UNCHANGED hits /\ UNCHANGED mapping
  BY DEF SubscriptionStep, HandleSubscription, AnswerSubscription,
     SubscriptionCallGoesWrong, OnSubscription, customerVars
<1>2. /\ OwnWork(SubscriptionEvents)[w] = work[w]
      /\ SubscriptionSide!Subject(w) = S!Subject(w)
      /\ SubscriptionSide!RequestOf(w) = S!RequestOf(w)
      /\ \A kinds : SubscriptionSide!Answered(w, kinds) <=> S!Answered(w, kinds)
  BY <1>1, SubscriptionSame
<1>3. ASSUME NEW reply, S!Answer(w, reply)
      PROVE  SubscriptionSide!Answer(w, reply)
  BY <1>1, <1>3, SubscriptionAnswered
<1>4. /\ SubscriptionSide!KeyOf(S!RequestOf(w)) = S!KeyOf(S!RequestOf(w))
      /\ SubscriptionSide!Conflicts(S!RequestOf(w)) <=> S!Conflicts(S!RequestOf(w))
      /\ SubscriptionSide!Applied(S!RequestOf(w)) = S!Applied(S!RequestOf(w))
  BY <1>1, SubscriptionApplied DEF S!RequestOf
<1>5. /\ faults' = faults => UNCHANGED (faults - hits.faults)
      /\ refusals' = refusals => UNCHANGED (refusals - hits.refusals)
      /\ S!Fault => SubscriptionSide!Fault
      /\ S!Refusal => SubscriptionSide!Refusal
  BY <1>1, OtherHits DEF S!Fault, Fault, S!Refusal, Refusal
<1>6. UNCHANGED {c \in Customers : mapping[c] # 0}
  BY <1>1
<1>7. \A kind : SubscriptionSide!Bad(kind) = S!Bad(kind)
  BY DEF SubscriptionSide!Bad, S!Bad
<1>8. CASE S!Handle(w)
  BY <1>1, <1>8, SubscriptionHandles DEF SubscriptionSide!Next
<1>9. CASE S!MetronomeCreates(w)
  <2>1. CASE S!Conflicts(S!RequestOf(w))
    <3>1. Moves(w, "listing") /\ rows' = rows
      BY <1>9, <2>1 DEF S!MetronomeCreates, Moves
    <3>2. /\ OwnWork(SubscriptionEvents)' =
               [OwnWork(SubscriptionEvents) EXCEPT ![w].pc = "listing"]
          /\ UNCHANGED OwnRows(SubscriptionEvents)
      BY <1>1, <3>1, SubscriptionMoves
    <3>3. SubscriptionSide!MetronomeCreates(w)
      BY <1>2, <1>4, <1>5, <1>6, <1>9, <2>1, <3>2 DEF S!MetronomeCreates,
         SubscriptionSide!MetronomeCreates
    <3>. QED  BY <3>3 DEF SubscriptionSide!Next
  <2>2. CASE ~ S!Conflicts(S!RequestOf(w))
    <3>1. SubscriptionSide!MetronomeCreates(w)
      BY <1>2, <1>3, <1>4, <1>5, <1>6, <1>9, <2>2 DEF S!MetronomeCreates,
         SubscriptionSide!MetronomeCreates
    <3>. QED  BY <3>1 DEF SubscriptionSide!Next
  <2>. QED  BY <2>1, <2>2
<1>10. CASE S!MetronomeLists(w)
  <2>1. SubscriptionSide!Listed(w) = S!Listed(w)
    BY <1>2, <1>4 DEF SubscriptionSide!Listed, S!Listed
  <2>2. SubscriptionSide!MetronomeLists(w)
    BY <1>2, <1>3, <1>5, <1>6, <1>7, <1>10, <2>1 DEF S!MetronomeLists,
       SubscriptionSide!MetronomeLists
  <2>. QED  BY <2>2 DEF SubscriptionSide!Next
<1>11. CASE S!ListMisses(w)
  <2>1. SubscriptionSide!ListMisses(w)
    BY <1>2, <1>3, <1>5, <1>6, <1>7, <1>11 DEF S!ListMisses, SubscriptionSide!ListMisses
  <2>. QED  BY <2>1 DEF SubscriptionSide!Next
<1>12. CASE S!MetronomeRefuses(w)
  <2>1. SubscriptionSide!MetronomeRefuses(w)
    BY <1>2, <1>3, <1>4, <1>5, <1>6, <1>7, <1>12 DEF S!MetronomeRefuses,
       SubscriptionSide!MetronomeRefuses
  <2>. QED  BY <2>1 DEF SubscriptionSide!Next
<1>13. CASE S!CallFails(w)
  <2>1. SubscriptionSide!CallFails(w)
    BY <1>2, <1>3, <1>5, <1>6, <1>7, <1>13 DEF S!CallFails, SubscriptionSide!CallFails
  <2>. QED  BY <2>1 DEF SubscriptionSide!Next
<1>14. CASE S!LoseReply(w)
  <2>1. SubscriptionSide!LoseReply(w)
    BY <1>2, <1>3, <1>5, <1>6, <1>7, <1>14 DEF S!LoseReply, SubscriptionSide!LoseReply
  <2>. QED  BY <2>1 DEF SubscriptionSide!Next
<1>15. CASE S!Rollback(w)
  <2>1. SubscriptionSide!EndWork(w) /\ UNCHANGED OwnRows(SubscriptionEvents)
    BY <1>15, SubscriptionEnds DEF S!Rollback
  <2>2. SubscriptionSide!Rollback(w)
    BY <1>2, <1>5, <1>6, <1>15, <2>1 DEF S!Rollback, SubscriptionSide!Rollback
  <2>. QED  BY <2>2 DEF SubscriptionSide!Next
<1>16. CASE S!Resend(w)
  <2>1. UNCHANGED <<OwnRows(SubscriptionEvents), OwnWork(SubscriptionEvents)>>
    BY <1>16, SubscriptionOwn, OwnRowsKept DEF S!Resend, OwnWork
  <2>2. SubscriptionSide!Resend(w)
    BY <1>2, <1>5, <1>6, <1>16, <2>1 DEF S!Resend, SubscriptionSide!Resend
  <2>. QED  BY <2>2 DEF SubscriptionSide!Next
<1>. QED
  BY <1>8, <1>9, <1>10, <1>11, <1>12, <1>13, <1>14, <1>15, <1>16 DEF SubscriptionStep,
     HandleSubscription, AnswerSubscription, SubscriptionCallGoesWrong, OnSubscription

LEMMA SubscriptionPolls ==
  ASSUME Inv, NEW w \in Workers, Poll(w)
  PROVE  SubscriptionSide!Next \/ UNCHANGED SubscriptionSide!vars
<1>1. /\ OwnRows(SubscriptionEvents)' = OwnRows(SubscriptionEvents)
      /\ OwnWork(SubscriptionEvents)[w] = Idle
  BY SubscriptionOwn, OwnPoll
<1>2. UNCHANGED <<faults - hits.faults, refusals - hits.refusals,
                  {c \in Customers : mapping[c] # 0}, links, contracts, creates>>
  BY DEF Poll, customerVars, subscriptionVars
<1>3. CASE OwnWork(SubscriptionEvents)' = OwnWork(SubscriptionEvents)
  BY <1>1, <1>2, <1>3 DEF SubscriptionSide!vars
<1>4. ASSUME NEW e \in SubscriptionEvents,
             rows[e].status = "pending",
             \A v \in Workers : OwnWork(SubscriptionEvents)[v].event # e,
             \A f \in SubscriptionEvents :
                /\ rows[f].status = "pending"
                /\ \A v \in Workers : OwnWork(SubscriptionEvents)[v].event # f
                /\ OwnRank(f, SubscriptionEvents) < OwnRank(e, SubscriptionEvents)
                => rows[f].attempts > 0,
             OwnWork(SubscriptionEvents)' = With(OwnWork(SubscriptionEvents), w,
                                                 [Idle EXCEPT !.pc = "claimed", !.event = e])
      PROVE  SubscriptionSide!Poll(w)
  <2>1. PICK A : OwnWork(SubscriptionEvents) \in [Workers -> A]
    BY SubscriptionOwn, OwnWorks
  <2>2. OwnWork(SubscriptionEvents)' = Claimed(OwnWork(SubscriptionEvents), w, e)
    BY <1>1, <1>4, <2>1, SessionClaimed
  <2>3. OwnWork(SubscriptionEvents)[w].pc = "idle"
    BY <1>1 DEF Idle
  <2>4. \A f \in SubscriptionEvents :
           /\ OwnRows(SubscriptionEvents)[f].status = rows[f].status
           /\ OwnRows(SubscriptionEvents)[f].attempts = rows[f].attempts
           /\ OwnRows(SubscriptionEvents)[f].rank = OwnRank(f, SubscriptionEvents)
    BY SubscriptionOwn, OwnRow
  <2>5. SubscriptionSide!Available(e)
    BY <1>4, <2>4 DEF SubscriptionSide!Available
  <2>6. \A f \in SubscriptionEvents :
           /\ SubscriptionSide!Available(f)
           /\ OwnRows(SubscriptionEvents)[f].rank < OwnRows(SubscriptionEvents)[e].rank
           => OwnRows(SubscriptionEvents)[f].attempts > 0
    BY <1>4, <2>4 DEF SubscriptionSide!Available
  <2>. QED
    BY <1>1, <1>2, <2>2, <2>3, <2>5, <2>6 DEF SubscriptionSide!Poll, SubscriptionSide!Claim,
       Claimed
<1>. QED  BY <1>1, <1>3, <1>4, SubscriptionOwn, OwnPoll DEF SubscriptionSide!Next

LEMMA SubscriptionArrives ==
  ASSUME Inv, NEW e \in Events, Arrive(e)
  PROVE  SubscriptionSide!Next \/ UNCHANGED SubscriptionSide!vars
<1>1. UNCHANGED <<faults - hits.faults, refusals - hits.refusals,
                  {c \in Customers : mapping[c] # 0}, links, contracts, creates>>
  BY DEF Arrive, customerVars, subscriptionVars
<1>2. UNCHANGED OwnWork(SubscriptionEvents)
  BY DEF Arrive, OwnWork
<1>3. CASE e \in SubscriptionEvents
  <2>1. OwnRows(SubscriptionEvents)' =
          [OwnRows(SubscriptionEvents) EXCEPT
              ![e].status = "pending",
              ![e].rank = Cardinality({f \in SubscriptionEvents :
                                         OwnRows(SubscriptionEvents)[f].rank # 0}) + 1]
    BY <1>3, SubscriptionOwn, OwnInsert DEF Arrive
  <2>2. OwnRows(SubscriptionEvents)[e].status = "absent"
    BY <1>3, SubscriptionOwn, OwnRow DEF Arrive, Insert
  <2>3. SubscriptionSide!Insert(e)
    <3>1. SubscriptionSide!NextRank =
            Cardinality({f \in SubscriptionEvents :
                           OwnRows(SubscriptionEvents)[f].rank # 0}) + 1
      BY DEF SubscriptionSide!NextRank, SubscriptionSide!Cardinality, Cardinality
    <3>. QED  BY <2>1, <2>2, <3>1 DEF SubscriptionSide!Insert
  <2>4. SubscriptionSide!Arrive(e)
    BY <1>1, <1>2, <2>3 DEF SubscriptionSide!Arrive
  <2>. QED  BY <1>3, <2>4 DEF SubscriptionSide!Next
<1>4. CASE e \notin SubscriptionEvents
  <2>1. \A f \in SubscriptionEvents : rows'[f] = rows[f]
    BY <1>4, SubscriptionOwn DEF Arrive, Insert, Inv
  <2>2. UNCHANGED OwnRows(SubscriptionEvents)
    BY <2>1, SubscriptionOwn, OwnRowsKept
  <2>. QED  BY <1>1, <1>2, <2>2 DEF SubscriptionSide!vars
<1>. QED  BY <1>3, <1>4

\* Of a step on a customer event, a subscription's handler sees at most that a
\* mapping appears.
LEMMA CustomerMaps ==
  ASSUME Inv, NEW w \in Workers, CustomerStep(w)
  PROVE  SubscriptionSide!Next \/ UNCHANGED SubscriptionSide!vars
<1>1. /\ work[w].event \in CustomerEvents /\ Counted /\ UNCHANGED subscriptionVars
  BY DEF CustomerStep, HandleCustomer, AnswerCustomer, CustomerCallGoesWrong, OnCustomer, Counted
<1>2. /\ LetsGo(w) \/ GoesOn(w)
      /\ faults' = faults \/ Fault
      /\ refusals' = refusals \/ Refusal
  BY CustomerForms
<1>3. UNCHANGED <<OwnRows(SubscriptionEvents), OwnWork(SubscriptionEvents)>>
  <2>1. work[w].event \in Events \ SubscriptionEvents
    BY <1>1, SidecarAssumption DEF SubscriptionEvents
  <2>. QED  BY <1>2, <2>1, SubscriptionOwn, OthersKeep
<1>4. UNCHANGED <<faults - hits.faults, refusals - hits.refusals>>
  BY <1>1, <1>2, OnlyHits
<1>5. UNCHANGED <<links, contracts, creates>>
  BY <1>1 DEF subscriptionVars
<1>6. mapping' = mapping \/ \E c \in Customers : \E i :
           mapping[c] = 0 /\ mapping' = [mapping EXCEPT ![c] = i]
  <2>1. CASE C!InsertMapping(w)
    <3>1. C!Subject(w) \in Customers
      BY <1>1, SidecarAssumption DEF C!Subject, About
    <3>. QED  BY <2>1, <3>1 DEF C!InsertMapping, C!Found
  <2>2. CASE ~ C!InsertMapping(w)
    BY <2>2 DEF CustomerStep, HandleCustomer, AnswerCustomer, CustomerCallGoesWrong,
       OnCustomer, C!Handle, C!SkipAlreadyMapped, C!FailUnmappable, C!CallMetronome,
       C!InsertCollides, C!TouchMapping, C!CallFailed, C!MetronomeAnswers,
       C!MetronomeRefuses, C!Resend, C!CallFails, C!LoseReply, C!Rollback
  <2>. QED  BY <2>1, <2>2
<1>7. UNCHANGED MappedCustomers \/ OneMoreMapped
  <2>1. CASE mapping' = mapping
    BY <2>1 DEF MappedCustomers
  <2>2. ASSUME NEW c \in Customers, NEW i, mapping[c] = 0, mapping' = [mapping EXCEPT ![c] = i]
        PROVE  UNCHANGED MappedCustomers \/ OneMoreMapped
    <3>1. \A b \in Customers : mapping'[b] = IF b = c THEN i ELSE mapping[b]
      BY <2>2 DEF Inv
    <3>2. CASE i = 0
      <4>1. {b \in Customers : mapping'[b] # 0} = {b \in Customers : mapping[b] # 0}
        BY <2>2, <3>1, <3>2
      <4>. QED  BY <4>1 DEF MappedCustomers
    <3>3. CASE i # 0
      <4>1. {b \in Customers : mapping'[b] # 0} = {b \in Customers : mapping[b] # 0} \cup {c}
        BY <2>2, <3>1, <3>3
      <4>. QED  BY <2>2, <4>1 DEF MappedCustomers, OneMoreMapped
    <3>. QED  BY <3>2, <3>3
  <2>. QED  BY <1>6, <2>1, <2>2
<1>. QED
  BY <1>3, <1>4, <1>5, <1>7 DEF SubscriptionSide!vars, SubscriptionSide!Next,
     SubscriptionSide!MapCustomer, MappedCustomers, OneMoreMapped

LEMMA SubscriptionSideStep ==
  ASSUME Inv, [Next]_vars
  PROVE  [SubscriptionSide!Next]_(SubscriptionSide!vars)
<1>1. ASSUME UNCHANGED <<rows, work, faults, refusals, hits, mapping, subscriptionVars>>
      PROVE  UNCHANGED SubscriptionSide!vars
  <2>1. UNCHANGED <<OwnRows(SubscriptionEvents), OwnWork(SubscriptionEvents)>>
    BY <1>1, SubscriptionOwn, OwnRowsKept DEF OwnWork
  <2>. QED  BY <1>1, <2>1 DEF SubscriptionSide!vars, subscriptionVars
<1>2. CASE RenameArrives
  BY <1>1, <1>2 DEF RenameArrives, C!StrayEnds
<1>3. CASE CreateArrives
  <2>1. PICK r \in creates : S!StrayEnds(r) /\ UNCHANGED <<hits, customerVars>>
    BY <1>3 DEF CreateArrives
  <2>2. SubscriptionSide!Applied(r) = S!Applied(r)
    BY SubscriptionApplied DEF Inv, RequestsOwn
  <2>3. UNCHANGED <<OwnRows(SubscriptionEvents), OwnWork(SubscriptionEvents),
                    faults - hits.faults, refusals - hits.refusals,
                    {c \in Customers : mapping[c] # 0}>>
    BY <2>1, SubscriptionOwn, OwnRowsKept DEF S!StrayEnds, customerVars, OwnWork
  <2>4. SubscriptionSide!StrayEnds(r)
    BY <2>1, <2>2, <2>3 DEF S!StrayEnds, SubscriptionSide!StrayEnds
  <2>. QED  BY <2>4 DEF SubscriptionSide!Next
<1>4. CASE Tick
  BY <1>1, <1>4 DEF Tick, customerVars
<1>5. CASE UNCHANGED vars
  BY <1>1, <1>5 DEF vars, customerVars
<1>. QED
  BY <1>2, <1>3, <1>4, <1>5, StepCases, SubscriptionArrives, SubscriptionPolls,
     SubscriptionSteps, CustomerMaps DEF SubscriptionSide!Next

LEMMA SubscriptionSideInit ==
  ASSUME Init
  PROVE  SubscriptionSide!Init
<1>1. /\ work = [w \in Workers |-> Idle]
      /\ rows = [e \in Events |-> [status |-> "absent", attempts |-> 0, rank |-> 0]]
      /\ mapping = [c \in Customers |-> 0] /\ creates = {} /\ contracts = << >>
      /\ links = [s \in Subscriptions |-> SubscriptionSide!NoLink]
      /\ faults = 0 /\ refusals = 0
      /\ hits = [faults |-> 0, refusals |-> 0]
  BY DEF Init, C!Init, C!InitRuns, C!Idle, C!Bad, Idle, Bad, S!NoLink, SubscriptionSide!NoLink
<1>2. OwnWork(SubscriptionEvents) = [w \in Workers |-> Idle]
  BY <1>1 DEF OwnWork
<1>3. OwnRows(SubscriptionEvents) =
        [e \in SubscriptionEvents |-> [status |-> "absent", attempts |-> 0, rank |-> 0]]
  <2>1. \A e \in SubscriptionEvents : OwnRank(e, SubscriptionEvents) = 0
    BY InitInv, OwnRankZero, <1>1, SubscriptionOwn
  <2>2. \A e \in SubscriptionEvents :
           rows[e] = [status |-> "absent", attempts |-> 0, rank |-> 0]
    BY <1>1, SubscriptionOwn
  <2>3. \A e \in SubscriptionEvents :
           [rows[e] EXCEPT !.rank = OwnRank(e, SubscriptionEvents)]
             = [status |-> "absent", attempts |-> 0, rank |-> 0]
    BY <2>1, <2>2
  <2>. QED  BY <2>3 DEF OwnRows
<1>4. {c \in Customers : mapping[c] # 0} = {} /\ faults - hits.faults = 0
      /\ refusals - hits.refusals = 0
  BY <1>1
<1>. QED
  BY <1>1, <1>2, <1>3, <1>4 DEF SubscriptionSide!Init, SubscriptionSide!InitRuns,
     SubscriptionSide!Idle, SubscriptionSide!Bad, Idle, Bad

\* subscription.py:14-21: all a subscription's handler sees of the customers'
\* events is that a mapping appears some time and stays.
THEOREM ImplementsSubscriptionSyncHolds == Spec => ImplementsSubscriptionSync
BY InvHolds, SubscriptionSideInit, SubscriptionSideStep, PTL DEF Spec,
   ImplementsSubscriptionSync, SubscriptionSide!Spec

-----------------------------------------------------------------------------
(* What is proved of either side by itself.                                 *)

CP ==
    INSTANCE CustomerNamesProofs WITH
        Events   <- CustomerEvents,
        Mappable <- CustomerEvents,
        AliasUnique <- FALSE,
        InOrder  <- FALSE,
        stray    <- renames,
        rows     <- OwnRows(CustomerEvents),
        work     <- OwnWork(CustomerEvents),
        faults   <- hits.faults,
        refusals <- hits.refusals

SP ==
    INSTANCE SubscriptionSyncProofs WITH
        Events    <- SubscriptionEvents,
        Shape     <- [e \in SubscriptionEvents |-> "ok"],
        Mapped    <- {},
        customers <- MappedCustomers,
        stray     <- creates,
        rows      <- OwnRows(SubscriptionEvents),
        work      <- OwnWork(SubscriptionEvents),
        faults    <- faults - hits.faults,
        refusals  <- refusals - hits.refusals

\* The assumptions of the customers' modules, for the customer events.
LEMMA CustomerSideAssumptions ==
    /\ CP!IsFiniteSet(CustomerEvents) /\ None \notin CustomerEvents
    /\ MaxAttempts \in Nat \ {0} /\ MaxFaults \in Nat /\ MaxRefusals \in Nat
    /\ None \notin Customers
    /\ Customer \in [CustomerEvents -> Customers]
    /\ Version \in [CustomerEvents -> Nat]
    /\ Created \subseteq CustomerEvents
    /\ CustomerEvents \subseteq CustomerEvents
    /\ FALSE \in BOOLEAN
<1>1. IsFiniteSet(CustomerEvents)
  BY FS_Subset, HandlerRunsAssumption, SidecarAssumption
<1>2. CP!IsFiniteSet(CustomerEvents)
  BY <1>1 DEF CP!IsFiniteSet, IsFiniteSet
<1>. QED  BY <1>2, HandlerRunsAssumption, SidecarAssumption

\* And of the subscriptions'.
LEMMA SubscriptionSideAssumptions ==
    /\ SP!IsFiniteSet(SubscriptionEvents) /\ None \notin SubscriptionEvents
    /\ MaxAttempts \in Nat \ {0} /\ MaxFaults \in Nat /\ MaxRefusals \in Nat
    /\ SP!IsFiniteSet(Customers)
    /\ None \notin Subscriptions
    /\ Subscription \in [SubscriptionEvents -> Subscriptions]
    /\ CustomerOf \in [Subscriptions -> Customers]
    /\ NoOps \subseteq SubscriptionEvents
    /\ Terms \in [SubscriptionEvents -> Nat]
    /\ [e \in SubscriptionEvents |-> "ok"] \in [SubscriptionEvents -> SP!Shapes]
    /\ {} \subseteq Customers
<1>1. IsFiniteSet(SubscriptionEvents)
  BY FS_Subset, HandlerRunsAssumption, SubscriptionOwn
<1>2. SP!IsFiniteSet(SubscriptionEvents) /\ SP!IsFiniteSet(Customers)
  BY <1>1, SidecarAssumption DEF SP!IsFiniteSet, IsFiniteSet
<1>3. [e \in SubscriptionEvents |-> "ok"] \in [SubscriptionEvents -> SP!Shapes]
  BY DEF SP!Shapes
<1>. QED  BY <1>2, <1>3, HandlerRunsAssumption, SidecarAssumption, SubscriptionOwn

LEMMA CustomerSideSpec == CustomerSide!Spec => CP!Spec
<1>1. CustomerSide!Init => CP!Init
  BY DEF CustomerSide!Init, CP!Init, CustomerSide!InitRuns, CP!InitRuns,
     CustomerSide!Idle, CP!Idle, CustomerSide!Bad, CP!Bad
<1>2. CustomerSide!Next => CP!Next
  BY DEF CustomerSide!Next, CP!Next, CustomerSide!Arrive, CP!Arrive,
     CustomerSide!Insert, CP!Insert, CustomerSide!NextRank, CP!NextRank,
     CustomerSide!Cardinality, CP!Cardinality, CustomerSide!Poll, CP!Poll,
     CustomerSide!Claim, CP!Claim, CustomerSide!Available, CP!Available,
     CustomerSide!Handle, CP!Handle, CustomerSide!SkipAlreadyMapped,
     CP!SkipAlreadyMapped, CustomerSide!FailUnmappable, CP!FailUnmappable,
     CustomerSide!CallMetronome, CP!CallMetronome, CustomerSide!InsertMapping,
     CP!InsertMapping, CustomerSide!InsertCollides, CP!InsertCollides,
     CustomerSide!TouchMapping, CP!TouchMapping, CustomerSide!CallFailed,
     CP!CallFailed, CustomerSide!Rule, CP!Rule, CustomerSide!EndWork,
     CP!EndWork, CustomerSide!Idle, CP!Idle, CustomerSide!Bad, CP!Bad,
     CustomerSide!Found, CP!Found, CustomerSide!Subject, CP!Subject,
     CustomerSide!NeedsCall, CP!NeedsCall, CustomerSide!RuleOnFailure,
     CP!RuleOnFailure, CustomerSide!RetryStatus, CP!RetryStatus,
     CustomerSide!Answered, CP!Answered, CustomerSide!Answer, CP!Answer,
     CustomerSide!RequestOf, CP!RequestOf, CustomerSide!Conflicts, CP!Conflicts,
     CustomerSide!Applied, CP!Applied, CustomerSide!MetronomeAnswers,
     CP!MetronomeAnswers, CustomerSide!MetronomeRefuses, CP!MetronomeRefuses,
     CustomerSide!CallFails, CP!CallFails, CustomerSide!LoseReply, CP!LoseReply,
     CustomerSide!Rollback, CP!Rollback, CustomerSide!Resend, CP!Resend,
     CustomerSide!StrayEnds, CP!StrayEnds,
     CustomerSide!Fault, CP!Fault, CustomerSide!Refusal, CP!Refusal
<1>3. [CustomerSide!Next]_(CustomerSide!vars) => [CP!Next]_(CP!vars)
  BY <1>2 DEF CustomerSide!vars, CP!vars
<1>. QED  BY <1>1, <1>3, PTL DEF CustomerSide!Spec, CP!Spec

LEMMA SubscriptionSideSpec == SubscriptionSide!Spec => SP!Spec
<1>1. SubscriptionSide!Init => SP!Init
  BY DEF SubscriptionSide!Init, SP!Init, SubscriptionSide!InitRuns, SP!InitRuns,
     SubscriptionSide!Idle, SP!Idle, SubscriptionSide!Bad, SP!Bad,
     SubscriptionSide!NoLink, SP!NoLink, MappedCustomers
<1>2. SubscriptionSide!Next => SP!Next
  BY DEF SubscriptionSide!Next, SP!Next, SubscriptionSide!Arrive, SP!Arrive,
     SubscriptionSide!Insert, SP!Insert, SubscriptionSide!NextRank, SP!NextRank,
     SubscriptionSide!Cardinality, SP!Cardinality, SubscriptionSide!Poll,
     SP!Poll, SubscriptionSide!Claim, SP!Claim, SubscriptionSide!Available,
     SP!Available, SubscriptionSide!MapCustomer, SP!MapCustomer,
     SubscriptionSide!Handle, SP!Handle, SubscriptionSide!Acknowledge,
     SP!Acknowledge, SubscriptionSide!SkipAlreadyMapped, SP!SkipAlreadyMapped,
     SubscriptionSide!RejectPayload, SP!RejectPayload,
     SubscriptionSide!AwaitCustomer, SP!AwaitCustomer,
     SubscriptionSide!CallMetronome, SP!CallMetronome,
     SubscriptionSide!InsertLink, SP!InsertLink,
     SubscriptionSide!InsertCollides, SP!InsertCollides,
     SubscriptionSide!CallFailed, SP!CallFailed, SubscriptionSide!PayloadIs,
     SP!PayloadIs, SubscriptionSide!Shapes, SP!Shapes, SubscriptionSide!IsNoOp,
     SP!IsNoOp, SubscriptionSide!IsNew, SP!IsNew,
     SubscriptionSide!CustomerFound, SP!CustomerFound, SubscriptionSide!Settle,
     SP!Settle, SubscriptionSide!NoLink, SP!NoLink, SubscriptionSide!NewLink,
     SP!NewLink, SubscriptionSide!Taken, SP!Taken, SubscriptionSide!Rule,
     SP!Rule, SubscriptionSide!EndWork, SP!EndWork, SubscriptionSide!Idle,
     SP!Idle, SubscriptionSide!Bad, SP!Bad, SubscriptionSide!Found, SP!Found,
     SubscriptionSide!Subject, SP!Subject, SubscriptionSide!RuleOnFailure,
     SP!RuleOnFailure, SubscriptionSide!RetryStatus, SP!RetryStatus,
     SubscriptionSide!Answered, SP!Answered, SubscriptionSide!Answer, SP!Answer,
     SubscriptionSide!RequestOf, SP!RequestOf, SubscriptionSide!KeyOf, SP!KeyOf,
     SubscriptionSide!Conflicts, SP!Conflicts, SubscriptionSide!Applied,
     SP!Applied, SubscriptionSide!Listed, SP!Listed,
     SubscriptionSide!MetronomeCreates, SP!MetronomeCreates,
     SubscriptionSide!MetronomeLists, SP!MetronomeLists,
     SubscriptionSide!ListMisses, SP!ListMisses,
     SubscriptionSide!MetronomeRefuses, SP!MetronomeRefuses,
     SubscriptionSide!CallFails, SP!CallFails, SubscriptionSide!LoseReply,
     SP!LoseReply, SubscriptionSide!Rollback, SP!Rollback,
     SubscriptionSide!Resend, SP!Resend, SubscriptionSide!StrayEnds, SP!StrayEnds,
     SubscriptionSide!Fault, SP!Fault,
     SubscriptionSide!Refusal, SP!Refusal, MappedCustomers
<1>3. [SubscriptionSide!Next]_(SubscriptionSide!vars) => [SP!Next]_(SP!vars)
  BY <1>2 DEF SubscriptionSide!vars, SP!vars, MappedCustomers
<1>. QED  BY <1>1, <1>3, PTL DEF SubscriptionSide!Spec, SP!Spec

\* customer.py:12-14: in the sidecar too the name of a customer whose events
\* come in order ends as the latest payload has it, unless a fault or a refusal
\* hits one of its kind of events.
THEOREM NameMatchesLatestHolds == Spec => []NameMatchesLatest
<1>1. CP!Spec => []CP!LatestNameInOrder
  BY CustomerSideAssumptions, CP!LatestNameHolds
<1>2. CP!LatestNameInOrder => NameMatchesLatest
  BY DEF NameMatchesLatest, CustomerSide!LatestNameInOrder, CP!LatestNameInOrder,
     CustomerSide!Orderly, CP!Orderly, CustomerSide!Smooth, CP!Smooth,
     CustomerSide!Quiet, CP!Quiet, CustomerSide!CameInOrder, CP!CameInOrder,
     CustomerSide!Latest, CP!Latest
<1>. QED
  BY <1>1, <1>2, ImplementsCustomerSyncHolds, CustomerSideSpec, PTL DEF ImplementsCustomerSync

-----------------------------------------------------------------------------
(* The promise of the whole: the two sides' promises, which never move at    *)
(* once, and the customer's link before the subscription's.                  *)

AllSubjects == Customers \cup Subscriptions

Tagged(kind, ids) == {<<kind, i>> : i \in ids}

AccountsOf == [c \in Customers |-> {i \in DOMAIN accounts : accounts[i].alias = c}]

ContractsOf == [s \in Subscriptions |->
                  {i \in DOMAIN contracts : Subscription[contracts[i].event] = s}]

DoneAmong(own) == {e \in own : rows[e].status = "processed"}

DoneSeen(own) == {e \in own : OwnRows(own)[e].status = "processed"}

\* The variables of Provisioning as the sidecar has them.
MadeFor == [s \in AllSubjects |->
              IF s \in Customers
              THEN {<<"account", i>> : i \in {j \in DOMAIN accounts : accounts[j].alias = s}}
              ELSE {<<"contract", i>> :
                      i \in {j \in DOMAIN contracts : Subscription[contracts[j].event] = s}}]

LinkedTo == [s \in AllSubjects |->
               IF s \in Customers
               THEN IF mapping[s] = 0 THEN <<"none", 0>> ELSE <<"account", mapping[s]>>
               ELSE IF links[s] = S!NoLink THEN <<"none", 0>>
                    ELSE <<"contract", links[s].contract>>]

DoneEvents == {e \in Events : rows[e].status = "processed"}

LEMMA LinkedKept ==
  ASSUME \A t \in AllSubjects : LinkedTo'[t] = LinkedTo[t]
  PROVE  LinkedTo' = LinkedTo
<1>1. /\ LinkedTo = [t \in AllSubjects |-> LinkedTo[t]]
      /\ LinkedTo' = [t \in AllSubjects |-> LinkedTo'[t]]
  BY DEF LinkedTo
<1>. QED  BY <1>1

\* Ids are not 0, and a linked subscription's customer is mapped.
Linkable ==
    /\ 0 \notin DOMAIN accounts
    /\ 0 \notin DOMAIN contracts
    /\ mapping \in [Customers -> Nat]
    /\ links \in [Subscriptions -> S!Link]
    /\ \A s \in Subscriptions : links[s] # S!NoLink =>
          mapping[CustomerOf[s]] # 0 /\ links[s].contract # 0

LEMMA LinkableHolds == Spec => []Linkable
<1>1. CP!Spec => []CP!TypeOK
  BY CustomerSideAssumptions, CP!TypeCorrect
<1>2. SP!Spec => []SP!TypeOK
  BY SubscriptionSideAssumptions, SP!TypeCorrect
<1>3. SP!Spec => []SP!LinkConfirmed
  BY SubscriptionSideAssumptions, SP!LinkConfirmedHolds
<1>4. CP!TypeOK /\ SP!TypeOK /\ SP!LinkConfirmed => Linkable
  <2>1. SUFFICES ASSUME CP!TypeOK, SP!TypeOK, SP!LinkConfirmed
                 PROVE  Linkable
    OBVIOUS
  <2>2. accounts \in Seq(CP!Account) /\ mapping \in [Customers -> Nat]
    BY <2>1 DEF CP!TypeOK
  <2>3. contracts \in Seq(SP!Contract) /\ links \in [Subscriptions -> S!Link]
    BY <2>1 DEF SP!TypeOK, SP!Link, S!Link
  <2>4. 0 \notin DOMAIN accounts /\ 0 \notin DOMAIN contracts
    BY <2>2, <2>3
  <2>5. SP!NoLink = S!NoLink
    BY DEF SP!NoLink, S!NoLink
  <2>6. \A s \in Subscriptions : links[s] # S!NoLink =>
           mapping[CustomerOf[s]] # 0 /\ links[s].contract # 0
    BY <2>1, <2>4, <2>5 DEF SP!LinkConfirmed, MappedCustomers
  <2>. QED  BY <2>2, <2>3, <2>4, <2>6 DEF Linkable
<1>. QED
  BY <1>1, <1>2, <1>3, <1>4, ImplementsCustomerSyncHolds, ImplementsSubscriptionSyncHolds,
     CustomerSideSpec, SubscriptionSideSpec, PTL DEF ImplementsCustomerSync,
     ImplementsSubscriptionSync

\* The sidecar's variables of Provisioning are the two sides' put together.
LEMMA MadeTogether ==
  /\ \A s \in Customers : MadeFor[s] = Tagged("account", AccountsOf[s])
  /\ \A s \in Subscriptions : MadeFor[s] = Tagged("contract", ContractsOf[s])
  /\ \A s \in Customers : MadeFor'[s] = Tagged("account", AccountsOf'[s])
  /\ \A s \in Subscriptions : MadeFor'[s] = Tagged("contract", ContractsOf'[s])
BY SidecarAssumption DEF MadeFor, Tagged, AccountsOf, ContractsOf, AllSubjects

LEMMA MadeKept ==
  ASSUME AccountsOf' = AccountsOf, ContractsOf' = ContractsOf
  PROVE  MadeFor' = MadeFor
<1>1. \A t \in AllSubjects : MadeFor'[t] = MadeFor[t]
  BY MadeTogether DEF AllSubjects
<1>2. /\ MadeFor = [t \in AllSubjects |-> MadeFor[t]]
      /\ MadeFor' = [t \in AllSubjects |-> MadeFor'[t]]
  BY DEF MadeFor
<1>. QED  BY <1>1, <1>2

DoneAgrees == /\ DoneSeen(CustomerEvents) = DoneAmong(CustomerEvents)
              /\ DoneSeen(SubscriptionEvents) = DoneAmong(SubscriptionEvents)

LEMMA DoneTogether == Inv => DoneAgrees
BY OwnRow, SubscriptionOwn, SidecarAssumption DEF DoneAgrees, DoneSeen, DoneAmong

LEMMA DoneTogetherNext == Inv' => DoneAgrees'
BY DoneTogether, PTL

CustomerSideStill == UNCHANGED <<accounts, mapping, DoneAmong(CustomerEvents)>>

SubscriptionSideStill == UNCHANGED <<contracts, links, DoneAmong(SubscriptionEvents)>>

\* No step moves both sides.
LEMMA OneSideMoves ==
  ASSUME Inv, [Next]_vars
  PROVE  CustomerSideStill \/ SubscriptionSideStill
<1>1. ASSUME NEW e \in Events, Arrive(e)
      PROVE  CustomerSideStill
  <2>1. \A f \in CustomerEvents :
           rows'[f].status = "processed" <=> rows[f].status = "processed"
    BY <1>1, SidecarAssumption DEF Arrive, Insert, Inv, Row
  <2>. QED  BY <1>1, <2>1 DEF CustomerSideStill, DoneAmong, Arrive, customerVars
<1>2. ASSUME NEW w \in Workers, CustomerStep(w)
      PROVE  SubscriptionSideStill
  <2>1. work[w].event \in CustomerEvents /\ UNCHANGED subscriptionVars
    BY <1>2 DEF CustomerStep, HandleCustomer, AnswerCustomer, CustomerCallGoesWrong, OnCustomer
  <2>2. LetsGo(w) \/ GoesOn(w)
    BY <1>2, CustomerForms
  <2>3. \A f \in SubscriptionEvents : rows'[f] = rows[f]
    BY <2>1, <2>2 DEF LetsGo, GoesOn, Ruled, Inv, SubscriptionEvents
  <2>. QED  BY <2>1, <2>3 DEF SubscriptionSideStill, DoneAmong, subscriptionVars
<1>3. ASSUME NEW w \in Workers, SubscriptionStep(w)
      PROVE  CustomerSideStill
  <2>1. work[w].event \notin CustomerEvents /\ UNCHANGED customerVars
    BY <1>3 DEF SubscriptionStep, HandleSubscription, AnswerSubscription,
       SubscriptionCallGoesWrong, OnSubscription, SubscriptionEvents
  <2>2. LetsGo(w) \/ GoesOn(w)
    BY <1>3, SubscriptionForms
  <2>3. \A f \in CustomerEvents : rows'[f] = rows[f]
    BY <2>1, <2>2, SidecarAssumption DEF LetsGo, GoesOn, Ruled, Inv
  <2>. QED  BY <2>1, <2>3 DEF CustomerSideStill, DoneAmong, customerVars
<1>4. ASSUME UNCHANGED <<rows, customerVars>>
      PROVE  CustomerSideStill
  BY <1>4 DEF CustomerSideStill, DoneAmong, customerVars
<1>5. CASE RenameArrives
  BY <1>5 DEF RenameArrives, C!StrayEnds, SubscriptionSideStill, DoneAmong, subscriptionVars
<1>. QED
  BY <1>1, <1>2, <1>3, <1>4, <1>5, StepCases DEF Poll, CreateArrives, S!StrayEnds, Tick, vars

LEMMA CustomerSidePromise ==
  ASSUME Inv, Inv', Linkable, SubscriptionSideStill, CP!P!Next
  PROVE  P!Next
<1>1. /\ DoneEvents = DoneAmong(CustomerEvents) \cup DoneAmong(SubscriptionEvents)
      /\ DoneEvents' = DoneAmong(CustomerEvents)' \cup DoneAmong(SubscriptionEvents)'
      /\ DoneAmong(SubscriptionEvents)' = DoneAmong(SubscriptionEvents)
  BY SidecarAssumption DEF DoneEvents, DoneAmong, SubscriptionEvents, SubscriptionSideStill
<1>2. ContractsOf' = ContractsOf
  BY DEF SubscriptionSideStill, ContractsOf
<1>3. /\ DoneSeen(CustomerEvents) = DoneAmong(CustomerEvents)
      /\ DoneSeen(CustomerEvents)' = DoneAmong(CustomerEvents)'
  BY DoneTogether, DoneTogetherNext DEF DoneAgrees
<1>4. ASSUME NEW c \in Customers, CP!P!Make(c)
      PROVE  P!Make(c)
  <2>1. PICK id : /\ \A t \in Customers : id \notin AccountsOf[t]
                  /\ AccountsOf' = [AccountsOf EXCEPT ![c] = @ \cup {id}]
                  /\ mapping' = mapping
                  /\ DoneSeen(CustomerEvents)' = DoneSeen(CustomerEvents)
    BY <1>4 DEF CP!P!Make, AccountsOf, DoneSeen
  <2>2. PICK tag : tag = <<"account", id>>
    OBVIOUS
  <2>3. \A t \in AllSubjects : tag \notin MadeFor[t]
    BY <2>1, <2>2, MadeTogether DEF AllSubjects, Tagged
  <2>4. \A t \in AllSubjects : MadeFor'[t] = IF t = c THEN MadeFor[c] \cup {tag} ELSE MadeFor[t]
    <3>0. /\ AccountsOf'[c] = AccountsOf[c] \cup {id}
          /\ \A t \in Customers : t # c => AccountsOf'[t] = AccountsOf[t]
      <4>1. DOMAIN AccountsOf = Customers
        BY DEF AccountsOf
      <4>. QED  BY <2>1, <4>1
    <3>1. MadeFor'[c] = MadeFor[c] \cup {tag}
      <4>1. MadeFor'[c] = Tagged("account", AccountsOf[c] \cup {id})
        BY <3>0, MadeTogether
      <4>2. MadeFor[c] = Tagged("account", AccountsOf[c])
        BY MadeTogether
      <4>. QED  BY <2>2, <4>1, <4>2 DEF Tagged
    <3>2. \A t \in Customers : t # c => MadeFor'[t] = MadeFor[t]
      BY <3>0, MadeTogether
    <3>3. \A t \in Subscriptions : MadeFor'[t] = MadeFor[t]
      BY <1>2, MadeTogether
    <3>. QED  BY <1>4, <3>1, <3>2, <3>3, SidecarAssumption DEF AllSubjects
  <2>5. MadeFor' = [MadeFor EXCEPT ![c] = @ \cup {tag}]
    BY <2>4 DEF MadeFor
  <2>6. LinkedTo' = LinkedTo /\ DoneEvents' = DoneEvents
    BY <1>1, <1>3, <2>1 DEF LinkedTo, SubscriptionSideStill
  <2>7. tag \in MadeFor'[c] /\ c \in AllSubjects
    BY <2>4 DEF AllSubjects
  <2>. QED
    BY <2>3, <2>5, <2>6, <2>7 DEF P!Make, MadeFor, LinkedTo, DoneEvents, AllSubjects
<1>5. ASSUME NEW e \in CustomerEvents, CP!P!Link(e)
      PROVE  P!Link(e)
  <2>1. PICK c \in Customers : c = Customer[e]
    BY SidecarAssumption
  <2>2. PICK id : /\ id \in AccountsOf[c]
                  /\ mapping[c] = 0
                  /\ mapping' = [mapping EXCEPT ![c] = id]
                  /\ AccountsOf' = AccountsOf
                  /\ DoneSeen(CustomerEvents)' = DoneSeen(CustomerEvents) \cup {e}
    BY <1>5, <2>1 DEF CP!P!Link, CP!P!Linked, AccountsOf, DoneSeen
  <2>3. PICK tag : tag = <<"account", id>>
    OBVIOUS
  <2>4. id # 0 /\ mapping \in [Customers -> Nat] /\ DOMAIN LinkedTo = AllSubjects
    BY <2>2 DEF AccountsOf, Linkable, LinkedTo
  <2>5. MadeFor' = MadeFor
    BY <1>2, <2>2, MadeKept
  <2>6. LinkedTo[c] = <<"none", 0>> /\ LinkedTo'[c] = tag
    BY <2>2, <2>3, <2>4 DEF LinkedTo, AllSubjects
  <2>7. \A t \in AllSubjects : t # c => LinkedTo'[t] = LinkedTo[t]
    BY <2>2, <2>4 DEF LinkedTo, SubscriptionSideStill
  <2>8. LinkedTo' = [LinkedTo EXCEPT ![c] = tag]
    BY <2>6, <2>7 DEF LinkedTo
  <2>9. tag \in MadeFor[c] /\ tag # <<"none", 0>>
    BY <2>2, <2>3, MadeTogether DEF Tagged
  <2>10. DoneEvents' = DoneEvents \cup {e}
    BY <1>1, <1>3, <2>2
  <2>11. c # None /\ c \in AllSubjects /\ e \in Events
    BY SidecarAssumption DEF AllSubjects
  <2>. QED
    BY <2>1, <2>5, <2>6, <2>8, <2>9, <2>10, <2>11 DEF P!Link, P!Linked, MadeFor, LinkedTo,
       DoneEvents, AllSubjects
<1>6. ASSUME NEW e \in CustomerEvents, CP!P!Finish(e)
      PROVE  P!Finish(e)
  <2>1. PICK c \in Customers : c = Customer[e]
    BY SidecarAssumption
  <2>2. /\ mapping[c] # 0
        /\ mapping' = mapping
        /\ AccountsOf' = AccountsOf
        /\ DoneSeen(CustomerEvents)' = DoneSeen(CustomerEvents) \cup {e}
    BY <1>6, <2>1, SidecarAssumption DEF CP!P!Finish, CP!P!Linked, AccountsOf, DoneSeen
  <2>3. MadeFor' = MadeFor
    BY <1>2, <2>2, MadeKept
  <2>4. LinkedTo' = LinkedTo
    <3>1. mapping' = mapping /\ links' = links
      BY <2>2 DEF SubscriptionSideStill
    <3>. QED  BY <3>1 DEF LinkedTo
  <2>5. LinkedTo[c] # <<"none", 0>> /\ e \in Events
    BY <2>2, SidecarAssumption DEF LinkedTo, AllSubjects
  <2>6. DoneEvents' = DoneEvents \cup {e}
    BY <1>1, <1>3, <2>2
  <2>. QED
    BY <2>1, <2>3, <2>4, <2>5, <2>6 DEF P!Finish, P!Linked, MadeFor, LinkedTo, DoneEvents,
       AllSubjects
<1>7. CASE \E c \in Customers : CP!P!Make(c)
  BY <1>4, <1>7 DEF P!Next
<1>8. CASE \E e \in CustomerEvents : CP!P!Link(e) \/ CP!P!Finish(e)
  BY <1>5, <1>6, <1>8, SidecarAssumption DEF P!Next
<1>. QED  BY <1>7, <1>8 DEF CP!P!Next

LEMMA SubscriptionSidePromise ==
  ASSUME Inv, Inv', Linkable, Linkable', CustomerSideStill, SP!P!Next
  PROVE  P!Next
<1>1. /\ DoneEvents = DoneAmong(CustomerEvents) \cup DoneAmong(SubscriptionEvents)
      /\ DoneEvents' = DoneAmong(CustomerEvents)' \cup DoneAmong(SubscriptionEvents)'
      /\ DoneAmong(CustomerEvents)' = DoneAmong(CustomerEvents)
  BY SidecarAssumption DEF DoneEvents, DoneAmong, SubscriptionEvents, CustomerSideStill
<1>2. AccountsOf' = AccountsOf
  BY DEF CustomerSideStill, AccountsOf
<1>3. /\ DoneSeen(SubscriptionEvents) = DoneAmong(SubscriptionEvents)
      /\ DoneSeen(SubscriptionEvents)' = DoneAmong(SubscriptionEvents)'
  BY DoneTogether, DoneTogetherNext DEF DoneAgrees
<1>4. \A s \in Subscriptions : /\ s \in AllSubjects /\ s \notin Customers
                               /\ CustomerOf[s] \in Customers
                               /\ CustomerOf[s] \in AllSubjects
                               /\ CustomerOf[s] # None /\ s # None
  BY SidecarAssumption DEF AllSubjects
<1>5. \A s \in Subscriptions :
         /\ links[s] = S!NoLink <=> links[s].contract = 0
         /\ links'[s] = S!NoLink <=> links'[s].contract = 0
  BY DEF Linkable, S!NoLink
<1>6. \A s \in Subscriptions :
         /\ LinkedTo[s] = IF links[s] = S!NoLink THEN <<"none", 0>>
                          ELSE <<"contract", links[s].contract>>
         /\ LinkedTo'[s] = IF links'[s] = S!NoLink THEN <<"none", 0>>
                           ELSE <<"contract", links'[s].contract>>
         /\ links[s] # S!NoLink => LinkedTo[s] # <<"none", 0>>
  BY <1>4 DEF LinkedTo
<1>7. \A c \in Customers :
         /\ LinkedTo'[c] = LinkedTo[c]
         /\ mapping[c] # 0 => LinkedTo[c] # <<"none", 0>>
  BY DEF LinkedTo, AllSubjects, CustomerSideStill
<1>8. ASSUME NEW s \in Subscriptions, SP!P!Make(s)
      PROVE  P!Make(s)
  <2>1. PICK id : /\ \A t \in Subscriptions : id \notin ContractsOf[t]
                  /\ ContractsOf' = [ContractsOf EXCEPT ![s] = @ \cup {id}]
                  /\ [t \in Subscriptions |-> links'[t].contract] =
                       [t \in Subscriptions |-> links[t].contract]
                  /\ DoneSeen(SubscriptionEvents)' = DoneSeen(SubscriptionEvents)
    BY <1>8 DEF SP!P!Make, ContractsOf, DoneSeen
  <2>2. PICK tag : tag = <<"contract", id>>
    OBVIOUS
  <2>3. \A t \in AllSubjects : tag \notin MadeFor[t]
    BY <2>1, <2>2, MadeTogether DEF AllSubjects, Tagged
  <2>4. \A t \in AllSubjects : MadeFor'[t] = IF t = s THEN MadeFor[s] \cup {tag} ELSE MadeFor[t]
    <3>1. /\ ContractsOf'[s] = ContractsOf[s] \cup {id}
          /\ \A t \in Subscriptions : t # s => ContractsOf'[t] = ContractsOf[t]
      <4>1. DOMAIN ContractsOf = Subscriptions
        BY DEF ContractsOf
      <4>. QED  BY <2>1, <4>1
    <3>2. MadeFor'[s] = MadeFor[s] \cup {tag}
      <4>1. MadeFor'[s] = Tagged("contract", ContractsOf[s] \cup {id})
        BY <3>1, MadeTogether
      <4>2. MadeFor[s] = Tagged("contract", ContractsOf[s])
        BY MadeTogether
      <4>. QED  BY <2>2, <4>1, <4>2 DEF Tagged
    <3>3. \A t \in Subscriptions : t # s => MadeFor'[t] = MadeFor[t]
      BY <3>1, MadeTogether
    <3>4. \A t \in Customers : MadeFor'[t] = MadeFor[t]
      BY <1>2, MadeTogether
    <3>. QED  BY <1>4, <3>2, <3>3, <3>4 DEF AllSubjects
  <2>5. MadeFor' = [MadeFor EXCEPT ![s] = @ \cup {tag}]
    BY <2>4 DEF MadeFor
  <2>6. LinkedTo' = LinkedTo
    <3>1. \A t \in Subscriptions : links'[t].contract = links[t].contract
      BY <2>1
    <3>2. \A t \in Subscriptions : LinkedTo'[t] = LinkedTo[t]
      BY <1>5, <1>6, <3>1
    <3>3. \A t \in AllSubjects : LinkedTo'[t] = LinkedTo[t]
      BY <1>7, <3>2 DEF AllSubjects
    <3>. QED  BY <3>3, LinkedKept
  <2>7. DoneEvents' = DoneEvents
    BY <1>1, <1>3, <2>1
  <2>8. tag \in MadeFor'[s] /\ s \in AllSubjects
    BY <1>4, <2>4
  <2>. QED
    BY <2>3, <2>5, <2>6, <2>7, <2>8 DEF P!Make, MadeFor, LinkedTo, DoneEvents, AllSubjects
<1>9. ASSUME NEW e \in SubscriptionEvents, e \notin NoOps, SP!P!Link(e)
      PROVE  P!Link(e)
  <2>1. PICK s \in Subscriptions : s = Subscription[e]
    BY SidecarAssumption
  <2>2. PICK id : /\ id \in ContractsOf[s]
                  /\ links[s].contract = 0
                  /\ [t \in Subscriptions |-> links'[t].contract] =
                       [[t \in Subscriptions |-> links[t].contract] EXCEPT ![s] = id]
                  /\ ContractsOf' = ContractsOf
                  /\ DoneSeen(SubscriptionEvents)' = DoneSeen(SubscriptionEvents) \cup {e}
    BY <1>9, <2>1 DEF SP!P!Link, SP!P!Linked, ContractsOf, DoneSeen
  <2>3. PICK tag : tag = <<"contract", id>>
    OBVIOUS
  <2>4. id # 0
    BY <2>2 DEF ContractsOf, Linkable
  <2>5. /\ links'[s].contract = id
        /\ \A t \in Subscriptions : t # s => links'[t].contract = links[t].contract
    BY <2>2
  <2>6. MadeFor' = MadeFor
    BY <1>2, <2>2, MadeKept
  <2>7. LinkedTo[s] = <<"none", 0>> /\ LinkedTo'[s] = tag
    BY <1>5, <1>6, <2>2, <2>3, <2>4, <2>5
  <2>8. \A t \in AllSubjects : t # s => LinkedTo'[t] = LinkedTo[t]
    BY <1>5, <1>6, <1>7, <2>5 DEF AllSubjects
  <2>9. LinkedTo' = [LinkedTo EXCEPT ![s] = tag]
    BY <2>7, <2>8 DEF LinkedTo
  <2>10. tag \in MadeFor[s]
    BY <2>2, <2>3, MadeTogether DEF Tagged
  <2>11. LinkedTo[CustomerOf[s]] # <<"none", 0>>
    <3>1. links'[s] # S!NoLink
      BY <1>5, <2>4, <2>5
    <3>2. mapping'[CustomerOf[s]] # 0
      BY <3>1 DEF Linkable
    <3>. QED  BY <1>4, <1>7, <3>2 DEF CustomerSideStill
  <2>12. DoneEvents' = DoneEvents \cup {e}
    BY <1>1, <1>3, <2>2
  <2>13. e \in Events /\ e \notin CustomerEvents
    BY DEF SubscriptionEvents
  <2>. QED
    BY <1>4, <1>9, <2>1, <2>6, <2>7, <2>9, <2>10, <2>11, <2>12, <2>13 DEF P!Link, P!Linked,
       MadeFor, LinkedTo, DoneEvents, AllSubjects
<1>10. ASSUME NEW e \in SubscriptionEvents, SP!P!Finish(e)
       PROVE  P!Finish(e)
  <2>1. PICK s \in Subscriptions : s = Subscription[e]
    BY SidecarAssumption
  <2>2. /\ e \in NoOps \/ links[s].contract # 0
        /\ [t \in Subscriptions |-> links'[t].contract] =
             [t \in Subscriptions |-> links[t].contract]
        /\ ContractsOf' = ContractsOf
        /\ DoneSeen(SubscriptionEvents)' = DoneSeen(SubscriptionEvents) \cup {e}
    BY <1>4, <1>10, <2>1 DEF SP!P!Finish, SP!P!Linked, ContractsOf, DoneSeen
  <2>3. MadeFor' = MadeFor
    BY <1>2, <2>2, MadeKept
  <2>4. LinkedTo' = LinkedTo
    <3>1. \A t \in Subscriptions : links'[t].contract = links[t].contract
      BY <2>2
    <3>2. \A t \in Subscriptions : LinkedTo'[t] = LinkedTo[t]
      BY <1>5, <1>6, <3>1
    <3>3. \A t \in AllSubjects : LinkedTo'[t] = LinkedTo[t]
      BY <1>7, <3>2 DEF AllSubjects
    <3>. QED  BY <3>3, LinkedKept
  <2>5. e \in NoOps \/ LinkedTo[s] # <<"none", 0>>
    BY <1>5, <1>6, <2>2
  <2>6. DoneEvents' = DoneEvents \cup {e}
    BY <1>1, <1>3, <2>2
  <2>7. e \in Events /\ e \notin CustomerEvents
    BY DEF SubscriptionEvents
  <2>. QED
    BY <2>1, <2>3, <2>4, <2>5, <2>6, <2>7 DEF P!Finish, P!Linked, MadeFor, LinkedTo,
       DoneEvents, AllSubjects
<1>11. CASE \E s \in Subscriptions : SP!P!Make(s)
  BY <1>4, <1>8, <1>11 DEF P!Next, AllSubjects
<1>12. ASSUME NEW e \in SubscriptionEvents, SP!P!Link(e)
       PROVE  e \notin NoOps
  BY <1>12 DEF SP!P!Link
<1>13. CASE \E e \in SubscriptionEvents : SP!P!Link(e) \/ SP!P!Finish(e)
  BY <1>9, <1>10, <1>12, <1>13, SubscriptionOwn DEF P!Next
<1>. QED  BY <1>11, <1>13 DEF SP!P!Next

\* Every step of the sidecar makes, links or finishes something, or none of it.
LEMMA PromiseStep ==
  ASSUME Inv, Inv', Linkable, Linkable', [Next]_vars,
         [CP!P!Next]_(CP!P!vars), [SP!P!Next]_(SP!P!vars)
  PROVE  [P!Next]_(P!vars)
<1>1. ASSUME AccountsOf' = AccountsOf, ContractsOf' = ContractsOf, LinkedTo' = LinkedTo,
             DoneSeen(CustomerEvents)' = DoneSeen(CustomerEvents),
             DoneSeen(SubscriptionEvents)' = DoneSeen(SubscriptionEvents)
      PROVE  UNCHANGED P!vars
  <2>1. MadeFor' = MadeFor
    BY <1>1, MadeKept
  <2>2. /\ DoneAmong(CustomerEvents)' = DoneAmong(CustomerEvents)
        /\ DoneAmong(SubscriptionEvents)' = DoneAmong(SubscriptionEvents)
    BY <1>1, DoneTogether, DoneTogetherNext DEF DoneAgrees
  <2>3. /\ DoneEvents = DoneAmong(CustomerEvents) \cup DoneAmong(SubscriptionEvents)
        /\ DoneEvents' = DoneAmong(CustomerEvents)' \cup DoneAmong(SubscriptionEvents)'
    BY SidecarAssumption DEF DoneEvents, DoneAmong, SubscriptionEvents
  <2>4. DoneEvents' = DoneEvents
    BY <2>2, <2>3
  <2>. QED
    BY <1>1, <2>1, <2>4 DEF P!vars, MadeFor, LinkedTo, DoneEvents, AllSubjects
<1>2. /\ DoneSeen(CustomerEvents) = DoneAmong(CustomerEvents)
      /\ DoneSeen(CustomerEvents)' = DoneAmong(CustomerEvents)'
      /\ DoneSeen(SubscriptionEvents) = DoneAmong(SubscriptionEvents)
      /\ DoneSeen(SubscriptionEvents)' = DoneAmong(SubscriptionEvents)'
  BY DoneTogether, DoneTogetherNext DEF DoneAgrees
<1>3. CASE SubscriptionSideStill
  <2>1. CASE CP!P!Next
    BY <1>3, <2>1, CustomerSidePromise
  <2>2. CASE UNCHANGED CP!P!vars
    <3>1. /\ AccountsOf' = AccountsOf
          /\ mapping' = mapping
          /\ DoneSeen(CustomerEvents)' = DoneSeen(CustomerEvents)
      BY <2>2 DEF CP!P!vars, AccountsOf, DoneSeen
    <3>2. ContractsOf' = ContractsOf
          /\ DoneSeen(SubscriptionEvents)' = DoneSeen(SubscriptionEvents)
      BY <1>2, <1>3 DEF SubscriptionSideStill, ContractsOf
    <3>3. LinkedTo' = LinkedTo
      BY <1>3, <3>1 DEF SubscriptionSideStill, LinkedTo
    <3>. QED  BY <1>1, <3>1, <3>2, <3>3
  <2>. QED  BY <2>1, <2>2
<1>4. CASE CustomerSideStill
  <2>1. CASE SP!P!Next
    BY <1>4, <2>1, SubscriptionSidePromise
  <2>2. CASE UNCHANGED SP!P!vars
    <3>1. /\ ContractsOf' = ContractsOf
          /\ [t \in Subscriptions |-> links'[t].contract] =
               [t \in Subscriptions |-> links[t].contract]
          /\ DoneSeen(SubscriptionEvents)' = DoneSeen(SubscriptionEvents)
      BY <2>2 DEF SP!P!vars, ContractsOf, DoneSeen
    <3>2. AccountsOf' = AccountsOf
          /\ DoneSeen(CustomerEvents)' = DoneSeen(CustomerEvents)
      BY <1>2, <1>4 DEF CustomerSideStill, AccountsOf
    <3>3. \A t \in Subscriptions : links'[t].contract = links[t].contract
      BY <3>1
    <3>4. \A t \in Subscriptions :
             /\ links[t] = S!NoLink <=> links[t].contract = 0
             /\ links'[t] = S!NoLink <=> links'[t].contract = 0
      BY DEF Linkable, S!NoLink
    <3>5. \A t \in AllSubjects : LinkedTo'[t] = LinkedTo[t]
      BY <1>4, <3>3, <3>4 DEF CustomerSideStill, LinkedTo, AllSubjects
    <3>6. LinkedTo' = LinkedTo
      BY <3>5 DEF LinkedTo
    <3>. QED  BY <1>1, <3>1, <3>2, <3>6
  <2>. QED  BY <2>1, <2>2
<1>. QED  BY <1>3, <1>4, OneSideMoves

\* The promise of Provisioning for the sidecar as a whole: one link for each
\* customer and each subscription, to something made for it, the customer's
\* before the subscription's, and no event processed before its subject's.
THEOREM ImplementsProvisioningHolds == Spec => ImplementsProvisioning
<1>1. CP!Spec => CP!ImplementsProvisioning
  BY CustomerSideAssumptions, CP!Refinement
<1>2. SP!Spec => SP!ImplementsProvisioning
  BY SubscriptionSideAssumptions, SP!Refinement
<1>3. Init => P!Init
  <2>1. SUFFICES ASSUME Init
                 PROVE  P!Init
    OBVIOUS
  <2>2. /\ rows = [e \in Events |-> [status |-> "absent", attempts |-> 0, rank |-> 0]]
        /\ mapping = [c \in Customers |-> 0] /\ accounts = << >>
        /\ links = [s \in Subscriptions |-> S!NoLink] /\ contracts = << >>
    BY <2>1 DEF Init, C!Init, C!InitRuns
  <2>3. /\ MadeFor = [s \in AllSubjects |-> {}]
        /\ LinkedTo = [s \in AllSubjects |-> <<"none", 0>>]
        /\ DoneEvents = {}
    BY <2>2 DEF MadeFor, LinkedTo, DoneEvents, AllSubjects
  <2>. QED  BY <2>3 DEF P!Init, MadeFor, LinkedTo, DoneEvents, AllSubjects
<1>4. /\ Inv /\ Inv' /\ Linkable /\ Linkable' /\ [Next]_vars
      /\ [CP!P!Next]_(CP!P!vars) /\ [SP!P!Next]_(SP!P!vars)
      => [P!Next]_(P!vars)
  BY PromiseStep
<1>. QED
  BY <1>1, <1>2, <1>3, <1>4, InvHolds, LinkableHolds, ImplementsCustomerSyncHolds,
     ImplementsSubscriptionSyncHolds, CustomerSideSpec, SubscriptionSideSpec, PTL
  DEF Spec, ImplementsCustomerSync, ImplementsSubscriptionSync, CP!ImplementsProvisioning,
     SP!ImplementsProvisioning, CP!P!Spec, SP!P!Spec, P!Spec, ImplementsProvisioning

\* models.py:90-92 and 122-140, mappers/subscription.py:18-21, subscription.py:
\* 14-21: what a link stands for, how many contracts are made, and when a
\* subscription event may fail hold with both kinds of events on one queue.
THEOREM SidesCorrect ==
  Spec => []( /\ CustomerSide!MappingConfirmed
              /\ CustomerSide!ProcessedIsMapped
              /\ SubscriptionSide!LinkConfirmed
              /\ SubscriptionSide!OneContractPerTerms
              /\ SubscriptionSide!FailedAfterFullBudget )
<1>1. CP!Spec => []CP!MappingConfirmed /\ []CP!ProcessedIsMapped
  BY CustomerSideAssumptions, CP!MappingConfirmedHolds, CP!ProcessedIsMappedHolds
<1>2. SP!Spec => /\ []SP!LinkConfirmed
                 /\ []SP!OneContractPerTerms
                 /\ []SP!FailedAfterFullBudget
  BY SubscriptionSideAssumptions, SP!LinkConfirmedHolds, SP!OneContractPerTermsHolds,
     SP!FullBudget
<1>3. /\ CP!MappingConfirmed => CustomerSide!MappingConfirmed
      /\ CP!ProcessedIsMapped => CustomerSide!ProcessedIsMapped
  BY DEF CP!MappingConfirmed, CustomerSide!MappingConfirmed, CP!ProcessedIsMapped,
     CustomerSide!ProcessedIsMapped
<1>4. /\ SP!LinkConfirmed => SubscriptionSide!LinkConfirmed
      /\ SP!OneContractPerTerms => SubscriptionSide!OneContractPerTerms
      /\ SP!FailedAfterFullBudget => SubscriptionSide!FailedAfterFullBudget
  BY DEF SP!LinkConfirmed, SubscriptionSide!LinkConfirmed, SP!OneContractPerTerms,
     SubscriptionSide!OneContractPerTerms, SP!FailedAfterFullBudget,
     SubscriptionSide!FailedAfterFullBudget, SP!NoLink, SubscriptionSide!NoLink,
     MappedCustomers
<1>. QED
  BY <1>1, <1>2, <1>3, <1>4, ImplementsCustomerSyncHolds, ImplementsSubscriptionSyncHolds,
     CustomerSideSpec, SubscriptionSideSpec, PTL
  DEF ImplementsCustomerSync, ImplementsSubscriptionSync

\* models.py:90-92 and subscription.py: no row of either mapping table is ever
\* changed or removed, whatever the other kind of handler does.
THEOREM LinksStable ==
  Spec => /\ [][\A c \in Customers : mapping[c] # 0 => mapping'[c] = mapping[c]]_mapping
          /\ [][\A s \in Subscriptions : links[s] # S!NoLink => links'[s] = links[s]]_links
<1>1. CP!Spec => CP!MappingStable
  BY CustomerSideAssumptions, CP!MappingStableHolds
<1>2. SP!Spec => SP!LinkStable
  BY SubscriptionSideAssumptions, SP!LinkStableHolds
<1>3. [\A c \in Customers : mapping[c] # 0 => mapping'[c] = mapping[c]]_(CP!vars)
        => [\A c \in Customers : mapping[c] # 0 => mapping'[c] = mapping[c]]_mapping
  BY DEF CP!vars
<1>4. [\A s \in Subscriptions : links[s] # SP!NoLink => links'[s] = links[s]]_(SP!vars)
        => [\A s \in Subscriptions : links[s] # S!NoLink => links'[s] = links[s]]_links
  BY DEF SP!vars, SP!NoLink, S!NoLink
<1>. QED
  BY <1>1, <1>2, <1>3, <1>4, ImplementsCustomerSyncHolds, ImplementsSubscriptionSyncHolds,
     CustomerSideSpec, SubscriptionSideSpec, PTL
  DEF ImplementsCustomerSync, ImplementsSubscriptionSync, CP!MappingStable, SP!LinkStable
=============================================================================
