------------------------- MODULE CustomerNamesProofs -------------------------
(***************************************************************************)
(* Where the customer handlers keep their word on names: with one worker,  *)
(* no fault and no refusal, a customer whose events come in the order of   *)
(* their payloads ends with one account, which has the latest name, for    *)
(* every set of customers and events.                                      *)
(*                                                                         *)
(* The queue is what makes it true. Nothing is retried, so the rows are    *)
(* claimed, and processed, in their order of arrival; and between two      *)
(* transactions each account has the name of the last event that was not a *)
(* created event of a mapped customer.                                     *)
(***************************************************************************)
EXTENDS CustomerSyncProofs

Processed(c) == {e \in Events : Customer[e] = c /\ rows[e].status = "processed"}

\* Between two transactions on events of c.
Settled(c) ==
    IF mapping[c] = 0 THEN Made(c) = {} /\ Processed(c) = {}
    ELSE LET n == accounts[mapping[c]].name
         IN  /\ Made(c) = {mapping[c]}
             /\ n \in Processed(c)
             /\ \A e \in Processed(c) \ Created : rows[e].rank <= rows[n].rank

Answering(w) == work[w].pc = "replied"

\* Between Metronome's answer and the commit.
NamedAhead(w) ==
    /\ work[w].reply.kind = "ok"
    /\ Made(Subject(w)) = {work[w].reply.id}
    /\ accounts[work[w].reply.id].name = work[w].event
    /\ IF mapping[Subject(w)] = 0 THEN Processed(Subject(w)) = {}
       ELSE mapping[Subject(w)] = work[w].reply.id

CustomersSettled ==
    \A c \in Customers :
        (\A w \in Workers : Answering(w) => Subject(w) # c) => Settled(c)

Oldest(e) == \A f \in Events : rows[f].status = "pending" => rows[e].rank <= rows[f].rank

\* Nothing is given up or retried, and the queue is served in order.
ServedInOrder ==
    \A e \in Events :
        /\ rows[e].status # "failed"
        /\ rows[e].status # "processed" => rows[e].attempts = 0
        /\ rows[e].status = "processed" => Oldest(e)

SessionInOrder(w) ==
    Holds(w) => /\ work[w].pc # "listing"
                /\ Oldest(work[w].event)
                /\ work[w].pc # "claimed" => work[w].seen = mapping[Subject(w)]
                /\ Answering(w) => NamedAhead(w)

SessionsInOrder == \A w \in Workers : SessionInOrder(w)

InOrderInv ==
    /\ stray = {}
    /\ ServedInOrder
    /\ SessionsInOrder
    /\ CustomersSettled

NamesInv == Orderly /\ Smooth => InOrderInv

-----------------------------------------------------------------------------
(* The ranks.                                                              *)

\* A row that is there keeps its rank.
LEMMA RanksStep ==
  ASSUME IInv, LocksSound, RanksSound, [Next]_vars
  PROVE  RanksSound'
<1>1. rows \in [Events -> Row]
  BY DEF IInv, TypeOK, TypeOKRuns
<1>2. ASSUME NEW w \in Workers, work[w].event \in Events,
             Ruled(w, "failed") \/ Ruled(w, "pending") \/ Ruled(w, "processed")
      PROVE  RanksSound'
  <2>1. Holds(w)
    BY <1>2, HandlerRunsAssumption DEF IInv, SessionsOwned, SessionOwned, Holds, Idle
  <2>2. rows[work[w].event].status = "pending"
    BY <2>1 DEF LocksSound
  <2>3. \A e \in Events : /\ rows'[e].rank = rows[e].rank
                          /\ rows'[e].status = "absent" <=> rows[e].status = "absent"
    BY <1>1, <1>2, <2>2 DEF Ruled, Row
  <2>. QED  BY <2>3, RanksKept
<1>3. CASE rows' = rows
  BY <1>3, RanksKept
<1>. QED  BY <1>1, <1>2, <1>3, RowsStep, InsertRanks

THEOREM RanksHold == Spec => []RanksSound
<1>1. Init => RanksSound
  <2>. SUFFICES ASSUME Init  PROVE RanksSound
    OBVIOUS
  <2>1. {e \in Events : rows[e].rank # 0} = {}
    BY DEF Init, InitRuns
  <2>2. NextRank = 1
    BY <2>1, FS_EmptySet DEF NextRank
  <2>. QED  BY <2>2 DEF Init, InitRuns, RanksSound
<1>2. IInv /\ LocksSound /\ RanksSound /\ [Next]_vars => RanksSound'
  BY RanksStep
<1>. QED  BY <1>1, <1>2, Invariance, LocksHold, PTL DEF Spec

-----------------------------------------------------------------------------
(* The steps of a smooth run.                                              *)

\* Nothing fails, and nothing collides.
LEMMA SmoothSteps ==
  ASSUME IInv, InOrderInv, Orderly, Smooth', [Next]_vars
  PROVE  \/ UNCHANGED vars
         \/ \E e \in Events : Arrive(e)
         \/ \E w \in Workers :
               \/ Poll(w) \/ SkipAlreadyMapped(w) \/ CallMetronome(w)
               \/ MetronomeAnswers(w) \/ InsertMapping(w) \/ TouchMapping(w)
<1>1. ~ Fault /\ ~ Refusal
  BY HandlerRunsAssumption DEF Fault, Refusal, Smooth, IInv, TypeOK, TypeOKRuns
<1>2. stray = {}
  BY DEF InOrderInv
<1>3. ASSUME NEW w \in Workers
      PROVE  ~ FailUnmappable(w) /\ ~ InsertCollides(w) /\ ~ CallFailed(w)
  <2>1. ~ FailUnmappable(w)
    BY DEF FailUnmappable, NeedsCall, Orderly, IInv, SessionsOwned, SessionOwned
  <2>2. ASSUME work[w].pc = "replied"
        PROVE  work[w].reply.kind = "ok" /\ work[w].seen = mapping[Subject(w)]
    BY <2>2 DEF InOrderInv, SessionsInOrder, SessionInOrder, Holds, Answering, NamedAhead
  <2>3. ~ InsertCollides(w)
    BY <2>2 DEF InsertCollides, Answered, Found
  <2>4. ~ CallFailed(w)
    BY <2>2 DEF CallFailed, RuleOnFailure, Answered
  <2>. QED  BY <2>1, <2>3, <2>4
<1>. QED
  BY <1>1, <1>2, <1>3 DEF Next, Handle, Rollback, MetronomeRefuses, Resend, CallFails, LoseReply

\* The counters never go down.
LEMMA SmoothBefore ==
  ASSUME IInv, [Next]_vars, Smooth'
  PROVE  Smooth
<1>1. (faults' = faults \/ Fault) /\ (refusals' = refusals \/ Refusal)
  BY DEF Next, vars, Arrive, Poll, Claim, Handle, SkipAlreadyMapped,
     FailUnmappable, CallMetronome, InsertMapping, InsertCollides, TouchMapping,
     CallFailed, RuleOnFailure, Rule, Rollback, MetronomeAnswers,
     MetronomeRefuses, Resend, CallFails, LoseReply, StrayEnds
<1>. QED  BY <1>1 DEF Fault, Refusal, Smooth, IInv, TypeOK, TypeOKRuns

\* A row more is younger than all others.
LEMMA ArriveInOrder ==
  ASSUME IInv, LocksSound, RanksSound, InOrderInv, NEW e \in Events, Arrive(e)
  PROVE  InOrderInv'
<1>1. rows \in [Events -> Row] /\ rows[e].status = "absent" /\ Insert(e)
  BY DEF IInv, TypeOK, TypeOKRuns, Arrive, Insert
<1>2. \A f \in Events : /\ rows'[f].rank = IF f = e THEN NextRank ELSE rows[f].rank
                        /\ rows'[f].status = IF f = e THEN "pending" ELSE rows[f].status
                        /\ rows'[f].attempts = rows[f].attempts
  BY <1>1, InsertRanks
<1>3. UNCHANGED <<work, mapping, accounts, stray>>
  BY DEF Arrive
<1>4. ASSUME NEW f \in Events, f # e, Oldest(f)
      PROVE  Oldest(f)'
  <2>1. rows[f].rank < NextRank /\ rows[f].rank \in Nat /\ NextRank \in Nat
    BY <1>1, NextRankType DEF RanksSound, Row
  <2>. QED  BY <1>2, <1>4, <2>1 DEF Oldest
<1>5. ServedInOrder'
  <2>1. \A f \in Events : rows[f].status = "processed" => f # e /\ Oldest(f)
    BY <1>1 DEF InOrderInv, ServedInOrder
  <2>. QED  BY <1>2, <1>4, <2>1 DEF InOrderInv, ServedInOrder
<1>6. \A c : Processed(c)' = Processed(c)
  BY <1>1, <1>2 DEF Processed
<1>7. ASSUME NEW w \in Workers
      PROVE  SessionInOrder(w)'
  <2>1. SUFFICES ASSUME Holds(w)  PROVE SessionInOrder(w)'
    BY <1>3 DEF SessionInOrder, Holds
  <2>2. /\ SessionInOrder(w)
        /\ work[w].event \in Events /\ work[w].event # e
    BY <1>1, <2>1 DEF InOrderInv, SessionsInOrder, LocksSound, IInv, SessionsOwned,
       SessionOwned, Holds
  <2>3. Oldest(work[w].event)'
    BY <1>3, <1>4, <2>1, <2>2 DEF SessionInOrder
  <2>4. Answering(w) => NamedAhead(w)'
    BY <1>3, <1>6, <2>1, <2>2 DEF SessionInOrder, NamedAhead, Subject, Made
  <2>. QED
    BY <1>3, <2>1, <2>2, <2>3, <2>4 DEF SessionInOrder, Answering, Subject
<1>8. CustomersSettled'
  <2>1. ASSUME NEW c \in Customers, Settled(c)  PROVE Settled(c)'
    BY <1>1, <1>2, <1>3, <1>6, <2>1 DEF Settled, Made, Processed
  <2>. QED
    BY <1>3, <2>1 DEF InOrderInv, CustomersSettled, Answering, Subject
<1>. QED  BY <1>3, <1>5, <1>7, <1>8 DEF InOrderInv, SessionsInOrder

\* A verdict on the oldest row leaves the others in their order.
LEMMA RuledInOrder ==
  ASSUME IInv, ServedInOrder, NEW w \in Workers, NEW e \in Events, e = work[w].event,
         Oldest(e), rows[e].status = "pending", Ruled(w, "processed")
  PROVE  /\ ServedInOrder'
         /\ \A f \in Events : rows'[f].rank = rows[f].rank
         /\ \A c : Processed(c)' = IF c = Customer[e] THEN Processed(c) \cup {e}
                                   ELSE Processed(c)
<1>1. rows \in [Events -> Row]
  BY DEF IInv, TypeOK, TypeOKRuns
<1>2. \A f \in Events : /\ rows'[f].rank = rows[f].rank
                        /\ rows'[f].status = IF f = e THEN "processed" ELSE rows[f].status
                        /\ f # e => rows'[f].attempts = rows[f].attempts
  BY <1>1 DEF Ruled, Row
<1>3. ASSUME NEW f \in Events, Oldest(f)  PROVE Oldest(f)'
  BY <1>2, <1>3 DEF Oldest
<1>4. ServedInOrder'
  BY <1>2, <1>3 DEF ServedInOrder
<1>5. \A c : Processed(c)' = IF c = Customer[e] THEN Processed(c) \cup {e}
                             ELSE Processed(c)
  BY <1>2 DEF Processed
<1>. QED  BY <1>2, <1>4, <1>5

\* With one worker, what does not touch rows, mappings and accounts keeps all
\* customers settled.
LEMMA PollInOrder ==
  ASSUME IInv, InOrderInv, Orderly, NEW w \in Workers, Poll(w)
  PROVE  InOrderInv'
<1>1. PICK e \in Events :
         /\ rows[e].status = "pending"
         /\ \A f \in Events : Available(f) /\ rows[f].rank < rows[e].rank
                                 => rows[f].attempts > 0
         /\ work' = [work EXCEPT ![w].pc = "claimed", ![w].event = e]
  BY DEF Poll, Claim, Available
<1>2. /\ UNCHANGED <<rows, mapping, accounts, stray>>
      /\ \A v \in Workers : v = w
      /\ work[w] = Idle
  BY DEF Poll, Claim, Orderly, IInv, SessionsOwned, SessionOwned
<1>3. /\ work'[w].pc = "claimed" /\ work'[w].event = e
      /\ rows \in [Events -> Row]
  BY <1>1 DEF IInv, TypeOK, TypeOKRuns, Work
<1>4. Oldest(e)
  <2>1. SUFFICES ASSUME NEW f \in Events, rows[f].status = "pending"
                 PROVE  rows[e].rank <= rows[f].rank
    BY DEF Oldest
  <2>2. Available(f)
    BY <1>2, <2>1, HandlerRunsAssumption DEF Available, Idle
  <2>3. rows[f].attempts = 0
    BY <2>1 DEF InOrderInv, ServedInOrder
  <2>4. rows[e].rank \in Nat /\ rows[f].rank \in Nat
    BY <1>3 DEF Row
  <2>. QED  BY <1>1, <2>2, <2>3, <2>4
<1>5. ServedInOrder' /\ Oldest(e)'
  BY <1>2, <1>4 DEF InOrderInv, ServedInOrder, Oldest
<1>6. SessionsInOrder'
  BY <1>2, <1>3, <1>5 DEF SessionsInOrder, SessionInOrder, Answering
<1>7. CustomersSettled'
  <2>1. ASSUME NEW c \in Customers  PROVE Settled(c)'
    <3>1. Settled(c)
      BY <1>2 DEF InOrderInv, CustomersSettled, Answering, Idle
    <3>. QED  BY <1>2, <3>1 DEF Settled, Made, Processed
  <2>. QED  BY <2>1 DEF CustomersSettled
<1>. QED  BY <1>2, <1>5, <1>6, <1>7 DEF InOrderInv

LEMMA CallInOrder ==
  ASSUME IInv, InOrderInv, Orderly, NEW w \in Workers, CallMetronome(w)
  PROVE  InOrderInv'
<1>1. /\ UNCHANGED <<rows, mapping, accounts, stray>>
      /\ \A v \in Workers : v = w
      /\ work[w].pc = "claimed"
  BY DEF CallMetronome, NeedsCall, Orderly
<1>2. /\ work'[w].pc = "calling"
      /\ work'[w].event = work[w].event
      /\ work'[w].seen = mapping[Subject(w)]
  BY DEF CallMetronome, Found, IInv, TypeOK, TypeOKRuns, Work
<1>3. ServedInOrder'
  BY <1>1 DEF InOrderInv, ServedInOrder, Oldest
<1>4. SessionsInOrder'
  <2>1. Oldest(work[w].event)
    BY <1>1 DEF InOrderInv, SessionsInOrder, SessionInOrder, Holds
  <2>. QED
    BY <1>1, <1>2, <2>1 DEF SessionsInOrder, SessionInOrder, Oldest, Answering, Subject
<1>5. CustomersSettled'
  <2>1. ASSUME NEW c \in Customers  PROVE Settled(c)'
    <3>1. Settled(c)
      BY <1>1 DEF InOrderInv, CustomersSettled, Answering
    <3>. QED  BY <1>1, <3>1 DEF Settled, Made, Processed
  <2>. QED  BY <2>1 DEF CustomersSettled
<1>. QED  BY <1>1, <1>3, <1>4, <1>5 DEF InOrderInv

\* Metronome makes the customer's first account, or renames its only one.
LEMMA AnswerInOrder ==
  ASSUME IInv, InOrderInv, Orderly, NEW w \in Workers, MetronomeAnswers(w)
  PROVE  InOrderInv'
<1>1. /\ UNCHANGED <<rows, mapping, stray>>
      /\ \A v \in Workers : v = w
      /\ work[w].pc = "calling"
  BY DEF MetronomeAnswers, Answer, Orderly
<1>2. PICK e \in Events : e = work[w].event
  BY <1>1 DEF IInv, SessionsOwned, SessionOwned
<1>. DEFINE c == Customer[e]
            r == RequestOf(w)
<1>3. /\ e \in Events /\ c \in Customers
      /\ r.event = e /\ r.id = mapping[c] /\ c = Subject(w)
      /\ accounts \in Seq(Account)
  BY <1>2, <1>1, CustomerSyncAssumption
  DEF IInv, SessionsOwned, SessionOwned, TypeOK, InOrderInv, SessionsInOrder,
      SessionInOrder, Holds, RequestOf, Subject
<1>4. PICK id : id = IF r.id = 0 THEN Len(accounts) + 1 ELSE r.id
  OBVIOUS
<1>5. Settled(c)
  BY <1>1, <1>3 DEF InOrderInv, CustomersSettled, Answering
<1>6. ~ Conflicts(r)
  BY <1>3, <1>5 DEF Conflicts, Settled, Made
<1>7. /\ accounts' = Applied(r)
      /\ work'[w].pc = "replied" /\ work'[w].event = e
      /\ work'[w].seen = work[w].seen
      /\ work'[w].reply = [kind |-> "ok", id |-> id]
  BY <1>2, <1>6, <1>4 DEF MetronomeAnswers, Answer, IInv, TypeOK, TypeOKRuns, Work
<1>8. /\ Made(c)' = {id}
      /\ accounts'[id].name = e
      /\ \A d \in Customers : d # c => Made(d)' = Made(d)
      /\ \A i \in DOMAIN accounts : i # id => accounts'[i] = accounts[i]
  <2>1. CASE mapping[c] = 0
    <3>1. accounts' = Append(accounts, [alias |-> c, name |-> e])
      BY <1>3, <1>6, <1>7, <2>1 DEF Applied
    <3>2. /\ id = Len(accounts) + 1 /\ Len(accounts) \in Nat
          /\ DOMAIN accounts = 1 .. Len(accounts)
          /\ DOMAIN accounts' = 1 .. id
          /\ \A i \in 1 .. Len(accounts) : accounts'[i] = accounts[i]
          /\ accounts'[id] = [alias |-> c, name |-> e]
      BY <1>3, <1>4, <2>1, <3>1
    <3>3. Made(c) = {}
      BY <1>5, <2>1 DEF Settled
    <3>. QED  BY <3>2, <3>3 DEF Made
  <2>2. CASE mapping[c] # 0
    <3>1. /\ id = mapping[c] /\ id \in DOMAIN accounts
          /\ accounts' = [accounts EXCEPT ![id].name = e]
      BY <1>3, <1>6, <1>7, <1>4, <2>2 DEF Applied, IInv, MappingConfirmed
    <3>2. /\ DOMAIN accounts' = DOMAIN accounts
          /\ \A i \in DOMAIN accounts : accounts'[i].alias = accounts[i].alias
          /\ \A i \in DOMAIN accounts : i # id => accounts'[i] = accounts[i]
          /\ accounts'[id].name = e
      <4>1. accounts[id] \in Account
        BY <1>3, <3>1
      <4>. QED  BY <1>3, <3>1, <4>1 DEF Account
    <3>3. Made(c) = {id}
      BY <1>5, <2>2, <3>1 DEF Settled
    <3>. QED  BY <3>2, <3>3 DEF Made
  <2>. QED  BY <2>1, <2>2
<1>9. ServedInOrder' /\ Oldest(e)'
  BY <1>2, <1>1 DEF InOrderInv, ServedInOrder, SessionsInOrder, SessionInOrder, Holds, Oldest
<1>10. NamedAhead(w)'
  <2>1. mapping[c] = 0 => Processed(c) = {}
    BY <1>5 DEF Settled
  <2>2. mapping[c] # 0 => mapping[c] = id
    BY <1>3, <1>4
  <2>3. Subject(w)' = c
    BY <1>7 DEF Subject
  <2>. QED  BY <1>1, <1>7, <1>8, <2>1, <2>2, <2>3 DEF NamedAhead, Processed
<1>11. SessionsInOrder'
  <2>1. work[w].seen = mapping[c]
    BY <1>1, <1>3 DEF InOrderInv, SessionsInOrder, SessionInOrder, Holds
  <2>. QED
    BY <1>1, <1>7, <1>9, <1>10, <2>1 DEF SessionsInOrder, SessionInOrder, Subject
<1>12. CustomersSettled'
  <2>1. ASSUME NEW d \in Customers, d # c  PROVE Settled(d)'
    <3>1. Settled(d)
      BY <1>1 DEF InOrderInv, CustomersSettled, Answering
    <3>2. mapping[d] # 0 => mapping[d] \in DOMAIN accounts /\ mapping[d] # id
      <4>1. ASSUME mapping[d] # 0, mapping[d] = id  PROVE FALSE
        <5>1. accounts[id].alias = d /\ id \in DOMAIN accounts
          BY <4>1 DEF IInv, MappingConfirmed
        <5>2. r.id # 0
          BY <1>3, <1>4, <5>1
        <5>3. accounts[id].alias = c
          BY <1>3, <1>4, <5>2 DEF IInv, MappingConfirmed
        <5>. QED  BY <2>1, <5>1, <5>3
      <4>. QED  BY <4>1 DEF IInv, MappingConfirmed
    <3>3. mapping[d] # 0 => accounts'[mapping[d]] = accounts[mapping[d]]
      BY <1>8, <3>2
    <3>. QED  BY <1>1, <1>8, <2>1, <3>1, <3>3 DEF Settled, Processed
  <2>2. Answering(w)' /\ Subject(w)' = c
    BY <1>7 DEF Answering, Subject
  <2>. QED  BY <2>1, <2>2 DEF CustomersSettled
<1>. QED  BY <1>1, <1>9, <1>11, <1>12 DEF InOrderInv

\* The verdict is committed: the customer is settled again.
LEMMA VerdictInOrder ==
  ASSUME IInv, LocksSound, InOrderInv, Orderly, NEW w \in Workers,
         SkipAlreadyMapped(w) \/ InsertMapping(w) \/ TouchMapping(w)
  PROVE  InOrderInv'
<1>1. /\ Ruled(w, "processed") /\ EndWork(w)
      /\ UNCHANGED <<accounts, stray>>
      /\ \A v \in Workers : v = w
      /\ Holds(w)
  BY DEF SkipAlreadyMapped, InsertMapping, TouchMapping, Rule, Ruled, Orderly,
     Answered, Holds
<1>2. PICK e \in Events : e = work[w].event
  BY <1>1 DEF IInv, SessionsOwned, SessionOwned, Holds
<1>. DEFINE c == Customer[e]
<1>3. /\ c \in Customers /\ c = Subject(w)
      /\ Oldest(e) /\ rows[e].status = "pending"
      /\ rows \in [Events -> Row]
  BY <1>2, <1>1, CustomerSyncAssumption
  DEF IInv, TypeOK, TypeOKRuns, SessionsOwned, SessionOwned, LocksSound, InOrderInv,
      SessionsInOrder, SessionInOrder, Holds, Subject
<1>4. /\ ServedInOrder'
      /\ \A f \in Events : rows'[f].rank = rows[f].rank
      /\ \A d : Processed(d)' = IF d = c THEN Processed(d) \cup {e} ELSE Processed(d)
  BY <1>2, <1>1, <1>3, RuledInOrder DEF InOrderInv
<1>5. SessionsInOrder'
  BY <1>1 DEF EndWork, SessionsInOrder, SessionInOrder, Holds, Idle, IInv, TypeOK, TypeOKRuns
<1>6. \A d \in Customers : d # c => mapping'[d] = mapping[d]
  BY <1>3 DEF SkipAlreadyMapped, InsertMapping, TouchMapping, IInv, TypeOK
<1>7. ASSUME NEW d \in Customers, d # c  PROVE Settled(d)'
  <2>1. Settled(d)
    BY <1>1, <1>3, <1>7 DEF InOrderInv, CustomersSettled
  <2>. QED  BY <1>1, <1>4, <1>6, <1>7, <2>1 DEF Settled, Made, Processed
<1>8. \A f \in Processed(c) : rows[f].rank <= rows[e].rank
  BY <1>3 DEF Processed, Oldest, InOrderInv, ServedInOrder
<1>9. Settled(c)'
  <2>1. CASE SkipAlreadyMapped(w)
    <3>1. Settled(c) /\ mapping' = mapping /\ mapping[c] # 0 /\ e \in Created
      BY <1>2, <1>1, <1>3, <2>1
      DEF SkipAlreadyMapped, Found, InOrderInv, CustomersSettled, Answering
    <3>. QED  BY <1>1, <1>4, <3>1 DEF Settled, Made, Processed
  <2>2. CASE InsertMapping(w) \/ TouchMapping(w)
    <3>1. NamedAhead(w) /\ work[w].seen = mapping[c]
      BY <1>1, <1>3, <2>2
      DEF InsertMapping, TouchMapping, Answered, InOrderInv, SessionsInOrder,
          SessionInOrder, Answering
    <3>2. mapping'[c] = work[w].reply.id
      BY <1>3, <2>2, <3>1 DEF InsertMapping, TouchMapping, NamedAhead, IInv, TypeOK
    <3>3. work[w].reply.id # 0
      BY <1>3, <3>1 DEF NamedAhead, Made, IInv, TypeOK
    <3>4. Made(c)' = {mapping'[c]} /\ accounts'[mapping'[c]].name = e
      BY <1>2, <1>1, <1>3, <3>1, <3>2 DEF NamedAhead, Made
    <3>5. e \in Processed(c)'
      BY <1>4
    <3>6. \A f \in Processed(c)' : rows'[f].rank <= rows'[e].rank
      <4>1. rows[e].rank <= rows[e].rank /\ Processed(c) \subseteq Events
        BY <1>3 DEF Row, Processed
      <4>. QED  BY <1>4, <1>8, <4>1
    <3>. QED  BY <3>2, <3>3, <3>4, <3>5, <3>6 DEF Settled
  <2>. QED  BY <2>1, <2>2
<1>10. CustomersSettled'
  BY <1>7, <1>9 DEF CustomersSettled
<1>. QED  BY <1>1, <1>4, <1>5, <1>10 DEF InOrderInv

-----------------------------------------------------------------------------
(* The property.                                                           *)

LEMMA NamesStep ==
  ASSUME IInv, LocksSound, RanksSound, NamesInv, [Next]_vars
  PROVE  NamesInv'
<1>1. SUFFICES ASSUME Orderly, Smooth'  PROVE InOrderInv'
  BY DEF NamesInv, Orderly
<1>2. InOrderInv
  BY <1>1, SmoothBefore DEF NamesInv
<1>3. CASE UNCHANGED vars
  BY <1>2, <1>3
  DEF vars, InOrderInv, ServedInOrder, Oldest, SessionsInOrder, SessionInOrder, Holds,
      Answering, NamedAhead, Subject, CustomersSettled, Settled, Made, Processed
<1>. QED
  BY <1>1, <1>2, <1>3, SmoothSteps, ArriveInOrder, PollInOrder, CallInOrder,
     AnswerInOrder, VerdictInOrder

\* What the order of the rows comes to when nothing is left to do.
LEMMA NamesQuiet ==
  ASSUME IInv, LocksSound, NamesInv
  PROVE  LatestNameInOrder
<1>1. SUFFICES ASSUME Orderly, InOrderInv, NEW c \in Customers, Quiet(c), CameInOrder(c)
               PROVE  /\ mapping[c] # 0
                      /\ accounts[mapping[c]].name \in Latest(c)
                      /\ \A i \in DOMAIN accounts : accounts[i].alias = c => i = mapping[c]
  BY DEF LatestNameInOrder, NamesInv
<1>2. Processed(c) = {e \in Events : Customer[e] = c}
  BY <1>1 DEF Quiet, Processed, InOrderInv, ServedInOrder
<1>3. Settled(c)
  <2>1. ASSUME NEW w \in Workers, Answering(w)  PROVE Subject(w) # c
    <3>1. rows[work[w].event].status = "pending" /\ work[w].event \in Events
      BY <2>1 DEF Answering, LocksSound, Holds, IInv, SessionsOwned, SessionOwned
    <3>. QED  BY <1>2, <3>1 DEF Processed, Subject
  <2>. QED  BY <1>1, <2>1 DEF InOrderInv, CustomersSettled
<1>4. mapping[c] # 0
  BY <1>1, <1>2, <1>3 DEF Settled, Quiet
<1>. DEFINE n == accounts[mapping[c]].name
<1>5. /\ Made(c) = {mapping[c]}
      /\ n \in Processed(c)
      /\ \A e \in Processed(c) \ Created : rows[e].rank <= rows[n].rank
  BY <1>3, <1>4 DEF Settled
<1>6. n \in Latest(c)
  <2>1. ASSUME NEW e \in Events, Customer[e] = c  PROVE Version[e] <= Version[n]
    <3>1. /\ n \in Events /\ Customer[n] = c
          /\ Version[n] \in Nat /\ Version[e] \in Nat
          /\ rows[n].rank \in Nat /\ rows[e].rank \in Nat
      BY <1>2, <1>5, CustomerSyncAssumption DEF IInv, TypeOK, TypeOKRuns, Row
    <3>2. CASE e \in Created
      BY <1>1, <2>1, <3>1, <3>2 DEF Orderly
    <3>3. CASE e \notin Created
      BY <1>1, <1>2, <1>5, <2>1, <3>1, <3>3 DEF CameInOrder
    <3>. QED  BY <3>2, <3>3
  <2>. QED  BY <1>2, <1>5, <2>1 DEF Latest
<1>. QED  BY <1>4, <1>5, <1>6 DEF Made

\* customer.py:12-14: with one worker, no fault and no refusal, a customer whose
\* events come in the order of their payloads has one account in the end, with
\* the latest name.
THEOREM LatestNameHolds == Spec => []LatestNameInOrder
<1>1. Init => NamesInv
  BY DEF Init, InitRuns, NamesInv, InOrderInv, ServedInOrder, SessionsInOrder,
     SessionInOrder, Holds, Idle, CustomersSettled, Settled, Made, Processed
<1>2. IInv /\ LocksSound /\ RanksSound /\ NamesInv /\ [Next]_vars => NamesInv'
  BY NamesStep
<1>3. IInv /\ LocksSound /\ NamesInv => LatestNameInOrder
  BY NamesQuiet
<1>. QED  BY <1>1, <1>2, <1>3, Invariance, LocksHold, RanksHold, PTL DEF Spec
=============================================================================
