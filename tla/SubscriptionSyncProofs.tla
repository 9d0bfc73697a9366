------------------------ MODULE SubscriptionSyncProofs ------------------------
(***************************************************************************)
(* What holds of the subscription handlers for every set of events,        *)
(* subscriptions, customers and workers, every budget and every number of  *)
(* faults and refusals.                                                    *)
(*                                                                         *)
(* Metronome's contracts only grow, each under the key of its event. What  *)
(* a worker has been answered is a contract with the key of the worker's   *)
(* event, made now or found after a 409; and a worker that calls has seen  *)
(* the customer mapped. From these the committed links are what they say.  *)
(*                                                                         *)
(* The locks see to it that an event is given up only after its full       *)
(* budget and that nothing done is undone, so that every step is one of    *)
(* Provisioning.                                                           *)
(***************************************************************************)
EXTENDS SubscriptionSync, HandlerRunsProofs, SequenceTheorems

Key(e) == <<Subscription[e], Terms[e]>>

\* Contract i is there, and is for the terms of event e.
IsFor(i, e) == /\ i \in DOMAIN contracts
               /\ contracts[i].key = Key(e)

ContractsKeyed(ks) ==
    /\ \A i \in DOMAIN ks :
          /\ ks[i].event \in Events
          /\ ks[i].key = Key(ks[i].event)
          /\ ks[i].customer = CustomerOf[Subscription[ks[i].event]]
    /\ \A i, j \in DOMAIN ks : ks[i].key = ks[j].key => i = j

Calls(w) == work[w].pc \in {"calling", "listing"} \/ work[w].reply.kind = "ok"

SessionSound(w) ==
    IF work[w].pc = "idle" THEN work[w] = Idle
    ELSE /\ work[w].event \in Events
         /\ Calls(w) => CustomerFound(w) /\ ~ IsNoOp(w)
         /\ work[w].reply.kind = "ok" => IsFor(work[w].reply.id, work[w].event)

SessionsSound == \A w \in Workers : SessionSound(w)

IInv == /\ TypeOK
        /\ ContractsKeyed(contracts)
        /\ LinkConfirmed
        /\ SessionsSound

-----------------------------------------------------------------------------
(* Metronome.                                                              *)

\* Contracts are added, never changed.
Grown(ks) == \A i \in DOMAIN contracts : i \in DOMAIN ks /\ ks[i] = contracts[i]

LEMMA AppliedKeyed ==
  ASSUME contracts \in Seq(Contract), ContractsKeyed(contracts), NEW r \in Request
  PROVE  /\ Applied(r) \in Seq(Contract)
         /\ ContractsKeyed(Applied(r))
         /\ Grown(Applied(r))
<1>1. CASE Conflicts(r)
  BY <1>1 DEF Applied, Grown
<1>2. CASE ~ Conflicts(r)
  <2>. DEFINE new == [customer |-> CustomerOf[Subscription[r.event]],
                      key |-> KeyOf(r), event |-> r.event]
              n == Len(contracts)
              ks == Append(contracts, new)
  <2>1. r.event \in Events /\ KeyOf(r) = Key(r.event)
    BY DEF Request, KeyOf, Key
  <2>2. new \in Contract
    BY <2>1, SubscriptionSyncAssumption DEF Contract, Key
  <2>3. Applied(r) = ks
    BY <1>2 DEF Applied
  <2>4. /\ ks \in Seq(Contract)
        /\ DOMAIN ks = 1 .. n + 1
        /\ \A i \in 1 .. n : ks[i] = contracts[i]
        /\ ks[n + 1] = new
        /\ DOMAIN contracts = 1 .. n
        /\ n \in Nat
    BY <2>2
  <2>. HIDE DEF ks
  <2>5. \A i \in 1 .. n : contracts[i].key # new.key
    BY <1>2, <2>4 DEF Conflicts
  <2>6. /\ new.event \in Events
        /\ new.key = Key(new.event)
        /\ new.customer = CustomerOf[Subscription[new.event]]
    BY <2>1
  <2>. HIDE DEF new
  <2>7. ContractsKeyed(ks)
    <3>1. \A i \in 1 .. n + 1 : i \in 1 .. n \/ i = n + 1
      BY <2>4
    <3>. QED  BY <2>4, <2>5, <2>6, <3>1 DEF ContractsKeyed
  <2>8. Grown(ks)
    BY <2>4 DEF Grown
  <2>. QED  BY <2>3, <2>4, <2>7, <2>8
<1>. QED  BY <1>1, <1>2

LEMMA RequestType ==
  ASSUME IInv, NEW w \in Workers, work[w].pc # "idle"
  PROVE  RequestOf(w) \in Request
BY DEF IInv, TypeOK, TypeOKRuns, SessionsSound, SessionSound, RequestOf, Request, Row

\* What a step may do to Metronome's contracts.
LEMMA ContractsStep ==
  ASSUME IInv, [Next]_vars
  PROVE  /\ contracts' \in Seq(Contract)
         /\ ContractsKeyed(contracts')
         /\ Grown(contracts')
<1>1. contracts \in Seq(Contract) /\ ContractsKeyed(contracts) /\ Grown(contracts)
      /\ stray \subseteq Request
  BY DEF IInv, TypeOK, Grown
<1>2. ASSUME NEW w \in Workers, MetronomeCreates(w) \/ MetronomeRefuses(w)
      PROVE  contracts' = contracts \/ \E r \in Request : contracts' = Applied(r)
  <2>1. work[w].pc # "idle"
    BY <1>2 DEF MetronomeCreates, MetronomeRefuses
  <2>. QED  BY <1>2, <2>1, RequestType DEF MetronomeCreates, MetronomeRefuses
<1>3. ASSUME NEW r \in stray, StrayEnds(r)
      PROVE  contracts' = contracts \/ contracts' = Applied(r)
  BY <1>3 DEF StrayEnds
<1>4. \/ contracts' = contracts
      \/ \E w \in Workers : MetronomeCreates(w) \/ MetronomeRefuses(w)
      \/ \E r \in stray : StrayEnds(r)
  BY DEF Next, vars, Arrive, MapCustomer, Poll, Handle, Acknowledge, Settle,
     SkipAlreadyMapped, RejectPayload, AwaitCustomer, CallMetronome, InsertLink,
     InsertCollides, CallFailed, Rollback, MetronomeLists, ListMisses, Resend, CallFails,
     LoseReply
<1>. QED  BY <1>1, <1>2, <1>3, <1>4, AppliedKeyed

-----------------------------------------------------------------------------
(* The database.                                                           *)

LEMMA CustomersStep ==
  ASSUME IInv, [Next]_vars
  PROVE  customers \subseteq customers' /\ customers' \subseteq Customers
<1>1. customers' = customers \/ \E c \in Customers : MapCustomer(c)
  BY DEF Next, vars, Arrive, Poll, Handle, Acknowledge, Settle,
     SkipAlreadyMapped, RejectPayload, AwaitCustomer, CallMetronome, InsertLink,
     InsertCollides, CallFailed, Rollback, MetronomeCreates, MetronomeLists,
     ListMisses, MetronomeRefuses, Resend, CallFails, LoseReply, StrayEnds
<1>. QED  BY <1>1 DEF MapCustomer, IInv, TypeOK

\* What a step may do to the links: nothing, or the insert of a contract of
\* the subscription's own, for a subscription that has none.
LEMMA LinksStep ==
  ASSUME IInv, [Next]_vars
  PROVE  \/ links' = links
         \/ \E w \in Workers :
               /\ InsertLink(w)
               /\ work[w].event \in Events
               /\ CustomerFound(w)
               /\ IsFor(work[w].reply.id, work[w].event)
               /\ links[Subject(w)] = NoLink
               /\ links' = [links EXCEPT ![Subject(w)] = NewLink(w)]
<1>1. ASSUME NEW w \in Workers, InsertLink(w)
      PROVE  /\ work[w].event \in Events
             /\ CustomerFound(w)
             /\ IsFor(work[w].reply.id, work[w].event)
             /\ links[Subject(w)] = NoLink
             /\ links' = [links EXCEPT ![Subject(w)] = NewLink(w)]
  <2>1. /\ work[w].event \in Events
        /\ CustomerFound(w)
        /\ IsFor(work[w].reply.id, work[w].event)
    BY <1>1 DEF InsertLink, Answered, IInv, SessionsSound, SessionSound, Calls
  <2>2. Subject(w) \in Subscriptions
    BY <2>1, SubscriptionSyncAssumption DEF Subject
  <2>. QED  BY <1>1, <2>1, <2>2 DEF InsertLink, Taken
<1>2. links' = links \/ \E w \in Workers : InsertLink(w)
  BY DEF Next, vars, Arrive, MapCustomer, Poll, Handle, Acknowledge, Settle,
     SkipAlreadyMapped, RejectPayload, AwaitCustomer, CallMetronome,
     InsertCollides, CallFailed, Rollback, MetronomeCreates, MetronomeLists,
     ListMisses, MetronomeRefuses, Resend, CallFails, LoseReply, StrayEnds
<1>. QED  BY <1>1, <1>2

LEMMA LinkKept ==
  ASSUME IInv, [Next]_vars, NEW s \in Subscriptions, links[s] # NoLink
  PROVE  links'[s] = links[s]
BY LinksStep DEF IInv, TypeOK

\* A new link in full.
LEMMA NewLinkConfirmed ==
  ASSUME IInv, NEW w \in Workers, work[w].event \in Events,
         IsFor(work[w].reply.id, work[w].event)
  PROVE  /\ NewLink(w) \in Link
         /\ NewLink(w).contract \in DOMAIN contracts
         /\ LET k == contracts[NewLink(w).contract]
            IN  /\ k.customer = CustomerOf[Subject(w)]
                /\ Subscription[k.event] = Subject(w)
                /\ Terms[k.event] = NewLink(w).terms
<1>. DEFINE k == contracts[work[w].reply.id]
<1>1. /\ NewLink(w).contract = work[w].reply.id
      /\ NewLink(w).terms = Terms[work[w].event]
  BY DEF NewLink
<1>2. work[w].reply.id \in DOMAIN contracts /\ k.key = Key(work[w].event)
  BY DEF IsFor
<1>3. k.key = Key(k.event) /\ k.customer = CustomerOf[Subscription[k.event]]
  BY <1>2 DEF IInv, ContractsKeyed
<1>4. Subscription[k.event] = Subject(w) /\ Terms[k.event] = Terms[work[w].event]
  BY <1>2, <1>3 DEF Key, Subject
<1>5. work[w].reply.id \in Nat
  BY <1>2 DEF IInv, TypeOK
<1>. QED
  BY <1>1, <1>2, <1>3, <1>4, <1>5, SubscriptionSyncAssumption DEF Link, NewLink

LEMMA LinkConfirmedStep ==
  ASSUME IInv, [Next]_vars
  PROVE  LinkConfirmed' /\ links' \in [Subscriptions -> Link]
<1>1. links \in [Subscriptions -> Link] /\ NoLink \in Link
  BY DEF IInv, TypeOK, NoLink, Link
<1>2. ASSUME NEW s \in Subscriptions, links[s] # NoLink
      PROVE  /\ CustomerOf[s] \in customers'
             /\ links[s].contract \in DOMAIN contracts'
             /\ LET k == contracts'[links[s].contract]
                IN  /\ k.customer = CustomerOf[s]
                    /\ Subscription[k.event] = s
                    /\ Terms[k.event] = links[s].terms
  BY <1>2, CustomersStep, ContractsStep DEF IInv, LinkConfirmed, Grown
<1>3. CASE links' = links
  BY <1>1, <1>2, <1>3 DEF LinkConfirmed
<1>4. ASSUME NEW w \in Workers, work[w].event \in Events, CustomerFound(w),
             IsFor(work[w].reply.id, work[w].event),
             links[Subject(w)] = NoLink,
             links' = [links EXCEPT ![Subject(w)] = NewLink(w)]
      PROVE  LinkConfirmed' /\ links' \in [Subscriptions -> Link]
  <2>. DEFINE new == NewLink(w)
  <2>1. /\ new \in Link
        /\ new.contract \in DOMAIN contracts
        /\ LET k == contracts[new.contract]
           IN  /\ k.customer = CustomerOf[Subject(w)]
               /\ Subscription[k.event] = Subject(w)
               /\ Terms[k.event] = new.terms
    BY <1>4, NewLinkConfirmed
  <2>2. CustomerOf[Subject(w)] \in customers'
    BY <1>4, CustomersStep DEF CustomerFound
  <2>. HIDE DEF new
  <2>3. links' = [links EXCEPT ![Subject(w)] = new]
    BY <1>4 DEF new
  <2>4. ASSUME NEW s \in Subscriptions, links'[s] # NoLink
        PROVE  /\ CustomerOf[s] \in customers'
               /\ links'[s].contract \in DOMAIN contracts'
               /\ LET k == contracts'[links'[s].contract]
                  IN  /\ k.customer = CustomerOf[s]
                      /\ Subscription[k.event] = s
                      /\ Terms[k.event] = links'[s].terms
    <3>1. CASE s = Subject(w)
      <4>1. links'[s] = new
        BY <1>1, <2>3, <3>1
      <4>2. new.contract \in DOMAIN contracts'
            /\ contracts'[new.contract] = contracts[new.contract]
        BY <2>1, ContractsStep DEF Grown
      <4>. QED  BY <2>1, <2>2, <3>1, <4>1, <4>2
    <3>2. CASE s # Subject(w)
      <4>1. links'[s] = links[s]
        BY <1>1, <2>3, <3>2
      <4>. QED  BY <1>2, <2>4, <4>1
    <3>. QED  BY <3>1, <3>2
  <2>. QED  BY <1>1, <2>1, <2>3, <2>4 DEF LinkConfirmed
<1>. QED  BY <1>3, <1>4, LinksStep

-----------------------------------------------------------------------------
(* The rows.                                                               *)

Verdicts == {"processed", "failed", "pending"}

LEMMA RowsStep ==
  ASSUME IInv, [Next]_vars
  PROVE  \/ rows' = rows
         \/ \E e \in Events : Insert(e)
         \/ \E w \in Workers, status \in Verdicts :
               work[w].event \in Events /\ Ruled(w, status)
<1>1. ASSUME NEW w \in Workers, Handle(w)
      PROVE  \/ rows' = rows
             \/ work[w].pc # "idle" /\ \E status \in Verdicts : Ruled(w, status)
  BY <1>1
  DEF Handle, Acknowledge, SkipAlreadyMapped, RejectPayload, AwaitCustomer, Settle,
      PayloadIs, CallMetronome, InsertLink, InsertCollides, CallFailed, Answered,
      RuleOnFailure, RetryStatus, Rule, Ruled, Verdicts
<1>2. ASSUME NEW w \in Workers, work[w].pc # "idle"
      PROVE  work[w].event \in Events
  BY <1>2 DEF IInv, SessionsSound, SessionSound
<1>3. \/ rows' = rows
      \/ \E e \in Events : Insert(e)
      \/ \E w \in Workers : Handle(w)
  BY DEF Next, vars, Arrive, MapCustomer, Poll, Claim, Rollback, MetronomeCreates,
     MetronomeLists, ListMisses, MetronomeRefuses, Resend, CallFails, LoseReply, Answer,
     StrayEnds
<1>. QED  BY <1>1, <1>2, <1>3

-----------------------------------------------------------------------------
(* The sessions.                                                           *)

\* A call that ends without an id.
BadAnswer(w) == /\ work[w].pc # "idle"
                /\ \E kind \in ReplyKinds \ {"ok"} : Answer(w, Bad(kind))

\* A call that ends with the contract asked for.
GoodAnswer(w) == /\ Calls(w)
                 /\ \E i \in Nat : /\ Answer(w, [kind |-> "ok", id |-> i])
                                  /\ i \in DOMAIN contracts'
                                  /\ contracts'[i].key = Key(work[w].event)

\* A create that is refused with a 409.
Conflict(w) == /\ work[w].pc = "calling"
               /\ work' = [work EXCEPT ![w].pc = "listing"]

LEMMA CreatesStep ==
  ASSUME IInv, NEW w \in Workers, MetronomeCreates(w)
  PROVE  GoodAnswer(w) \/ Conflict(w)
<1>. DEFINE r == RequestOf(w)
            new == [customer |-> CustomerOf[Subscription[r.event]],
                    key |-> KeyOf(r), event |-> r.event]
<1>1. work[w].pc = "calling" /\ contracts \in Seq(Contract) /\ Len(contracts) \in Nat
  BY DEF MetronomeCreates, IInv, TypeOK
<1>2. CASE Conflicts(r)
  BY <1>1, <1>2 DEF MetronomeCreates, Conflict
<1>3. CASE ~ Conflicts(r)
  <2>1. KeyOf(r) = Key(work[w].event)
    BY DEF KeyOf, RequestOf, Key
  <2>2. contracts' = Append(contracts, new)
    BY <1>3 DEF MetronomeCreates, Applied
  <2>3. /\ Len(contracts) + 1 \in DOMAIN contracts'
        /\ contracts'[Len(contracts) + 1] = new
    <3>. HIDE DEF new
    <3>. QED  BY <1>1, <2>2
  <2>4. Answer(w, [kind |-> "ok", id |-> Len(contracts) + 1])
    BY <1>3 DEF MetronomeCreates
  <2>. QED  BY <1>1, <2>1, <2>3, <2>4 DEF GoodAnswer, Calls
<1>. QED  BY <1>2, <1>3

\* No two contracts have the same key, so the first that matches is the one.
LEMMA ListsStep ==
  ASSUME IInv, NEW w \in Workers, MetronomeLists(w)
  PROVE  GoodAnswer(w) \/ BadAnswer(w)
<1>1. /\ work[w].pc = "listing"
      /\ contracts \in Seq(Contract)
      /\ contracts' = contracts
      /\ DOMAIN contracts \subseteq Nat
  BY DEF MetronomeLists, IInv, TypeOK
<1>2. CASE Listed(w) = {}
  BY <1>1, <1>2 DEF MetronomeLists, BadAnswer, ReplyKinds
<1>3. CASE Listed(w) # {}
  <2>1. \A i \in Listed(w) : /\ i \in DOMAIN contracts
                             /\ contracts[i].key = Key(work[w].event)
    BY DEF Listed, KeyOf, RequestOf, Key
  <2>2. PICK i \in Listed(w) : TRUE
    BY <1>3
  <2>3. \A j \in Listed(w) : i <= j
    BY <1>1, <2>1, <2>2 DEF IInv, ContractsKeyed
  <2>. DEFINE first == CHOOSE k \in Listed(w) : \A j \in Listed(w) : k <= j
  <2>4. first \in Listed(w)
    BY <2>2, <2>3
  <2>5. Answer(w, [kind |-> "ok", id |-> first])
    BY <1>3 DEF MetronomeLists
  <2>. HIDE DEF first
  <2>. QED  BY <1>1, <2>1, <2>4, <2>5 DEF GoodAnswer, Calls
<1>. QED  BY <1>2, <1>3

\* What a step may do to the sessions.
LEMMA WorkStep ==
  ASSUME IInv, [Next]_vars
  PROVE  \/ work' = work
         \/ \E w \in Workers : \/ EndWork(w) \/ Claim(w) \/ CallMetronome(w)
                               \/ Conflict(w) \/ GoodAnswer(w) \/ BadAnswer(w)
<1>1. ASSUME NEW w \in Workers, Handle(w) \/ Rollback(w)
      PROVE  EndWork(w) \/ CallMetronome(w)
  BY <1>1 DEF Handle, Rollback, Acknowledge, SkipAlreadyMapped, RejectPayload,
     AwaitCustomer, Settle, InsertLink, InsertCollides, CallFailed, RuleOnFailure, Rule
<1>2. ASSUME NEW w \in Workers,
             ListMisses(w) \/ MetronomeRefuses(w) \/ CallFails(w) \/ LoseReply(w)
      PROVE  BadAnswer(w)
  BY <1>2 DEF ListMisses, MetronomeRefuses, CallFails, LoseReply, Answered,
     BadAnswer, ReplyKinds
<1>3. ASSUME \/ \E e \in Events : Arrive(e)
             \/ \E c \in Customers : MapCustomer(c)
             \/ \E r \in stray : StrayEnds(r)
             \/ \E w \in Workers : Resend(w)
             \/ UNCHANGED vars
      PROVE  work' = work
  BY <1>3 DEF Arrive, MapCustomer, StrayEnds, Resend, vars
<1>. QED  BY <1>1, <1>2, <1>3, CreatesStep, ListsStep DEF Next, Poll

\* What a worker knows stays true while others act.
LEMMA KnownKept ==
  ASSUME IInv, [Next]_vars, NEW w \in Workers, NEW e \in Events, NEW i
  PROVE  /\ CustomerOf[Subscription[e]] \in customers
              => CustomerOf[Subscription[e]] \in customers'
         /\ IsFor(i, e) => i \in DOMAIN contracts' /\ contracts'[i].key = Key(e)
BY CustomersStep, ContractsStep DEF IsFor, Grown

LEMMA SessionsStep ==
  ASSUME IInv, [Next]_vars
  PROVE  SessionsSound'
<1>1. SUFFICES ASSUME NEW w \in Workers  PROVE SessionSound(w)'
  BY DEF SessionsSound
<1>2. work \in [Workers -> Work] /\ SessionSound(w)
  BY DEF IInv, TypeOK, TypeOKRuns, SessionsSound
<1>. DEFINE e == work[w].event
            Mapped0 == CustomerOf[Subscription[e]] \in customers
            Mapped1 == CustomerOf[Subscription[e]] \in customers'
            For1(i) == i \in DOMAIN contracts' /\ contracts'[i].key = Key(e)
\* All that has to be shown of a session that goes on with its event.
<1>3. ASSUME work[w].pc # "idle", work'[w].pc # "idle", work'[w].event = e,
             Calls(w)' => Mapped1 /\ e \notin NoOps,
             work'[w].reply.kind = "ok" => For1(work'[w].reply.id)
      PROVE  SessionSound(w)'
  BY <1>2, <1>3 DEF SessionSound, CustomerFound, IsNoOp, Subject, IsFor
<1>4. work[w].pc # "idle" =>
        /\ e \in Events
        /\ Mapped0 => Mapped1
        /\ Calls(w) => Mapped1 /\ e \notin NoOps
        /\ work[w].reply.kind = "ok" => For1(work[w].reply.id)
  BY <1>2, KnownKept DEF SessionSound, CustomerFound, IsNoOp, Subject
<1>5. CASE work'[w] = work[w]
  <2>1. CASE work[w].pc = "idle"
    BY <1>2, <1>5, <2>1 DEF SessionSound
  <2>2. CASE work[w].pc # "idle"
    BY <1>3, <1>4, <1>5, <2>2 DEF Calls
  <2>. QED  BY <2>1, <2>2
<1>6. CASE work'[w] # work[w]
  <2>1. \/ EndWork(w) \/ Claim(w) \/ CallMetronome(w)
        \/ Conflict(w) \/ GoodAnswer(w) \/ BadAnswer(w)
    <3>1. PICK v \in Workers : \/ EndWork(v) \/ Claim(v) \/ CallMetronome(v)
                              \/ Conflict(v) \/ GoodAnswer(v) \/ BadAnswer(v)
      BY <1>6, WorkStep
    <3>2. \A u \in Workers : u # v => work'[u] = work[u]
      BY <1>2, <3>1
      DEF EndWork, Claim, CallMetronome, Conflict, GoodAnswer, BadAnswer, Answer
    <3>. QED  BY <1>6, <3>1, <3>2
  <2>2. CASE EndWork(w)
    BY <1>2, <2>2 DEF EndWork, SessionSound, Idle
  <2>3. CASE Claim(w)
    <3>1. PICK f \in Events : work' = [work EXCEPT ![w].pc = "claimed", ![w].event = f]
      BY <2>3 DEF Claim
    <3>2. work[w] = Idle
      BY <1>2, <2>3 DEF Claim, SessionSound
    <3>3. /\ work'[w].pc = "claimed"
          /\ work'[w].event = f
          /\ work'[w].reply.kind = "none"
      BY <1>2, <3>1, <3>2 DEF Idle, Bad
    <3>. QED  BY <3>3 DEF SessionSound, Calls
  <2>4. CASE CallMetronome(w)
    <3>1. work[w].pc # "idle" /\ Mapped0 /\ e \notin NoOps
      BY <2>4 DEF CallMetronome, PayloadIs, CustomerFound, Subject, IsNew, IsNoOp
    <3>2. /\ work'[w].pc = "calling"
          /\ work'[w].event = e
          /\ work'[w].reply = work[w].reply
      BY <1>2, <2>4 DEF CallMetronome, Work
    <3>. QED  BY <1>3, <1>4, <3>1, <3>2
  <2>5. CASE Conflict(w)
    <3>1. /\ work'[w].pc = "listing"
          /\ work'[w].event = e
          /\ work'[w].reply = work[w].reply
      BY <1>2, <2>5 DEF Conflict, Work
    <3>. QED  BY <1>3, <1>4, <2>5, <3>1 DEF Conflict, Calls
  <2>6. CASE GoodAnswer(w)
    <3>1. PICK i \in Nat : /\ Answer(w, [kind |-> "ok", id |-> i])
                          /\ For1(i)
      BY <2>6 DEF GoodAnswer
    <3>2. work[w].pc # "idle"
      BY <1>2, <2>6 DEF GoodAnswer, Calls, SessionSound, Idle, Bad
    <3>3. /\ work'[w].pc = "replied"
          /\ work'[w].event = e
          /\ work'[w].reply = [kind |-> "ok", id |-> i]
      BY <1>2, <3>1 DEF Answer, Work
    <3>. QED  BY <1>3, <1>4, <2>6, <3>1, <3>2, <3>3 DEF GoodAnswer
  <2>7. CASE BadAnswer(w)
    <3>1. PICK kind \in ReplyKinds \ {"ok"} : Answer(w, Bad(kind))
      BY <2>7 DEF BadAnswer
    <3>2. /\ work'[w].pc = "replied"
          /\ work'[w].event = e
          /\ work'[w].reply.kind # "ok"
      BY <1>2, <3>1 DEF Answer, Bad, Work
    <3>. QED  BY <1>3, <2>7, <3>2 DEF BadAnswer, Calls
  <2>. QED  BY <2>1, <2>2, <2>3, <2>4, <2>5, <2>6, <2>7
<1>. QED  BY <1>5, <1>6

-----------------------------------------------------------------------------
(* Type correctness.                                                       *)

LEMMA WorkTypeStep ==
  ASSUME IInv, [Next]_vars
  PROVE  work' \in [Workers -> Work]
<1>1. work \in [Workers -> Work]
  BY DEF IInv, TypeOK, TypeOKRuns
<1>2. ASSUME NEW w \in Workers, CallMetronome(w) \/ Conflict(w)
      PROVE  work' \in [Workers -> Work]
  BY <1>1, <1>2 DEF CallMetronome, Conflict, Work, Steps
<1>3. ASSUME NEW w \in Workers, GoodAnswer(w) \/ BadAnswer(w)
      PROVE  \E reply \in Reply : Answer(w, reply)
  BY <1>3 DEF GoodAnswer, BadAnswer, Bad, Reply, ReplyKinds
<1>. QED  BY <1>1, <1>2, <1>3, WorkStep, EndWorkType, ClaimType, AnswerType

LEMMA StrayStep ==
  ASSUME IInv, [Next]_vars
  PROVE  stray' \subseteq Request
<1>1. stray \subseteq Request
  BY DEF IInv, TypeOK
<1>2. \/ stray' \subseteq stray
      \/ \E w \in Workers : /\ work[w].pc = "calling"
                            /\ stray' = stray \cup {RequestOf(w)}
  BY DEF Next, vars, Arrive, MapCustomer, Poll, Handle, Acknowledge, Settle,
     SkipAlreadyMapped, RejectPayload, AwaitCustomer, CallMetronome, InsertLink,
     InsertCollides, CallFailed, Rollback, MetronomeCreates, MetronomeLists,
     ListMisses, MetronomeRefuses, Resend, CallFails, LoseReply, StrayEnds
<1>. QED  BY <1>1, <1>2, RequestType

LEMMA TypeStep ==
  ASSUME IInv, [Next]_vars
  PROVE  TypeOK'
<1>1. faults' \in 0 .. MaxFaults /\ refusals' \in 0 .. MaxRefusals
  <2>1. (faults' = faults \/ Fault) /\ (refusals' = refusals \/ Refusal)
    BY DEF Next, vars, Arrive, MapCustomer, Poll, Claim, Handle, Acknowledge, Settle,
       SkipAlreadyMapped, RejectPayload, AwaitCustomer, CallMetronome, InsertLink,
       InsertCollides, CallFailed, RuleOnFailure, Rule, Rollback, MetronomeCreates,
       MetronomeLists, ListMisses, MetronomeRefuses, Resend, CallFails, LoseReply, StrayEnds
  <2>. QED
    BY <2>1, HandlerRunsAssumption DEF Fault, Refusal, IInv, TypeOK, TypeOKRuns
<1>2. rows' \in [Events -> Row]
  BY RowsStep, InsertType, RuledType DEF IInv, TypeOK, TypeOKRuns, Verdicts, Statuses
<1>. QED
  BY <1>1, <1>2, WorkTypeStep, StrayStep, CustomersStep, LinkConfirmedStep,
     ContractsStep
  DEF TypeOK, TypeOKRuns

-----------------------------------------------------------------------------
(* The properties of the subscription handlers.                            *)

\* The strengthened invariant is inductive: contracts have the keys of their
\* events, and what workers and links name is for their own event.
THEOREM Invariance == Spec => []IInv
<1>1. Init => IInv
  <2>. SUFFICES ASSUME Init  PROVE IInv
    OBVIOUS
  <2>. USE DEF Init, InitRuns
  <2>1. TypeOK
    BY HandlerRunsAssumption, SubscriptionSyncAssumption
    DEF TypeOK, TypeOKRuns, Row, Statuses, Idle, Bad, Work, Steps, Reply,
        ReplyKinds, NoLink, Link
  <2>2. ContractsKeyed(contracts) /\ LinkConfirmed
    BY DEF ContractsKeyed, LinkConfirmed
  <2>3. SessionsSound
    BY DEF SessionsSound, SessionSound, Idle
  <2>. QED  BY <2>1, <2>2, <2>3 DEF IInv
<1>2. IInv /\ [Next]_vars => IInv'
  BY TypeStep, ContractsStep, LinkConfirmedStep, SessionsStep
  DEF IInv, ContractsKeyed, Key
<1>. QED  BY <1>1, <1>2, PTL DEF Spec

\* Rows, sessions, links, contracts and requests keep to their types.
THEOREM TypeCorrect == Spec => []TypeOK
BY Invariance, PTL DEF IInv

\* models.py:122-140: a subscription_mappings row names a contract on the
\* subscription's own customer, for its own price and period, and comes after
\* the customer's row, through any recovery from a 409.
THEOREM LinkConfirmedHolds == Spec => []LinkConfirmed
BY Invariance, PTL DEF IInv

\* mappers/subscription.py:113-116: one contract for the same terms, however
\* many workers, retries and late requests there are.
THEOREM OneContractPerTermsHolds == Spec => []OneContractPerTerms
<1>1. ContractsKeyed(contracts) => OneContractPerTerms
  BY DEF ContractsKeyed, OneContractPerTerms, Key
<1>. QED  BY <1>1, Invariance, PTL DEF IInv

\* A committed link is never overwritten or removed.
THEOREM LinkStableHolds == Spec => LinkStable
<1>1. IInv /\ [Next]_vars
        => [\A s \in Subscriptions : links[s] # NoLink => links'[s] = links[s]]_vars
  BY LinkKept
<1>. QED  BY <1>1, Invariance, PTL DEF Spec, LinkStable

-----------------------------------------------------------------------------
(* The locks.                                                              *)

LEMMA RowsUnderLock ==
  ASSUME IInv, [Next]_vars
  PROVE  UnderLock
<1>1. SUFFICES ASSUME NEW e \in Events, rows[e].status # "absent", rows'[e] # rows[e]
               PROVE  \E w \in Workers : Holds(w) /\ work[w].event = e /\ EndWork(w)
  BY DEF UnderLock
<1>2. rows \in [Events -> Row]
  BY DEF IInv, TypeOK, TypeOKRuns
<1>3. ~ \E f \in Events : Insert(f)
  BY <1>1, <1>2 DEF Insert
<1>4. PICK w \in Workers : Handle(w)
  BY <1>1, <1>3 DEF Next, vars, Arrive, MapCustomer, Poll, Claim, Rollback,
     MetronomeCreates, MetronomeLists, ListMisses, MetronomeRefuses, Resend, CallFails,
     LoseReply, Answer, StrayEnds
<1>5. Holds(w) /\ \E status \in {"processed", "failed", RetryStatus(w)} : Rule(w, status)
  BY <1>1, <1>4 DEF Handle, Holds, Acknowledge, SkipAlreadyMapped, RejectPayload,
     AwaitCustomer, Settle, PayloadIs, CallMetronome, InsertLink, InsertCollides,
     CallFailed, RuleOnFailure, Answered
<1>6. EndWork(w) /\ \E status : Ruled(w, status)
  BY <1>5 DEF Rule, Ruled
<1>7. work[w].event = e
  BY <1>1, <1>2, <1>6 DEF Ruled
<1>. QED  BY <1>5, <1>6, <1>7

LEMMA LocksStep ==
  ASSUME IInv, LocksSound, [Next]_vars
  PROVE  LocksSound'
<1>1. rows \in [Events -> Row] /\ work \in [Workers -> Work]
  BY DEF IInv, TypeOK, TypeOKRuns
<1>2. EventsHeld
  BY DEF IInv, SessionsSound, SessionSound, EventsHeld, Holds, Idle
<1>3. CASE work' = work
  BY <1>1, <1>2, <1>3, RowsUnderLock, LocksKept DEF NobodyClaims
<1>4. ASSUME NEW u \in Workers, EndWork(u)  PROVE NobodyClaims
  BY <1>1, <1>4 DEF EndWork, NobodyClaims
<1>5. ASSUME NEW u \in Workers,
             CallMetronome(u) \/ Conflict(u) \/ GoodAnswer(u) \/ BadAnswer(u)
      PROVE  NobodyClaims
  <2>1. Holds(u)
    BY <1>2, <1>5 DEF CallMetronome, PayloadIs, Conflict, GoodAnswer, BadAnswer, Calls,
       Holds, IInv, SessionsSound, SessionSound, Idle, Bad
  <2>2. work'[u].event = work[u].event
    BY <1>1, <1>5 DEF CallMetronome, Conflict, GoodAnswer, BadAnswer, Answer, Work
  <2>3. \A v \in Workers : v # u => work'[v] = work[v]
    BY <1>1, <1>5 DEF CallMetronome, Conflict, GoodAnswer, BadAnswer, Answer
  <2>. QED  BY <2>1, <2>2, <2>3 DEF NobodyClaims
<1>6. ASSUME NEW u \in Workers, Claim(u)  PROVE \E e \in Events : Takes(u, e)
  BY <1>1, <1>6, ClaimTakes
<1>7. DOMAIN work = Workers
  BY <1>1
<1>. QED
  BY <1>2, <1>3, <1>4, <1>5, <1>6, <1>7, WorkStep, RowsUnderLock, LocksKept

\* A row that a worker holds is pending, and no other worker holds it.
THEOREM LocksHold == Spec => []LocksSound
<1>1. Init => LocksSound
  BY DEF Init, InitRuns, LocksSound, Holds, Idle
<1>2. IInv /\ LocksSound /\ [Next]_vars => LocksSound'
  BY LocksStep
<1>. QED  BY <1>1, <1>2, Invariance, PTL DEF Spec

-----------------------------------------------------------------------------
(* The budget.                                                             *)

\* A row that may still be tried has attempts left, and only a refusal leaves
\* a permanent answer.
BudgetLeft ==
    /\ \A e \in Events : rows[e].status \in {"absent", "pending"}
                            => rows[e].attempts < MaxAttempts
    /\ \A w \in Workers : work[w].reply.kind = "permanent" => refusals # 0

\* A row is changed by its arrival, or by a verdict with its reason.
LEMMA RowChanges ==
  ASSUME IInv, [Next]_vars, NEW e \in Events, rows'[e] # rows[e]
  PROVE  \/ /\ rows[e].status = "absent" /\ rows'[e].status = "pending"
            /\ rows'[e].attempts = rows[e].attempts
         \/ \E w \in Workers : \E status \in {"processed", "failed", RetryStatus(w)} :
               /\ Holds(w) /\ work[w].event = e
               /\ rows'[e].status = status
               /\ rows'[e].attempts = rows[e].attempts + 1
               /\ refusals' = refusals
               /\ \/ status # "failed"
                  \/ status = RetryStatus(w)
                  \/ Shape[e] # "ok"
                  \/ work[w].reply.kind = "permanent"
<1>1. rows \in [Events -> Row]
  BY DEF IInv, TypeOK, TypeOKRuns
<1>2. CASE \E f \in Events : Insert(f)
  BY <1>1, <1>2 DEF Insert, Row
<1>3. CASE ~ \E f \in Events : Insert(f)
  <2>1. PICK w \in Workers : Handle(w)
    BY <1>3 DEF Next, vars, Arrive, MapCustomer, Poll, Claim, Rollback,
       MetronomeCreates, MetronomeLists, ListMisses, MetronomeRefuses, Resend, CallFails,
       LoseReply, Answer, StrayEnds
  <2>2. PICK status \in {"processed", "failed", RetryStatus(w)} :
           /\ Holds(w) /\ Rule(w, status)
           /\ \/ status # "failed" \/ status = RetryStatus(w)
              \/ Shape[work[w].event] # "ok" \/ work[w].reply.kind = "permanent"
    BY <2>1 DEF Handle, Holds, Acknowledge, SkipAlreadyMapped, RejectPayload,
       AwaitCustomer, Settle, PayloadIs, CallMetronome, InsertLink, InsertCollides,
       CallFailed, RuleOnFailure, Answered
  <2>3. work[w].event = e
    BY <1>1, <2>2 DEF Rule
  <2>4. /\ rows'[e].status = status /\ rows'[e].attempts = rows[e].attempts + 1
        /\ refusals' = refusals
    BY <1>1, <2>2, <2>3 DEF Rule, Row
  <2>. QED  BY <2>2, <2>3, <2>4
<1>. QED  BY <1>2, <1>3

LEMMA RefusalsStep ==
  ASSUME [Next]_vars
  PROVE  refusals' = refusals \/ Refusal
<1>1. ASSUME NEW w \in Workers, Handle(w)
      PROVE  refusals' = refusals
  BY <1>1 DEF Handle, Acknowledge, Settle, SkipAlreadyMapped, RejectPayload, AwaitCustomer,
     CallMetronome, InsertLink, InsertCollides, CallFailed, RuleOnFailure, Rule
<1>2. ASSUME NEW w \in Workers, \/ MetronomeCreates(w) \/ MetronomeLists(w) \/ Resend(w)
                                \/ CallFails(w) \/ LoseReply(w) \/ Poll(w) \/ Rollback(w)
      PROVE  refusals' = refusals
  BY <1>2 DEF MetronomeCreates, MetronomeLists, Resend, CallFails, LoseReply, Poll, Claim,
     Rollback
<1>3. ASSUME NEW w \in Workers, ListMisses(w) \/ MetronomeRefuses(w)
      PROVE  Refusal
  BY <1>3 DEF ListMisses, MetronomeRefuses
<1>4. ASSUME \/ \E e \in Events : Arrive(e)
             \/ \E c \in Customers : MapCustomer(c)
             \/ \E r \in stray : StrayEnds(r)
             \/ UNCHANGED vars
      PROVE  refusals' = refusals
  BY <1>4 DEF Arrive, MapCustomer, StrayEnds, vars
<1>. QED  BY <1>1, <1>2, <1>3, <1>4 DEF Next

LEMMA PermanentStep ==
  ASSUME work \in [Workers -> Work], [Next]_vars, NEW w \in Workers,
         work'[w].reply.kind = "permanent", work[w].reply.kind # "permanent"
  PROVE  Refusal
<1>1. ASSUME NEW v \in Workers, Handle(v) \/ Rollback(v) \/ Poll(v)
      PROVE  FALSE
  <2>1. EndWork(v) \/ CallMetronome(v) \/ Claim(v)
    BY <1>1 DEF Handle, Rollback, Poll, Acknowledge, SkipAlreadyMapped, RejectPayload,
       AwaitCustomer, Settle, InsertLink, InsertCollides, CallFailed, RuleOnFailure, Rule
  <2>. QED  BY <2>1 DEF EndWork, CallMetronome, Claim, Idle, Bad, Work
<1>2. ASSUME NEW v \in Workers, NEW reply, Answer(v, reply), reply.kind # "permanent"
      PROVE  FALSE
  BY <1>2 DEF Answer, Work
<1>3. ASSUME NEW v \in Workers, MetronomeCreates(v)
      PROVE  FALSE
  <2>1. CASE work' = [work EXCEPT ![v].pc = "listing"]
    BY <2>1 DEF Work
  <2>. QED  BY <1>2, <1>3, <2>1 DEF MetronomeCreates
<1>4. ASSUME NEW v \in Workers,
             MetronomeLists(v) \/ ListMisses(v) \/ CallFails(v) \/ LoseReply(v)
      PROVE  FALSE
  BY <1>2, <1>4 DEF MetronomeLists, ListMisses, CallFails, LoseReply, Bad
<1>5. ASSUME NEW v \in Workers, MetronomeRefuses(v)
      PROVE  Refusal
  BY <1>5 DEF MetronomeRefuses
<1>6. ASSUME \/ \E e \in Events : Arrive(e)
             \/ \E c \in Customers : MapCustomer(c)
             \/ \E r \in stray : StrayEnds(r)
             \/ \E v \in Workers : Resend(v)
             \/ UNCHANGED vars
      PROVE  FALSE
  BY <1>6 DEF Arrive, MapCustomer, StrayEnds, Resend, vars
<1>. QED  BY <1>1, <1>3, <1>4, <1>5, <1>6 DEF Next

LEMMA BudgetStep ==
  ASSUME IInv, LocksSound, BudgetLeft, FailedAfterFullBudget, [Next]_vars
  PROVE  BudgetLeft' /\ FailedAfterFullBudget'
<1>1. rows \in [Events -> Row] /\ work \in [Workers -> Work]
      /\ refusals \in Nat /\ MaxAttempts \in Nat
  BY HandlerRunsAssumption DEF IInv, TypeOK, TypeOKRuns
<1>2. refusals' \in Nat /\ (refusals # 0 => refusals' # 0)
  BY <1>1, RefusalsStep DEF Refusal
<1>3. ASSUME NEW e \in Events, rows'[e] # rows[e]
      PROVE  /\ rows'[e].status \in {"absent", "pending"} => rows'[e].attempts < MaxAttempts
             /\ Shape[e] = "ok" /\ rows'[e].status = "failed" /\ refusals' = 0
                    => rows'[e].attempts = MaxAttempts
  <2>1. CASE /\ rows[e].status = "absent" /\ rows'[e].status = "pending"
             /\ rows'[e].attempts = rows[e].attempts
    BY <2>1 DEF BudgetLeft
  <2>2. ASSUME NEW w \in Workers, NEW status \in {"processed", "failed", RetryStatus(w)},
               Holds(w), work[w].event = e,
               rows'[e].status = status, rows'[e].attempts = rows[e].attempts + 1,
               refusals' = refusals,
               \/ status # "failed" \/ status = RetryStatus(w)
               \/ Shape[e] # "ok" \/ work[w].reply.kind = "permanent"
        PROVE  /\ rows'[e].status \in {"absent", "pending"}
                      => rows'[e].attempts < MaxAttempts
               /\ Shape[e] = "ok" /\ rows'[e].status = "failed" /\ refusals' = 0
                      => rows'[e].attempts = MaxAttempts
    <3>1. rows[e].attempts \in Nat /\ rows[e].attempts < MaxAttempts
      BY <1>1, <2>2 DEF LocksSound, BudgetLeft, Row
    <3>2. /\ RetryStatus(w) = "pending" => rows[e].attempts + 1 < MaxAttempts
          /\ RetryStatus(w) = "failed" => rows[e].attempts + 1 >= MaxAttempts
          /\ RetryStatus(w) \in {"pending", "failed"}
      BY <1>1, <2>2, <3>1 DEF RetryStatus
    <3>3. work[w].reply.kind = "permanent" => refusals # 0
      BY DEF BudgetLeft
    <3>. QED  BY <1>1, <2>2, <3>1, <3>2, <3>3
  <2>. QED  BY <1>3, <2>1, <2>2, RowChanges
<1>4. ASSUME NEW w \in Workers, work'[w].reply.kind = "permanent"
      PROVE  refusals' # 0
  <2>1. CASE work[w].reply.kind = "permanent"
    BY <1>2, <2>1 DEF BudgetLeft
  <2>2. CASE work[w].reply.kind # "permanent"
    BY <1>1, <1>4, <2>2, PermanentStep DEF Refusal
  <2>. QED  BY <2>1, <2>2
<1>. QED  BY <1>2, <1>3, <1>4 DEF BudgetLeft, FailedAfterFullBudget

\* subscription.py:14-21: a well-formed event that Metronome has not refused
\* fails only after all its attempts.
THEOREM FullBudget == Spec => []FailedAfterFullBudget
<1>1. Init => BudgetLeft /\ FailedAfterFullBudget
  BY HandlerRunsAssumption
  DEF Init, InitRuns, BudgetLeft, FailedAfterFullBudget, Idle, Bad
<1>2. /\ IInv /\ LocksSound /\ BudgetLeft /\ FailedAfterFullBudget /\ [Next]_vars
         => BudgetLeft' /\ FailedAfterFullBudget'
  BY BudgetStep
<1>. QED  BY <1>1, <1>2, Invariance, LocksHold, PTL DEF Spec

-----------------------------------------------------------------------------
(* The refinement.                                                         *)

Made(s) == {i \in DOMAIN contracts : Subscription[contracts[i].event] = s}

LEMMA LinkNamed ==
  ASSUME IInv, NEW s \in Subscriptions
  PROVE  links[s].contract # 0 <=> links[s] # NoLink
<1>1. CASE links[s] # NoLink
  BY <1>1 DEF IInv, TypeOK, LinkConfirmed
<1>2. CASE links[s] = NoLink
  BY <1>2 DEF NoLink
<1>. QED  BY <1>1, <1>2

\* A row that becomes processed is one event's, and that is a no-op's or its
\* subscription is linked.
LEMMA DoneStep ==
  ASSUME IInv, LocksSound, [Next]_vars
  PROVE  \/ Done' = Done
         \/ \E e \in Events :
               /\ e \in NoOps \/ links'[Subscription[e]] # NoLink
               /\ Done' = Done \cup {e}
<1>1. SUFFICES ASSUME NEW e \in Done', e \notin Done
               PROVE  /\ e \in NoOps \/ links'[Subscription[e]] # NoLink
                      /\ Done' = Done \cup {e}
  BY RowsUnderLock, DoneKept DEF Done
<1>2. rows \in [Events -> Row] /\ e \in Events /\ rows'[e].status = "processed"
  BY <1>1 DEF IInv, TypeOK, TypeOKRuns, Done
<1>3. rows' # rows /\ ~ \E f \in Events : Insert(f)
  <2>1. ASSUME NEW f \in Events, Insert(f)  PROVE Done' \subseteq Done
    BY <1>2, <2>1 DEF Insert, Done, Row
  <2>. QED  BY <1>1, <2>1 DEF Done
<1>4. PICK w \in Workers : Handle(w) /\ \E status : Ruled(w, status)
  <2>1. PICK w \in Workers : Handle(w)
    BY <1>3 DEF Next, vars, Arrive, MapCustomer, Poll, Claim, Rollback,
       MetronomeCreates, MetronomeLists, ListMisses, MetronomeRefuses, Resend, CallFails,
       LoseReply, Answer, StrayEnds
  <2>2. \E status : Ruled(w, status)
    BY <1>3, <2>1 DEF Handle, Acknowledge, SkipAlreadyMapped, RejectPayload,
       AwaitCustomer, Settle, CallMetronome, InsertLink, InsertCollides, CallFailed,
       RuleOnFailure, Rule, Ruled
  <2>. QED  BY <2>1, <2>2
<1>5. \A f \in Events : f # work[w].event => rows'[f] = rows[f]
  BY <1>2, <1>4 DEF Ruled
<1>6. e = work[w].event
  BY <1>1, <1>2, <1>5 DEF Done
<1>7. Done' \subseteq Done \cup {e}
  BY <1>5, <1>6 DEF Done
<1>8. \/ Acknowledge(w) \/ SkipAlreadyMapped(w) \/ InsertLink(w)
  <2>1. ASSUME NEW status \in {"failed", RetryStatus(w)}, Rule(w, status)
        PROVE  rows'[e].status # "processed"
    BY <1>2, <1>6, <2>1 DEF Rule, RetryStatus, Row
  <2>2. ~ (CallMetronome(w) \/ InsertCollides(w))
    BY <1>3 DEF CallMetronome, InsertCollides
  <2>. QED
    BY <1>2, <1>4, <2>1, <2>2 DEF Handle, RejectPayload, AwaitCustomer, Settle,
       CallFailed, RuleOnFailure
<1>9. e \in NoOps \/ links'[Subscription[e]] # NoLink
  <2>1. CASE Acknowledge(w)
    BY <1>6, <2>1 DEF Acknowledge, IsNoOp
  <2>2. CASE SkipAlreadyMapped(w)
    BY <1>6, <2>2 DEF SkipAlreadyMapped, Settle, Found, Subject
  <2>3. CASE InsertLink(w)
    <3>1. IsFor(work[w].reply.id, e)
      BY <1>6, <2>3 DEF InsertLink, Answered, IInv, SessionsSound, SessionSound
    <3>2. work[w].reply.id # 0
      BY <3>1 DEF IsFor, IInv, TypeOK
    <3>3. Subscription[e] \in Subscriptions /\ links \in [Subscriptions -> Link]
      BY <1>2, SubscriptionSyncAssumption DEF IInv, TypeOK
    <3>4. links'[Subscription[e]] = NewLink(w)
      BY <1>6, <2>3, <3>3 DEF InsertLink, Subject
    <3>. QED  BY <3>2, <3>4 DEF NewLink, NoLink
  <2>. QED  BY <1>8, <2>1, <2>2, <2>3
<1>. QED  BY <1>1, <1>7, <1>9, RowsUnderLock, DoneKept

\* A step that changes Metronome's contracts carries out a request, and makes
\* a contract of that subscription.
LEMMA MakesStep ==
  ASSUME IInv, [Next]_vars, contracts' # contracts
  PROVE  /\ links' = links /\ rows' = rows
         /\ \E s \in Subscriptions : \E i :
               /\ \A t : i \notin Made(t)
               /\ \A t : Made(t)' = IF t = s THEN Made(t) \cup {i} ELSE Made(t)
<1>1. ASSUME NEW w \in Workers, MetronomeCreates(w) \/ MetronomeRefuses(w)
      PROVE  /\ links' = links /\ rows' = rows
             /\ \E r \in Request : contracts' = Applied(r)
  <2>1. work[w].pc # "idle"
    BY <1>1 DEF MetronomeCreates, MetronomeRefuses
  <2>. QED
    BY <1>1, <2>1, RequestType DEF MetronomeCreates, MetronomeRefuses, Answer
<1>2. ASSUME NEW r \in stray, StrayEnds(r)
      PROVE  /\ links' = links /\ rows' = rows
             /\ r \in Request /\ contracts' = Applied(r)
  BY <1>2 DEF StrayEnds, IInv, TypeOK
<1>3. \/ \E w \in Workers : MetronomeCreates(w) \/ MetronomeRefuses(w)
      \/ \E r \in stray : StrayEnds(r)
  BY DEF Next, vars, Arrive, MapCustomer, Poll, Handle, Acknowledge, Settle,
     SkipAlreadyMapped, RejectPayload, AwaitCustomer, CallMetronome, InsertLink,
     InsertCollides, CallFailed, Rollback, MetronomeLists, ListMisses, Resend, CallFails,
     LoseReply
<1>4. PICK r \in Request : contracts' = Applied(r)
  BY <1>1, <1>2, <1>3
<1>. DEFINE s == Subscription[r.event]
            new == [customer |-> CustomerOf[s], key |-> KeyOf(r), event |-> r.event]
            i == Len(contracts) + 1
<1>5. contracts' = Append(contracts, new)
  BY <1>4 DEF Applied
<1>6. contracts \in Seq(Contract) /\ s \in Subscriptions /\ Subscription[new.event] = s
  BY SubscriptionSyncAssumption DEF IInv, TypeOK, Request
<1>. HIDE DEF new
<1>7. /\ DOMAIN contracts = 1 .. Len(contracts) /\ Len(contracts) \in Nat
      /\ DOMAIN contracts' = 1 .. i
      /\ \A j \in 1 .. Len(contracts) : contracts'[j] = contracts[j]
      /\ contracts'[i] = new
  BY <1>5, <1>6
<1>8. \A t : i \notin Made(t)
  BY <1>7 DEF Made
<1>9. \A t : Made(t)' = IF t = s THEN Made(t) \cup {i} ELSE Made(t)
  BY <1>6, <1>7 DEF Made
<1>. QED  BY <1>1, <1>2, <1>3, <1>6, <1>8, <1>9

\* Every step makes, links or finishes something, or none of it.
LEMMA RefinementStep ==
  ASSUME IInv, IInv', LocksSound, [Next]_vars
  PROVE  [P!Next]_(P!vars)
<1>. DEFINE made == [s \in Subscriptions |-> Made(s)]
            linked == [s \in Subscriptions |-> links[s].contract]
<1>1. links \in [Subscriptions -> Link]
  BY DEF IInv, TypeOK
<1>2. CASE contracts' # contracts
  <2>1. linked' = linked /\ Done' = Done
    BY <1>2, MakesStep DEF Done
  <2>2. PICK s \in Subscriptions :
           \E i : /\ \A t : i \notin Made(t)
                  /\ \A t : Made(t)' = IF t = s THEN Made(t) \cup {i} ELSE Made(t)
    BY <1>2, MakesStep
  <2>3. PICK i :
           /\ \A t : i \notin Made(t)
           /\ \A t : Made(t)' = IF t = s THEN Made(t) \cup {i} ELSE Made(t)
    BY <2>2
  <2>4. /\ i \in made'[s]
        /\ \A t \in Subscriptions : i \notin made[t]
        /\ made' = [made EXCEPT ![s] = @ \cup {i}]
    BY <2>3
  <2>5. P!Make(s)
    BY <2>1, <2>4 DEF P!Make, Made, Done
  <2>. QED  BY <2>5 DEF P!Next
<1>3. CASE contracts' = contracts /\ links' # links
  <2>1. made' = made
    BY <1>3 DEF Made
  <2>2. PICK w \in Workers :
           /\ InsertLink(w)
           /\ work[w].event \in Events
           /\ IsFor(work[w].reply.id, work[w].event)
           /\ links[Subject(w)] = NoLink
           /\ links' = [links EXCEPT ![Subject(w)] = NewLink(w)]
    BY <1>3, LinksStep
  <2>3. PICK e \in Events : e = work[w].event
    BY <2>2
  <2>4. Ruled(w, "processed") /\ rows \in [Events -> Row]
    BY <2>2 DEF InsertLink, Rule, Ruled, IInv, TypeOK, TypeOKRuns
  <2>5. Done' = Done \cup {e}
    BY <2>3, <2>4 DEF Ruled, Done, Row
  <2>6. e \notin NoOps
    BY <2>2, <2>3 DEF InsertLink, Answered, IInv, SessionsSound, SessionSound, Calls, IsNoOp
  <2>7. Subscription[e] # None /\ Subscription[e] \in Subscriptions /\ Subject(w) = Subscription[e]
    BY <2>3, SubscriptionSyncAssumption DEF Subject
  <2>8. work[w].reply.id \in made[Subscription[e]]
    <3>1. /\ work[w].reply.id \in DOMAIN contracts
          /\ contracts[work[w].reply.id].key = Key(e)
      BY <2>2, <2>3 DEF IsFor
    <3>2. contracts[work[w].reply.id].key = Key(contracts[work[w].reply.id].event)
      BY <3>1 DEF IInv, ContractsKeyed
    <3>. QED  BY <2>7, <3>1, <3>2 DEF Made, Key
  <2>9. linked' = [linked EXCEPT ![Subscription[e]] = work[w].reply.id]
    BY <1>1, <2>2, <2>7 DEF NewLink
  <2>10. linked[Subscription[e]] = 0
    BY <2>2, <2>7 DEF NoLink
  <2>11. P!Link(e)
    BY <2>1, <2>5, <2>6, <2>7, <2>8, <2>9, <2>10 DEF P!Link, P!Linked, Made, Done
  <2>. QED  BY <2>11 DEF P!Next
<1>4. CASE contracts' = contracts /\ links' = links
  <2>1. made' = made /\ linked' = linked
    BY <1>4 DEF Made
  <2>2. CASE Done' = Done
    BY <2>1, <2>2 DEF P!vars, Made, Done
  <2>3. ASSUME NEW e \in Events, e \in NoOps \/ links'[Subscription[e]] # NoLink,
               Done' = Done \cup {e}
        PROVE  P!Finish(e)
    <3>1. e \in NoOps \/ linked[Subscription[e]] # 0
      BY <1>4, <2>3, LinkNamed, SubscriptionSyncAssumption
    <3>. QED
      BY <2>1, <2>3, <3>1, SubscriptionSyncAssumption DEF P!Finish, P!Linked, Made, Done
  <2>. QED  BY <2>2, <2>3, DoneStep DEF P!Next
<1>. QED  BY <1>2, <1>3, <1>4

\* Whatever happens on the way, a subscription is linked at most once, to a
\* contract made for it, and none of its created events counts as processed
\* before (SubscriptionSync implements Provisioning).
THEOREM Refinement == Spec => ImplementsProvisioning
<1>1. Init => P!Init
  BY DEF Init, InitRuns, P!Init, NoLink
<1>2. IInv /\ IInv' /\ LocksSound /\ [Next]_vars => [P!Next]_(P!vars)
  BY RefinementStep
<1>. QED  BY <1>1, <1>2, Invariance, LocksHold, PTL DEF Spec, P!Spec, ImplementsProvisioning
=============================================================================
