------------------------- MODULE CustomerSyncProofs -------------------------
(***************************************************************************)
(* What holds of the customer handlers for every set of events, customers  *)
(* and workers, every budget and every number of faults and refusals,      *)
(* whether or not Metronome refuses an alias twice and whatever order the  *)
(* events come in.                                                         *)
(*                                                                         *)
(* MappingConfirmed speaks of what is committed.  To last it needs the     *)
(* same of what is on its way: the mapping a handler has looked up, the    *)
(* id it has been answered, and the account a stray rename is for all      *)
(* belong to the customer of the event they are about.                     *)
(*                                                                         *)
(* A step that makes, links or finishes something for Provisioning is      *)
(* found by what it changes: an account, a mapping, or a row alone. That   *)
(* nothing done is ever undone takes one more invariant: a row that a      *)
(* worker holds is pending and held by no other.                           *)
(***************************************************************************)
EXTENDS CustomerSync, HandlerRunsProofs, SequenceTheorems

\* Account i is there and its ingest alias is the customer c.
Owns(i, c) == i \in DOMAIN accounts /\ accounts[i].alias = c

RequestOwned(r) == /\ r \in Request
                   /\ r.id # 0 => Owns(r.id, Customer[r.event])

StrayOwned == \A r \in stray : RequestOwned(r)

SessionOwned(w) ==
    IF work[w].pc = "idle" THEN work[w] = Idle
    ELSE /\ work[w].event \in Events
         /\ work[w].seen # 0 => mapping[Subject(w)] = work[w].seen
         /\ work[w].reply.kind = "ok" => Owns(work[w].reply.id, Subject(w))

SessionsOwned == \A w \in Workers : SessionOwned(w)

IInv == /\ TypeOK
        /\ MappingConfirmed
        /\ ProcessedIsMapped
        /\ StrayOwned
        /\ SessionsOwned

-----------------------------------------------------------------------------
(* Metronome.                                                              *)

NamesOwned(accs) ==
    \A i \in DOMAIN accs : Customer[accs[i].name] = accs[i].alias

\* Accounts are added and renamed, never removed or given another alias.
Grown(accs) == \A i \in DOMAIN accounts :
                  i \in DOMAIN accs /\ accs[i].alias = accounts[i].alias

\* A request for a customer's own account keeps every name with its customer.
LEMMA AppliedGrows ==
  ASSUME accounts \in Seq(Account), NamesOwned(accounts), NEW r, RequestOwned(r)
  PROVE  /\ Applied(r) \in Seq(Account)
         /\ NamesOwned(Applied(r))
         /\ Grown(Applied(r))
<1>1. CASE Conflicts(r)
  BY <1>1 DEF Applied, Grown
<1>2. CASE ~Conflicts(r) /\ r.id = 0
  <2>. DEFINE new == [alias |-> Customer[r.event], name |-> r.event]
  <2>1. new \in Account /\ r.event \in Events
    BY CustomerSyncAssumption DEF RequestOwned, Request, Account
  <2>2. Applied(r) = Append(accounts, new)
    BY <1>2 DEF Applied
  <2>3. /\ Append(accounts, new) \in Seq(Account)
        /\ DOMAIN Append(accounts, new) = 1 .. Len(accounts) + 1
        /\ \A i \in 1 .. Len(accounts) : Append(accounts, new)[i] = accounts[i]
        /\ Append(accounts, new)[Len(accounts) + 1] = new
        /\ DOMAIN accounts = 1 .. Len(accounts)
        /\ Len(accounts) \in Nat
    BY <2>1
  <2>4. NamesOwned(Append(accounts, new))
    <3>1. SUFFICES ASSUME NEW i \in 1 .. Len(accounts) + 1
                   PROVE  Customer[Append(accounts, new)[i].name]
                            = Append(accounts, new)[i].alias
      BY <2>3 DEF NamesOwned
    <3>2. CASE i \in 1 .. Len(accounts)
      BY <2>3, <3>2 DEF NamesOwned
    <3>3. CASE i = Len(accounts) + 1
      BY <2>3, <3>3
    <3>. QED  BY <2>3, <3>2, <3>3
  <2>5. Grown(Append(accounts, new))
    BY <2>3 DEF Grown
  <2>. QED  BY <2>2, <2>3, <2>4, <2>5
<1>3. CASE ~Conflicts(r) /\ r.id # 0
  <2>1. /\ r.id \in DOMAIN accounts
        /\ accounts[r.id].alias = Customer[r.event]
        /\ r.event \in Events
    BY <1>3 DEF RequestOwned, Owns, Request
  <2>. DEFINE accs == [accounts EXCEPT ![r.id].name = r.event]
  <2>2. Applied(r) = accs
    BY <1>3 DEF Applied
  <2>3. DOMAIN accs = DOMAIN accounts
    OBVIOUS
  <2>4. \A i \in DOMAIN accounts :
           /\ accounts[i] \in Account
           /\ accs[i] \in Account
           /\ accs[i].alias = accounts[i].alias
           /\ accs[i].name = IF i = r.id THEN r.event ELSE accounts[i].name
    <3>1. SUFFICES ASSUME NEW i \in DOMAIN accounts
                   PROVE  /\ accounts[i] \in Account
                          /\ accs[i] \in Account
                          /\ accs[i].alias = accounts[i].alias
                          /\ accs[i].name = IF i = r.id THEN r.event
                                                        ELSE accounts[i].name
      OBVIOUS
    <3>2. accounts[i] \in Account
      OBVIOUS
    <3>3. CASE i = r.id
      <4>1. accs[i] = [accounts[i] EXCEPT !.name = r.event]
        BY <2>1, <3>3
      <4>. QED  BY <2>1, <3>2, <3>3, <4>1 DEF Account
    <3>4. CASE i # r.id
      <4>1. accs[i] = accounts[i]
        BY <2>1, <3>4
      <4>. QED  BY <3>2, <3>4, <4>1
    <3>. QED  BY <3>3, <3>4
  <2>5. accs \in Seq(Account)
    <3>1. /\ Len(accounts) \in Nat
          /\ DOMAIN accounts = 1 .. Len(accounts)
      OBVIOUS
    <3>2. accs \in [1 .. Len(accounts) -> Account]
      BY <2>4, <3>1
    <3>. QED  BY <3>1, <3>2, SeqDef
  <2>6. NamesOwned(accs) /\ Grown(accs)
    BY <2>1, <2>3, <2>4 DEF NamesOwned, Grown
  <2>. QED  BY <2>2, <2>5, <2>6
<1>. QED  BY <1>1, <1>2, <1>3

\* The request of a call under way is for the caller's own customer.
LEMMA CallOwned ==
  ASSUME IInv, NEW w \in Workers, work[w].pc = "calling"
  PROVE  RequestOwned(RequestOf(w)) /\ work[w].event \in Events
<1>1. /\ work[w].event \in Events
      /\ work[w].seen # 0 => mapping[Subject(w)] = work[w].seen
      /\ work[w].seen \in Nat
      /\ rows[work[w].event].attempts \in Nat
  BY DEF IInv, SessionsOwned, SessionOwned, TypeOK, TypeOKRuns, Work, Row
<1>2. Subject(w) \in Customers
  BY <1>1, CustomerSyncAssumption DEF Subject
<1>. QED
  BY <1>1, <1>2
  DEF RequestOwned, Owns, RequestOf, Request, Subject, IInv, MappingConfirmed

\* What a step may do to Metronome's accounts.
LEMMA AccountsStep ==
  ASSUME IInv, [Next]_vars
  PROVE  /\ accounts' \in Seq(Account)
         /\ NamesOwned(accounts')
         /\ Grown(accounts')
<1>1. accounts \in Seq(Account) /\ NamesOwned(accounts) /\ Grown(accounts)
  BY DEF IInv, TypeOK, MappingConfirmed, NamesOwned, Grown
<1>2. ASSUME NEW w \in Workers, MetronomeAnswers(w) \/ MetronomeRefuses(w)
      PROVE  accounts' = accounts
               \/ (accounts' = Applied(RequestOf(w)) /\ RequestOwned(RequestOf(w)))
  BY <1>2, CallOwned DEF MetronomeAnswers, MetronomeRefuses
<1>3. ASSUME NEW r \in stray, StrayEnds(r)
      PROVE  accounts' = accounts \/ (accounts' = Applied(r) /\ RequestOwned(r))
  BY <1>3 DEF StrayEnds, IInv, StrayOwned
<1>4. \/ accounts' = accounts
      \/ \E w \in Workers : MetronomeAnswers(w) \/ MetronomeRefuses(w)
      \/ \E r \in stray : StrayEnds(r)
  BY DEF Next, vars, Arrive, Poll, Handle, SkipAlreadyMapped, FailUnmappable,
     CallMetronome, InsertMapping, InsertCollides, TouchMapping, CallFailed,
     Rollback, Resend, CallFails, LoseReply
<1>. QED  BY <1>1, <1>2, <1>3, <1>4, AppliedGrows

-----------------------------------------------------------------------------
(* The database.                                                           *)

\* What a step may do to the mappings: nothing, or the insert of an id that
\* belongs to the customer, for a customer that has none.
LEMMA MappingStep ==
  ASSUME IInv, [Next]_vars
  PROVE  \/ mapping' = mapping
         \/ \E w \in Workers :
               /\ InsertMapping(w)
               /\ Subject(w) \in Customers
               /\ mapping[Subject(w)] = 0
               /\ Owns(work[w].reply.id, Subject(w))
               /\ mapping' = [mapping EXCEPT ![Subject(w)] = work[w].reply.id]
<1>1. ASSUME NEW w \in Workers, InsertMapping(w)
      PROVE  /\ Subject(w) \in Customers
             /\ mapping[Subject(w)] = 0
             /\ Owns(work[w].reply.id, Subject(w))
             /\ mapping' = [mapping EXCEPT ![Subject(w)] = work[w].reply.id]
  <2>1. work[w].event \in Events /\ Owns(work[w].reply.id, Subject(w))
    BY <1>1 DEF InsertMapping, Answered, IInv, SessionsOwned, SessionOwned
  <2>. QED  BY <1>1, <2>1, CustomerSyncAssumption DEF InsertMapping, Found, Subject
<1>2. mapping' = mapping \/ \E w \in Workers : InsertMapping(w)
  BY DEF Next, vars, Arrive, Poll, Handle, SkipAlreadyMapped, FailUnmappable,
     CallMetronome, InsertCollides, TouchMapping, CallFailed, Rollback,
     MetronomeAnswers, MetronomeRefuses, Resend, CallFails, LoseReply, StrayEnds
<1>. QED  BY <1>1, <1>2

\* A mapping that is there stays as it is.
LEMMA MappingKept ==
  ASSUME IInv, [Next]_vars, NEW c \in Customers, mapping[c] # 0
  PROVE  mapping'[c] = mapping[c]
BY MappingStep DEF IInv, TypeOK

LEMMA MappingConfirmedStep ==
  ASSUME IInv, [Next]_vars
  PROVE  MappingConfirmed'
<1>1. ASSUME NEW c \in Customers, mapping'[c] # 0
      PROVE  mapping'[c] \in DOMAIN accounts /\ accounts[mapping'[c]].alias = c
  BY <1>1, MappingStep DEF IInv, TypeOK, MappingConfirmed, Owns
<1>. QED  BY <1>1, AccountsStep DEF MappingConfirmed, Grown, NamesOwned

\* What a step may do to the rows: an insert, or the verdict of a worker.
LEMMA RowsStep ==
  ASSUME IInv, [Next]_vars
  PROVE  \/ rows' = rows
         \/ \E e \in Events : Insert(e)
         \/ \E w \in Workers :
               /\ work[w].event \in Events
               /\ \/ Ruled(w, "failed") \/ Ruled(w, "pending")
                  \/ Ruled(w, "processed") /\ mapping'[Subject(w)] # 0
<1>1. ASSUME NEW w \in Workers, work[w].pc # "idle"
      PROVE  work[w].event \in Events /\ Subject(w) \in Customers
  BY <1>1, CustomerSyncAssumption DEF IInv, SessionsOwned, SessionOwned, Subject
<1>2. ASSUME NEW w \in Workers, Handle(w)
      PROVE  \/ rows' = rows
             \/ /\ work[w].pc # "idle"
                /\ \/ Ruled(w, "failed") \/ Ruled(w, "pending")
                   \/ Ruled(w, "processed") /\ mapping'[Subject(w)] # 0
  <2>1. CASE SkipAlreadyMapped(w)
    BY <2>1 DEF SkipAlreadyMapped, Rule, Ruled, Found
  <2>2. CASE FailUnmappable(w)
    BY <2>2 DEF FailUnmappable, NeedsCall, Rule, Ruled
  <2>3. CASE CallMetronome(w) \/ InsertCollides(w)
    BY <2>3 DEF CallMetronome, InsertCollides
  <2>4. CASE InsertMapping(w)
    <3>1. work[w].pc # "idle" /\ Ruled(w, "processed")
      BY <2>4 DEF InsertMapping, Answered, Rule, Ruled
    <3>2. Owns(work[w].reply.id, Subject(w))
      BY <2>4 DEF InsertMapping, Answered, IInv, SessionsOwned, SessionOwned
    <3>3. work[w].reply.id # 0
      BY <3>2 DEF Owns, IInv, TypeOK
    <3>4. mapping'[Subject(w)] = work[w].reply.id
      BY <1>1, <2>4, <3>1 DEF InsertMapping, IInv, TypeOK
    <3>. QED  BY <3>1, <3>3, <3>4
  <2>5. CASE TouchMapping(w)
    <3>1. mapping[Subject(w)] = work[w].seen
      BY <2>5 DEF TouchMapping, Answered, IInv, SessionsOwned, SessionOwned
    <3>. QED  BY <2>5, <3>1 DEF TouchMapping, Answered, Rule, Ruled
  <2>6. CASE CallFailed(w)
    BY <2>6 DEF CallFailed, RuleOnFailure, Answered, Rule, Ruled, RetryStatus
  <2>. QED  BY <1>2, <2>1, <2>2, <2>3, <2>4, <2>5, <2>6 DEF Handle
<1>3. \/ rows' = rows
      \/ \E e \in Events : Insert(e)
      \/ \E w \in Workers : Handle(w)
  BY DEF Next, vars, Arrive, Poll, Claim, Rollback, MetronomeAnswers,
     MetronomeRefuses, Resend, CallFails, LoseReply, Answer, StrayEnds
<1>. QED  BY <1>1, <1>2, <1>3

LEMMA ProcessedIsMappedStep ==
  ASSUME IInv, [Next]_vars
  PROVE  ProcessedIsMapped'
<1>1. SUFFICES ASSUME NEW e \in Events, rows'[e].status = "processed"
               PROVE  mapping'[Customer[e]] # 0
  BY DEF ProcessedIsMapped
<1>2. Customer[e] \in Customers
  BY CustomerSyncAssumption
<1>3. rows[e] \in Row /\ rows \in [Events -> Row]
  BY DEF IInv, TypeOK, TypeOKRuns
<1>4. CASE rows[e].status = "processed"
  BY <1>2, <1>4, MappingKept DEF IInv, ProcessedIsMapped
<1>5. CASE rows[e].status # "processed"
  <2>1. ~ \E f \in Events : Insert(f)
    BY <1>1, <1>3, <1>5 DEF Insert, Row
  <2>2. PICK w \in Workers :
           /\ work[w].event \in Events
           /\ \/ Ruled(w, "failed") \/ Ruled(w, "pending")
              \/ Ruled(w, "processed") /\ mapping'[Subject(w)] # 0
    BY <1>1, <1>5, <2>1, RowsStep
  <2>3. ~ Ruled(w, "failed") /\ ~ Ruled(w, "pending") /\ e = work[w].event
    BY <1>1, <1>3, <1>5, <2>2 DEF Ruled, Row
  <2>. QED  BY <2>2, <2>3 DEF Subject
<1>. QED  BY <1>4, <1>5

-----------------------------------------------------------------------------
(* What is on its way.                                                     *)

\* Owns, once the step is taken.
OwnsNext(i, c) == i \in DOMAIN accounts' /\ accounts'[i].alias = c

\* An account that is a customer's stays the customer's.
LEMMA OwnsKept ==
  ASSUME IInv, [Next]_vars, NEW i, NEW c, Owns(i, c)
  PROVE  OwnsNext(i, c)
BY AccountsStep DEF Owns, OwnsNext, Grown

LEMMA StrayStep ==
  ASSUME IInv, [Next]_vars
  PROVE  StrayOwned'
<1>1. ASSUME NEW r, RequestOwned(r)
      PROVE  RequestOwned(r)'
  BY <1>1, OwnsKept DEF RequestOwned, Owns, OwnsNext
<1>2. ASSUME NEW r \in stray', r \notin stray
      PROVE  RequestOwned(r)
  <2>1. \E w \in Workers : work[w].pc = "calling" /\ r = RequestOf(w)
    BY <1>2 DEF Next, vars, Arrive, Poll, Handle, SkipAlreadyMapped,
       FailUnmappable, CallMetronome, InsertMapping, InsertCollides,
       TouchMapping, CallFailed, Rollback, MetronomeAnswers, MetronomeRefuses,
       Resend, CallFails, LoseReply, StrayEnds
  <2>. QED  BY <2>1, CallOwned
<1>. QED  BY <1>1, <1>2 DEF StrayOwned, IInv

\* The sessions of the workers that do not act are as sound as before.
LEMMA SessionKept ==
  ASSUME IInv, [Next]_vars, NEW w \in Workers, work'[w] = work[w]
  PROVE  SessionOwned(w)'
<1>1. CASE work[w].pc = "idle"
  BY <1>1 DEF IInv, SessionsOwned, SessionOwned
<1>2. CASE work[w].pc # "idle"
  <2>1. /\ work[w].event \in Events
        /\ Subject(w) \in Customers
        /\ work[w].seen # 0 => mapping[Subject(w)] = work[w].seen
        /\ work[w].reply.kind = "ok" => Owns(work[w].reply.id, Subject(w))
    BY <1>2, CustomerSyncAssumption DEF IInv, SessionsOwned, SessionOwned, Subject
  <2>3. work[w].seen # 0 => mapping'[Subject(w)] = work[w].seen
    BY <2>1, MappingKept
  <2>4. work[w].reply.kind = "ok" => OwnsNext(work[w].reply.id, Subject(w))
    BY <2>1, OwnsKept
  <2>. QED  BY <1>2, <2>1, <2>3, <2>4 DEF SessionOwned, Subject, Owns, OwnsNext
<1>. QED  BY <1>1, <1>2

\* A call that ends without an id.
BadAnswer(w) == /\ work[w].pc # "idle"
                /\ mapping' = mapping
                /\ \E kind \in ReplyKinds \ {"ok"} : Answer(w, Bad(kind))

\* What a step may do to the sessions.
LEMMA WorkStep ==
  ASSUME [Next]_vars
  PROVE  \/ work' = work
         \/ \E w \in Workers : \/ EndWork(w) \/ Poll(w) \/ CallMetronome(w)
                               \/ MetronomeAnswers(w) \/ BadAnswer(w)
<1>1. ASSUME NEW w \in Workers, Handle(w) \/ Rollback(w)
      PROVE  EndWork(w) \/ CallMetronome(w)
  BY <1>1 DEF Handle, Rollback, SkipAlreadyMapped, FailUnmappable, InsertMapping,
     InsertCollides, TouchMapping, CallFailed, RuleOnFailure, Rule
<1>2. ASSUME NEW w \in Workers,
             MetronomeRefuses(w) \/ CallFails(w) \/ LoseReply(w)
      PROVE  BadAnswer(w)
  BY <1>2 DEF MetronomeRefuses, CallFails, LoseReply, Answered, BadAnswer, ReplyKinds
<1>3. ASSUME \/ \E e \in Events : Arrive(e)
             \/ \E r \in stray : StrayEnds(r)
             \/ \E w \in Workers : Resend(w)
             \/ UNCHANGED vars
      PROVE  work' = work
  BY <1>3 DEF Arrive, StrayEnds, Resend, vars
<1>. QED  BY <1>1, <1>2, <1>3 DEF Next

LEMMA SessionsStep ==
  ASSUME IInv, [Next]_vars
  PROVE  SessionsOwned'
<1>. USE DEF IInv
<1>1. ASSUME NEW w \in Workers
      PROVE  SessionOwned(w)'
  <2>1. CASE work'[w] = work[w]
    BY <2>1, SessionKept
  <2>2. CASE work'[w] # work[w]
    <3>1. work \in [Workers -> Work] /\ mapping \in [Customers -> Nat]
      BY DEF TypeOK, TypeOKRuns
    <3>2. SessionOwned(w)
      BY DEF SessionsOwned
    <3>3. \/ EndWork(w) \/ Poll(w) \/ CallMetronome(w)
          \/ MetronomeAnswers(w) \/ BadAnswer(w)
      <4>1. PICK v \in Workers : \/ EndWork(v) \/ Poll(v) \/ CallMetronome(v)
                                \/ MetronomeAnswers(v) \/ BadAnswer(v)
        BY <2>2, WorkStep
      <4>2. \A u \in Workers : u # v => work'[u] = work[u]
        BY <3>1, <4>1
        DEF EndWork, Poll, Claim, CallMetronome, MetronomeAnswers, BadAnswer, Answer
      <4>. QED  BY <2>2, <4>1, <4>2
    <3>4. CASE EndWork(w)
      BY <3>1, <3>4 DEF EndWork, SessionOwned, Idle
    <3>5. CASE Poll(w)
      BY <3>1, <3>2, <3>5
      DEF Poll, Claim, SessionOwned, Idle, Bad, Work, Steps
    <3>6. CASE CallMetronome(w)
      <4>1. work[w].event \in Events /\ work'[w] = [work[w] EXCEPT !.pc = "calling", !.seen = Found(w)]
        BY <3>1, <3>2, <3>6 DEF CallMetronome, NeedsCall, SessionOwned
      <4>2. work[w].reply.kind = "ok" => Owns(work[w].reply.id, Subject(w))
        BY <3>2, <3>6 DEF CallMetronome, NeedsCall, SessionOwned
      <4>3. mapping' = mapping /\ accounts' = accounts
        BY <3>6 DEF CallMetronome
      <4>. QED
        BY <3>1, <4>1, <4>2, <4>3 DEF SessionOwned, Found, Subject, Owns, Work
    <3>7. CASE MetronomeAnswers(w)
      <4>1. RequestOwned(RequestOf(w)) /\ work[w].event \in Events
        BY <3>7, CallOwned DEF MetronomeAnswers
      <4>. DEFINE r == RequestOf(w)
                  reply == IF Conflicts(r) THEN Bad("permanent")
                           ELSE [kind |-> "ok",
                                 id |-> IF r.id = 0 THEN Len(accounts) + 1 ELSE r.id]
      <4>2. /\ work'[w] = [work[w] EXCEPT !.pc = "replied", !.reply = reply]
            /\ accounts' = Applied(r)
            /\ mapping' = mapping
        BY <3>1, <3>7 DEF MetronomeAnswers, Answer
      <4>3. r.event = work[w].event /\ Subject(w) = Customer[r.event]
        BY DEF Subject, RequestOf
      <4>4. ~Conflicts(r) /\ r.id = 0 => OwnsNext(Len(accounts) + 1, Subject(w))
        BY <4>2, <4>3 DEF Applied, OwnsNext, TypeOK
      <4>5. r.id # 0 => OwnsNext(r.id, Subject(w))
        BY <4>1, <4>3, OwnsKept DEF RequestOwned
      <4>6. reply.kind = "ok" => OwnsNext(reply.id, Subject(w))
        BY <4>4, <4>5 DEF Bad
      <4>. HIDE DEF reply
      <4>7. /\ work'[w].pc = "replied"
            /\ work'[w].event = work[w].event
            /\ work'[w].seen = work[w].seen
            /\ work'[w].reply = reply
        BY <3>1, <4>2 DEF Work
      <4>8. work[w].seen # 0 => mapping[Subject(w)] = work[w].seen
        BY <3>2, <3>7 DEF SessionOwned, MetronomeAnswers
      <4>. QED
        BY <4>1, <4>2, <4>6, <4>7, <4>8 DEF SessionOwned, Subject, Owns, OwnsNext
    <3>8. CASE BadAnswer(w)
      <4>1. PICK kind \in ReplyKinds \ {"ok"} : Answer(w, Bad(kind))
        BY <3>8 DEF BadAnswer
      <4>2. /\ work'[w].pc = "replied"
            /\ work'[w].event = work[w].event
            /\ work'[w].seen = work[w].seen
            /\ work'[w].reply.kind # "ok"
        BY <3>1, <4>1 DEF Answer, Bad, Work
      <4>. QED  BY <3>2, <3>8, <4>2 DEF BadAnswer, SessionOwned, Subject
    <3>. QED  BY <3>3, <3>4, <3>5, <3>6, <3>7, <3>8
  <2>. QED  BY <2>1, <2>2
<1>. QED  BY <1>1 DEF SessionsOwned

-----------------------------------------------------------------------------
(* Type correctness.                                                       *)

LEMMA RowsTypeStep ==
  ASSUME IInv, [Next]_vars
  PROVE  rows' \in [Events -> Row]
<1>1. rows \in [Events -> Row]
  BY DEF IInv, TypeOK, TypeOKRuns
<1>. QED  BY <1>1, RowsStep, InsertType, RuledType DEF Statuses

LEMMA WorkTypeStep ==
  ASSUME IInv, [Next]_vars
  PROVE  work' \in [Workers -> Work]
<1>1. /\ work \in [Workers -> Work]
      /\ mapping \in [Customers -> Nat]
      /\ accounts \in Seq(Account)
  BY DEF IInv, TypeOK, TypeOKRuns
<1>2. CASE work' = work
  BY <1>1, <1>2
<1>3. ASSUME NEW w \in Workers, EndWork(w)  PROVE work' \in [Workers -> Work]
  BY <1>1, <1>3, EndWorkType
<1>4. ASSUME NEW w \in Workers, Poll(w)  PROVE work' \in [Workers -> Work]
  BY <1>1, <1>4, ClaimType DEF Poll
<1>5. ASSUME NEW w \in Workers, CallMetronome(w)
      PROVE  work' \in [Workers -> Work]
  <2>1. work[w].event \in Events
    BY <1>5 DEF CallMetronome, NeedsCall, IInv, SessionsOwned, SessionOwned
  <2>2. Found(w) \in Nat
    BY <1>1, <2>1, CustomerSyncAssumption DEF Found, Subject
  <2>. QED  BY <1>1, <1>5, <2>2 DEF CallMetronome, Work, Steps
<1>6. ASSUME NEW w \in Workers, NEW reply \in Reply, Answer(w, reply)
      PROVE  work' \in [Workers -> Work]
  BY <1>1, <1>6 DEF Answer, Work, Steps
<1>7. ASSUME NEW w \in Workers, BadAnswer(w)
      PROVE  \E reply \in Reply : Answer(w, reply)
  BY <1>7 DEF BadAnswer, Bad, Reply
<1>8. ASSUME NEW w \in Workers, MetronomeAnswers(w)
      PROVE  \E reply \in Reply : Answer(w, reply)
  <2>. DEFINE r == RequestOf(w)
              ok == [kind |-> "ok", id |-> IF r.id = 0 THEN Len(accounts) + 1
                                                       ELSE r.id]
  <2>1. r.id \in Nat /\ Len(accounts) \in Nat
    BY <1>1 DEF RequestOf, Work
  <2>2. ok \in Reply /\ Bad("permanent") \in Reply
    BY <2>1 DEF Bad, Reply, ReplyKinds
  <2>3. Answer(w, IF Conflicts(r) THEN Bad("permanent") ELSE ok)
    BY <1>8 DEF MetronomeAnswers
  <2>. QED  BY <2>2, <2>3
<1>. QED  BY <1>2, <1>3, <1>4, <1>5, <1>6, <1>7, <1>8, WorkStep

LEMMA TypeStep ==
  ASSUME IInv, [Next]_vars
  PROVE  TypeOK'
<1>1. faults' \in 0 .. MaxFaults /\ refusals' \in 0 .. MaxRefusals
  <2>1. /\ faults' = faults \/ Fault
        /\ refusals' = refusals \/ Refusal
    BY DEF Next, vars, Arrive, Poll, Claim, Handle, SkipAlreadyMapped,
       FailUnmappable, CallMetronome, InsertMapping, InsertCollides,
       TouchMapping, CallFailed, RuleOnFailure, Rule, Rollback,
       MetronomeAnswers, MetronomeRefuses, Resend, CallFails, LoseReply, StrayEnds
  <2>. QED
    BY <2>1, HandlerRunsAssumption DEF Fault, Refusal, IInv, TypeOK, TypeOKRuns
<1>2. mapping' \in [Customers -> Nat]
  <2>1. mapping \in [Customers -> Nat] /\ accounts \in Seq(Account)
    BY DEF IInv, TypeOK
  <2>2. ASSUME NEW i, NEW c, Owns(i, c)  PROVE i \in Nat
    BY <2>1, <2>2 DEF Owns
  <2>. QED  BY <2>1, <2>2, MappingStep
<1>3. stray' \subseteq Request
  BY StrayStep DEF StrayOwned, RequestOwned
<1>. QED
  BY <1>1, <1>2, <1>3, RowsTypeStep, WorkTypeStep, AccountsStep
  DEF TypeOK, TypeOKRuns

-----------------------------------------------------------------------------
(* The properties of the customer handlers.                                *)

\* The strengthened invariant is inductive: whatever is committed, on its way
\* or held by a worker is about the customer of the event it came from.
THEOREM Invariance == Spec => []IInv
<1>1. Init => IInv
  <2>. SUFFICES ASSUME Init  PROVE IInv
    OBVIOUS
  <2>. USE DEF Init, InitRuns
  <2>1. TypeOK
    BY HandlerRunsAssumption
    DEF TypeOK, TypeOKRuns, Row, Statuses, Idle, Bad, Work, Steps, Reply, ReplyKinds
  <2>2. MappingConfirmed /\ ProcessedIsMapped
    BY CustomerSyncAssumption DEF MappingConfirmed, ProcessedIsMapped
  <2>3. StrayOwned /\ SessionsOwned
    BY DEF StrayOwned, SessionsOwned, SessionOwned, Idle
  <2>. QED  BY <2>1, <2>2, <2>3 DEF IInv
<1>2. IInv /\ [Next]_vars => IInv'
  BY TypeStep, MappingConfirmedStep, ProcessedIsMappedStep, StrayStep, SessionsStep
  DEF IInv
<1>. QED  BY <1>1, <1>2, PTL DEF Spec

\* Rows, sessions, mappings, accounts and requests keep to their types.
THEOREM TypeCorrect == Spec => []TypeOK
BY Invariance, PTL DEF IInv

\* models.py:90-92: a customer_mappings row links a customer to an account
\* that is there and is that customer's, and no account is ever given another
\* customer's name, over crashes, lost answers and late requests.
THEOREM MappingConfirmedHolds == Spec => []MappingConfirmed
BY Invariance, PTL DEF IInv

\* The verdict processed is committed only with or after the customer's row,
\* whichever worker's insert has won.
THEOREM ProcessedIsMappedHolds == Spec => []ProcessedIsMapped
BY Invariance, PTL DEF IInv

\* No worker ever overwrites or removes a committed customer_mappings row.
THEOREM MappingStableHolds == Spec => MappingStable
<1>1. IInv /\ [Next]_vars
        => [\A c \in Customers : mapping[c] # 0 => mapping'[c] = mapping[c]]_vars
  BY MappingKept
<1>. QED  BY <1>1, Invariance, PTL DEF Spec, MappingStable

-----------------------------------------------------------------------------
(* The locks.                                                              *)

\* A verdict is the only thing that changes a row that is there, and it comes
\* from a worker that lets go of it.
LEMMA RowsUnderLock ==
  ASSUME IInv, [Next]_vars, NEW e \in Events,
         rows[e].status # "absent", rows'[e] # rows[e]
  PROVE  \E w \in Workers : Holds(w) /\ work[w].event = e /\ EndWork(w)
<1>1. rows \in [Events -> Row]
  BY DEF IInv, TypeOK, TypeOKRuns
<1>2. ~ \E f \in Events : Insert(f)
  BY <1>1 DEF Insert
<1>3. PICK w \in Workers : Handle(w)
  BY <1>2 DEF Next, vars, Arrive, Poll, Claim, Rollback, MetronomeAnswers,
     MetronomeRefuses, Resend, CallFails, LoseReply, Answer, StrayEnds
<1>4. Holds(w) /\ \E status \in {"processed", "failed", RetryStatus(w)} : Rule(w, status)
  BY <1>3 DEF Handle, Holds, SkipAlreadyMapped, FailUnmappable, NeedsCall,
     CallMetronome, InsertMapping, InsertCollides, TouchMapping, CallFailed,
     RuleOnFailure, Answered
<1>5. EndWork(w) /\ \E status : Ruled(w, status)
  BY <1>4 DEF Rule, Ruled
<1>6. work[w].event = e
  BY <1>1, <1>5 DEF Ruled
<1>. QED  BY <1>4, <1>5, <1>6

LEMMA LocksStep ==
  ASSUME IInv, LocksSound, [Next]_vars
  PROVE  LocksSound'
<1>1. rows \in [Events -> Row] /\ work \in [Workers -> Work]
  BY DEF IInv, TypeOK, TypeOKRuns
<1>2. EventsHeld
  BY DEF IInv, SessionsOwned, SessionOwned, EventsHeld, Holds, Idle
<1>3. UnderLock
  BY RowsUnderLock DEF UnderLock
<1>4. CASE work' = work
  BY <1>1, <1>2, <1>3, <1>4, LocksKept DEF NobodyClaims
<1>5. ASSUME NEW u \in Workers, Poll(u)  PROVE \E e \in Events : Takes(u, e)
  BY <1>1, <1>5, ClaimTakes DEF Poll
<1>6. ASSUME NEW u \in Workers, EndWork(u)  PROVE NobodyClaims
  BY <1>1, <1>6 DEF EndWork, NobodyClaims
<1>7. ASSUME NEW u \in Workers, CallMetronome(u) \/ MetronomeAnswers(u) \/ BadAnswer(u)
      PROVE  NobodyClaims
  <2>1. Holds(u)
    BY <1>7 DEF CallMetronome, NeedsCall, MetronomeAnswers, BadAnswer, Holds
  <2>2. work'[u].event = work[u].event
    BY <1>1, <1>7 DEF CallMetronome, MetronomeAnswers, BadAnswer, Answer, Work
  <2>3. \A v \in Workers : v # u => work'[v] = work[v]
    BY <1>1, <1>7 DEF CallMetronome, MetronomeAnswers, BadAnswer, Answer
  <2>. QED  BY <2>1, <2>2, <2>3 DEF NobodyClaims
<1>. QED  BY <1>1, <1>2, <1>3, <1>4, <1>5, <1>6, <1>7, WorkStep, LocksKept

\* A row that a worker holds is pending, and no other worker holds it.
THEOREM LocksHold == Spec => []LocksSound
<1>1. Init => LocksSound
  BY DEF Init, InitRuns, LocksSound, Holds, Idle
<1>2. IInv /\ LocksSound /\ [Next]_vars => LocksSound'
  BY LocksStep
<1>. QED  BY <1>1, <1>2, Invariance, PTL DEF Spec

-----------------------------------------------------------------------------
(* The refinement.                                                         *)

Made(c) == {i \in DOMAIN accounts : accounts[i].alias = c}

\* A row that becomes processed is one event's, and its customer is mapped.
LEMMA DoneStep ==
  ASSUME IInv, LocksSound, [Next]_vars
  PROVE  \/ Done' = Done
         \/ \E e \in Events : mapping'[Customer[e]] # 0 /\ Done' = Done \cup {e}
<1>0. UnderLock
  BY RowsUnderLock DEF UnderLock
<1>1. SUFFICES ASSUME NEW e \in Done', e \notin Done
               PROVE  mapping'[Customer[e]] # 0 /\ Done' = Done \cup {e}
  BY <1>0, DoneKept DEF Done
<1>2. rows \in [Events -> Row] /\ e \in Events /\ rows'[e].status = "processed"
  BY <1>1 DEF IInv, TypeOK, TypeOKRuns, Done
<1>3. mapping'[Customer[e]] # 0
  BY <1>2, ProcessedIsMappedStep DEF ProcessedIsMapped
<1>4. rows' # rows
  BY <1>1 DEF Done
<1>5. ~ \E f \in Events : Insert(f)
  <2>1. ASSUME NEW f \in Events, Insert(f)  PROVE Done' \subseteq Done
    BY <1>2, <2>1 DEF Insert, Done, Row
  <2>. QED  BY <1>1, <2>1
<1>6. PICK w \in Workers : work[w].event \in Events /\ \E status : Ruled(w, status)
  BY <1>4, <1>5, RowsStep
<1>7. \A f \in Events : f # work[w].event => rows'[f] = rows[f]
  BY <1>2, <1>6 DEF Ruled
<1>8. e = work[w].event
  BY <1>1, <1>2, <1>7 DEF Done
<1>9. Done' \subseteq Done \cup {e}
  BY <1>7, <1>8 DEF Done
<1>. QED  BY <1>0, <1>1, <1>3, <1>9, DoneKept

\* A step that changes Metronome's accounts carries out a request.
LEMMA AccountsUnderRequest ==
  ASSUME IInv, [Next]_vars, accounts' # accounts
  PROVE  /\ mapping' = mapping /\ rows' = rows
         /\ \E r : RequestOwned(r) /\ accounts' = Applied(r)
<1>1. ASSUME NEW w \in Workers, MetronomeAnswers(w) \/ MetronomeRefuses(w)
      PROVE  /\ mapping' = mapping /\ rows' = rows
             /\ \E r : RequestOwned(r) /\ accounts' = Applied(r)
  BY <1>1, CallOwned DEF MetronomeAnswers, MetronomeRefuses, Answer
<1>2. ASSUME NEW r \in stray, StrayEnds(r)
      PROVE  /\ mapping' = mapping /\ rows' = rows
             /\ RequestOwned(r) /\ accounts' = Applied(r)
  BY <1>2 DEF StrayEnds, IInv, StrayOwned
<1>3. \/ \E w \in Workers : MetronomeAnswers(w) \/ MetronomeRefuses(w)
      \/ \E r \in stray : StrayEnds(r)
  BY DEF Next, vars, Arrive, Poll, Handle, SkipAlreadyMapped, FailUnmappable,
     CallMetronome, InsertMapping, InsertCollides, TouchMapping, CallFailed,
     Rollback, Resend, CallFails, LoseReply
<1>. QED  BY <1>1, <1>2, <1>3

\* A create makes an account for its customer, a rename makes nothing.
LEMMA AppliedMakes ==
  ASSUME IInv, NEW r, RequestOwned(r), accounts' = Applied(r)
  PROVE  \/ \A c : Made(c)' = Made(c)
         \/ \E i : /\ Customer[r.event] \in Customers
                   /\ \A c : i \notin Made(c)
                   /\ \A c : Made(c)' = IF c = Customer[r.event]
                                        THEN Made(c) \cup {i} ELSE Made(c)
<1>1. accounts \in Seq(Account) /\ r.event \in Events
  BY DEF IInv, TypeOK, RequestOwned, Request
<1>2. CASE Conflicts(r)
  BY <1>2 DEF Applied, Made
<1>3. CASE ~ Conflicts(r) /\ r.id = 0
  <2>. DEFINE i == Len(accounts) + 1
  <2>1. accounts' = Append(accounts, [alias |-> Customer[r.event], name |-> r.event])
    BY <1>3 DEF Applied
  <2>2. /\ Customer[r.event] \in Customers
        /\ DOMAIN accounts = 1 .. Len(accounts)
        /\ Len(accounts) \in Nat
    BY <1>1, CustomerSyncAssumption
  <2>3. /\ DOMAIN accounts' = 1 .. i
        /\ \A j \in 1 .. Len(accounts) : accounts'[j] = accounts[j]
        /\ accounts'[i].alias = Customer[r.event]
    BY <1>1, <2>1, <2>2
  <2>4. \A c : i \notin Made(c)
    BY <2>2 DEF Made
  <2>5. \A c : Made(c)' = IF c = Customer[r.event] THEN Made(c) \cup {i} ELSE Made(c)
    BY <2>2, <2>3 DEF Made
  <2>. QED  BY <2>2, <2>4, <2>5
<1>4. CASE ~ Conflicts(r) /\ r.id # 0
  <2>1. r.id \in DOMAIN accounts
    BY <1>4 DEF RequestOwned, Owns
  <2>2. accounts' = [accounts EXCEPT ![r.id].name = r.event]
    BY <1>4 DEF Applied
  <2>3. /\ DOMAIN accounts' = DOMAIN accounts
        /\ \A j \in DOMAIN accounts : accounts'[j].alias = accounts[j].alias
    BY <1>1, <2>1, <2>2 DEF Account
  <2>. QED  BY <2>3 DEF Made
<1>. QED  BY <1>2, <1>3, <1>4

\* Every step makes, links or finishes something, or none of it.
LEMMA RefinementStep ==
  ASSUME IInv, LocksSound, [Next]_vars
  PROVE  [P!Next]_(P!vars)
<1>. DEFINE made == [c \in Customers |-> Made(c)]
<1>1. mapping \in [Customers -> Nat]
  BY DEF IInv, TypeOK
<1>2. CASE accounts' # accounts
  <2>1. mapping' = mapping /\ Done' = Done
    BY <1>2, AccountsUnderRequest DEF Done
  <2>2. PICK r : RequestOwned(r) /\ accounts' = Applied(r)
    BY <1>2, AccountsUnderRequest
  <2>3. CASE \A c : Made(c)' = Made(c)
    <3>1. made' = made
      BY <2>3
    <3>. QED  BY <2>1, <3>1 DEF P!vars, Made, Done
  <2>4. ASSUME NEW i, Customer[r.event] \in Customers, \A c : i \notin Made(c),
               \A c : Made(c)' = IF c = Customer[r.event]
                                 THEN Made(c) \cup {i} ELSE Made(c)
        PROVE  P!Make(Customer[r.event])
    <3>1. /\ i \in made'[Customer[r.event]]
          /\ \A t \in Customers : i \notin made[t]
          /\ made' = [made EXCEPT ![Customer[r.event]] = @ \cup {i}]
      BY <2>4
    <3>. QED  BY <2>1, <3>1 DEF P!Make, Made, Done
  <2>. QED  BY <2>2, <2>3, <2>4, AppliedMakes DEF P!Next
<1>3. CASE accounts' = accounts /\ mapping' # mapping
  <2>1. made' = made
    BY <1>3 DEF Made
  <2>2. PICK w \in Workers :
           /\ InsertMapping(w)
           /\ Subject(w) \in Customers
           /\ mapping[Subject(w)] = 0
           /\ Owns(work[w].reply.id, Subject(w))
           /\ mapping' = [mapping EXCEPT ![Subject(w)] = work[w].reply.id]
    BY <1>3, MappingStep
  <2>3. PICK e \in Events : e = work[w].event
    BY <2>2 DEF InsertMapping, Answered, IInv, SessionsOwned, SessionOwned
  <2>4. Ruled(w, "processed") /\ rows \in [Events -> Row]
    BY <2>2 DEF InsertMapping, Rule, Ruled, IInv, TypeOK, TypeOKRuns
  <2>5. Done' = Done \cup {e}
    BY <2>3, <2>4 DEF Ruled, Done, Row
  <2>6. work[w].reply.id \in made[Customer[e]]
    BY <2>2, <2>3 DEF Owns, Made, Subject
  <2>7. Customer[e] # None /\ Customer[e] \in Customers
    BY <2>3, CustomerSyncAssumption
  <2>8. P!Link(e)
    BY <2>1, <2>2, <2>3, <2>5, <2>6, <2>7 DEF P!Link, P!Linked, Subject, Made, Done
  <2>. QED  BY <2>8 DEF P!Next
<1>4. CASE accounts' = accounts /\ mapping' = mapping
  <2>1. made' = made
    BY <1>4 DEF Made
  <2>2. CASE Done' = Done
    BY <1>4, <2>1, <2>2 DEF P!vars, Made, Done
  <2>3. ASSUME NEW e \in Events, mapping'[Customer[e]] # 0, Done' = Done \cup {e}
        PROVE  P!Finish(e)
    BY <1>4, <2>1, <2>3 DEF P!Finish, P!Linked, Made, Done
  <2>. QED  BY <2>2, <2>3, DoneStep DEF P!Next
<1>. QED  BY <1>2, <1>3, <1>4

\* Whatever happens on the way, a Stripe customer is linked at most once, to
\* an account made for it and no other, and none of its events counts as
\* processed before (CustomerSync implements Provisioning).
THEOREM Refinement == Spec => ImplementsProvisioning
<1>1. Init => P!Init
  BY DEF Init, InitRuns, P!Init
<1>2. IInv /\ LocksSound /\ [Next]_vars => [P!Next]_(P!vars)
  BY RefinementStep
<1>. QED  BY <1>1, <1>2, Invariance, LocksHold, PTL DEF Spec, P!Spec, ImplementsProvisioning
=============================================================================
