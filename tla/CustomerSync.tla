---------------------------- MODULE CustomerSync ----------------------------
(***************************************************************************)
(* The customer handlers (handlers/customer.py) run by any number of       *)
(* workers against Metronome: customer.created and customer.updated events *)
(* of several Stripe customers become Metronome customers and rows of      *)
(* customer_mappings.                                                      *)
(*                                                                         *)
(* A handler reads the mapping, calls Metronome once, and commits the      *)
(* mapping together with the event's verdict.  The call is not part of the *)
(* transaction: a crash, a lost reply or a timeout leaves its effect in    *)
(* Metronome (now or later) and nothing in the database.                   *)
(***************************************************************************)
EXTENDS HandlerRuns

CONSTANTS
    Customers,     \* Stripe customers
    Customer,      \* event -> the customer in data.object.id
    Version,       \* event -> its place among the customer's payloads
    Created,       \* the events of type customer.created, the rest are updates
    Mappable,      \* the events whose payload has a name or an email
    AliasUnique,   \* does Metronome refuse (409) an ingest alias in use?
    InOrder        \* does Stripe deliver a customer's events in order?

ASSUME CustomerSyncAssumption ==
    /\ None \notin Customers
    /\ Customer \in [Events -> Customers]
    /\ Version \in [Events -> Nat]
    /\ Created \subseteq Events
    /\ Mappable \subseteq Events
    /\ AliasUnique \in BOOLEAN
    /\ InOrder \in BOOLEAN

VARIABLES
    mapping,    \* customer_mappings as committed; 0 is no row
    accounts,   \* Metronome's customers; an id is an index
    stray       \* requests nobody waits for that Metronome may still apply

vars == <<rows, work, faults, refusals, mapping, accounts, stray>>

-----------------------------------------------------------------------------

\* A Metronome customer: its ingest alias, and the event its name came from.
Account == [alias : Customers, name : Events]

\* A request of an attempt at an event: rename account id, or create (id 0).
Request == [event : Events, id : Nat, attempt : Nat]

Init ==
    /\ InitRuns
    /\ mapping = [c \in Customers |-> 0]
    /\ accounts = << >>
    /\ stray = {}

\* The customer whose event the worker handles.
Subject(w) == Customer[work[w].event]

-----------------------------------------------------------------------------
(* The events, as Stripe delivers them.                                    *)

Arrive(e) ==
    /\ Insert(e)
    /\ InOrder => \A f \in Events :
          Customer[f] = Customer[e] /\ Version[f] < Version[e] => rows[f].rank # 0
    /\ UNCHANGED <<work, faults, refusals, mapping, accounts, stray>>

-----------------------------------------------------------------------------
(* The handler, up to its call.                                            *)

Poll(w) == Claim(w) /\ UNCHANGED <<mapping, accounts, stray>>

\* Mutant: the lookup forgets the where clause.
FoundAny(w) == IF \E c \in Customers : mapping[c] # 0
               THEN mapping[CHOOSE c \in Customers : mapping[c] # 0] ELSE 0

Found(w) == mapping[Subject(w)]

\* Mutant: the type of the event is not looked at, updates are skipped too.
SkipAnyMapped(w) ==
    /\ work[w].pc = "claimed"
    /\ Found(w) # 0
    /\ Rule(w, "processed")
    /\ UNCHANGED <<mapping, accounts, stray>>

\* Mutant: the mapping is trusted without having been found.
SkipAnyCreated(w) ==
    /\ work[w].pc = "claimed"
    /\ work[w].event \in Created
    /\ Rule(w, "processed")
    /\ UNCHANGED <<mapping, accounts, stray>>

\* Mutant: the handler's outcome is written into the status column.
SkipWithOutcome(w) ==
    /\ work[w].pc = "claimed"
    /\ work[w].event \in Created
    /\ Found(w) # 0
    /\ Rule(w, "skipped_already_mapped")
    /\ UNCHANGED <<mapping, accounts, stray>>

\* customer.created of a mapped customer: trust the mapping.
SkipAlreadyMapped(w) ==
    /\ work[w].pc = "claimed"
    /\ work[w].event \in Created
    /\ Found(w) # 0
    /\ Rule(w, "processed")
    /\ UNCHANGED <<mapping, accounts, stray>>

NeedsCall(w) == /\ work[w].pc = "claimed"
                /\ work[w].event \in Created => Found(w) = 0

\* MapperError: neither a name nor an email to name the customer by.
FailUnmappable(w) ==
    /\ NeedsCall(w)
    /\ work[w].event \notin Mappable
    /\ Rule(w, "failed")
    /\ UNCHANGED <<mapping, accounts, stray>>

\* set_customer_name for a mapped customer, create_customer for any other.
CallMetronome(w) ==
    /\ NeedsCall(w)
    /\ work[w].event \in Mappable
    /\ work' = [work EXCEPT ![w].pc = "calling", ![w].seen = Found(w)]
    /\ UNCHANGED <<rows, mapping, accounts, stray, faults, refusals>>

-----------------------------------------------------------------------------
(* Metronome, and the way to it and back.                                  *)

RequestOf(w) == [event |-> work[w].event, id |-> work[w].seen,
                 attempt |-> rows[work[w].event].attempts]

Conflicts(r) == /\ r.id = 0
                /\ AliasUnique
                /\ \E i \in DOMAIN accounts : accounts[i].alias = Customer[r.event]

Applied(r) ==
    IF Conflicts(r) THEN accounts
    ELSE IF r.id = 0
         THEN Append(accounts, [alias |-> Customer[r.event], name |-> r.event])
         ELSE [accounts EXCEPT ![r.id].name = r.event]

\* The request is carried out, or refused with a 409, which the client
\* classifies as permanent like every 4xx but 429.
MetronomeAnswers(w) ==
    /\ work[w].pc = "calling"
    /\ LET r == RequestOf(w)
       IN  /\ accounts' = Applied(r)
           /\ Answer(w, IF Conflicts(r) THEN Bad("permanent")
                        ELSE [kind |-> "ok",
                              id |-> IF r.id = 0 THEN Len(accounts) + 1 ELSE r.id])
    /\ UNCHANGED <<faults, refusals, mapping, stray>>

\* Another 4xx, or a create that is carried out but answered without data.id.
MetronomeRefuses(w) ==
    /\ Refusal
    /\ work[w].pc = "calling"
    /\ accounts' \in {accounts} \cup (IF work[w].seen = 0
                                       THEN {Applied(RequestOf(w))} ELSE {})
    /\ Answer(w, Bad("permanent"))
    /\ UNCHANGED <<faults, mapping, stray>>

\* 429, 5xx, a connection that fails, a timeout: the request may still arrive.
CallFails(w) ==
    /\ Fault
    /\ work[w].pc = "calling"
    /\ stray' \in {stray, stray \cup {RequestOf(w)}}
    /\ Answer(w, Bad("transient"))
    /\ UNCHANGED <<refusals, mapping, accounts>>

\* The SDK sends a request again by itself before it gives the call up: the
\* earlier copy may be carried out too, during the call or after it.
Resend(w) ==
    /\ Fault
    /\ work[w].pc = "calling"
    /\ stray' = stray \cup {RequestOf(w)}
    /\ UNCHANGED <<rows, work, refusals, mapping, accounts>>

\* Metronome has carried the request out but the answer is lost.
LoseReply(w) ==
    /\ Fault
    /\ Answered(w, {"ok"})
    /\ Answer(w, Bad("transient"))
    /\ UNCHANGED <<refusals, mapping, accounts, stray>>

StrayEnds(r) ==
    /\ r \in stray
    /\ stray' = stray \ {r}
    /\ accounts' \in {accounts, Applied(r)}
    /\ UNCHANGED <<rows, mapping, work, faults, refusals>>

-----------------------------------------------------------------------------
(* The handler after its call, and the worker's verdict.                   *)

\* Mutant: session.merge for session.add, the second insert overwrites.
MergeMapping(w) ==
    /\ Answered(w, {"ok"})
    /\ work[w].seen = 0
    /\ mapping' = [mapping EXCEPT ![Subject(w)] = work[w].reply.id]
    /\ Rule(w, "processed")
    /\ UNCHANGED <<accounts, stray>>

\* Mutant: the id of Metronome's newest customer for the one in the answer.
InsertNewest(w) ==
    /\ Answered(w, {"ok"})
    /\ work[w].seen = 0
    /\ Found(w) = 0
    /\ mapping' = [mapping EXCEPT ![Subject(w)] = Len(accounts)]
    /\ Rule(w, "processed")
    /\ UNCHANGED <<accounts, stray>>

\* The new customer_mappings row is committed with the verdict.
InsertMapping(w) ==
    /\ Answered(w, {"ok"})
    /\ work[w].seen = 0
    /\ Found(w) = 0
    /\ mapping' = [mapping EXCEPT ![Subject(w)] = work[w].reply.id]
    /\ Rule(w, "processed")
    /\ UNCHANGED <<accounts, stray>>

\* Mutant: an IntegrityError is classified as permanent.
FailOnCollision(w) ==
    /\ Answered(w, {"ok"})
    /\ work[w].seen = 0
    /\ Found(w) # 0
    /\ Rule(w, "failed")
    /\ UNCHANGED <<mapping, accounts, stray>>

\* Another worker's row is there already: the flush raises IntegrityError,
\* the worker's own except clause raises on the expired event, and the
\* transaction rolls back.
InsertCollides(w) ==
    /\ Answered(w, {"ok"})
    /\ work[w].seen = 0
    /\ Found(w) # 0
    /\ EndWork(w)
    /\ UNCHANGED <<rows, mapping, accounts, stray, faults, refusals>>

\* The name is set; of the mapping only updated_at changes.
TouchMapping(w) ==
    /\ Answered(w, {"ok"})
    /\ work[w].seen # 0
    /\ Rule(w, "processed")
    /\ UNCHANGED <<mapping, accounts, stray>>

\* A failed call: nothing is written but the verdict.
CallFailed(w) ==
    /\ RuleOnFailure(w)
    /\ UNCHANGED <<mapping, accounts, stray>>

\* A crash or a database error; a request under way may still arrive.
Rollback(w) ==
    /\ Fault
    /\ work[w].pc # "idle"
    /\ stray' \in {stray} \cup (IF work[w].pc = "calling"
                                THEN {stray \cup {RequestOf(w)}} ELSE {})
    /\ EndWork(w)
    /\ UNCHANGED <<rows, mapping, accounts, refusals>>

-----------------------------------------------------------------------------

Handle(w) == \/ SkipAlreadyMapped(w) \/ FailUnmappable(w) \/ CallMetronome(w)
             \/ InsertMapping(w) \/ InsertCollides(w) \/ TouchMapping(w)
             \/ CallFailed(w)

Next == \/ \E e \in Events : Arrive(e)
        \/ \E w \in Workers :
              \/ Poll(w) \/ Handle(w) \/ Rollback(w)
              \/ MetronomeAnswers(w) \/ MetronomeRefuses(w)
              \/ Resend(w) \/ CallFails(w) \/ LoseReply(w)
        \/ \E r \in stray : StrayEnds(r)

Spec == Init /\ [][Next]_vars

\* Stripe delivers, workers poll, every call is answered or times out.
Fairness == /\ \A e \in Events : WF_vars(Arrive(e))
            /\ \A w \in Workers : /\ WF_vars(Poll(w))
                                  /\ WF_vars(Handle(w))
                                  /\ WF_vars(MetronomeAnswers(w))

FairSpec == Spec /\ Fairness

-----------------------------------------------------------------------------
(* Properties.                                                             *)

\* Every variable keeps to the values of its columns, sessions and requests.
TypeOK ==
    /\ TypeOKRuns
    /\ mapping \in [Customers -> Nat]
    /\ accounts \in Seq(Account)
    /\ stray \subseteq Request

\* models.py:90-92: a mapping is the source of truth that the customer exists
\* in Metronome and that the two ids are linked, and no rename, late or not,
\* ever puts one customer's name on another's account.
MappingConfirmed ==
    /\ \A c \in Customers : mapping[c] # 0 =>
          mapping[c] \in DOMAIN accounts /\ accounts[mapping[c]].alias = c
    /\ \A i \in DOMAIN accounts : Customer[accounts[i].name] = accounts[i].alias

\* A processed customer event leaves its customer mapped, whichever of its
\* workers' transactions won the insert.
ProcessedIsMapped ==
    \A e \in Events : rows[e].status = "processed" => mapping[Customer[e]] # 0

\* A link, once committed, is never changed: usage and contracts hang on it.
MappingStable ==
    [][\A c \in Customers : mapping[c] # 0 => mapping'[c] = mapping[c]]_vars

\* The promise of Provisioning: whatever is made, lost, retried or made twice, a
\* customer's row appears once, names an account of that customer, and is there
\* when any of the customer's events counts as processed.
P == INSTANCE Provisioning WITH
        Subjects <- Customers,
        Nothing  <- None,
        Unlinked <- 0,
        Parent   <- [c \in Customers |-> None],
        Needs    <- Customer,
        made     <- [c \in Customers |-> {i \in DOMAIN accounts : accounts[i].alias = c}],
        linked   <- mapping,
        done     <- {e \in Events : rows[e].status = "processed"}

ImplementsProvisioning == P!Spec

\* The customer has had events, and nothing of its is to come, to be retried or
\* under way.
Quiet(c) == /\ \E e \in Events : Customer[e] = c
            /\ \A e \in Events : Customer[e] = c =>
                  rows[e].status \in {"processed", "failed"}
            /\ \A r \in stray : Customer[r.event] # c

Latest(c) == {e \in Events : /\ Customer[e] = c
                             /\ \A f \in Events : Customer[f] = c => Version[f] <= Version[e]}

\* customer.py:12-14: in the end there is a row in customer_mappings and a
\* customer in Metronome whose name matches the latest Stripe payload.
NameMatchesLatest ==
    \A c \in Customers : Quiet(c) =>
        mapping[c] # 0 /\ accounts[mapping[c]].name \in Latest(c)

\* One worker, every payload has a name, and a customer's created event has its
\* first payload.
Orderly == /\ \A v, w \in Workers : v = w
           /\ Mappable = Events
           /\ \A e \in Created, f \in Events :
                 Customer[e] = Customer[f] => Version[e] <= Version[f]

Smooth == faults = 0 /\ refusals = 0

\* The customer's events came in the order of their payloads.
CameInOrder(c) ==
    \A e, f \in Events :
        Customer[e] = c /\ Customer[f] = c /\ Version[e] < Version[f]
            => rows[e].rank < rows[f].rank

\* customer.py:12-14 and README.md:29-31: with one worker, no fault and in-order
\* delivery the customer ends with one account, which has the latest name.
LatestNameInOrder ==
    Orderly /\ Smooth =>
        \A c \in Customers : Quiet(c) /\ CameInOrder(c) =>
            /\ mapping[c] # 0
            /\ accounts[mapping[c]].name \in Latest(c)
            /\ \A i \in DOMAIN accounts : accounts[i].alias = c => i = mapping[c]

\* customer.py:12-13, the first half: in the end there is a mapping.
EndsMapped == \A c \in Customers : Quiet(c) => mapping[c] # 0

\* customer.py:14: no event stalls for another one; whatever order they come
\* in and whichever attempts fail, every event that has a name is processed in
\* the end, unless Metronome refuses.
EveryEventProcessed ==
    \A e \in Mappable :
        <>[](rows[e].status = "processed") \/ <>[](refusals > 0)
=============================================================================
