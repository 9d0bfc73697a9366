-------------------------- MODULE SubscriptionSync --------------------------
(***************************************************************************)
(* The subscription handlers (handlers/subscription.py) run by any number  *)
(* of workers against Metronome: customer.subscription.created events      *)
(* become Metronome contracts and rows of subscription_mappings; updated   *)
(* and deleted events are acknowledged no-ops.                             *)
(*                                                                         *)
(* A contract carries a uniqueness key made from the payload.  A second    *)
(* create with the same key is a 409, upon which the client lists the      *)
(* customer's contracts and takes the one with the key: two calls, with    *)
(* everything that can happen between them.                                *)
(*                                                                         *)
(* customer_mappings is filled by the customer handlers (CustomerSync); of *)
(* them this module keeps that a row appears some time and stays.          *)
(***************************************************************************)
EXTENDS HandlerRuns

CONSTANTS
    Customers,       \* Stripe customers
    Subscriptions,   \* Stripe subscriptions
    Subscription,    \* event -> the subscription in data.object.id
    CustomerOf,      \* subscription -> the customer it is billed to
    NoOps,           \* the events of type updated and deleted
    Terms,           \* event -> price and hour of the period's start
    Shape,           \* event -> how well-formed the payload is
    Mapped           \* the customers that have a mapping from the start

\* "broken" has no object, id or customer; "items" not exactly one item with
\* a price; "terms" a price without a tier or no start of the period.
Shapes == {"ok", "broken", "items", "terms"}

ASSUME SubscriptionSyncAssumption ==
    /\ IsFiniteSet(Customers)
    /\ None \notin Subscriptions
    /\ Subscription \in [Events -> Subscriptions]
    /\ CustomerOf \in [Subscriptions -> Customers]
    /\ NoOps \subseteq Events
    /\ Terms \in [Events -> Nat]
    /\ Shape \in [Events -> Shapes]
    /\ Mapped \subseteq Customers

VARIABLES
    customers,   \* the customers that have a row in customer_mappings
    links,       \* subscription_mappings as committed, NoLink for no row
    contracts,   \* Metronome's contracts; an id is an index
    stray        \* creates nobody waits for that Metronome may still apply

vars == <<rows, work, faults, refusals, customers, links, contracts, stray>>

-----------------------------------------------------------------------------

\* contract is metronome_contract_id, terms the price and tier columns.
Link == [contract : Nat, terms : Nat]

NoLink == [contract |-> 0, terms |-> 0]

\* A contract, its uniqueness key and the event it was made for.
Contract == [customer : Customers, key : Subscriptions \X Nat, event : Events]

\* A create by an attempt at an event.
Request == [event : Events, attempt : Nat]

Init ==
    /\ InitRuns
    /\ customers = Mapped
    /\ links = [s \in Subscriptions |-> NoLink]
    /\ contracts = << >>
    /\ stray = {}

Subject(w) == Subscription[work[w].event]

-----------------------------------------------------------------------------
(* The surroundings.                                                       *)

Arrive(e) ==
    /\ Insert(e)
    /\ UNCHANGED <<work, faults, refusals, customers, links, contracts, stray>>

\* A customer handler's transaction commits the customer's mapping.
MapCustomer(c) ==
    /\ c \notin customers
    /\ customers' = customers \cup {c}
    /\ UNCHANGED <<rows, work, faults, refusals, links, contracts, stray>>

-----------------------------------------------------------------------------
(* The handlers, up to the call.                                           *)

Poll(w) == Claim(w) /\ UNCHANGED <<customers, links, contracts, stray>>

Settle(w, status) ==
    /\ Rule(w, status)
    /\ UNCHANGED <<customers, links, contracts, stray>>

PayloadIs(w, shapes) == work[w].pc = "claimed" /\ Shape[work[w].event] \in shapes

IsNoOp(w) == work[w].event \in NoOps

Found(w) == links[Subject(w)] # NoLink

\* Mutant: nobody looks whether the customer is mapped.
CustomerAssumed(w) == TRUE

CustomerFound(w) == CustomerOf[Subject(w)] \in customers

\* updated and deleted: a warning in the log.
Acknowledge(w) ==
    /\ PayloadIs(w, Shapes \ {"broken"})
    /\ IsNoOp(w)
    /\ Settle(w, "processed")

\* Mutant: the handler's outcome is written into the status column.
SkipWithOutcome(w) ==
    /\ PayloadIs(w, Shapes \ {"broken"})
    /\ ~ IsNoOp(w)
    /\ Found(w)
    /\ Settle(w, "skipped_already_mapped")

\* Step 1 of handle_subscription_created: linked already, do not call.
SkipAlreadyMapped(w) ==
    /\ PayloadIs(w, Shapes \ {"broken"})
    /\ ~ IsNoOp(w)
    /\ Found(w)
    /\ Settle(w, "processed")

IsNew(w) == ~ IsNoOp(w) /\ ~ Found(w)

\* Mutant: what cannot be mapped is skipped with a warning.
SkipPayload(w) ==
    /\ \/ PayloadIs(w, {"broken"})
       \/ PayloadIs(w, {"items"}) /\ IsNew(w)
       \/ PayloadIs(w, {"terms"}) /\ IsNew(w) /\ CustomerFound(w)
    /\ Settle(w, "processed")

\* PermanentHandlerError: no id or customer, step 2 (items), and, for a
\* customer that is mapped, steps 4 and 5 (tier, start of the period).
RejectPayload(w) ==
    /\ \/ PayloadIs(w, {"broken"})
       \/ PayloadIs(w, {"items"}) /\ IsNew(w)
       \/ PayloadIs(w, {"terms"}) /\ IsNew(w) /\ CustomerFound(w)
    /\ Settle(w, "failed")

\* Mutant: a subscription of an unknown customer is a permanent error.
FailUnknownCustomer(w) ==
    /\ PayloadIs(w, {"ok", "terms"})
    /\ IsNew(w)
    /\ ~ CustomerFound(w)
    /\ Settle(w, "failed")

\* Step 3: the event came before its customer's, RetryableHandlerError.
AwaitCustomer(w) ==
    /\ PayloadIs(w, {"ok", "terms"})
    /\ IsNew(w)
    /\ ~ CustomerFound(w)
    /\ Settle(w, RetryStatus(w))

\* Step 6: contracts.create.
CallMetronome(w) ==
    /\ PayloadIs(w, {"ok"})
    /\ IsNew(w)
    /\ CustomerFound(w)
    /\ work' = [work EXCEPT ![w].pc = "calling"]
    /\ UNCHANGED <<rows, faults, refusals, customers, links, contracts, stray>>

-----------------------------------------------------------------------------
(* Metronome, and the way to it and back.                                  *)

RequestOf(w) == [event |-> work[w].event, attempt |-> rows[work[w].event].attempts]

\* Mutant: the key is the id of the event.
KeyPerEvent(r) == <<Subscription[r.event], r.event>>

\* The uniqueness key: subscription, price and start of the period only.
KeyOf(r) == <<Subscription[r.event], Terms[r.event]>>

Conflicts(r) == \E i \in DOMAIN contracts : contracts[i].key = KeyOf(r)

Applied(r) ==
    IF Conflicts(r) THEN contracts
    ELSE Append(contracts, [customer |-> CustomerOf[Subscription[r.event]],
                            key |-> KeyOf(r), event |-> r.event])

\* The contract is created, or the key is taken: a 409.
MetronomeCreates(w) ==
    /\ work[w].pc = "calling"
    /\ LET r == RequestOf(w)
       IN  /\ contracts' = Applied(r)
           /\ IF Conflicts(r)
              THEN work' = [work EXCEPT ![w].pc = "listing"] /\ UNCHANGED rows
              ELSE Answer(w, [kind |-> "ok", id |-> Len(contracts) + 1])
    /\ UNCHANGED <<faults, refusals, customers, links, stray>>

\* Mutant: any contract of the customer will do.
ListedAny(w) == {i \in DOMAIN contracts :
                    contracts[i].customer = CustomerOf[Subject(w)]}

\* find_contract_by_uniqueness_key among the customer's contracts.
Listed(w) == {i \in DOMAIN contracts :
                 /\ contracts[i].customer = CustomerOf[Subject(w)]
                 /\ contracts[i].key = KeyOf(RequestOf(w))}

\* Mutant: no recovery, a 409 is as permanent as any other 4xx.
MetronomeListsNothing(w) ==
    /\ work[w].pc = "listing"
    /\ Answer(w, Bad("permanent"))
    /\ UNCHANGED <<faults, refusals, customers, links, contracts, stray>>

\* The list of the customer's contracts, and the first of them that matches.
MetronomeLists(w) ==
    /\ work[w].pc = "listing"
    /\ Answer(w, IF Listed(w) = {} THEN Bad("notFound")
                 ELSE [kind |-> "ok",
                       id |-> CHOOSE i \in Listed(w) : \A j \in Listed(w) : i <= j])
    /\ UNCHANGED <<faults, refusals, customers, links, contracts, stray>>

\* The contract is not on the list (on a later page, archived, not there yet).
ListMisses(w) ==
    /\ Refusal
    /\ work[w].pc = "listing"
    /\ Answer(w, Bad("notFound"))
    /\ UNCHANGED <<faults, customers, links, contracts, stray>>

\* Another 4xx, or a create that is carried out but answered without data.id.
MetronomeRefuses(w) ==
    /\ Refusal
    /\ \/ work[w].pc = "listing" /\ UNCHANGED contracts
       \/ work[w].pc = "calling" /\ contracts' \in {contracts, Applied(RequestOf(w))}
    /\ Answer(w, Bad("permanent"))
    /\ UNCHANGED <<faults, customers, links, stray>>

\* 429, 5xx, a connection that fails, a timeout: a create may still arrive.
CallFails(w) ==
    /\ Fault
    /\ \/ work[w].pc = "listing" /\ UNCHANGED stray
       \/ work[w].pc = "calling" /\ stray' \in {stray, stray \cup {RequestOf(w)}}
    /\ Answer(w, Bad("transient"))
    /\ UNCHANGED <<refusals, customers, links, contracts>>

\* The SDK sends a create again by itself before it gives the call up: the
\* earlier copy may be carried out first, which makes the later one a 409.
Resend(w) ==
    /\ Fault
    /\ work[w].pc = "calling"
    /\ stray' = stray \cup {RequestOf(w)}
    /\ UNCHANGED <<rows, work, refusals, customers, links, contracts>>

\* Metronome has carried the request out but the answer is lost.
LoseReply(w) ==
    /\ Fault
    /\ Answered(w, {"ok"})
    /\ Answer(w, Bad("transient"))
    /\ UNCHANGED <<refusals, customers, links, contracts, stray>>

StrayEnds(r) ==
    /\ r \in stray
    /\ stray' = stray \ {r}
    /\ contracts' \in {contracts, Applied(r)}
    /\ UNCHANGED <<rows, work, faults, refusals, customers, links>>

-----------------------------------------------------------------------------
(* The handler after its call, and the worker's verdict.                   *)

NewLink(w) == [contract |-> work[w].reply.id, terms |-> Terms[work[w].event]]

\* The primary key, or the unique contract id, is in use.
Taken(w) == \E s \in Subscriptions :
               /\ links[s] # NoLink
               /\ s = Subject(w) \/ links[s].contract = work[w].reply.id

\* Mutant: session.merge for session.add, the second insert overwrites.
MergeLink(w) ==
    /\ Answered(w, {"ok"})
    /\ links' = [links EXCEPT ![Subject(w)] = NewLink(w)]
    /\ Rule(w, "processed")
    /\ UNCHANGED <<customers, contracts, stray>>

\* Step 7: the subscription_mappings row is committed with the verdict.
InsertLink(w) ==
    /\ Answered(w, {"ok"})
    /\ ~ Taken(w)
    /\ links' = [links EXCEPT ![Subject(w)] = NewLink(w)]
    /\ Rule(w, "processed")
    /\ UNCHANGED <<customers, contracts, stray>>

\* The flush raises IntegrityError, the worker's except clause raises on the
\* expired event, and the transaction rolls back.
InsertCollides(w) ==
    /\ Answered(w, {"ok"})
    /\ Taken(w)
    /\ EndWork(w)
    /\ UNCHANGED <<rows, faults, refusals, customers, links, contracts, stray>>

\* A failed call: nothing is written but the verdict.
CallFailed(w) ==
    /\ RuleOnFailure(w)
    /\ UNCHANGED <<customers, links, contracts, stray>>

\* A crash or a database error; a create under way may still arrive.
Rollback(w) ==
    /\ Fault
    /\ work[w].pc # "idle"
    /\ stray' \in {stray} \cup (IF work[w].pc = "calling"
                                THEN {stray \cup {RequestOf(w)}} ELSE {})
    /\ EndWork(w)
    /\ UNCHANGED <<rows, refusals, customers, links, contracts>>

-----------------------------------------------------------------------------

Handle(w) == \/ Acknowledge(w) \/ SkipAlreadyMapped(w) \/ RejectPayload(w)
             \/ AwaitCustomer(w) \/ CallMetronome(w)
             \/ InsertLink(w) \/ InsertCollides(w) \/ CallFailed(w)

Next == \/ \E e \in Events : Arrive(e)
        \/ \E c \in Customers : MapCustomer(c)
        \/ \E w \in Workers :
              \/ Poll(w) \/ Handle(w) \/ Rollback(w)
              \/ MetronomeCreates(w) \/ MetronomeLists(w) \/ ListMisses(w)
              \/ MetronomeRefuses(w) \/ Resend(w) \/ CallFails(w) \/ LoseReply(w)
        \/ \E r \in stray : StrayEnds(r)

Spec == Init /\ [][Next]_vars

\* Stripe delivers, workers poll, every call is answered or times out.
Fairness == /\ \A e \in Events : WF_vars(Arrive(e))
            /\ \A w \in Workers : /\ WF_vars(Poll(w))
                                  /\ WF_vars(Handle(w))
                                  /\ WF_vars(MetronomeCreates(w) \/ MetronomeLists(w))

FairSpec == Spec /\ Fairness

-----------------------------------------------------------------------------
(* Properties.                                                             *)

\* Every variable keeps to the values of its columns, sessions and requests.
TypeOK ==
    /\ TypeOKRuns
    /\ customers \subseteq Customers
    /\ links \in [Subscriptions -> Link]
    /\ contracts \in Seq(Contract)
    /\ stray \subseteq Request

\* models.py:122-140: a link is the source of truth that the contract exists
\* in Metronome, on the subscription's own customer, for this subscription and
\* for the price the row names, created now or recovered after a 409; and its
\* customer's mapping is there before it.
LinkConfirmed ==
    \A s \in Subscriptions : links[s] # NoLink =>
        /\ CustomerOf[s] \in customers
        /\ links[s].contract \in DOMAIN contracts
        /\ LET k == contracts[links[s].contract]
           IN  /\ k.customer = CustomerOf[s]
               /\ Subscription[k.event] = s
               /\ Terms[k.event] = links[s].terms

\* A link, once committed, is never changed: v0.2a only creates, whatever
\* later, repeated or concurrent events the subscription has.
LinkStable ==
    [][\A s \in Subscriptions : links[s] # NoLink => links'[s] = links[s]]_vars

\* The promise of Provisioning: a subscription's row appears once, names a
\* contract made for that subscription, however it was recovered, and is there
\* when a created event of it counts as processed.
P == INSTANCE Provisioning WITH
        Subjects <- Subscriptions,
        Nothing  <- None,
        Unlinked <- 0,
        Parent   <- [s \in Subscriptions |-> None],
        Needs    <- [e \in Events |-> IF e \in NoOps THEN None ELSE Subscription[e]],
        made     <- [s \in Subscriptions |->
                       {i \in DOMAIN contracts : Subscription[contracts[i].event] = s}],
        linked   <- [s \in Subscriptions |-> links[s].contract],
        done     <- {e \in Events : rows[e].status = "processed"}

ImplementsProvisioning == P!Spec

\* subscription.py:14-21: without a refusal by Metronome, a well-formed event
\* fails only after its full budget of attempts, however early it came and
\* whichever workers collided on it.
FailedAfterFullBudget ==
    \A e \in Events \ NoOps :
        Shape[e] = "ok" /\ rows[e].status = "failed" /\ refusals = 0
            => rows[e].attempts = MaxAttempts

\* mappers/subscription.py:18-21, 113-116: the created events of a subscription
\* that agree on its terms make one contract together, however often they are
\* delivered, retried after a lost answer or handled twice at once.
OneContractPerTerms ==
    \A i, j \in DOMAIN contracts :
        LET e == contracts[i].event
            f == contracts[j].event
        IN  Subscription[e] = Subscription[f] /\ Terms[e] = Terms[f] => i = j

\* metronome_client.py:91-95: a lookup that finds nothing after a 409 is
\* treated as a permanent failure.
MissIsPermanent ==
    [][\A w \in Workers :
          Answered(w, {"notFound"}) /\ rows' # rows
              => rows'[work[w].event].status # "pending"]_vars

\* README.md:106-109: a subscription whose customer is mapped gets its contract
\* and its link, over crashes, lost answers and colliding workers.
EverySubscriptionLinked ==
    \A e \in Events \ NoOps :
        Shape[e] = "ok" /\ CustomerOf[Subscription[e]] \in Mapped
            => <>[](links[Subscription[e]] # NoLink)
=============================================================================
