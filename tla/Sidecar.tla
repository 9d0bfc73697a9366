------------------------------- MODULE Sidecar -------------------------------
(***************************************************************************)
(* The whole sidecar: customer and subscription events on one queue, run   *)
(* by the handlers of CustomerSync and SubscriptionSync against one        *)
(* database and one Metronome.                                             *)
(*                                                                         *)
(* Two things are new here.  customer_mappings is written by one kind of   *)
(* handler and read by the other.  And the delays are back: a retried      *)
(* event waits for as long as the backoff draws, and a worker takes the    *)
(* oldest event that is due, so how much of a subscription's budget the    *)
(* wait for its customer takes is decided by the queue.                    *)
(***************************************************************************)
EXTENDS HandlerRuns

CONSTANTS
    Customers,        \* Stripe customers
    Subscriptions,    \* Stripe subscriptions
    CustomerEvents,   \* the customer.* events, the rest are of subscriptions
    Customer,         \* customer event -> the customer in data.object.id
    Version,          \* customer event -> its place among the payloads
    Created,          \* the customer.created events
    Subscription,     \* subscription event -> the one in data.object.id
    CustomerOf,       \* subscription -> the customer it is billed to
    NoOps,            \* the subscription events of type updated and deleted
    Terms,            \* subscription event -> price and hour of the start
    RetryBase,        \* WORKER_RETRY_BASE_SECONDS, in ticks
    RetryCap          \* WORKER_RETRY_CAP_SECONDS, in ticks

SubscriptionEvents == Events \ CustomerEvents

ASSUME SidecarAssumption ==
    /\ IsFiniteSet(Customers)
    /\ None \notin Customers \cup Subscriptions
    /\ Customers \cap Subscriptions = {}
    /\ CustomerEvents \subseteq Events
    /\ Customer \in [CustomerEvents -> Customers]
    /\ Version \in [CustomerEvents -> Nat]
    /\ Created \subseteq CustomerEvents
    /\ Subscription \in [SubscriptionEvents -> Subscriptions]
    /\ CustomerOf \in [Subscriptions -> Customers]
    /\ NoOps \subseteq SubscriptionEvents
    /\ Terms \in [SubscriptionEvents -> Nat]
    /\ RetryBase \in Nat \ {0}
    /\ RetryCap \in Nat \ {0}

VARIABLES
    wait,        \* event -> the ticks left until next_attempt_at
    mapping,     \* customer_mappings, as in CustomerSync
    accounts,    \* Metronome's customers
    renames,     \* requests about customers nobody waits for
    links,       \* subscription_mappings, as in SubscriptionSync
    contracts,   \* Metronome's contracts
    creates,     \* requests about contracts nobody waits for
    hits         \* history: the faults and refusals that hit customer events

customerVars == <<mapping, accounts, renames>>

subscriptionVars == <<links, contracts, creates>>

vars == <<rows, work, faults, refusals, wait, customerVars, subscriptionVars, hits>>

-----------------------------------------------------------------------------
(* The handlers.  A handler never looks at an event of the other kind; what *)
(* its constants say of one is never used.                                  *)

About == [e \in Events |-> IF e \in CustomerEvents THEN Customer[e]
                           ELSE CustomerOf[Subscription[e]]]

OnAllEvents(f, other) == [e \in Events |-> IF e \in DOMAIN f THEN f[e] ELSE other]

C == INSTANCE CustomerSync WITH
        Customer <- About,
        Version  <- OnAllEvents(Version, 0),
        Mappable <- Events,
        AliasUnique <- FALSE,
        InOrder  <- FALSE,
        stray    <- renames

S == INSTANCE SubscriptionSync WITH
        Subscription <- OnAllEvents(Subscription, CHOOSE s \in Subscriptions : TRUE),
        Terms     <- OnAllEvents(Terms, 0),
        Shape     <- [e \in Events |-> "ok"],
        Mapped    <- {},
        customers <- {c \in Customers : mapping[c] # 0},
        stray     <- creates

Init ==
    /\ C!Init
    /\ links = [s \in Subscriptions |-> S!NoLink]
    /\ contracts = << >>
    /\ creates = {}
    /\ wait = [e \in Events |-> 0]
    /\ hits = [faults |-> 0, refusals |-> 0]

-----------------------------------------------------------------------------
(* The queue.                                                              *)

\* Mutant: ON CONFLICT DO UPDATE, a redelivery starts the event again.
ArriveUpsert(e) ==
    /\ rows' = [rows EXCEPT ![e] = [status |-> "pending", attempts |-> 0, rank |-> NextRank]]
    /\ UNCHANGED <<work, faults, refusals, wait, customerVars, subscriptionVars, hits>>

Arrive(e) ==
    /\ Insert(e)
    /\ UNCHANGED <<work, faults, refusals, wait, customerVars, subscriptionVars, hits>>

Due(e) == Available(e) /\ wait[e] = 0

\* Mutant: the select has no order, any due event may be claimed.
PollAny(w) ==
    /\ work[w].pc = "idle"
    /\ \E e \in Events :
          /\ Due(e)
          /\ work' = [work EXCEPT ![w].pc = "claimed", ![w].event = e]
    /\ UNCHANGED <<rows, faults, refusals, wait, customerVars, subscriptionVars, hits>>

\* The oldest of the due events.
Poll(w) ==
    /\ work[w].pc = "idle"
    /\ \E e \in Events :
          /\ Due(e)
          /\ \A f \in Events : Due(f) => rows[e].rank <= rows[f].rank
          /\ work' = [work EXCEPT ![w].pc = "claimed", ![w].event = e]
    /\ UNCHANGED <<rows, faults, refusals, wait, customerVars, subscriptionVars, hits>>

\* Draws between one tick and the exponential delay, as in EventQueue.
BackoffDelays(attempts) ==
    {d \in 1 .. RetryCap : d = 1 \/ d <= RetryBase * 2^(attempts - 1)}

\* The step ends a transaction with the verdict that the event is retried.
Retried(e) == rows'[e].status = "pending" /\ rows'[e].attempts > rows[e].attempts

\* Every verdict "pending" comes with a new next_attempt_at.
Schedule(w) ==
    LET e == work[w].event
    IN  IF Retried(e)
        THEN \E d \in BackoffDelays(rows'[e].attempts) : wait' = [wait EXCEPT ![e] = d]
        ELSE UNCHANGED wait

Tick ==
    /\ \E e \in Events : wait[e] > 0
    /\ wait' = [e \in Events |-> IF wait[e] > 0 THEN wait[e] - 1 ELSE 0]
    /\ UNCHANGED <<rows, work, faults, refusals, customerVars, subscriptionVars, hits>>

-----------------------------------------------------------------------------
(* The steps of a worker on an event, dispatched by its type.              *)

OnCustomer(w, step) ==
    /\ work[w].event \in CustomerEvents
    /\ UNCHANGED subscriptionVars
    /\ step
    /\ Schedule(w)
    /\ hits' = [faults   |-> hits.faults + (faults' - faults),
                refusals |-> hits.refusals + (refusals' - refusals)]

\* Mutant: subscription events get the handlers' errors, but no backoff.
OnSubscriptionAtOnce(w, step) ==
    /\ work[w].event \in SubscriptionEvents
    /\ UNCHANGED <<customerVars, hits, wait>>
    /\ step

OnSubscription(w, step) ==
    /\ work[w].event \in SubscriptionEvents
    /\ UNCHANGED <<customerVars, hits>>
    /\ step
    /\ Schedule(w)

HandleCustomer(w) == OnCustomer(w, C!Handle(w))

AnswerCustomer(w) == OnCustomer(w, C!MetronomeAnswers(w))

CustomerCallGoesWrong(w) ==
    OnCustomer(w, \/ C!MetronomeRefuses(w) \/ C!Resend(w) \/ C!CallFails(w)
                  \/ C!LoseReply(w) \/ C!Rollback(w))

HandleSubscription(w) == OnSubscription(w, S!Handle(w))

AnswerSubscription(w) == OnSubscription(w, S!MetronomeCreates(w) \/ S!MetronomeLists(w))

SubscriptionCallGoesWrong(w) ==
    OnSubscription(w, \/ S!MetronomeRefuses(w) \/ S!ListMisses(w) \/ S!Resend(w)
                      \/ S!CallFails(w) \/ S!LoseReply(w) \/ S!Rollback(w))

RenameArrives ==
    /\ \E r \in renames : C!StrayEnds(r)
    /\ UNCHANGED <<wait, subscriptionVars, hits>>

CreateArrives ==
    /\ UNCHANGED <<wait, customerVars, hits>>
    /\ \E r \in creates : S!StrayEnds(r)

-----------------------------------------------------------------------------

Next == \/ \E e \in Events : Arrive(e)
        \/ \E w \in Workers :
              \/ Poll(w)
              \/ HandleCustomer(w) \/ AnswerCustomer(w) \/ CustomerCallGoesWrong(w)
              \/ HandleSubscription(w) \/ AnswerSubscription(w)
              \/ SubscriptionCallGoesWrong(w)
        \/ RenameArrives \/ CreateArrives
        \/ Tick

Spec == Init /\ [][Next]_vars

\* Stripe delivers, workers poll, every call is answered or times out, and
\* time passes.
Fairness == /\ \A e \in Events : WF_vars(Arrive(e))
            /\ \A w \in Workers : /\ WF_vars(Poll(w))
                                  /\ WF_vars(HandleCustomer(w))
                                  /\ WF_vars(AnswerCustomer(w))
                                  /\ WF_vars(HandleSubscription(w))
                                  /\ WF_vars(AnswerSubscription(w))
            /\ WF_vars(Tick)

FairSpec == Spec /\ Fairness

-----------------------------------------------------------------------------
(* What one kind of handler sees: its own events, in the order among them.  *)

OwnRank(e, own) == Cardinality({f \in own : rows[f].rank \in 1 .. rows[e].rank})

OwnRows(own) == [e \in own |-> [rows[e] EXCEPT !.rank = OwnRank(e, own)]]

OwnWork(own) == [w \in Workers |-> IF work[w].event \in own THEN work[w] ELSE Idle]

CustomerSide ==
    INSTANCE CustomerSync WITH
        Events   <- CustomerEvents,
        Mappable <- CustomerEvents,
        AliasUnique <- FALSE,
        InOrder  <- FALSE,
        stray    <- renames,
        rows     <- OwnRows(CustomerEvents),
        work     <- OwnWork(CustomerEvents),
        faults   <- hits.faults,
        refusals <- hits.refusals

SubscriptionSide ==
    INSTANCE SubscriptionSync WITH
        Events    <- SubscriptionEvents,
        Shape     <- [e \in SubscriptionEvents |-> "ok"],
        Mapped    <- {},
        customers <- {c \in Customers : mapping[c] # 0},
        stray     <- creates,
        rows      <- OwnRows(SubscriptionEvents),
        work      <- OwnWork(SubscriptionEvents),
        faults    <- faults - hits.faults,
        refusals  <- refusals - hits.refusals

-----------------------------------------------------------------------------
(* Properties.                                                             *)

\* worker.py:76-85: the handlers do not get in each other's way.  Next to the
\* subscriptions' events, with whatever delays, customer events are handled as
\* CustomerSync says, by itself.
ImplementsCustomerSync == CustomerSide!Spec

\* subscription.py:14-21: all a subscription's handler sees of the customers'
\* is that a mapping appears some time and stays, as SubscriptionSync assumes.
ImplementsSubscriptionSync == SubscriptionSide!Spec

\* The promise of Provisioning for the system as a whole: the foreign key's
\* order, one row for each subject, and no event done before its subject is.
P == INSTANCE Provisioning WITH
        Subjects <- Customers \cup Subscriptions,
        Nothing  <- None,
        Unlinked <- <<"none", 0>>,
        Parent   <- [s \in Customers \cup Subscriptions |->
                       IF s \in Customers THEN None ELSE CustomerOf[s]],
        Needs    <- [e \in Events |-> IF e \in CustomerEvents THEN Customer[e]
                                      ELSE IF e \in NoOps THEN None
                                      ELSE Subscription[e]],
        made     <- [s \in Customers \cup Subscriptions |->
                       IF s \in Customers
                       THEN {<<"account", i>> :
                               i \in {j \in DOMAIN accounts : accounts[j].alias = s}}
                       ELSE {<<"contract", i>> :
                               i \in {j \in DOMAIN contracts :
                                        Subscription[contracts[j].event] = s}}],
        linked   <- [s \in Customers \cup Subscriptions |->
                       IF s \in Customers
                       THEN IF mapping[s] = 0 THEN <<"none", 0>>
                            ELSE <<"account", mapping[s]>>
                       ELSE IF links[s] = S!NoLink THEN <<"none", 0>>
                            ELSE <<"contract", links[s].contract>>],
        done     <- {e \in Events : rows[e].status = "processed"}

ImplementsProvisioning == P!Spec

\* f is an event of the customer that e's subscription is billed to, and older.
CameFirst(f, e) == Customer[f] = About[e] /\ rows[f].rank \in 1 .. rows[e].rank

\* The attempts at e that no fault to come can take.
Spare(e) == MaxAttempts - rows[e].attempts - (MaxFaults - faults)

\* When e is first handled, f backs off for as many ticks as e has attempts to
\* spare, which may be that many ticks; or f has to back off a second time.
Outlasts(f, e) ==
    \/ /\ rows[e].attempts = 0
       /\ \E w \in Workers : work[w].event = e
       /\ wait[f] >= Spare(e)
    \/ rows[f].status = "pending" /\ rows[f].attempts > 1

\* README.md:106-110: a subscription is linked if an event of its customer came
\* before it, even while that event backs off and the subscription spends its
\* attempts waiting: every retry waits at least a second, and whenever both are
\* due the customer is served first.  Only a backoff that outlasts all of the
\* subscription's attempts (worker.py:293-299) leaves it behind.  And whichever
\* comes first, it is linked if the customer is mapped with attempts to spare.
EverySubscriptionLinked ==
    \A e \in SubscriptionEvents \ NoOps :
        LET Linked == links[Subscription[e]] # S!NoLink
        IN  /\ \A f \in CustomerEvents :
                  \/ <>[]Linked
                  \/ <>[]~ CameFirst(f, e) \/ <>Outlasts(f, e) \/ <>[](refusals > 0)
            /\ mapping[About[e]] # 0 /\ Available(e) /\ Spare(e) > 0
                  ~> Linked \/ refusals > 0

\* customer.py:12-14 and README.md:29-31: with one worker, and unless a fault or
\* a refusal hits a customer event, a customer whose events come in order ends
\* with one account, which has the latest name, whatever happens to the
\* subscriptions' events that the same worker takes in between.
NameMatchesLatest == CustomerSide!LatestNameInOrder
=============================================================================
