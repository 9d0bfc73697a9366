# A TLA+ model of the Stripe → Metronome sidecar

The sidecar receives Stripe webhooks, stores them in Postgres and has workers
turn them into Metronome customers and contracts. This directory models its
queue, its handlers and what Metronome does with their calls, the requests the
handlers make of payloads, and the stack it is deployed as. TLC checks small
instances; TLAPS proves the safety of the queue, of both kinds of handlers by
themselves and together, of the requests and of the deployment for every size.

File names below are relative to `src/src/sidecar/` unless they say otherwise.

## The system

| Component | State | Operations | What makes it correct |
|---|---|---|---|
| Webhook receiver, `server.py` (+ `stripe_client.py`) | none of its own; inserts into `webhook_events` | verify, insert on conflict do nothing, commit, 200 | an acknowledged event is stored; a redelivery changes nothing |
| Worker, `worker.py` | a stop flag; the open transaction and its row lock | poll, claim, dispatch, verdict, retry, exit | one worker per row, verdicts only under the lock, the budget, every event settles |
| Customer handlers, `handlers/customer.py` | rows of `customer_mappings` | created, updated: create or rename in Metronome | one confirmed and stable mapping per customer; the latest name |
| Subscription handlers, `handlers/subscription.py` | rows of `subscription_mappings` | created: contract; updated, deleted: no-ops | one contract per subscription and terms; the link names it; the wait for a customer fits the budget |
| Metronome client, `metronome_client.py` | none | create customer, set name, create contract (with 409 recovery), classify errors | a lost answer is recovered; 4xx fails, the rest is retried |
| Mappers and tiers, `mappers/*.py`, `config/tiers.py` | the tier table of the process | payload → request, uniqueness key | the same terms give the same key, in both API layouts and over deployments |
| Database sessions, `db.py` | an engine and its pool in each process | open, commit, roll back, close, dispose | no way out of a session keeps its connection; an outage that is over costs nobody an error |
| Models and migrations, `models.py`, `alembic/` | three tables and the revision | keys, unique columns, foreign key; upgrade | the schema is the one of its revision |
| Deployment, `docker-compose.yml`; settings, `config/__init__.py` | the containers | start in order, probe, restart | no service runs on an older schema or without settings; the stack comes up by itself unless a failed migration or bad settings hold it back |
| Logging, `logging.py` | none | format lines | |

The receiver and the workers meet only in `webhook_events`. A worker claims a
row, runs its handler and writes the verdict in one transaction
(`worker.py:144-159`); the Metronome call inside it is not part of the
transaction. The handlers meet in `customer_mappings`, which the customer
handlers fill and the subscription handler reads, in Metronome, and on the queue,
where a subscription spends its attempts while its customer's event waits.

What is hard here: two workers on one row or on one customer; a crash or a lost
answer between Metronome's effect and the commit; a timed-out request that is
carried out later; Stripe's duplicate and reordered deliveries; the insert that
violates a key inside the worker's transaction; the budget of retries, and who
spends it; the two-call recovery from a 409; a key that has to outlive changes of
the payload's layout and of the configuration; an interrupted migration; a
database that goes away under open sessions. `PROJECT.json` lists each at its
line.

## Modules

| Module | Models | Used by |
|---|---|---|
| `EventLifecycle` | the state machine of one row as `docs/architecture.md:107-135` draws it: an abstract specification | `EventQueue` (INSTANCE) |
| `EventQueue` | receiver, table, workers, clock, operator; a handler is any of its outcomes | `EventQueueMC`, `EventQueueProofs` |
| `HandlerRuns` | what handlers share: rows, transactions, verdicts, answers to calls | the next three |
| `CustomerSync` | the customer handlers against Metronome's customers | `CustomerSyncMC`, `Sidecar` (INSTANCE) |
| `SubscriptionSync` | the subscription handlers against Metronome's contracts, with the 409 recovery | `SubscriptionSyncMC`, `Sidecar` (INSTANCE) |
| `Sidecar` | both kinds of handlers on one queue with delays: the composition | `SidecarMC` |
| `Provisioning` | what the handlers promise: an abstract specification | `CustomerSync`, `SubscriptionSync`, `Sidecar` (INSTANCE) |
| `ContractRequests` | one subscription handler on payloads, requests and exceptions | `ContractRequestsMC` |
| `Sessions` | database sessions on a pool | `Deployment` |
| `Deployment` | the compose stack: database, migrator, receiver, worker | `DeploymentMC` |
| `*MC` | the instances for TLC: events, their customers and payloads, symmetry | the `.cfg` files |
| `EventQueueProofs`, `ContractRequestsProofs`, `DeploymentProofs` | inductive invariants and the theorems from them | |
| `HandlerRunsProofs` | the lemmas that the handlers' proofs share | the next four |
| `CustomerSyncProofs`, `SubscriptionSyncProofs` | the same for the handlers, and that both implement `Provisioning` | `SidecarProofs` (INSTANCE) |
| `CustomerNamesProofs` | the names that the customer handlers leave in Metronome; extends `CustomerSyncProofs` | `SidecarProofs` (INSTANCE) |
| `SidecarProofs` | the composition implements each of its parts and `Provisioning` | |

### EventQueue

`rows` is `webhook_events` as committed: `status`, `attempts`, `wait` (the ticks
left until `next_attempt_at`), `error` (the kind of `last_error`) and `rank`
(`received_at` as the place in the order of insertion). `requests` holds the
posts the receiver is handling and how far it got, `acked` the events Stripe has
a 200 for. `holding` says whose row a worker has locked, `mode` whether its
process runs, has been told to stop, or is down.

Nothing a worker writes is visible before its commit, so a transaction has two
steps: `Claim` (the select with its lock) and the commit with the verdict
(`MarkProcessed`, `MarkFailed`, `ScheduleRetryOrFail`). `Rollback` and `Crash`
end it otherwise. `attempts += 1` happens in the transaction, so it is part of
the verdict. `BackoffOverflows` is what `base * 2 ** (attempts - 1)` does once
the power exceeds a float (attempt 1025): the `OverflowError` is raised in the
except clause, leaves `_handle_event` and rolls everything back. `MaxShift`
stands for 1024 and is scaled down in the runs about it.

### HandlerRuns and CustomerSync

Here a handler has steps of its own: `work` says for each worker whether it has
claimed a row, waits for Metronome's answer, waits for the list of contracts, or
has an answer. `rows` keeps status, attempts and rank. Delays are abstracted to
"an event that has been retried may be passed over by a younger one".

In `CustomerSync`, `mapping` is `customer_mappings`, `accounts` Metronome's
customers with their ingest alias and the event their name came from, and
`stray` the requests whose caller has gone (timeout, crash) but which Metronome
may still carry out, at any later time and in any order. The handler's lookup and
its choice are read at one moment (`Found`, `CallMetronome`), the call is a step
of Metronome's, and the insert comes with the commit: `InsertMapping`, or
`InsertCollides` when another worker's row is there. The `IntegrityError` of the
flush reaches the worker's `except Exception`, whose use of the expired event
raises again, so the transaction rolls back and no attempt is counted.

### SubscriptionSync

`links` is `subscription_mappings` with the contract's id and the terms (price
and tier) of the row, `contracts` Metronome's contracts with customer,
uniqueness key and the event they were made for. The handler's steps are in the
order of `handle_subscription_created`: known link, items, customer, tier and
period, call. `Shape` says at which of them a payload is rejected. A 409 leads
to the step "listing" and a second call, between which anything may happen. Of
the customer handlers only `MapCustomer` is left: a row appears and stays
(`CustomerSync`'s `MappingStable`).

### Provisioning and Sidecar

`Provisioning` knows subjects (customers and subscriptions), what Metronome has
made for each, which of it the subject's row names, and which events are done. A
row appears once, names something made for that subject and no other, after the
row of the subject's parent (the customer of a subscription), and with the event
that asked for it; no event is done before what it needs is linked. Each of the
three modules that implement it says so in `ImplementsProvisioning`.

`Sidecar` runs the actions of `CustomerSync` and `SubscriptionSync` (INSTANCE,
over one `rows` and one `work`) on events dispatched by their type. New are the
delays (`wait`, drawn by `Schedule` as `_backoff_delay` draws them), the order of
the poll (the oldest row that is due), and `customer_mappings` as state of the
one and input of the other. `ImplementsCustomerSync` and
`ImplementsSubscriptionSync` project the composition on one kind of events: its
own rows, ranked among themselves, its own work, its own share of the faults
(`hits` is a history variable that counts the other share). So what is proved of
the two modules by themselves holds of them together, and `SubscriptionSync`'s
`MapCustomer`, a mapping that appears at some time and stays, is what the customer
handlers really do.

`EverySubscriptionLinked` is about the wait: a subscription that arrives before
its customer is mapped fails with a retryable error, and has `MaxAttempts` of
them. With one worker the order of the queue protects it as long as its
customer's event is due: that event is older, so whenever both are due it is
served first, and the faults that delay it are faults the subscription was not
hit by. It does not protect it while the customer's event backs off. There the
draws decide (`worker.py:293-299`): after a single failed call to Metronome the
customer's event may wait 30 seconds, and five attempts at the subscription can be
over in five draws near one second. The subscription then ends failed and is never
linked, whatever becomes of the customer. The property says how far the protection
reaches. Every retry waits at least a tick, so a backoff that is shorter than the
attempts the subscription has to spare when it is first handled (`Spare`) ends
before they do, and the subscription is linked; `Outlasts` names the backoffs that
are as long or longer, and second ones. `RetryBase` is at least `MaxAttempts` in
the run, so that both kinds occur, and the excuse is as narrow as it can be:
without `Outlasts`, or with `>` for its `>=`, TLC finds a subscription that is left
behind. With two workers the second may spend a subscription's attempts while the
first is still in the customer's call; the property then does not hold, and
`FailedAfterFullBudget` is what is left.

### ContractRequests

`SubscriptionSync` takes three things as given: how well-formed a payload is
(`Shape`), what two payloads agree on (`Terms`), and what kind of error an answer
is. `ContractRequests` computes them. A payload has an id, a customer, a list of
items with price and start, and a start of its own; any of them may be missing.
`SingleItem`, `RawStart`, `PeriodStart`, `UniquenessKey` and `Request` are the
mapper's functions, the start on the item being the newer layout of the Stripe
API and the one on the subscription the older. `ClientError` is the client's
classification, `HandlerError` the handler's two `except` clauses, `MayRetry` the
worker's. One worker handles payloads, any number of times each; `Redeploy`
replaces the tier table or the rate card at any moment and with it the worker.
`HandlerDecides` and `AnswerDecides` are the properties that justify
`SubscriptionSync`'s abstraction: the checks come in its order, and the errors
have its consequences. `HandlerDecides` is a property of steps, because what it
compares with, the rows of the two mapping tables, may be different a step later.
So is `RowNamesContract`: the row that a step inserts is held against the payload
the handler has, of which the row itself keeps no start. What a deployment may
still spoil is the row's tier, and only where the same contract was asked for under
two tiers of one price: then it keeps the first, and the row says the second.

### Sessions and Deployment

A session of `Sessions` waits for a connection, has one open, has committed and
waits for the reply, or is over. The pool counts connections as SQLAlchemy does:
those that wait in it, broken ones among them, and `opened`, which a checkout may
raise to `PoolSize + MaxOverflow`. `Checkout` includes the ping, which opens a
broken connection again. Every way out (`Finish`, `Fail`, `Abort`) closes the
session; a process that ends takes pool and sessions along (`Drop`).

`Deployment` adds `docker-compose.yml`: the database's container, whose health
check also answers while the volume is being initialised (`pg_isready` asks on
the container's socket), the migrator that runs once and is not restarted, and
the receiver and the worker, which wait for both on `docker compose up` and on
neither after a crash. The two versions under `alembic/` run in one transaction:
`upgrade` is what it sees, `revision` and `tables` what is committed. `Init` is a
new volume or one that an earlier release left at any revision; `.env` is good or
not.

## Runs

| Run | Instance | Shows |
|---|---|---|
| `queue_safety` | two workers, an event with any outcome, one without a handler, one that never verifies, three disruptions, a replay, a backoff that overflows | `TypeOK`, `NoSharedRow`, `HeldRowIsDue`, `AckedIsStored`, `VerdictsUnderLock`, `SettledRowsStay` |
| `queue_settles` | two workers, two events with any outcome, two disruptions, a replay | `AttemptsBudget`, the refinement `ImplementsLifecycle`, and that every valid event settles |
| `queue_stuck` | a budget beyond the exponent of a float | violated: the event is tried for ever (`EveryEventSettles`) |
| `customer_safety` | two customers, two workers, any order, an unmappable payload, a fault, a refusal | `TypeOK`, `MappingConfirmed`, `ProcessedIsMapped`, `MappingStable`, `ImplementsProvisioning`, `EveryEventProcessed` |
| `customer_stale` | three events of a customer, two workers, no fault, in order | violated: the older of two names stays (`NameMatchesLatest`) |
| `customer_unmapped` | one event, one fault, aliases unique in Metronome | violated: the retry's 409 is permanent (`EndsMapped`) |
| `subscription_safety` | two differing events of a subscription, every other shape of payload on a second one, two workers, a fault, a refusal | `TypeOK`, `LinkConfirmed`, `LinkStable`, `ImplementsProvisioning` |
| `subscription_links` | two agreeing events on two workers, a subscription that may come before its customer, a fault | `FailedAfterFullBudget`, `OneContractPerTerms`, `EverySubscriptionLinked` |
| `subscription_miss` | a lost answer, a 409, a list without the contract | violated: the miss is retried, not failed (`MissIsPermanent`) |
| `sidecar` | a customer with two events and two subscriptions, one worker, any order, delays of one and two ticks, a fault, a refusal | `ImplementsCustomerSync`, `ImplementsSubscriptionSync`, `ImplementsProvisioning`, `EverySubscriptionLinked`, `NameMatchesLatest` |
| `contract_requests` | fifteen payloads of two subscriptions, well-formed in both layouts and malformed in every way; three configurations, two deployments, three requests | `SameTermsSameKey`, `KeyFixesRequest`, `StartOnTheHour`, `HandlerDecides`, `AnswerDecides`, `RowNamesContract` |
| `deployment` | three posts and the worker's polls on pools of one connection and one more, a new or an old volume, good or bad settings, two disruptions | `TypeOK`, `SchemaIsStamped`, `ReadyToRun`, `PoolAccounts`, `OutagesEnd`, `EveryPostAnswered`, `PollsGoOn` |

Bounds. Two workers and two or three events of one customer are what a race
needs: one to overtake and one to be overtaken; a third worker would only repeat
the second. A fault bound of one to three allows a crash and the crash of its
recovery; attempts run to two or more, so that first and last attempt differ.
`MaxFaults`, `MaxRefusals`, `MaxDisruptions`, `MaxReplays`, `MaxRedeploys` and
`MaxSent` bound what the environment does and never what the program does. In the
liveness runs the faults stay below the budget (`MaxFaults < MaxAttempts`). In
`sidecar` two attempts and delays of one or two ticks let a subscription meet its
customer's event before, during and after its backoff, and let that backoff end
within the subscription's attempts or outlast them. A `Fault` of the handlers' runs
is a crash, a lost answer, a call that fails, or a request that the SDK sends twice.
In `contract_requests`
`Hour` is 4, with starts 5 and 7 in one hour and 8 in the next. In `deployment`
the pool of 1 + 1 stands for the 5 + 10 that `db.py` configures: three posts
reach the pool, its overflow and the wait; two disruptions are an outage and one
more thing during it. `CHECK_DEADLOCK FALSE` in the handlers' runs and in
`contract_requests`: when every event has settled, or the bound on requests is
reached, nothing is left to do.

`NameMatchesLatest` is what `customer.py:12-14` promises. `sidecar` shows it, and
with it that the customer has one account, for one worker, when no fault or
refusal hits a customer event (subscription events may meet any), every payload
has a name, a created event carries its customer's first payload, and the
customer's events come in the order of their payloads. `customer_stale` shows that
two workers break it with no fault at all. A late retry and out-of-order delivery
break it too. If
Metronome refuses a second customer with the same alias, a rule of Metronome's
that the constant `AliasUnique` leaves open, two workers cannot make two accounts,
but `customer_unmapped` shows the price: `create_customer` has no recovery from a
409 as `create_contract` has.

Two created events of one subscription with *different* terms have different
uniqueness keys, and can make two contracts when the first one's answer is lost;
`OneContractPerTerms` is stated for agreeing events for that reason, and
checked in `subscription_links`, where two agreeing events meet on two workers.

The delay between retries is a draw from one second to the exponential delay
(`worker.py:299`), as the docstring of `_backoff_delay` says; the formula with
added jitter in the module's docstring and in the README is not what is computed.

## Fairness

`EventQueue`: Stripe redelivers a valid event until it has had a 200
(`Redeliver`), the receiver's and the workers' event loops go on, a handler ends
because every Metronome call has a timeout, a worker that is down is started
again (after a crash by `restart: unless-stopped` in `docker-compose.yml`, after
a deliberate stop by whoever stopped it), and time passes. All are weak fairness of single actions; a worker's verdict as a whole is fair, not each of
its outcomes. Crashes, rollbacks, stops and replays have no fairness.
`CustomerSync` and `SubscriptionSync`: deliveries, polls, the handlers' local
steps and Metronome's answers. A stray request need never arrive and a customer
of `SubscriptionSync` need never be mapped. `Sidecar`: the same for both kinds of
events, and time. `Deployment`: Docker starts the database and probes it, starts
and restarts containers, programs run on, Stripe posts again until its 200, and
the pool serves those who wait in turn. `ComposeUp`, outages, crashes, stops and
exceptions have no fairness. Nobody restarts the migrator: a migration that
fails, or settings that stay wrong, hold the stack back until somebody acts
(`HeldBack`; the repository's README, lines 558-563, tells the operator how), and
`EveryPostAnswered` and `PollsGoOn` say so.

## Proofs

`EventQueueProofs` assumes only what `EventQueue` does: finitely many events, and
the lower bounds the settings enforce. It proves, for any workers, budget,
delays and bounds:

- `TypeCorrect`; `Invariance`, the inductive invariant `IInv`; and from it
  `NoSharedRowHolds`, `HeldRowIsDueHolds`, `AttemptsBudgetHolds`,
  `AckedIsStoredHolds`;
- `VerdictsUnderLockHolds` and `SettledRowsStayHolds`, the action properties;
- `Refinement`: `Spec` implements `EventLifecycle`.

`AttemptsBudget` is not inductive without `HeldRowIsDue` (a verdict is applied to
a pending row only because a held row is one), and that needs `NoSharedRow` (no
other worker may settle a held row) and that only pending rows wait (else the
clock could touch a settled one). Lemma `RowStep` says once for all actions what
a step may do to a row: nothing that matters, a first insert, a verdict under
the lock, or a replay; the action properties and the refinement follow from it.

`CustomerSyncProofs` assumes finitely many events, that every event has a customer,
and a budget of at least one attempt; whether Metronome refuses an alias in use
and whether Stripe delivers in order may be either. It proves `TypeCorrect`,
`Invariance`, `MappingConfirmedHolds`, `ProcessedIsMappedHolds` and
`MappingStableHolds`, for any customers, workers, faults and refusals.

`MappingConfirmed` speaks of what is committed and is not inductive by itself: a
commit writes the id of an answer, and a rename is applied to the account of a
mapping looked up earlier, by a request that may outlive its caller. `IInv`
therefore says the same of what is on its way. `SessionsOwned`: the mapping a
worker has looked up is still the customer's, and the id it has been answered is
an account with the customer's alias; `StrayOwned`: a request nobody waits for
renames an account of its own customer. They last because accounts are only
added or renamed (lemma `AccountsStep`) and a committed mapping never changes
(`MappingKept`), which is `MappingStable` as well. `TouchMapping` commits
`processed` on the mapping looked up before the call, so `ProcessedIsMapped`
needs `SessionsOwned` too.

`SubscriptionSyncProofs` proves `TypeCorrect`, `Invariance`, `LinkConfirmedHolds`,
`OneContractPerTermsHolds` and `LinkStableHolds`, for any subscriptions, events,
workers and bounds. `ContractsKeyed`: every contract has the key of the event it
was made for and no two have the same key; that is `OneContractPerTerms`, and it
lasts because a create with a key in use makes nothing. `SessionsSound`: a worker
that calls has seen its customer mapped, and what it has been answered, made now
or found by the list after a 409, is a contract with its event's key. From these a
committed link is what `LinkConfirmed` says.

Both also prove that their handlers implement `Provisioning` (`Refinement`). A
step is found by what it changes (Metronome, a link, the set of done events)
rather than by its name. That no event done is ever undone needs the lock:
`LocksHold` (a row under a worker's transaction is pending and nobody else's) and
lemma `RowsUnderLock` (a stored row changes only by the worker that lets go of
it). `HandlerRunsProofs` has what both share. `FullBudget` adds that a row still
to be tried has attempts left and that only a refusal leaves a permanent answer; a
verdict then applies to a pending row, and `failed` without a refusal is the last
attempt's.

`CustomerNamesProofs` proves when the customer handlers keep their word on names
(`LatestNameHolds`). `RanksHold` comes first: the rank of a row is its place among
the stored rows, so that no two events share one and an arrival is younger than
all of them. While nothing has gone wrong the queue is then served in its order:
no row is retried or failed, and every processed row is older than every pending
one (`ServedInOrder`). Between two transactions a customer has no account and no
processed event, or one account, mapped, with the name of a processed event that
no other processed event is younger than, created events aside (`Settled`);
between Metronome's answer and the commit the account has the name of the event
under way (`NamedAhead`). Both are conditioned on one worker and no fault, which
is why the invariant is an implication (`NamesInv`).

`SidecarProofs` is about both kinds of events on one queue, for any events,
workers, budgets and delays. Its invariant `Inv` says of the queue what the
projections need: locks, ranks, sessions that are on an event or idle, only
retried rows wait, and the faults and refusals counted for customer events are
among all. From it:

- `ImplementsCustomerSyncHolds` and `ImplementsSubscriptionSyncHolds`: a step of
  the sidecar is, seen from either kind of events, the step of the same name of
  `CustomerSync` or `SubscriptionSync`, or nothing. Two things are not obvious. A
  rank among the events of one kind is a count (`OwnRank`): an arrival of the kind
  gets the next of them, one of the other kind moves none (cardinalities). And
  the event that a worker may claim here, the oldest that is due, is one it may
  claim there, where any older event that was retried may be passed over: an event
  that waits has been retried (`WaitSound`). For the subscriptions, a commit of the
  customer handlers is the step that maps a customer.
- The theorems about the handlers then hold in the sidecar. The proof modules of
  the handlers are instantiated on the two sides, with their assumptions proved
  from the sidecar's: `SidesCorrect` (`MappingConfirmed`, `ProcessedIsMapped`,
  `LinkConfirmed`, `OneContractPerTerms`, `FailedAfterFullBudget`), `LinksStable`
  (no row of either mapping table is changed), and `NameMatchesLatestHolds`.
- `ImplementsProvisioningHolds`: each side keeps the promise of `Provisioning`, no
  step moves both, and a subscription is linked only when its customer is, which
  is the one obligation that neither side can see by itself (`LinkableHolds`).

`ContractRequestsProofs` proves every property of `contract_requests` for any
payloads, configurations, length of the hour and failures. It assumes that Stripe
never moves a subscription to another customer (`OneCustomerAssumption`):
`KeyFixesRequest` is false without it, since the key does not name the customer. A
request is a function of payload and configuration (`AllAsked`), so that two are
compared through `RawStart` and the floor; `Checked` says of every step of the
handler which checks are behind it, and lasts because no other handling touches
the row and a deployment ends the handling. `RowOfContract` is where the two meet:
the contract about to be inserted has the key of the handler's payload
(`Checked`), somebody has asked for it (`TypeOK`), with a payload that its key
makes agree with the handler's (`AllAsked`).

`DeploymentProofs` proves the four invariants and the action property of
`deployment` for any number of posts, pools of any size and any number of
disruptions. `Transaction`: what the
migrator's transaction sees is the tables of the revision it is at, so the commit
stamps what it creates, and a migrator that is done has reached the last one,
which no later step takes back. `Scopes`: a session has a connection exactly while
it is open, and is there only in a process that runs; `PoolAccounts` then follows
step by step, a checkout and a close moving one connection between the pool and
the tasks that have one out (lemmas `Opened` and `Closed`, on cardinalities).
`OutagesEndHolds` needs that a broken connection of a session is the trace of an
outage during that session (`BrokenByOutage`), which the ping at the checkout makes
true: without it a session could be given one that broke before.

Model-checked only: liveness (`EveryEventSettles`, `EveryEventProcessed`,
`EverySubscriptionLinked` of both modules, `EveryPostAnswered`, `PollsGoOn`), which
with fairness is out of the prover's reach, and the four violations, which are
counterexamples. Every other property of a run has a theorem. No theorem is about
what a recursive definition computes: the modules have none. The theorems about
`Sidecar` inherit its abstractions: one clock, and terms as numbers, not payloads;
`HandlerDecides` and `AnswerDecides` of `ContractRequests` are the bridge, which is
an argument in prose and not a theorem.

## Abstractions

- `received_at` is the moment of the insert's commit, so rows have one order;
  two inserts in one instant are not distinguished.
- Two posts of one event at the same stage are one member of `requests`; the
  second would do the same to the table.
- An unknown outcome of a commit (connection lost in it) is either a rollback
  or a commit followed by a crash; both are steps of the model.
- The SDK's own retransmissions are a step (`Resend`): an earlier copy of the
  request is on its way too, and may be carried out before the answer or after it.
  Copies of one request that are on their way at the same time count as one: a
  further one meets what the first has made, or makes once more what nobody names.
- A payload's start is within the range of `datetime`: `_unix_to_iso_utc`
  (`mappers/subscription.py:248-255`) raises for others, a `ValueError` that the
  handler makes permanent or an `OverflowError` that the worker retries. No time
  that Stripe sends gets there.
- `Sidecar` fixes `AliasUnique = FALSE`, so its creates of customers meet no 409,
  and its payloads are well-formed and mappable. The theorems about the handlers
  by themselves have neither restriction.
- `processed_at`, `created_at`, `updated_at` and the text of `last_error` decide
  nothing and are left out; a replay is the statement of
  `docs/architecture.md:130-135`.
- One clock for the database and the workers.
- A customer payload without an object or id is left out (a permanent failure
  before any lookup); the subscription handlers' is there (`"broken"`).

- One migration transaction: alembic's own table is part of `revision`.
- The pool's wait is the only queue in a process; the event loop is not modelled.

Not modelled: the arithmetic of signatures and the parsing of the environment
(libraries'), log formatting, the build of the image, downgrades and offline
migrations (nothing calls them), `is_upgrade` of `config/tiers.py` (called by
tests only), and the fallbacks for a customer's display name with the other fixed
fields of requests: they change no state the system decides on.

## Plan

Everything of the first plan is there: the queue, both handlers, their
composition, their abstract specification, the requests, the deployment, and the
proofs of their safety, of the composition's too. What is left, in the order of
what it would add:

1. That `Sidecar`'s rows keep to `EventLifecycle`, as those of `EventQueue` do: one
   lifecycle for the queue with any handler and the queue with these handlers.
2. What the handlers' sides imply for the sidecar's own variables, stated without
   the projections (`MappingConfirmed` and `LinkConfirmed` hold of the same tables,
   `ProcessedIsMapped` of the shared rows).
3. Two workers in `sidecar`: the instance is out of reach with delays; an
   abstraction of the waits would have to keep who is older. The theorems hold for
   any number.
