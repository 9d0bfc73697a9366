--------------------------- MODULE ContractRequests ---------------------------
(***************************************************************************)
(* handle_subscription_created at the level of payloads, requests and      *)
(* exceptions: what SubscriptionSync takes as given (Shape, Terms, kinds   *)
(* of replies) is computed here from a payload as Stripe sends it, in the  *)
(* old or the new layout, by the handler, the mapper                       *)
(* (mappers/subscription.py), the tier table (config/tiers.py) and the     *)
(* client's classification of errors (metronome_client.py).                *)
(*                                                                         *)
(* One worker handles one payload after another, any of them any number of *)
(* times.  Between two handlings a new tier table or rate card may be      *)
(* deployed: what a key or a request depends on then matters.              *)
(***************************************************************************)
EXTENDS Integers, Sequences, FiniteSets

CONSTANTS
    Missing,      \* a field that is absent, empty or of another type
    Ids,          \* subscription ids
    Customers,    \* customer ids
    Prices,       \* price ids
    Tiers,        \* what a Tier grants: name, amount, product, recurrence
    RateCards,    \* values of METRONOME_DEFAULT_RATE_CARD_ID
    Hour,         \* 3600, in seconds
    Payloads,     \* the payloads (data.object) that may come
    Configs,      \* the configurations that may be deployed
    Refusals,     \* error statuses of Metronome's own, 409 apart
    MaxRedeploys, \* bound: deployments after the first
    MaxSent       \* bound: different requests sent before the last handling

\* A start is within the range of datetime, as every time Stripe sends is:
\* _unix_to_iso_utc raises on any other.
Start == Int \cup {Missing}

\* An element of items.data.
Item == [price : Prices \cup {Missing}, start : Start] \cup {Missing}

Payload == [id : Ids \cup {Missing}, customer : Customers \cup {Missing},
            items : Seq(Item) \cup {Missing}, start : Start]

\* The tier table and the rate card that a process was started with.
Config == [tiers : UNION {[T -> Tiers] : T \in SUBSET Prices}, rateCard : RateCards]

ASSUME ContractRequestsAssumption ==
    /\ Missing \notin Ids \cup Customers \cup Prices
    /\ Hour \in Nat \ {0}
    /\ Payloads \subseteq Payload
    /\ Configs \subseteq Config
    /\ Refusals \subseteq (400 .. 599) \ {409}
    /\ MaxRedeploys \in Nat
    /\ MaxSent \in Nat

\* Stripe never moves a subscription to another customer.
ASSUME OneCustomerAssumption ==
    \A p, q \in Payloads :
        p.id = q.id /\ Missing \notin {p.id, p.customer, q.customer} => p.customer = q.customer

VARIABLES
    config,      \* the configuration of the running worker
    redeploys,   \* how often it has been replaced
    mapped,      \* the customers with a row in customer_mappings
    links,       \* subscription_mappings
    made,        \* the requests Metronome has made contracts of
    sent,        \* history: every request sent, with its payload and config
    job          \* the handler that runs

vars == <<config, redeploys, mapped, links, made, sent, job>>

-----------------------------------------------------------------------------
(* The mapper.                                                             *)

\* _require_single_item: exactly one item, an object with a price id.
SingleItem(p) ==
    IF p.items # Missing /\ Len(p.items) = 1 /\ p.items[1] # Missing
    THEN IF p.items[1].price # Missing THEN p.items[1] ELSE Missing
    ELSE Missing

\* The new layout has the start of the period on the item, the old one on the
\* subscription; where both are there the item's counts.
RawStart(p) == IF SingleItem(p).start # Missing THEN SingleItem(p).start ELSE p.start

\* Mutant: only what comes from the item is floored.
PeriodStartOfItem(p) ==
    IF SingleItem(p).start # Missing THEN SingleItem(p).start - (SingleItem(p).start % Hour)
    ELSE p.start

\* Mutant: rounded to the nearest hour.
PeriodStartRounded(p) == ((RawStart(p) + Hour \div 2) \div Hour) * Hour

\* Metronome takes credits that start on the hour only.
PeriodStart(p) == RawStart(p) - (RawStart(p) % Hour)

\* Mutant: the price is left out of the key.
KeyWithoutPrice(p) == <<p.id, "price", PeriodStart(p)>>

UniquenessKey(p) == <<p.id, SingleItem(p).price, PeriodStart(p)>>

\* ValueError for anything less.
Mappable(p) == p.id # Missing /\ SingleItem(p) # Missing /\ RawStart(p) # Missing

Request(p, c) ==
    [customer    |-> p.customer,
     rateCard    |-> c.rateCard,
     startingAt  |-> PeriodStart(p),
     key         |-> UniquenessKey(p),
     tier        |-> c.tiers[SingleItem(p).price],
     creditStart |-> PeriodStart(p)]

-----------------------------------------------------------------------------
(* Exceptions.                                                             *)

\* An error status, an answer without data.id, none at all (connection,
\* timeout, anything else of the SDK's), or a list without the contract.
Answer == [kind : {"none", "status", "noId", "lost", "notListed"}, code : 0 .. 599]

Bare(kind) == [kind |-> kind, code |-> 0]

Status(code) == [kind |-> "status", code |-> code]

\* Mutant: 429 is a 4xx like the others.
IsTransientStrict(code) == code \in 500 .. 599

\* _classify_status_error.
IsTransient(code) == code = 429 \/ code \in 500 .. 599

\* What the client raises.
ClientError(answer) ==
    CASE answer.kind = "notListed" -> "ContractNotFoundError"
      [] answer.kind = "lost" -> "TransientMetronomeError"
      [] answer.kind = "status" /\ IsTransient(answer.code) -> "TransientMetronomeError"
      [] OTHER -> "PermanentMetronomeError"

\* What leaves the handler: it knows two of the client's exceptions.
HandlerError(exception) ==
    CASE exception = "TransientMetronomeError" -> "RetryableHandlerError"
      [] exception = "PermanentMetronomeError" -> "PermanentHandlerError"
      [] OTHER -> exception

Errors == {"RetryableHandlerError", "PermanentHandlerError", "ContractNotFoundError"}

\* The worker marks the event failed on the permanent one only.
MayRetry(error) == error # "PermanentHandlerError"

-----------------------------------------------------------------------------

Steps == {"idle", "ids", "dedupe", "price", "customer", "tier", "map",
          "create", "list", "insert", "raised", "returned"}

NoJob == [pc |-> "idle", payload |-> Missing, answer |-> Bare("none"),
          error |-> Missing, contract |-> Missing]

NoLink == [contract |-> Missing, price |-> Missing, tier |-> Missing]

Init ==
    /\ config \in Configs
    /\ redeploys = 0
    /\ mapped = {}
    /\ links = [id \in Ids |-> NoLink]
    /\ made = {}
    /\ sent = {}
    /\ job = NoJob

At(step) == job.pc = step

Continue(step) == job' = [job EXCEPT !.pc = step]

Raise(error) == job' = [job EXCEPT !.pc = "raised", !.error = error]

world == <<config, redeploys, mapped, links, made, sent>>

\* The worker has claimed an event with this payload.
Begin(p) ==
    /\ At("idle")
    /\ Cardinality(sent) < MaxSent
    /\ job' = [NoJob EXCEPT !.pc = "ids", !.payload = p]
    /\ UNCHANGED world

ReadIds ==
    /\ At("ids")
    /\ IF job.payload.id # Missing /\ job.payload.customer # Missing
       THEN Continue("dedupe") ELSE Raise("PermanentHandlerError")
    /\ UNCHANGED world

\* Step 1.
Dedupe ==
    /\ At("dedupe")
    /\ Continue(IF links[job.payload.id] = NoLink THEN "price" ELSE "returned")
    /\ UNCHANGED world

\* Mutant: the items are left to the mapper to check.
ReadPriceLater ==
    /\ At("price")
    /\ Continue("customer")
    /\ UNCHANGED world

\* Step 2, _extract_single_price_id: the mapper's check, before any lookup.
ReadPrice ==
    /\ At("price")
    /\ LET items == job.payload.items
           isOne == IF items = Missing THEN FALSE
                    ELSE IF Len(items) # 1 THEN FALSE
                    ELSE IF items[1] = Missing THEN FALSE
                    ELSE items[1].price # Missing
       IN  IF isOne THEN Continue("customer") ELSE Raise("PermanentHandlerError")
    /\ UNCHANGED world

\* Step 3.
FindCustomer ==
    /\ At("customer")
    /\ IF job.payload.customer \in mapped
       THEN Continue("tier") ELSE Raise("RetryableHandlerError")
    /\ UNCHANGED world

\* Step 4, lookup_tier.
FindTier ==
    /\ At("tier")
    /\ IF SingleItem(job.payload) # Missing
          /\ SingleItem(job.payload).price \in DOMAIN config.tiers
       THEN Continue("map") ELSE Raise("PermanentHandlerError")
    /\ UNCHANGED world

\* Step 5.
MapPayload ==
    /\ At("map")
    /\ IF Mappable(job.payload) THEN Continue("create") ELSE Raise("PermanentHandlerError")
    /\ UNCHANGED world

-----------------------------------------------------------------------------
(* Step 6, create_contract with its recovery.                              *)

ThisRequest == Request(job.payload, config)

Send == sent' = sent \cup {[payload |-> job.payload, config |-> config,
                            request |-> ThisRequest]}

Found(key) == {k \in made : k.key = key}

Fail(answer) ==
    job' = [job EXCEPT !.pc = "raised", !.answer = answer,
                       !.error = HandlerError(ClientError(answer))]

\* Metronome makes the contract, or has one with this key: 409.
Create ==
    /\ At("create")
    /\ Send
    /\ IF Found(ThisRequest.key) = {}
       THEN /\ made' = made \cup {ThisRequest}
            /\ job' = [job EXCEPT !.pc = "insert", !.contract = ThisRequest]
       ELSE /\ Continue("list")
            /\ UNCHANGED made
    /\ UNCHANGED <<config, redeploys, mapped, links>>

NowMade == IF Found(ThisRequest.key) = {} THEN {made \cup {ThisRequest}} ELSE {}

\* An error, an answer without an id, or none: then the contract may have been made.
CreateFails ==
    /\ At("create")
    /\ Send
    /\ \/ \E code \in Refusals : Fail(Status(code)) /\ UNCHANGED made
       \/ /\ Fail(Bare("lost"))
          /\ made' \in {made} \cup NowMade
       \/ /\ Fail(Bare("noId"))
          /\ made' \in NowMade
    /\ UNCHANGED <<config, redeploys, mapped, links>>

\* Mutant: the start in the key is not compared.
ListAnyPeriod ==
    /\ At("list")
    /\ \E k \in made : /\ <<k.key[1], k.key[2]>> = <<ThisRequest.key[1], ThisRequest.key[2]>>
                       /\ job' = [job EXCEPT !.pc = "insert", !.contract = k]
    /\ UNCHANGED world

List ==
    /\ At("list")
    /\ \E k \in Found(ThisRequest.key) :
          job' = [job EXCEPT !.pc = "insert", !.contract = k]
    /\ UNCHANGED world

ListFails ==
    /\ At("list")
    /\ \/ \E code \in Refusals : Fail(Status(code))
       \/ \E kind \in {"lost", "notListed"} : Fail(Bare(kind))
    /\ UNCHANGED world

\* Step 7, committed with the event's verdict.
Insert ==
    /\ At("insert")
    /\ LET price == SingleItem(job.payload).price
       IN  links' = [links EXCEPT ![job.payload.id] =
                        [contract |-> job.contract, price |-> price,
                         tier |-> config.tiers[price]]]
    /\ Continue("returned")
    /\ UNCHANGED <<config, redeploys, mapped, made, sent>>

\* The verdict of the worker; the same payload may come again.
End ==
    /\ job.pc \in {"raised", "returned"}
    /\ job' = NoJob
    /\ UNCHANGED world

-----------------------------------------------------------------------------

MapCustomer(c) ==
    /\ c \notin mapped
    /\ mapped' = mapped \cup {c}
    /\ UNCHANGED <<config, redeploys, links, made, sent, job>>

\* The worker is replaced, whatever it is doing.
Redeploy ==
    /\ redeploys < MaxRedeploys
    /\ redeploys' = redeploys + 1
    /\ config' \in Configs \ {config}
    /\ job' = NoJob
    /\ UNCHANGED <<mapped, links, made, sent>>

Next == \/ \E p \in Payloads : Begin(p)
        \/ ReadIds \/ Dedupe \/ ReadPrice \/ FindCustomer \/ FindTier \/ MapPayload
        \/ Create \/ CreateFails \/ List \/ ListFails \/ Insert \/ End
        \/ \E c \in Customers : MapCustomer(c)
        \/ Redeploy

Spec == Init /\ [][Next]_vars

-----------------------------------------------------------------------------
(* Properties.                                                             *)

\* Every variable keeps to its values.
TypeOK ==
    /\ config \in Configs
    /\ redeploys \in 0 .. MaxRedeploys
    /\ mapped \subseteq Customers
    /\ job \in [pc : Steps, payload : Payloads \cup {Missing}, answer : Answer,
                error : Errors \cup {Missing}, contract : made \cup {Missing}]
    /\ links \in [Ids -> [contract : made \cup {Missing}, price : Prices \cup {Missing},
                          tier : Tiers \cup {Missing}]]
    /\ made \subseteq {s.request : s \in sent}

\* The starts of the period a payload shows, in either layout.
StartsOf(p) == {p.start, SingleItem(p).start} \ {Missing}

SameTerms(p, q) == /\ p.id = q.id
                   /\ SingleItem(p).price = SingleItem(q).price
                   /\ \E t \in StartsOf(p) : {t} = StartsOf(p) /\ {t} = StartsOf(q)

\* mappers/subscription.py:36-40, 113-116: the key is the same for a webhook
\* redelivered, replayed or sent in the other layout of the Stripe API, and
\* stays the same when a tier is changed or the rate card replaced meanwhile.
SameTermsSameKey ==
    \A a, b \in sent : SameTerms(a.payload, b.payload) => a.request.key = b.request.key

\* metronome_client.py:178-184: the recovery takes the contract with the key
\* for the one that was asked for. So requests that share a key ask for the
\* same, but for what a deployment between them has changed.
KeyFixesRequest ==
    \A a, b \in sent : a.request.key = b.request.key =>
        /\ a.request.customer = b.request.customer
        /\ a.request.startingAt = b.request.startingAt
        /\ a.payload.id = b.payload.id
        /\ a.config = b.config => a.request = b.request

\* mappers/subscription.py:43-54: what is sent starts on the hour, not after
\* the start Stripe gives and less than an hour before it, the credit with the
\* contract and as the key says.
StartOnTheHour ==
    \A s \in sent :
        LET start == s.request.startingAt
        IN  /\ start % Hour = 0
            /\ \E t \in StartsOf(s.payload) : start <= t /\ t < start + Hour
            /\ s.request.creditStart = start
            /\ s.request.key[3] = start

\* How well-formed a payload is, as SubscriptionSync sees it.
ShapeOf(p, c) ==
    IF p.id = Missing \/ p.customer = Missing THEN "broken"
    ELSE IF SingleItem(p) = Missing THEN "items"
    ELSE IF SingleItem(p).price \notin DOMAIN c.tiers \/ StartsOf(p) = {} THEN "terms"
    ELSE "ok"

\* The step takes the handler to this place.
Enters(step) == ~ At(step) /\ job'.pc = step

\* Where the step takes a handler, by the payload and what the tables hold.
DecidesByShape ==
    LET p == job.payload
        shape == ShapeOf(p, config)
        new == p.id \in Ids /\ links[p.id] = NoLink
        known == p.customer \in mapped
    IN  /\ Enters("create") => shape = "ok" /\ new /\ known
        /\ Enters("raised") /\ job'.answer = Bare("none") =>
              IF job'.error = "RetryableHandlerError"
              THEN shape \in {"ok", "terms"} /\ new /\ ~ known
              ELSE \/ shape = "broken"
                   \/ shape = "items" /\ new
                   \/ shape = "terms" /\ new /\ known
        /\ Enters("returned") =>
              \/ shape # "broken" /\ ~ new
              \/ shape = "ok" /\ new /\ known /\ links'[p.id] # NoLink

\* subscription.py:3-11, 139-142: the order of the checks. A payload is refused,
\* waited for or sent on exactly where SubscriptionSync says it is, by what the
\* tables hold at that moment: the number of items is looked at before the
\* customer, the tier and the start after, and Metronome is called for nothing
\* that could have been refused.
HandlerDecides == [][DecidesByShape]_vars

\* metronome_client.py:14-33: an event is given up for an answer that will not
\* change (a 4xx but 429, no id) and only for that, whichever of the two calls
\* it came from and however many hands the exception goes through.
AnswerDecides ==
    At("raised") /\ job.answer.kind \in {"status", "noId", "lost"} =>
        (MayRetry(job.error) <=> \/ job.answer.kind = "lost"
                                 \/ job.answer.code \in {429} \cup (500 .. 599))

\* The row that the step writes.
WritesRow(id) ==
    LET p == job.payload
        row == links'[id]
        k == row.contract
    IN  /\ links[id] = NoLink /\ p.id = id
        /\ k \in made
        /\ k.key[1] = id /\ k.customer = p.customer
        /\ k.key[2] = row.price /\ row.price = SingleItem(p).price
        /\ k.startingAt <= RawStart(p) /\ RawStart(p) < k.startingAt + Hour
        /\ (\A s \in sent : s.request.key = k.key =>
                s.config.tiers[row.price] = config.tiers[row.price])
           => k.tier = row.tier

\* models.py:122-140: a row is written once, and names a contract of Metronome's
\* that was made for this subscription, customer, price and hour, be it the
\* handler's own or one that the recovery has found. Its tier is the contract's,
\* unless this very contract was asked for under another tier of the price too.
RowNamesContract == [][\A id \in Ids : links'[id] # links[id] => WritesRow(id)]_vars
=============================================================================
