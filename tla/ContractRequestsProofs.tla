------------------------ MODULE ContractRequestsProofs ------------------------
(***************************************************************************)
(* What holds of the requests for every set of payloads, every tier table, *)
(* every length of the hour and any number of deployments and failures.    *)
(*                                                                         *)
(* A request is fixed by its payload and the configuration it was sent     *)
(* under, so that two of them are compared through the functions that make *)
(* them. What those may rely on is what the handler has checked by then:   *)
(* the invariant says of each step which checks are behind it.             *)
(***************************************************************************)
EXTENDS ContractRequests, TLAPS

AfterMap      == {"create", "list", "insert"}
AfterTier     == {"map"} \cup AfterMap
AfterCustomer == {"tier"} \cup AfterTier
AfterPrice    == {"customer"} \cup AfterCustomer
AfterDedupe   == {"price"} \cup AfterPrice
AfterIds      == {"dedupe"} \cup AfterDedupe

\* What the checks that are behind the handler have shown.
Checked ==
    /\ job.pc # "idle" => job.payload \in Payloads
    /\ job.pc \in AfterIds => job.payload.id # Missing /\ job.payload.customer # Missing
    /\ job.pc \in AfterDedupe => links[job.payload.id] = NoLink
    /\ job.pc \in AfterPrice => SingleItem(job.payload) # Missing
    /\ job.pc \in AfterCustomer => job.payload.customer \in mapped
    /\ job.pc \in AfterTier => SingleItem(job.payload).price \in DOMAIN config.tiers
    /\ job.pc \in AfterMap => Mappable(job.payload)
    /\ job.pc = "insert" => /\ job.contract \in made
                            /\ job.contract.key = UniquenessKey(job.payload)

\* A request that was sent is the one its payload and its configuration make.
Asked(s) ==
    /\ s.payload \in Payloads
    /\ s.payload.customer # Missing
    /\ Mappable(s.payload)
    /\ s.request = Request(s.payload, s.config)

AllAsked == \A s \in sent : Asked(s)

\* No answer is there before the one that ends the handling.
NoAnswerYet == job.pc # "raised" => job.answer = Bare("none")

IInv == TypeOK /\ Checked /\ AllAsked /\ NoAnswerYet /\ AnswerDecides

-----------------------------------------------------------------------------
(* The mapper.                                                             *)

LEMMA ItemFields ==
  ASSUME NEW p \in Payloads
  PROVE  /\ p.id \in Ids \cup {Missing}
         /\ p.customer \in Customers \cup {Missing}
         /\ p.start \in Start
         /\ SingleItem(p) # Missing => /\ SingleItem(p).price \in Prices
                                       /\ SingleItem(p).price # Missing
                                       /\ SingleItem(p).start \in Start
<1>1. p \in Payload
  BY ContractRequestsAssumption
<1>2. ASSUME SingleItem(p) # Missing
      PROVE  /\ SingleItem(p) = p.items[1] /\ p.items[1].price # Missing
             /\ p.items[1] \in [price : Prices \cup {Missing}, start : Start]
  <2>1. /\ p.items # Missing /\ Len(p.items) = 1 /\ p.items[1] # Missing
        /\ p.items[1].price # Missing /\ SingleItem(p) = p.items[1]
    BY <1>2 DEF SingleItem
  <2>2. p.items \in Seq(Item)
    BY <1>1, <2>1 DEF Payload
  <2>3. p.items[1] \in Item
    BY <2>1, <2>2
  <2>. QED  BY <2>1, <2>3 DEF Item
<1>. QED  BY <1>1, <1>2 DEF Payload

\* The hour that a start is floored to.
LEMMA Floor ==
  ASSUME NEW r \in Int
  PROVE  /\ r - (r % Hour) \in Int
         /\ (r - (r % Hour)) % Hour = 0
         /\ r - (r % Hour) <= r
         /\ r < r - (r % Hour) + Hour
<1>1. Hour \in Nat \ {0}
  BY ContractRequestsAssumption
<1>2. r % Hour \in 0 .. Hour - 1
  BY <1>1
<1>3. (r - (r % Hour)) % Hour = 0
  BY <1>1
<1>. QED  BY <1>1, <1>2, <1>3

\* What the mapper makes of a payload it takes.
LEMMA MappedStart ==
  ASSUME NEW p \in Payloads, Mappable(p)
  PROVE  /\ RawStart(p) \in Int
         /\ RawStart(p) \in StartsOf(p)
         /\ PeriodStart(p) \in Int
         /\ PeriodStart(p) % Hour = 0
         /\ PeriodStart(p) <= RawStart(p)
         /\ RawStart(p) < PeriodStart(p) + Hour
<1>1. RawStart(p) \in Int /\ RawStart(p) \in StartsOf(p)
  BY ItemFields DEF Mappable, RawStart, StartsOf, Start
<1>. QED  BY <1>1, Floor DEF PeriodStart

\* The start counts in whichever place the payload has it.
LEMMA SameTermsSameStart ==
  ASSUME NEW p \in Payloads, NEW q \in Payloads, Mappable(p), Mappable(q), SameTerms(p, q)
  PROVE  UniquenessKey(p) = UniquenessKey(q)
<1>1. RawStart(p) = RawStart(q)
  BY MappedStart DEF SameTerms
<1>. QED  BY <1>1 DEF SameTerms, UniquenessKey, PeriodStart

LEMMA KeyFields ==
  ASSUME NEW p, NEW q, UniquenessKey(p) = UniquenessKey(q)
  PROVE  /\ p.id = q.id
         /\ SingleItem(p).price = SingleItem(q).price
         /\ PeriodStart(p) = PeriodStart(q)
BY DEF UniquenessKey

LEMMA RequestFields ==
  ASSUME NEW p, NEW c
  PROVE  /\ Request(p, c).customer = p.customer
         /\ Request(p, c).startingAt = PeriodStart(p)
         /\ Request(p, c).creditStart = PeriodStart(p)
         /\ Request(p, c).key = UniquenessKey(p)
         /\ Request(p, c).tier = c.tiers[SingleItem(p).price]
BY DEF Request

-----------------------------------------------------------------------------
(* What the requests have in common follows from how they were made.       *)

LEMMA AskedSameTerms == AllAsked => SameTermsSameKey
<1>. SUFFICES ASSUME AllAsked, NEW a \in sent, NEW b \in sent,
                     SameTerms(a.payload, b.payload)
              PROVE  a.request.key = b.request.key
  BY DEF SameTermsSameKey
<1>. QED  BY SameTermsSameStart, RequestFields DEF AllAsked, Asked

LEMMA AskedKeyFixes == AllAsked => KeyFixesRequest
<1>. SUFFICES ASSUME AllAsked, NEW a \in sent, NEW b \in sent,
                     a.request.key = b.request.key
              PROVE  /\ a.request.customer = b.request.customer
                     /\ a.request.startingAt = b.request.startingAt
                     /\ a.payload.id = b.payload.id
                     /\ a.config = b.config => a.request = b.request
  BY DEF KeyFixesRequest
<1>1. Asked(a) /\ Asked(b)
  BY DEF AllAsked
<1>2. /\ a.payload.id = b.payload.id
      /\ SingleItem(a.payload).price = SingleItem(b.payload).price
      /\ PeriodStart(a.payload) = PeriodStart(b.payload)
      /\ UniquenessKey(a.payload) = UniquenessKey(b.payload)
  BY <1>1, KeyFields, RequestFields DEF Asked
<1>3. a.payload.customer = b.payload.customer
  BY <1>1, <1>2, OneCustomerAssumption DEF Asked, Mappable
<1>4. a.config = b.config => a.request = b.request
  BY <1>1, <1>2, <1>3 DEF Asked, Request
<1>. QED  BY <1>1, <1>2, <1>3, <1>4, RequestFields DEF Asked

LEMMA AskedOnTheHour == AllAsked => StartOnTheHour
<1>. SUFFICES ASSUME AllAsked, NEW s \in sent
              PROVE  LET start == s.request.startingAt
                     IN  /\ start % Hour = 0
                         /\ \E t \in StartsOf(s.payload) : start <= t /\ t < start + Hour
                         /\ s.request.creditStart = start
                         /\ s.request.key[3] = start
  BY DEF StartOnTheHour
<1>1. Asked(s)
  BY DEF AllAsked
<1>2. /\ s.request.startingAt = PeriodStart(s.payload)
      /\ s.request.creditStart = PeriodStart(s.payload)
      /\ s.request.key[3] = PeriodStart(s.payload)
  BY <1>1, RequestFields DEF Asked, UniquenessKey
<1>. QED  BY <1>1, <1>2, MappedStart DEF Asked

-----------------------------------------------------------------------------
(* Types.                                                                  *)

\* The handler's record, and what its steps make of it.
Job == [pc : Steps, payload : Payloads \cup {Missing}, answer : Answer,
        error : Errors \cup {Missing}, contract : made \cup {Missing}]

Link == [contract : made \cup {Missing}, price : Prices \cup {Missing},
         tier : Tiers \cup {Missing}]

LEMMA AnswerTypes ==
  /\ \A kind \in {"none", "noId", "lost", "notListed"} : Bare(kind) \in Answer
  /\ \A code \in Refusals : Status(code) \in Answer
BY ContractRequestsAssumption DEF Bare, Status, Answer

LEMMA ErrorTypes == \A answer \in Answer : HandlerError(ClientError(answer)) \in Errors
BY DEF HandlerError, ClientError, Errors

LEMMA NoJobType == NoJob \in Job /\ NoJob.pc = "idle" /\ NoJob.answer = Bare("none")
BY AnswerTypes DEF NoJob, Job, Steps

\* The fields of the record that Fail leaves.
LEMMA FailFields ==
  ASSUME job \in Job, NEW answer \in Answer, Fail(answer)
  PROVE  /\ job' = [job EXCEPT !.pc = "raised", !.answer = answer,
                               !.error = HandlerError(ClientError(answer))]
         /\ job' \in Job
         /\ job'.pc = "raised" /\ job'.answer = answer /\ job'.payload = job.payload
         /\ job'.error = HandlerError(ClientError(answer))
<1>. DEFINE error == HandlerError(ClientError(answer))
<1>1. error \in Errors
  BY ErrorTypes
<1>2. job' = [job EXCEPT !.pc = "raised", !.answer = answer, !.error = error]
  BY DEF Fail
<1>. HIDE DEF error
<1>3. /\ job' \in Job
      /\ job'.pc = "raised" /\ job'.answer = answer /\ job'.payload = job.payload
      /\ job'.error = error
  BY <1>1, <1>2 DEF Job, Steps
<1>. QED  BY <1>2, <1>3 DEF error

\* A failure of either call: some answer, never a bare "none".
CallFails == \E answer \in Answer : answer # Bare("none") /\ Fail(answer)

LEMMA CreateFailsKind ==
  ASSUME CreateFails
  PROVE  /\ CallFails
         /\ \E s : /\ s = [payload |-> job.payload, config |-> config, request |-> ThisRequest]
                   /\ sent' = sent \cup {s}
                   /\ made' \in {made, made \cup {s.request}}
         /\ UNCHANGED <<config, redeploys, mapped, links>>
<1>1. CallFails
  BY AnswerTypes DEF CreateFails, CallFails, Bare, Status
<1>2. made' \in {made, made \cup {ThisRequest}}
  BY DEF CreateFails, NowMade
<1>. DEFINE s == [payload |-> job.payload, config |-> config, request |-> ThisRequest]
<1>3. s.request = ThisRequest /\ sent' = sent \cup {s}
  BY DEF CreateFails, Send
<1>4. UNCHANGED <<config, redeploys, mapped, links>>
  BY DEF CreateFails
<1>5. \E x : /\ x = [payload |-> job.payload, config |-> config, request |-> ThisRequest]
             /\ sent' = sent \cup {x}
             /\ made' \in {made, made \cup {x.request}}
  <2>1. made' \in {made, made \cup {s.request}}
    BY <1>2, <1>3
  <2>. QED  BY <1>3, <2>1
<1>. QED  BY <1>1, <1>4, <1>5

LEMMA ListFailsKind == ListFails => CallFails /\ UNCHANGED world
BY AnswerTypes DEF ListFails, CallFails, Bare, Status

\* The steps that only look something up, or end the handling.
LookUp == ReadIds \/ Dedupe \/ ReadPrice \/ FindCustomer \/ FindTier \/ MapPayload

LEMMA LookUpKind ==
  ASSUME LookUp, job \in Job
  PROVE  /\ job.pc \in {"ids", "dedupe", "price", "customer", "tier", "map"}
         /\ \/ \E step \in Steps : Continue(step)
            \/ \E error \in Errors : Raise(error)
         /\ UNCHANGED world
BY DEF LookUp, ReadIds, Dedupe, ReadPrice, FindCustomer, FindTier, MapPayload, At, Steps, Errors

LEMMA TypeJob == TypeOK <=> /\ config \in Configs
                            /\ redeploys \in 0 .. MaxRedeploys
                            /\ mapped \subseteq Customers
                            /\ job \in Job
                            /\ links \in [Ids -> Link]
                            /\ made \subseteq {s.request : s \in sent}
BY DEF TypeOK, Job, Link

LEMMA TypeStep ==
  ASSUME TypeOK, Checked, Next
  PROVE  TypeOK'
<1>. USE DEF Job, Link
<1>0. /\ config \in Configs /\ redeploys \in 0 .. MaxRedeploys /\ mapped \subseteq Customers
      /\ job \in Job /\ links \in [Ids -> Link] /\ made \subseteq {s.request : s \in sent}
  BY TypeJob
<1>1. ASSUME NEW p \in Payloads, Begin(p)
      PROVE  TypeOK'
  BY <1>0, <1>1, NoJobType DEF Begin, world, TypeOK, Steps
<1>2. CASE LookUp
  BY <1>0, <1>2, LookUpKind DEF Continue, Raise, world, TypeOK, Steps
<1>3. CASE Create
  <2>. DEFINE k == ThisRequest
              s == [payload |-> job.payload, config |-> config, request |-> k]
  <2>1. sent' = sent \cup {s} /\ s.request = k
    BY <1>3 DEF Create, Send
  <2>2. UNCHANGED <<config, redeploys, mapped, links>>
    BY <1>3 DEF Create
  <2>3. \/ made' = made \cup {k} /\ job' = [job EXCEPT !.pc = "insert", !.contract = k]
        \/ made' = made /\ job' = [job EXCEPT !.pc = "list"]
    BY <1>3 DEF Create, Continue
  <2>. HIDE DEF k, s
  <2>4. made' \subseteq {x.request : x \in sent'}
    BY <1>0, <2>1, <2>3
  <2>5. job' \in Job'
    BY <1>0, <2>3 DEF Steps
  <2>6. links' \in [Ids -> Link']
    BY <1>0, <2>2, <2>3
  <2>. QED  BY <1>0, <2>2, <2>4, <2>5, <2>6 DEF TypeOK
<1>4. CASE CreateFails
  <2>1. PICK s : /\ sent' = sent \cup {s} /\ made' \in {made, made \cup {s.request}}
    BY <1>4, CreateFailsKind
  <2>2. UNCHANGED <<config, redeploys, mapped, links>> /\ job' \in Job
    BY <1>0, <1>4, CreateFailsKind, FailFields DEF CallFails
  <2>3. made' \subseteq {x.request : x \in sent'}
    BY <1>0, <2>1
  <2>. QED  BY <1>0, <2>1, <2>2, <2>3 DEF TypeOK
<1>5. CASE List
  <2>1. PICK k \in made : job' = [job EXCEPT !.pc = "insert", !.contract = k]
    BY <1>5 DEF List, Found
  <2>. QED  BY <1>0, <1>5, <2>1 DEF List, world, TypeOK, Steps
<1>6. CASE ListFails
  <2>1. job' \in Job
    BY <1>0, <1>6, ListFailsKind, FailFields DEF CallFails
  <2>. QED  BY <1>0, <1>6, <2>1, ListFailsKind DEF world, TypeOK
<1>7. CASE Insert
  <2>. DEFINE price == SingleItem(job.payload).price
              link == [contract |-> job.contract, price |-> price, tier |-> config.tiers[price]]
  <2>1. price \in Prices /\ price \in DOMAIN config.tiers
    BY <1>7, ItemFields DEF Insert, At, Checked, AfterIds, AfterDedupe, AfterPrice,
                            AfterCustomer, AfterTier, AfterMap
  <2>2. config.tiers[price] \in Tiers
    <3>1. config \in Config
      BY <1>0, ContractRequestsAssumption
    <3>. QED  BY <2>1, <3>1 DEF Config
  <2>3. link \in Link
    BY <1>0, <2>1, <2>2
  <2>4. links' = [links EXCEPT ![job.payload.id] = link]
        /\ job' = [job EXCEPT !.pc = "returned"]
        /\ UNCHANGED <<config, redeploys, mapped, made, sent>>
    BY <1>7 DEF Insert, Continue
  <2>. HIDE DEF link
  <2>. QED  BY <1>0, <2>3, <2>4 DEF TypeOK, Steps
<1>8. CASE End
  BY <1>0, <1>8, NoJobType DEF End, world, TypeOK
<1>9. ASSUME NEW c \in Customers, MapCustomer(c)
      PROVE  TypeOK'
  BY <1>0, <1>9 DEF MapCustomer, TypeOK
<1>10. CASE Redeploy
  <2>1. redeploys' \in 0 .. MaxRedeploys
    BY <1>0, <1>10, ContractRequestsAssumption DEF Redeploy
  <2>. QED  BY <1>0, <1>10, <2>1, NoJobType DEF Redeploy, TypeOK
<1>. QED  BY <1>1, <1>2, <1>3, <1>4, <1>5, <1>6, <1>7, <1>8, <1>9, <1>10 DEF Next, LookUp

-----------------------------------------------------------------------------
(* What is behind the handler stays shown: no other session touches the    *)
(* row it has not inserted yet, customers are only ever added, and a       *)
(* deployment ends the handling.                                           *)

\* The code's own check of the items is the mapper's.
LEMMA PriceChecked ==
  ASSUME job \in Job, ReadPrice
  PROVE  \/ Continue("customer") /\ SingleItem(job.payload) # Missing
         \/ Raise("PermanentHandlerError") /\ SingleItem(job.payload) = Missing
BY DEF ReadPrice, SingleItem

\* Where the handling is over, or has not begun, nothing has to be shown.
LEMMA CheckedOver ==
  ASSUME job'.pc \in {"idle", "ids", "raised", "returned"},
         job'.pc # "idle" => job'.payload \in Payloads
  PROVE  Checked'
BY DEF Checked, AfterIds, AfterDedupe, AfterPrice, AfterCustomer, AfterTier, AfterMap

LEMMA LookUpChecked ==
  ASSUME TypeOK, Checked, LookUp
  PROVE  Checked'
<1>0. /\ job \in Job /\ job.payload \in Payloads
      /\ UNCHANGED world
  BY TypeJob, LookUpKind DEF Checked
<1>1. ASSUME NEW error, Raise(error)
      PROVE  Checked'
  <2>1. job'.pc = "raised" /\ job'.payload = job.payload
    BY <1>0, <1>1 DEF Raise, Job
  <2>. QED  BY <1>0, <2>1, CheckedOver
<1>2. ASSUME NEW step \in Steps, Continue(step)
      PROVE  job'.pc = step /\ job'.payload = job.payload /\ job'.contract = job.contract
  BY <1>0, <1>2 DEF Continue, Job
<1>. USE DEF Checked, AfterIds, AfterDedupe, AfterPrice, AfterCustomer, AfterTier, AfterMap,
             At, Steps, world
<1>3. CASE ReadIds
  BY <1>0, <1>1, <1>2, <1>3 DEF ReadIds
<1>4. CASE Dedupe
  BY <1>0, <1>1, <1>2, <1>4 DEF Dedupe
<1>5. CASE ReadPrice
  BY <1>0, <1>1, <1>2, <1>5, PriceChecked DEF ReadPrice
<1>6. CASE FindCustomer
  BY <1>0, <1>1, <1>2, <1>6 DEF FindCustomer
<1>7. CASE FindTier
  BY <1>0, <1>1, <1>2, <1>7 DEF FindTier
<1>8. CASE MapPayload
  BY <1>0, <1>1, <1>2, <1>8 DEF MapPayload
<1>. QED  BY <1>3, <1>4, <1>5, <1>6, <1>7, <1>8 DEF LookUp

LEMMA CheckedStep ==
  ASSUME TypeOK, Checked, Next
  PROVE  Checked'
<1>0. job \in Job
  BY TypeJob
<1>1. ASSUME NEW p \in Payloads, Begin(p)
      PROVE  Checked'
  <2>1. job'.pc = "ids" /\ job'.payload = p
    BY <1>1, NoJobType DEF Begin, Job
  <2>. QED  BY <2>1, CheckedOver
<1>2. CASE LookUp
  BY <1>2, LookUpChecked
<1>3. CASE Create
  <2>1. /\ job.pc = "create"
        /\ UNCHANGED <<config, redeploys, mapped, links>>
        /\ made \subseteq made'
    BY <1>3 DEF Create, At
  <2>2. /\ job'.payload = job.payload
        /\ \/ job'.pc = "list"
           \/ job'.pc = "insert" /\ job'.contract = ThisRequest /\ ThisRequest \in made'
    BY <1>0, <1>3 DEF Create, Continue, Job
  <2>. QED
    BY <2>1, <2>2, RequestFields
    DEF Checked, AfterIds, AfterDedupe, AfterPrice, AfterCustomer, AfterTier, AfterMap,
        ThisRequest
<1>4. CASE CreateFails \/ ListFails
  <2>1. /\ job'.pc = "raised" /\ job'.payload = job.payload
        /\ job.pc # "idle"
    BY <1>0, <1>4, CreateFailsKind, ListFailsKind, FailFields
    DEF CallFails, CreateFails, ListFails, At
  <2>. QED  BY <2>1, CheckedOver DEF Checked
<1>5. CASE List
  <2>1. PICK k \in made : /\ job' = [job EXCEPT !.pc = "insert", !.contract = k]
                          /\ k.key = ThisRequest.key
    BY <1>5 DEF List, Found
  <2>2. /\ job'.pc = "insert" /\ job'.contract = k /\ job'.payload = job.payload
        /\ job.pc = "list" /\ UNCHANGED world
    BY <1>0, <1>5, <2>1 DEF Job, List, At
  <2>. QED
    BY <2>1, <2>2, RequestFields
    DEF Checked, AfterIds, AfterDedupe, AfterPrice, AfterCustomer, AfterTier, AfterMap,
        ThisRequest, world
<1>6. CASE Insert
  <2>1. job'.pc = "returned" /\ job'.payload = job.payload /\ job.pc = "insert"
    BY <1>0, <1>6 DEF Insert, Continue, At, Job
  <2>. QED  BY <2>1, CheckedOver DEF Checked
<1>7. CASE End \/ Redeploy
  BY <1>7, NoJobType, CheckedOver DEF End, Redeploy
<1>8. ASSUME NEW c \in Customers, MapCustomer(c)
      PROVE  Checked'
  BY <1>8 DEF MapCustomer, Checked
<1>. QED  BY <1>1, <1>2, <1>3, <1>4, <1>5, <1>6, <1>7, <1>8 DEF Next, LookUp

\* What is sent is what the payload and the configuration of the moment make.
LEMMA AskedStep ==
  ASSUME TypeOK, Checked, AllAsked, Next
  PROVE  AllAsked'
<1>1. CASE UNCHANGED sent
  BY <1>1 DEF AllAsked, Asked
<1>2. CASE Create \/ CreateFails
  <2>0. PICK s : s = [payload |-> job.payload, config |-> config, request |-> ThisRequest]
    OBVIOUS
  <2>1. sent' = sent \cup {s} /\ job.pc = "create"
    BY <1>2, <2>0 DEF Create, CreateFails, Send, At
  <2>2. /\ s.payload = job.payload /\ s.config = config
        /\ s.request = Request(job.payload, config)
    BY <2>0 DEF ThisRequest
  <2>3. Asked(s)
    BY <2>1, <2>2
    DEF Asked, Checked, AfterIds, AfterDedupe, AfterPrice, AfterCustomer, AfterTier, AfterMap
  <2>. QED  BY <2>1, <2>3 DEF AllAsked, Asked
<1>. QED
  BY <1>1, <1>2, LookUpKind, ListFailsKind, TypeJob
  DEF Next, LookUp, Begin, List, Insert, End, MapCustomer, Redeploy, world

-----------------------------------------------------------------------------
(* How a handling goes on and ends.                                        *)

Decided == NoAnswerYet' /\ AnswerDecides' /\ DecidesByShape

\* What a handling has shown of its payload when Metronome is called.
LEMMA WellFormedByThen ==
  ASSUME NEW p \in Payloads, p.id # Missing, p.customer # Missing, SingleItem(p) # Missing,
         SingleItem(p).price \in DOMAIN config.tiers, Mappable(p)
  PROVE  ShapeOf(p, config) = "ok"
<1>1. StartsOf(p) # {}
  BY MappedStart
<1>. QED  BY <1>1 DEF ShapeOf

\* Every handling that raises before a call has been made, or makes one.
LEMMA LookUpDecided ==
  ASSUME TypeOK, Checked, NoAnswerYet, LookUp
  PROVE  Decided
<1>. DEFINE p == job.payload
<1>0. /\ job \in Job /\ p \in Payloads /\ job.answer = Bare("none")
      /\ job.pc \notin {"create", "raised", "returned"}
  BY TypeJob, LookUpKind DEF Checked, NoAnswerYet
<1>1. Bare("none").kind = "none"
  BY DEF Bare
<1>2. ASSUME NEW step \in Steps, Continue(step)
      PROVE  /\ job'.pc = step /\ job'.answer = Bare("none")
             /\ step # "raised" => NoAnswerYet' /\ AnswerDecides'
             /\ step \notin {"create", "raised", "returned"} => Decided
  <2>1. job'.pc = step /\ job'.answer = Bare("none")
    BY <1>0, <1>2 DEF Continue, Job
  <2>2. step # "raised" => NoAnswerYet' /\ AnswerDecides'
    BY <2>1 DEF NoAnswerYet, AnswerDecides, At
  <2>. QED  BY <2>1, <2>2 DEF Decided, DecidesByShape, Enters
<1>3. ASSUME NEW error \in Errors, Raise(error)
      PROVE  /\ job'.pc = "raised" /\ job'.error = error
             /\ NoAnswerYet' /\ AnswerDecides'
  <2>1. /\ job'.pc = "raised" /\ job'.error = error
        /\ job'.answer = Bare("none")
    BY <1>0, <1>3 DEF Raise, Job
  <2>. QED  BY <1>1, <2>1 DEF NoAnswerYet, AnswerDecides, At
<1>4. p.id # Missing => p.id \in Ids
  BY <1>0, ItemFields
<1>. USE DEF Steps, Errors
<1>5. CASE ReadIds
  BY <1>2, <1>3, <1>5 DEF ReadIds, Decided, DecidesByShape, Enters, ShapeOf
<1>6. CASE Dedupe
  <2>1. CASE links[p.id] = NoLink
    BY <1>2, <1>6, <2>1 DEF Dedupe
  <2>2. CASE links[p.id] # NoLink
    <3>1. p.id # Missing /\ p.customer # Missing
      BY <1>6 DEF Dedupe, At, Checked, AfterIds
    <3>2. ShapeOf(p, config) # "broken"
      BY <3>1 DEF ShapeOf
    <3>. QED
      BY <1>2, <1>6, <2>2, <3>2 DEF Dedupe, Decided, DecidesByShape, Enters
  <2>. QED  BY <2>1, <2>2
<1>7. CASE ReadPrice
  <2>1. /\ p.id # Missing /\ p.customer # Missing /\ links[p.id] = NoLink
    BY <1>7 DEF ReadPrice, At, Checked, AfterIds, AfterDedupe
  <2>2. SingleItem(p) = Missing => ShapeOf(p, config) = "items"
    BY <2>1 DEF ShapeOf
  <2>. QED
    BY <1>0, <1>2, <1>3, <1>4, <1>7, <2>1, <2>2, PriceChecked
    DEF Decided, DecidesByShape, Enters
<1>8. CASE FindCustomer
  <2>1. /\ p.id # Missing /\ p.customer # Missing /\ links[p.id] = NoLink
        /\ SingleItem(p) # Missing
    BY <1>8 DEF FindCustomer, At, Checked, AfterIds, AfterDedupe, AfterPrice
  <2>2. ShapeOf(p, config) \in {"ok", "terms"}
    BY <2>1 DEF ShapeOf
  <2>. QED
    BY <1>2, <1>3, <1>4, <1>8, <2>1, <2>2
    DEF FindCustomer, Decided, DecidesByShape, Enters
<1>9. CASE FindTier
  <2>1. /\ p.id # Missing /\ p.customer # Missing /\ links[p.id] = NoLink
        /\ SingleItem(p) # Missing /\ p.customer \in mapped
    BY <1>9 DEF FindTier, At, Checked, AfterIds, AfterDedupe, AfterPrice, AfterCustomer
  <2>2. SingleItem(p).price \notin DOMAIN config.tiers => ShapeOf(p, config) = "terms"
    BY <2>1 DEF ShapeOf
  <2>. QED
    BY <1>2, <1>3, <1>4, <1>9, <2>1, <2>2 DEF FindTier, Decided, DecidesByShape, Enters
<1>10. CASE MapPayload
  <2>1. /\ p.id # Missing /\ p.customer # Missing /\ links[p.id] = NoLink
        /\ SingleItem(p) # Missing /\ p.customer \in mapped
        /\ SingleItem(p).price \in DOMAIN config.tiers
    BY <1>10 DEF MapPayload, At, Checked, AfterIds, AfterDedupe, AfterPrice, AfterCustomer,
                 AfterTier
  <2>2. ~ Mappable(p) => ShapeOf(p, config) = "terms"
    BY <2>1 DEF Mappable, RawStart, StartsOf, ShapeOf
  <2>3. Mappable(p) => ShapeOf(p, config) = "ok"
    BY <1>0, <2>1, WellFormedByThen
  <2>. QED
    BY <1>2, <1>3, <1>4, <1>10, <2>1, <2>2, <2>3
    DEF MapPayload, Decided, DecidesByShape, Enters
<1>. QED  BY <1>5, <1>6, <1>7, <1>8, <1>9, <1>10 DEF LookUp

\* An answer of one of the calls: what the client and the handler make of it
\* is given up for a status that stays, or an answer without an id, only.
LEMMA ClassifiedByAnswer ==
  ASSUME NEW answer \in Answer, answer.kind \in {"status", "noId", "lost"},
         answer.kind = "noId" => answer.code = 0
  PROVE  MayRetry(HandlerError(ClientError(answer))) <=>
            answer.kind = "lost" \/ answer.code \in {429} \cup (500 .. 599)
BY DEF Answer, MayRetry, HandlerError, ClientError, IsTransient

LEMMA FailsDecided ==
  ASSUME TypeOK, CreateFails \/ ListFails
  PROVE  Decided
<1>1. job \in Job
  BY TypeJob
<1>2. PICK answer \in Answer : /\ answer # Bare("none")
                               /\ answer.kind = "noId" => answer.code = 0
                               /\ Fail(answer)
  <2>1. CASE \E code \in Refusals : Fail(Status(code))
    BY <2>1, AnswerTypes DEF Bare, Status
  <2>2. CASE \E kind \in {"noId", "lost", "notListed"} : Fail(Bare(kind))
    BY <2>2, AnswerTypes DEF Bare
  <2>. QED  BY <2>1, <2>2 DEF CreateFails, ListFails
<1>3. /\ job'.pc = "raised" /\ job'.answer = answer
      /\ job'.error = HandlerError(ClientError(answer))
  BY <1>1, <1>2, FailFields
<1>. QED
  BY <1>2, <1>3, ClassifiedByAnswer
  DEF Decided, DecidesByShape, Enters, NoAnswerYet, AnswerDecides, At

\* What the handler has shown by the time it writes the row.
LEMMA InsertForm ==
  ASSUME TypeOK, Checked, Insert
  PROVE  LET p == job.payload
             price == SingleItem(p).price
         IN  /\ p \in Payloads /\ p.id \in Ids /\ links[p.id] = NoLink
             /\ p.customer # Missing /\ p.customer \in mapped
             /\ price \in Prices /\ Mappable(p) /\ ShapeOf(p, config) = "ok"
             /\ job.contract \in made /\ job.contract.key = UniquenessKey(p)
             /\ job'.pc = "returned" /\ job'.answer = job.answer /\ job.pc = "insert"
             /\ \A id \in Ids \ {p.id} : links'[id] = links[id]
             /\ links'[p.id].contract = job.contract
             /\ links'[p.id].price = price
             /\ links'[p.id].tier = config.tiers[price]
<1>. DEFINE p == job.payload
            price == SingleItem(p).price
            link == [contract |-> job.contract, price |-> price, tier |-> config.tiers[price]]
<1>0. job \in Job /\ links \in [Ids -> Link]
  BY TypeJob
<1>1. /\ p \in Payloads /\ p.id # Missing /\ p.customer # Missing /\ links[p.id] = NoLink
      /\ SingleItem(p) # Missing /\ p.customer \in mapped
      /\ price \in DOMAIN config.tiers /\ Mappable(p)
      /\ job.contract \in made /\ job.contract.key = UniquenessKey(p)
  BY DEF Insert, At, Checked, AfterIds, AfterDedupe, AfterPrice, AfterCustomer, AfterTier,
         AfterMap
<1>2. p.id \in Ids /\ price \in Prices
  BY <1>1, ItemFields
<1>3. ShapeOf(p, config) = "ok"
  BY <1>1, WellFormedByThen
<1>4. /\ links' = [links EXCEPT ![p.id] = link]
      /\ job'.pc = "returned" /\ job'.answer = job.answer /\ job.pc = "insert"
  BY <1>0 DEF Insert, Continue, Job, At
<1>5. /\ link.contract = job.contract /\ link.price = price
      /\ link.tier = config.tiers[price]
  OBVIOUS
<1>. HIDE DEF link
<1>6. links'[p.id] = link /\ \A id \in Ids \ {p.id} : links'[id] = links[id]
  BY <1>0, <1>2, <1>4
<1>. QED  BY <1>1, <1>2, <1>3, <1>4, <1>5, <1>6

LEMMA DecidedStep ==
  ASSUME IInv, Next
  PROVE  Decided
<1>0. TypeOK /\ Checked /\ NoAnswerYet /\ AnswerDecides /\ job \in Job
  BY TypeJob DEF IInv
<1>1. Bare("none").kind = "none"
  BY DEF Bare
\* Steps to a place where nothing has been decided.
<1>2. ASSUME job'.pc \notin {"create", "raised", "returned"}, job'.answer = Bare("none")
      PROVE  Decided
  BY <1>2 DEF Decided, DecidesByShape, Enters, NoAnswerYet, AnswerDecides, At
<1>3. ASSUME NEW p \in Payloads, Begin(p)
      PROVE  Decided
  BY <1>2, <1>3, NoJobType DEF Begin, Job
<1>4. CASE LookUp
  BY <1>0, <1>4, LookUpDecided
<1>5. CASE Create
  <2>1. job'.pc \in {"insert", "list"} /\ job'.answer = job.answer /\ job.pc = "create"
    BY <1>0, <1>5 DEF Create, Continue, Job, At
  <2>. QED  BY <1>0, <1>2, <2>1 DEF NoAnswerYet
<1>6. CASE CreateFails \/ ListFails
  BY <1>0, <1>6, FailsDecided
<1>7. CASE List
  <2>1. job'.pc = "insert" /\ job'.answer = job.answer /\ job.pc = "list"
    BY <1>0, <1>7 DEF List, Job, At
  <2>. QED  BY <1>0, <1>2, <2>1 DEF NoAnswerYet
<1>8. CASE Insert
  <2>. DEFINE p == job.payload
  <2>1. /\ p.id \in Ids /\ links[p.id] = NoLink /\ p.customer \in mapped
        /\ ShapeOf(p, config) = "ok"
        /\ job'.pc = "returned" /\ job'.answer = job.answer /\ job.pc = "insert"
    BY <1>0, <1>8, InsertForm
  <2>2. links'[p.id] # NoLink
    BY <1>0, <1>8, InsertForm, ContractRequestsAssumption DEF NoLink
  <2>3. NoAnswerYet' /\ AnswerDecides'
    BY <1>0, <2>1 DEF NoAnswerYet, AnswerDecides, At
  <2>. QED  BY <2>1, <2>2, <2>3 DEF Decided, DecidesByShape, Enters
<1>9. CASE End \/ Redeploy
  BY <1>2, <1>9, NoJobType DEF End, Redeploy
<1>10. ASSUME NEW c \in Customers, MapCustomer(c)
       PROVE  Decided
  BY <1>0, <1>10
  DEF MapCustomer, Decided, DecidesByShape, Enters, NoAnswerYet, AnswerDecides, At
<1>. QED
  BY <1>3, <1>4, <1>5, <1>6, <1>7, <1>8, <1>9, <1>10 DEF Next, LookUp

-----------------------------------------------------------------------------
(* The rows.                                                               *)

\* The contract that is inserted has the key of the payload, and whoever asked
\* for it had a payload with this key: of the same subscription, so of the
\* same customer, and with the same price and hour.
LEMMA InsertWrites ==
  ASSUME IInv, Insert
  PROVE  WritesRow(job.payload.id)
<1>. DEFINE p == job.payload
            k == job.contract
            price == SingleItem(p).price
            row == links'[p.id]
<1>1. /\ TypeOK /\ Checked /\ AllAsked /\ made \subseteq {s.request : s \in sent}
  BY TypeJob DEF IInv
<1>2. /\ p \in Payloads /\ p.id \in Ids /\ links[p.id] = NoLink /\ p.customer # Missing
      /\ price \in Prices /\ Mappable(p)
      /\ k \in made /\ k.key = UniquenessKey(p)
      /\ row.contract = k /\ row.price = price /\ row.tier = config.tiers[price]
  BY <1>1, InsertForm
<1>3. PICK s \in sent : s.request = k
  BY <1>1, <1>2
<1>4. /\ s.payload \in Payloads /\ s.payload.customer # Missing /\ Mappable(s.payload)
      /\ k = Request(s.payload, s.config)
  BY <1>1, <1>3 DEF AllAsked, Asked
<1>5. /\ s.payload.id = p.id
      /\ SingleItem(s.payload).price = price
      /\ PeriodStart(s.payload) = PeriodStart(p)
  BY <1>2, <1>4, KeyFields, RequestFields
<1>6. k.customer = p.customer
  <2>1. s.payload.customer = p.customer
    BY <1>2, <1>4, <1>5, OneCustomerAssumption DEF Mappable
  <2>. QED  BY <1>4, <2>1, RequestFields
<1>7. k.startingAt <= RawStart(p) /\ RawStart(p) < k.startingAt + Hour
  <2>1. k.startingAt = PeriodStart(p)
    BY <1>4, <1>5, RequestFields
  <2>. QED  BY <1>2, <2>1, MappedStart
<1>8. k.key[1] = p.id /\ k.key[2] = price
  BY <1>2 DEF UniquenessKey
<1>9. ASSUME \A x \in sent : x.request.key = k.key =>
                x.config.tiers[price] = config.tiers[price]
      PROVE  k.tier = config.tiers[price]
  <2>1. s.config.tiers[price] = config.tiers[price]
    BY <1>3, <1>9
  <2>. QED  BY <1>4, <1>5, <2>1, RequestFields
<1>. HIDE DEF k
<1>. QED  BY <1>2, <1>6, <1>7, <1>8, <1>9 DEF WritesRow

LEMMA RowStep ==
  ASSUME IInv, [Next]_vars, NEW id \in Ids, links'[id] # links[id]
  PROVE  WritesRow(id)
<1>1. Insert
  BY LookUpKind, ListFailsKind, CreateFailsKind, TypeJob
  DEF IInv, Next, LookUp, Begin, Create, List, End, MapCustomer, Redeploy, world, vars
<1>2. id = job.payload.id
  BY <1>1, InsertForm DEF IInv
<1>. QED  BY <1>1, <1>2, InsertWrites

-----------------------------------------------------------------------------

LEMMA InitInv == Init => IInv
<1>. SUFFICES ASSUME Init PROVE IInv
  OBVIOUS
<1>1. TypeOK
  <2>1. NoLink \in Link
    BY DEF NoLink, Link
  <2>2. redeploys \in 0 .. MaxRedeploys
    BY ContractRequestsAssumption DEF Init
  <2>. QED  BY <2>1, <2>2, NoJobType, TypeJob DEF Init
<1>2. Checked /\ NoAnswerYet /\ AnswerDecides
  BY NoJobType
  DEF Init, Checked, AfterIds, AfterDedupe, AfterPrice, AfterCustomer, AfterTier, AfterMap,
      NoAnswerYet, AnswerDecides, At
<1>3. AllAsked
  BY DEF Init, AllAsked
<1>. QED  BY <1>1, <1>2, <1>3 DEF IInv

LEMMA StepInv == IInv /\ [Next]_vars => IInv'
<1>. SUFFICES ASSUME IInv, [Next]_vars PROVE IInv'
  OBVIOUS
<1>1. CASE Next
  <2>1. TypeOK' /\ Checked' /\ AllAsked'
    BY <1>1, TypeStep, CheckedStep, AskedStep DEF IInv
  <2>2. NoAnswerYet' /\ AnswerDecides'
    BY <1>1, DecidedStep DEF Decided
  <2>. QED  BY <2>1, <2>2 DEF IInv
<1>2. CASE UNCHANGED vars
  BY <1>2 DEF vars, IInv, TypeOK, Checked, AllAsked, Asked, NoAnswerYet,
              AnswerDecides, At
<1>. QED  BY <1>1, <1>2

LEMMA Invariance == Spec => []IInv
BY InitInv, StepInv, PTL DEF Spec

\* Every variable keeps to its values.
THEOREM TypeCorrect == Spec => []TypeOK
<1>1. IInv => TypeOK
  BY DEF IInv
<1>. QED  BY <1>1, Invariance, PTL

\* mappers/subscription.py:36-40: the key is the same in either layout.
THEOREM KeyOfTerms == Spec => []SameTermsSameKey
<1>1. IInv => SameTermsSameKey
  BY AskedSameTerms DEF IInv
<1>. QED  BY <1>1, Invariance, PTL

\* metronome_client.py:178-184: what has the key is what was asked for.
THEOREM RequestOfKey == Spec => []KeyFixesRequest
<1>1. IInv => KeyFixesRequest
  BY AskedKeyFixes DEF IInv
<1>. QED  BY <1>1, Invariance, PTL

\* mappers/subscription.py:43-54: contract, credit and key start on the hour.
THEOREM HourOfStart == Spec => []StartOnTheHour
<1>1. IInv => StartOnTheHour
  BY AskedOnTheHour DEF IInv
<1>. QED  BY <1>1, Invariance, PTL

\* subscription.py:3-11, 139-142: the order of the checks.
THEOREM OrderOfChecks == Spec => HandlerDecides
<1>1. IInv /\ [Next]_vars => [DecidesByShape]_vars
  BY DecidedStep DEF Decided
<1>. QED  BY <1>1, Invariance, PTL DEF Spec, HandlerDecides

\* metronome_client.py:14-33: which answers an event is given up for.
THEOREM GivenUpFor == Spec => []AnswerDecides
<1>1. IInv => AnswerDecides
  BY DEF IInv
<1>. QED  BY <1>1, Invariance, PTL

\* models.py:122-140: the row names a contract that was made for its terms.
THEOREM RowOfContract == Spec => RowNamesContract
<1>1. IInv /\ [Next]_vars => [\A id \in Ids : links'[id] # links[id] => WritesRow(id)]_vars
  BY RowStep
<1>. QED  BY <1>1, Invariance, PTL DEF Spec, RowNamesContract
=============================================================================
