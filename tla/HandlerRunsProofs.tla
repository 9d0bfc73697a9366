-------------------------- MODULE HandlerRunsProofs --------------------------
(***************************************************************************)
(* How the steps that both kinds of handlers take leave the rows and the   *)
(* sessions, and why a row under a worker's lock stays as it is: the       *)
(* lemmas that the proofs about CustomerSync and SubscriptionSync share.   *)
(***************************************************************************)
EXTENDS HandlerRuns, FiniteSetTheorems, TLAPS

\* The verdict on the row of the worker's event.
Ruled(w, status) ==
    rows' = [rows EXCEPT ![work[w].event].attempts = @ + 1,
                         ![work[w].event].status = status]

\* The place of a new row in the order of arrival is a number.
LEMMA NextRankType == NextRank \in Nat
<1>. DEFINE arrived == {e \in Events : rows[e].rank # 0}
<1>1. IsFiniteSet(arrived)
  BY HandlerRunsAssumption, FS_Subset, arrived \subseteq Events
<1>2. Cardinality(arrived) \in Nat
  BY <1>1, FS_CardinalityType
<1>. QED  BY <1>2 DEF NextRank

LEMMA InsertType ==
  ASSUME rows \in [Events -> Row], NEW e \in Events, Insert(e)
  PROVE  rows' \in [Events -> Row]
BY NextRankType DEF Insert, Row, Statuses

LEMMA RuledType ==
  ASSUME rows \in [Events -> Row], NEW w \in Workers, work[w].event \in Events,
         NEW status \in Statuses, Ruled(w, status)
  PROVE  rows' \in [Events -> Row]
<1>1. PICK e \in Events : e = work[w].event
  OBVIOUS
<1>2. rows' = [rows EXCEPT ![e].attempts = @ + 1, ![e].status = status]
  BY <1>1 DEF Ruled
<1>. DEFINE row == [rows[e] EXCEPT !.attempts = @ + 1, !.status = status]
<1>3. row \in Row
  <2>. DEFINE tried == [rows[e] EXCEPT !.attempts = @ + 1]
  <2>1. rows[e] \in Row
    OBVIOUS
  <2>2. tried \in Row
    BY <2>1 DEF Row
  <2>3. [tried EXCEPT !.status = status] \in Row
    <3>. HIDE DEF tried
    <3>. QED  BY <2>2 DEF Row
  <2>4. row = [tried EXCEPT !.status = status]
    BY <2>1 DEF Row
  <2>. QED  BY <2>3, <2>4
<1>4. rows' = [rows EXCEPT ![e] = row]
  BY <1>2
<1>. HIDE DEF row
<1>. QED  BY <1>3, <1>4

LEMMA EndWorkType ==
  ASSUME work \in [Workers -> Work], NEW w \in Workers, EndWork(w)
  PROVE  work' \in [Workers -> Work]
<1>1. Idle \in Work
  BY DEF Idle, Bad, Work, Steps, Reply, ReplyKinds
<1>. QED  BY <1>1 DEF EndWork

LEMMA ClaimType ==
  ASSUME work \in [Workers -> Work], NEW w \in Workers, Claim(w)
  PROVE  work' \in [Workers -> Work]
<1>1. PICK e \in Events :
         work' = [work EXCEPT ![w].pc = "claimed", ![w].event = e]
  BY DEF Claim
<1>. QED  BY <1>1 DEF Work, Steps

LEMMA AnswerType ==
  ASSUME work \in [Workers -> Work], NEW w \in Workers, NEW reply \in Reply,
         Answer(w, reply)
  PROVE  work' \in [Workers -> Work]
BY DEF Answer, Work, Steps

-----------------------------------------------------------------------------
(* The locks.                                                              *)

Holds(w) == work[w].pc # "idle"

\* A row that a worker holds is pending, and no other worker holds it.
LocksSound ==
    \A w \in Workers : Holds(w) =>
        /\ rows[work[w].event].status = "pending"
        /\ \A v \in Workers : work[v].event = work[w].event => v = w

EventsHeld ==
    \A w \in Workers : IF Holds(w) THEN work[w].event \in Events
                       ELSE work[w].event = None

\* A row that is there changes only by a worker that lets go of it.
UnderLock ==
    \A e \in Events : rows[e].status # "absent" /\ rows'[e] # rows[e] =>
        \E w \in Workers : Holds(w) /\ work[w].event = e /\ EndWork(w)

\* Nobody takes another event up: workers go on, or let go.
NobodyClaims ==
    \A w \in Workers : \/ work'[w] = Idle
                       \/ Holds(w) /\ work'[w].event = work[w].event
                       \/ work'[w] = work[w]

\* The worker takes the event up.
Takes(w, e) ==
    /\ Available(e)
    /\ work'[w].event = e
    /\ \A v \in Workers : v # w => work'[v] = work[v]
    /\ rows' = rows

LEMMA ClaimTakes ==
  ASSUME work \in [Workers -> Work], NEW w \in Workers, Claim(w)
  PROVE  \E e \in Events : Takes(w, e)
<1>1. PICK e \in Events :
         /\ Available(e)
         /\ work' = [work EXCEPT ![w].pc = "claimed", ![w].event = e]
  BY DEF Claim
<1>2. /\ work'[w].event = e
      /\ \A v \in Workers : v # w => work'[v] = work[v]
  BY <1>1 DEF Work
<1>. QED  BY <1>1, <1>2 DEF Takes, Claim

LEMMA LocksKept ==
  ASSUME DOMAIN work = Workers, EventsHeld, LocksSound, UnderLock,
         NobodyClaims \/ \E w \in Workers, e \in Events : Takes(w, e)
  PROVE  LocksSound'
<1>1. SUFFICES ASSUME NEW w \in Workers, Holds(w)'
               PROVE  /\ rows'[work'[w].event].status = "pending"
                      /\ \A v \in Workers : work'[v].event = work'[w].event => v = w
  BY DEF LocksSound
<1>2. None \notin Events
  BY HandlerRunsAssumption
<1>3. CASE NobodyClaims
  <2>1. Holds(w) /\ work'[w].event = work[w].event
    BY <1>1, <1>3 DEF NobodyClaims, Holds, Idle
  <2>2. rows[work[w].event].status = "pending" /\ work[w].event \in Events
    BY <2>1 DEF LocksSound, EventsHeld
  <2>3. \A v \in Workers : work'[v].event = work'[w].event => v = w
    BY <1>2, <1>3, <2>1, <2>2 DEF NobodyClaims, LocksSound, EventsHeld, Idle
  <2>4. rows'[work[w].event] = rows[work[w].event]
    <3>1. SUFFICES ASSUME rows'[work[w].event] # rows[work[w].event]
                   PROVE  FALSE
      OBVIOUS
    <3>2. PICK v \in Workers : Holds(v) /\ work[v].event = work[w].event /\ EndWork(v)
      BY <2>2, <3>1 DEF UnderLock
    <3>3. v = w
      BY <2>1, <3>2 DEF LocksSound
    <3>4. work'[w] = Idle
      BY <3>2, <3>3 DEF EndWork
    <3>. QED  BY <1>1, <3>4 DEF Holds, Idle
  <2>. QED  BY <2>1, <2>2, <2>3, <2>4
<1>4. ASSUME NEW u \in Workers, NEW e \in Events, Takes(u, e)
      PROVE  /\ rows'[work'[w].event].status = "pending"
             /\ \A v \in Workers : work'[v].event = work'[w].event => v = w
  <2>2. rows' = rows
    BY <1>4 DEF Takes
  <2>3. /\ work'[u].event = e
        /\ \A v \in Workers : v # u => work'[v] = work[v]
    BY <1>4 DEF Takes
  <2>4. rows[e].status = "pending" /\ \A v \in Workers : work[v].event # e
    BY <1>4 DEF Takes, Available
  <2>5. CASE w = u
    BY <2>2, <2>3, <2>4, <2>5
  <2>6. CASE w # u
    <3>1. Holds(w) /\ work'[w] = work[w]
      BY <1>1, <2>3, <2>6 DEF Holds
    <3>. QED  BY <2>2, <2>3, <2>4, <3>1 DEF LocksSound
  <2>. QED  BY <2>5, <2>6
<1>. QED  BY <1>3, <1>4

Done == {e \in Events : rows[e].status = "processed"}

\* What is done stays done.
LEMMA DoneKept ==
  ASSUME LocksSound, UnderLock
  PROVE  Done \subseteq Done'
<1>1. SUFFICES ASSUME NEW e \in Events, rows[e].status = "processed"
               PROVE  rows'[e].status = "processed"
  BY DEF Done
<1>2. CASE rows'[e] # rows[e]
  <2>1. PICK w \in Workers : Holds(w) /\ work[w].event = e
    BY <1>1, <1>2 DEF UnderLock
  <2>. QED  BY <1>1, <2>1 DEF LocksSound
<1>. QED  BY <1>1, <1>2

-----------------------------------------------------------------------------
(* The order of arrival.                                                   *)

\* Every row's rank is below the one the next row gets, and only rows that are
\* not there have none.
RanksSound == \A e \in Events : /\ rows[e].rank < NextRank
                                /\ rows[e].status = "absent" <=> rows[e].rank = 0

\* A new row gets the highest rank.
LEMMA InsertRanks ==
  ASSUME rows \in [Events -> Row], RanksSound, NEW e \in Events, Insert(e)
  PROVE  /\ \A f \in Events : /\ rows'[f].rank = IF f = e THEN NextRank ELSE rows[f].rank
                              /\ rows'[f].status = IF f = e THEN "pending" ELSE rows[f].status
                              /\ rows'[f].attempts = rows[f].attempts
         /\ NextRank' = NextRank + 1
         /\ RanksSound'
<1>. DEFINE arrived == {f \in Events : rows[f].rank # 0}
<1>1. IsFiniteSet(arrived) /\ e \notin arrived
  <2>1. IsFiniteSet(arrived)
    BY HandlerRunsAssumption, FS_Subset, arrived \subseteq Events
  <2>. QED  BY <2>1 DEF Insert, RanksSound
<1>2. NextRank \in Nat \ {0}
  <2>1. Cardinality(arrived) \in Nat
    BY <1>1, FS_CardinalityType
  <2>. QED  BY <2>1 DEF NextRank
<1>3. \A f \in Events : /\ rows'[f].rank = IF f = e THEN NextRank ELSE rows[f].rank
                        /\ rows'[f].status = IF f = e THEN "pending" ELSE rows[f].status
                        /\ rows'[f].attempts = rows[f].attempts
  BY DEF Insert, Row
<1>4. {f \in Events : rows'[f].rank # 0} = arrived \cup {e}
  BY <1>2, <1>3
<1>5. Cardinality(arrived \cup {e}) = Cardinality(arrived) + 1
  BY <1>1, FS_AddElement
<1>6. NextRank' = NextRank + 1
  BY <1>4, <1>5 DEF NextRank
<1>7. RanksSound'
  <2>1. SUFFICES ASSUME NEW f \in Events
                 PROVE  /\ rows'[f].rank < NextRank'
                        /\ rows'[f].status = "absent" <=> rows'[f].rank = 0
    BY DEF RanksSound
  <2>2. rows[f].rank < NextRank /\ (rows[f].status = "absent" <=> rows[f].rank = 0)
        /\ rows[f].rank \in Nat
    BY DEF RanksSound, Row
  <2>. QED  BY <1>2, <1>3, <1>6, <2>2
<1>. QED  BY <1>3, <1>6, <1>7

\* A verdict leaves the ranks alone.
LEMMA RanksKept ==
  ASSUME RanksSound,
         \A e \in Events : /\ rows'[e].rank = rows[e].rank
                           /\ rows'[e].status = "absent" <=> rows[e].status = "absent"
  PROVE  RanksSound' /\ NextRank' = NextRank
<1>1. {e \in Events : rows'[e].rank # 0} = {e \in Events : rows[e].rank # 0}
  OBVIOUS
<1>2. NextRank' = NextRank
  BY <1>1 DEF NextRank
<1>. QED  BY <1>2 DEF RanksSound
=============================================================================
