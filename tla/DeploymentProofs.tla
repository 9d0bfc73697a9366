--------------------------- MODULE DeploymentProofs ---------------------------
(***************************************************************************)
(* What holds of the stack for every number of posts, every size of the    *)
(* pools and any number of outages, crashes, stops, and failed or repeated *)
(* migrations.                                                             *)
(*                                                                         *)
(* Three arguments. The schema: the migrator's transaction sees, at any    *)
(* moment, the tables of the revision it has reached, so that what it      *)
(* commits is stamped; and no service starts before a migrator has         *)
(* committed the last one. The pools: a session holds a connection between *)
(* its checkout and its close and only then, only in a process that runs.  *)
(* Outages: a session gets no connection but a live one, so that a broken  *)
(* one is a trace of an outage during the session.                         *)
(***************************************************************************)
EXTENDS Deployment, FiniteSetTheorems, TLAPS

\* The phases in which a process has an engine.
Up == {"running", "stopping"}

\* The migrator's transaction has the tables of the revision it is at.
Transaction ==
    /\ migrate = "upgrading" => upgrade.tables = TablesAt(upgrade.at)
    /\ migrate = "done" => revision = LatestVersion

\* A connection is held by an open session of a process that is up.
Scopes ==
    \A t \in Tasks :
        /\ session[t].conn # "none" <=> session[t].pc \in {"open", "committed"}
        /\ session[t].pc # "none" => phase[Process(t)] \in Up
        /\ session[t].pc = "committed" => {t} \cap Requests \subseteq stored

IInv == /\ TypeOK /\ SchemaIsStamped /\ ReadyToRun
        /\ Transaction /\ PoolAccounts /\ Scopes

-----------------------------------------------------------------------------
(* The schema.                                                             *)

LEMMA NextTables ==
  ASSUME NEW r \in Nat
  PROVE  TablesAt(r + 1) = TablesAt(r) \cup Creates[r + 1]
<1>1. 1 .. r + 1 = (1 .. r) \cup {r + 1}
  OBVIOUS
<1>. QED  BY <1>1 DEF TablesAt

LEMMA AllTables ==
  ASSUME NEW r \in 0 .. LatestVersion
  PROVE  TablesAt(r) \subseteq TablesAt(LatestVersion)
<1>1. 1 .. r \subseteq 1 .. LatestVersion
  BY DEF LatestVersion
<1>. QED  BY <1>1 DEF TablesAt

SchemaTypes ==
    /\ fresh \in BOOLEAN /\ healthy \in BOOLEAN /\ configured \in BOOLEAN
    /\ revision \in 0 .. LatestVersion
    /\ tables \subseteq TablesAt(LatestVersion)
    /\ migrate \in Migrate
    /\ upgrade \in [at : 0 .. LatestVersion, tables : SUBSET TablesAt(LatestVersion)]
    /\ phase \in [Services -> Phases]

\* The steps that neither the migrator nor a container has a part in.
LEMMA SchemaKept ==
  ASSUME IInv, UNCHANGED <<revision, tables, migrate, upgrade, phase, configured>>,
         fresh' \in BOOLEAN, healthy' \in BOOLEAN
  PROVE  SchemaTypes' /\ SchemaIsStamped' /\ ReadyToRun' /\ Transaction'
BY DEF IInv, TypeOK, SchemaTypes, SchemaIsStamped, ReadyToRun, Transaction

LEMMA NoUpgradeType == NoUpgrade \in [at : 0 .. LatestVersion, tables : SUBSET TablesAt(LatestVersion)]
BY DEF NoUpgrade, LatestVersion

\* The steps of the migrator, of its failures and of `docker compose up`.
LEMMA MigratorStep ==
  ASSUME IInv,
         Migrator \/ MigrateDies \/ DbStops \/ ComposeUp
  PROVE  SchemaTypes' /\ SchemaIsStamped' /\ ReadyToRun' /\ Transaction'
<1>. USE NoUpgradeType DEF SchemaTypes, SchemaIsStamped, ReadyToRun, Transaction
<1>. SUFFICES SchemaTypes' /\ SchemaIsStamped' /\ ReadyToRun' /\ Transaction'
  OBVIOUS
<1>0. /\ SchemaTypes /\ SchemaIsStamped /\ ReadyToRun /\ Transaction
  BY DEF IInv, TypeOK
<1>1. CASE MigrateStarts
  BY <1>0, <1>1 DEF MigrateStarts, schemaVars, sessionVars, Migrate
<1>2. CASE MigrateConnects
  BY <1>0, <1>2 DEF MigrateConnects, schemaVars, sessionVars, Migrate
<1>3. CASE RunVersion
  <2>1. /\ upgrade.at \in 0 .. LatestVersion  /\ upgrade.at < LatestVersion
        /\ migrate' = "upgrading"
        /\ upgrade' = [at     |-> upgrade.at + 1,
                       tables |-> upgrade.tables \cup Creates[upgrade.at + 1]]
        /\ UNCHANGED <<revision, tables, phase, configured, fresh, healthy>>
    BY <1>0, <1>3 DEF RunVersion, schemaVars, sessionVars
  <2>2. /\ upgrade'.at = upgrade.at + 1
        /\ upgrade'.tables = TablesAt(upgrade'.at)
        /\ upgrade'.at \in 0 .. LatestVersion
    <3>1. upgrade.tables = TablesAt(upgrade.at)
      BY <1>0, <1>3 DEF RunVersion
    <3>2. upgrade'.at = upgrade.at + 1 /\ upgrade'.at \in 0 .. LatestVersion
      BY <2>1 DEF LatestVersion
    <3>3. TablesAt(upgrade.at + 1) = TablesAt(upgrade.at) \cup Creates[upgrade.at + 1]
      BY <2>1, NextTables
    <3>. QED  BY <2>1, <3>1, <3>2, <3>3
  <2>3. upgrade' \in [at : 0 .. LatestVersion, tables : SUBSET TablesAt(LatestVersion)]
    BY <2>1, <2>2, AllTables
  <2>4. migrate' \in Migrate
    BY <2>1 DEF Migrate
  <2>. QED  BY <1>0, <2>1, <2>2, <2>3, <2>4
<1>4. CASE CommitUpgrade
  BY <1>0, <1>4 DEF CommitUpgrade, sessionVars, Migrate
<1>5. CASE MigrateDies
  BY <1>0, <1>5 DEF MigrateDies, schemaVars, Migrate
<1>6. CASE DbStops
  BY <1>0, <1>6 DEF DbStops, schemaVars, Migrate
<1>7. CASE ComposeUp
  <2>1. phase' = [p \in Services |-> "waiting"]
    BY <1>7 DEF ComposeUp
  <2>2. phase' \in [Services -> Phases] /\ \A p \in Services : phase'[p] = "waiting"
    BY <2>1 DEF Phases
  <2>. QED  BY <1>0, <1>7, <2>2 DEF ComposeUp, schemaVars, Migrate
<1>. QED  BY <1>1, <1>2, <1>3, <1>4, <1>5, <1>6, <1>7 DEF Migrator

\* The steps of a service's container.
LEMMA ContainerStep ==
  ASSUME IInv, NEW p \in Services, Service(p) \/ Crash(p) \/ Stop(p)
  PROVE  SchemaTypes' /\ SchemaIsStamped' /\ ReadyToRun' /\ Transaction'
<1>0. /\ SchemaTypes /\ SchemaIsStamped /\ ReadyToRun /\ Transaction
  BY DEF IInv, TypeOK, SchemaTypes
<1>1. UNCHANGED <<fresh, revision, tables, healthy, migrate, upgrade, configured>>
  BY DEF Service, ServiceStarts, Boot, Restarts, Exit, Crash, Stop, schemaVars, sessionVars
<1>2. PICK next \in Phases :
        /\ phase' = [phase EXCEPT ![p] = next]
        /\ phase[p] # "waiting" \/ migrate = "done"
        /\ next \in Up => configured
  BY <1>0 DEF Service, ServiceStarts, Boot, Restarts, Exit, Crash, Stop, Move, Phases, Up,
              ReadyToRun
<1>3. phase' \in [Services -> Phases]
  BY <1>0, <1>2 DEF SchemaTypes
<1>4. ReadyToRun'
  BY <1>0, <1>1, <1>2 DEF ReadyToRun, Transaction, SchemaTypes, Up
<1>. QED
  BY <1>0, <1>1, <1>3, <1>4 DEF SchemaTypes, SchemaIsStamped, Transaction

LEMMA SchemaStep ==
  ASSUME IInv, Next
  PROVE  SchemaTypes' /\ SchemaIsStamped' /\ ReadyToRun' /\ Transaction'
<1>1. CASE Database
  <2>1. UNCHANGED <<revision, tables, migrate, upgrade, phase, configured>>
    BY <1>1 DEF Database, DbStarts, DbInitialised, CheckHealth, schemaVars, composeVars
  <2>2. fresh' \in BOOLEAN
    BY <1>1 DEF Database, DbStarts, DbInitialised, CheckHealth, schemaVars, IInv, TypeOK
  <2>3. healthy' \in BOOLEAN
    <3>1. healthy \in BOOLEAN
      BY DEF IInv, TypeOK
    <3>2. CASE CheckHealth
      <4>. DEFINE accepts == db \in {"initialising", "up"}
      <4>1. healthy' = accepts
        BY <3>2 DEF CheckHealth
      <4>2. accepts \in BOOLEAN
        OBVIOUS
      <4>. QED  BY <4>1, <4>2
    <3>3. CASE DbStarts \/ DbInitialised
      BY <3>1, <3>3 DEF DbStarts, DbInitialised, composeVars
    <3>. QED  BY <1>1, <3>2, <3>3 DEF Database
  <2>. QED  BY <2>1, <2>2, <2>3, SchemaKept
<1>2. CASE Migrator \/ MigrateDies \/ DbStops \/ ComposeUp
  BY <1>2, MigratorStep
<1>3. CASE \E p \in Services : Service(p) \/ Crash(p) \/ Stop(p)
  BY <1>3, ContainerStep
<1>4. CASE \E t \in Tasks : BeginSession(t) \/ GetConnection(t) \/ Proceed(t) \/ GoWrong(t)
  <2>1. UNCHANGED <<schemaVars, composeVars>>
    BY <1>4 DEF BeginSession, GetConnection, Proceed, GoWrong, Step
  <2>. QED  BY <2>1, SchemaKept DEF schemaVars, composeVars, IInv, TypeOK
<1>. QED  BY <1>1, <1>2, <1>3, <1>4 DEF Next

-----------------------------------------------------------------------------
(* The sessions and the pools.                                             *)

\* The tasks of a process that hold a connection.
Out(p) == {t \in Tasks : Process(t) = p /\ session[t].conn # "none"}

Accounts(p) ==
    /\ pool[p].opened = Waiting(p) + Cardinality(Out(p))
    /\ Waiting(p) <= PoolSize
    /\ phase[p] \notin Up => pool[p].opened = 0

LEMMA PoolAccountsByProcess == PoolAccounts <=> \A p \in Services : Accounts(p)
BY DEF PoolAccounts, Accounts, Out, Up

SessionTypes ==
    /\ db \in {"down", "initialising", "up"}
    /\ session \in [Tasks -> Session]
    /\ pool \in [Services -> Pool]
    /\ stored \subseteq Requests
    /\ answered \subseteq stored
    /\ disruptions \in 0 .. MaxDisruptions

\* What the steps of a process, the database or a session preserve.
SessionsSound == SessionTypes /\ (\A p \in Services : Accounts(p)) /\ Scopes

LEMMA ProcessType == \A t \in Tasks : Process(t) \in Services
BY DEF Process, Services

LEMMA OutFinite ==
  ASSUME NEW p
  PROVE  IsFiniteSet(Out(p)) /\ Cardinality(Out(p)) \in Nat
<1>1. IsFiniteSet(Tasks)
  BY SessionsAssumption, FS_AddElement DEF Tasks
<1>2. Out(p) \subseteq Tasks
  BY DEF Out
<1>. QED  BY <1>1, <1>2, FS_Subset, FS_CardinalityType

\* The sums that the settings of the pool bound.
LEMMA PoolNumbers ==
  /\ PoolSize \in Nat /\ MaxOverflow \in Nat /\ PoolSize > 0
  /\ Capacity = PoolSize + MaxOverflow /\ Capacity \in Nat
BY SessionsAssumption DEF Capacity

\* A checkout moves a connection from the pool, or from nowhere, to the task.
LEMMA Opened ==
  ASSUME session \in [Tasks -> Session], NEW t \in Tasks,
         session[t].conn = "none", Open(t, "live"), NEW p
  PROVE  /\ p = Process(t) => Cardinality(Out(p)') = Cardinality(Out(p)) + 1
         /\ p # Process(t) => Out(p)' = Out(p)
<1>1. /\ session'[t].conn = "live"
      /\ \A u \in Tasks : u # t => session'[u] = session[u]
  BY DEF Open, Session
<1>2. CASE p = Process(t)
  <2>1. Out(p)' = Out(p) \cup {t} /\ t \notin Out(p)
    BY <1>1, <1>2 DEF Out
  <2>2. Cardinality(Out(p) \cup {t}) = Cardinality(Out(p)) + 1
    BY <2>1, OutFinite, FS_AddElement
  <2>. QED  BY <1>2, <2>1, <2>2
<1>3. CASE p # Process(t)
  BY <1>1, <1>3 DEF Out
<1>. QED  BY <1>2, <1>3

\* A close takes it from the task.
LEMMA Closed ==
  ASSUME session \in [Tasks -> Session], NEW t \in Tasks,
         session[t].conn # "none", session' = [session EXCEPT ![t] = NoSession], NEW p
  PROVE  /\ p = Process(t) => Cardinality(Out(p)) = Cardinality(Out(p)') + 1
         /\ p # Process(t) => Out(p)' = Out(p)
         /\ Cardinality(Out(p)') \in Nat
<1>1. /\ session'[t].conn = "none"
      /\ \A u \in Tasks : u # t => session'[u] = session[u]
  BY DEF NoSession
<1>2. Cardinality(Out(p)') \in Nat
  <2>1. IsFiniteSet(Tasks)
    BY SessionsAssumption, FS_AddElement DEF Tasks
  <2>2. Out(p)' \subseteq Tasks
    BY DEF Out
  <2>. QED  BY <2>1, <2>2, FS_Subset, FS_CardinalityType
<1>3. CASE p = Process(t)
  <2>1. Out(p)' = Out(p) \ {t} /\ t \in Out(p)
    BY <1>1, <1>3 DEF Out
  <2>2. Cardinality(Out(p) \ {t}) = Cardinality(Out(p)) - 1
    BY <2>1, OutFinite, FS_RemoveElement
  <2>. QED  BY <1>2, <1>3, <2>1, <2>2, OutFinite
<1>4. CASE p # Process(t)
  BY <1>1, <1>2, <1>4 DEF Out
<1>. QED  BY <1>3, <1>4

\* Nobody takes or gives back a connection: only phases change, or what the
\* connections are.
LEMMA SessionsKept ==
  ASSUME SessionsSound, UNCHANGED <<session, pool, stored, answered>>,
         db' \in {"down", "initialising", "up"}, disruptions' \in 0 .. MaxDisruptions,
         \A p \in Services : phase[p] \in Up => phase'[p] \in Up
  PROVE  SessionsSound'
<1>1. \A p \in Services : Out(p)' = Out(p) /\ Waiting(p)' = Waiting(p)
  BY DEF Out, Waiting
<1>2. \A p \in Services : Accounts(p)'
  BY <1>1 DEF SessionsSound, Accounts
<1>3. Scopes'
  BY ProcessType DEF SessionsSound, Scopes
<1>. QED  BY <1>2, <1>3 DEF SessionsSound, SessionTypes

LEMMA SessionsDropped ==
  ASSUME SessionsSound, NEW ps \in SUBSET Services, Drop(ps),
         db' \in {"down", "initialising", "up"}, disruptions' \in 0 .. MaxDisruptions,
         \A p \in Services \ ps : phase[p] \in Up => phase'[p] \in Up
  PROVE  SessionsSound'
<1>1. SessionTypes'
  BY PoolNumbers DEF SessionsSound, SessionTypes, Drop, NoSession, Session, EmptyPool, Pool
<1>2. ASSUME NEW p \in Services
      PROVE  Accounts(p)'
  <2>1. CASE p \in ps
    <3>1. Out(p)' = {}
      BY <2>1 DEF Drop, Out, NoSession
    <3>2. pool'[p] = EmptyPool
      BY <2>1 DEF Drop
    <3>3. Cardinality({}) = 0
      BY FS_EmptySet
    <3>. QED  BY <3>1, <3>2, <3>3, PoolNumbers DEF Accounts, Waiting, EmptyPool
  <2>2. CASE p \notin ps
    <3>1. Out(p)' = Out(p)
      BY <2>2 DEF Drop, Out
    <3>2. pool'[p] = pool[p]
      BY <2>2 DEF Drop
    <3>. QED  BY <2>2, <3>1, <3>2 DEF SessionsSound, Accounts, Waiting
  <2>. QED  BY <2>1, <2>2
<1>3. Scopes'
  <2>. SUFFICES ASSUME NEW t \in Tasks
       PROVE  /\ session'[t].conn # "none" <=> session'[t].pc \in {"open", "committed"}
              /\ session'[t].pc # "none" => phase'[Process(t)] \in Up
              /\ session'[t].pc = "committed" => {t} \cap Requests \subseteq stored'
    BY DEF Scopes
  <2>1. CASE Process(t) \in ps
    BY <2>1 DEF Drop, NoSession
  <2>2. CASE Process(t) \notin ps
    BY <2>2, ProcessType DEF Drop, SessionsSound, Scopes
  <2>. QED  BY <2>1, <2>2
<1>. QED  BY <1>1, <1>2, <1>3 DEF SessionsSound

LEMMA SessionsHit ==
  ASSUME SessionsSound, LoseConnections, UNCHANGED phase,
         db' \in {"down", "initialising", "up"}, disruptions' \in 0 .. MaxDisruptions
  PROVE  SessionsSound'
<1>1. ASSUME NEW t \in Tasks
      PROVE  /\ session'[t] \in Session
             /\ session'[t].pc = session[t].pc
             /\ session'[t].conn # "none" <=> session[t].conn # "none"
  BY DEF LoseConnections, SessionsSound, SessionTypes, Session
<1>2. ASSUME NEW p \in Services
      PROVE  /\ pool'[p] \in Pool
             /\ Waiting(p)' = Waiting(p)
             /\ pool'[p].opened = pool[p].opened
  <2>1. pool[p] \in Pool /\ Waiting(p) \in 0 .. PoolSize
    BY PoolNumbers DEF SessionsSound, SessionTypes, Accounts, Waiting, Pool
  <2>2. pool'[p] = [pool[p] EXCEPT !.live = 0, !.dead = Waiting(p)]
    BY DEF LoseConnections
  <2>3. /\ pool'[p] \in Pool
        /\ pool'[p].live = 0 /\ pool'[p].dead = Waiting(p)
        /\ pool'[p].opened = pool[p].opened
    <3>. DEFINE w == Waiting(p)
    <3>1. w \in 0 .. PoolSize /\ pool'[p] = [pool[p] EXCEPT !.live = 0, !.dead = w]
      BY <2>1, <2>2
    <3>. HIDE DEF w
    <3>2. /\ pool'[p].live = 0 /\ pool'[p].dead = w
          /\ pool'[p].opened = pool[p].opened
      BY <2>1, <3>1 DEF Pool
    <3>3. pool'[p] = [live |-> 0, dead |-> w, opened |-> pool[p].opened]
      BY <2>1, <3>1 DEF Pool
    <3>4. pool'[p] \in Pool
      BY <2>1, <3>1, <3>3, PoolNumbers DEF Pool
    <3>. QED  BY <3>2, <3>4 DEF w
  <2>4. Waiting(p)' = pool'[p].live + pool'[p].dead
    BY DEF Waiting
  <2>. QED  BY <2>1, <2>3, <2>4
<1>3. \A p \in Services : Accounts(p)'
  <2>1. \A p \in Services : Out(p)' = Out(p)
    BY <1>1 DEF Out
  <2>. QED  BY <1>2, <2>1 DEF SessionsSound, Accounts
<1>4. Scopes'
  BY <1>1 DEF SessionsSound, Scopes, LoseConnections
<1>5. SessionTypes'
  <2>1. session' \in [Tasks -> Session]
    BY <1>1 DEF LoseConnections
  <2>2. pool' \in [Services -> Pool]
    BY <1>2 DEF LoseConnections
  <2>. QED  BY <2>1, <2>2 DEF SessionsSound, SessionTypes, LoseConnections
<1>. QED  BY <1>3, <1>4, <1>5 DEF SessionsSound

\* What is left to show of a step of one session: its own fields, and the sums
\* of its process.
LEMMA SessionMoved ==
  ASSUME SessionsSound, NEW t \in Tasks, NEW s \in Session,
         session' = [session EXCEPT ![t] = s],
         s.conn # "none" <=> s.pc \in {"open", "committed"},
         s.pc # "none" => phase[Process(t)] \in Up,
         s.pc = "committed" => {t} \cap Requests \subseteq stored',
         UNCHANGED <<db, phase>>, disruptions' \in 0 .. MaxDisruptions,
         pool' \in [Services -> Pool], stored \subseteq stored',
         stored' \subseteq Requests, answered' \subseteq stored',
         \A p \in Services : Accounts(p)'
  PROVE  SessionsSound'
<1>1. SessionTypes'
  BY DEF SessionsSound, SessionTypes
<1>2. Scopes'
  BY DEF SessionsSound, SessionTypes, Scopes
<1>. QED  BY <1>1, <1>2 DEF SessionsSound

\* The session keeps what connection it has.
LEMMA AccountsKept ==
  ASSUME SessionsSound, NEW t \in Tasks, NEW s \in Session,
         session' = [session EXCEPT ![t] = s],
         s.conn # "none" <=> session[t].conn # "none",
         UNCHANGED <<pool, phase>>
  PROVE  \A p \in Services : Accounts(p)'
<1>1. \A u \in Tasks : session'[u].conn # "none" <=> session[u].conn # "none"
  BY DEF SessionsSound, SessionTypes
<1>2. \A p \in Services : Out(p)' = Out(p) /\ Waiting(p)' = Waiting(p)
  BY <1>1 DEF Out, Waiting
<1>. QED  BY <1>2 DEF SessionsSound, Accounts

\* The fields of a session, one set at a time.
LEMMA SessionFields ==
  /\ NoSession \in Session
  /\ \A s \in Session :
        /\ [s EXCEPT !.pc = "waiting"] \in Session
        /\ [s EXCEPT !.pc = "open", !.conn = "live"] \in Session
        /\ [s EXCEPT !.pc = "committed"] \in Session
BY DEF NoSession, Session

LEMMA BeginStep ==
  ASSUME SessionsSound, NEW t \in Tasks, Begin(t), phase[Process(t)] \in Up, UNCHANGED phase
  PROVE  SessionsSound'
<1>. DEFINE s == [session[t] EXCEPT !.pc = "waiting"]
<1>1. /\ session[t] \in Session /\ session[t].pc = "none" /\ session[t].conn = "none"
  BY DEF Begin, SessionsSound, SessionTypes, Scopes
<1>2. /\ s \in Session /\ s.pc = "waiting" /\ s.conn = "none"
      /\ session' = [session EXCEPT ![t] = s]
  BY <1>1, SessionFields DEF Begin, Session
<1>3. UNCHANGED <<db, pool, stored, answered, disruptions>>
  BY DEF Begin
<1>. HIDE DEF s
<1>4. \A p \in Services : Accounts(p)'
  BY <1>1, <1>2, <1>3, AccountsKept
<1>. QED  BY <1>2, <1>3, <1>4, SessionMoved DEF SessionsSound, SessionTypes

\* A checkout opens one more connection, or takes one that waits: what waits
\* and what is out together are as many as are opened, before and after.
LEMMA CheckoutStep ==
  ASSUME SessionsSound, NEW t \in Tasks, Checkout(t), UNCHANGED phase
  PROVE  SessionsSound'
<1>. DEFINE s == [session[t] EXCEPT !.pc = "open", !.conn = "live"]
            q == Process(t)
<1>1. /\ session[t] \in Session /\ session[t].pc = "waiting" /\ session[t].conn = "none"
      /\ phase[q] \in Up /\ q \in Services
  BY ProcessType DEF Checkout, SessionsSound, SessionTypes, Scopes
<1>2. /\ s \in Session /\ s.pc = "open" /\ s.conn = "live"
      /\ session' = [session EXCEPT ![t] = s]
  <2>1. session' = [session EXCEPT ![t] = s]
    BY DEF Checkout, Open
  <2>2. s \in Session
    BY <1>1, SessionFields
  <2>. QED  BY <1>1, <2>1, <2>2 DEF Session
<1>3. UNCHANGED <<db, stored, answered, disruptions>>
  BY DEF Checkout
<1>4. /\ pool' \in [Services -> Pool]
      /\ \A p \in Services : p # q => pool'[p] = pool[p]
      /\ pool'[q].opened + Waiting(q) = pool[q].opened + Waiting(q)' + 1
      /\ Waiting(q)' <= PoolSize
  <2>1. pool[q] \in Pool /\ Waiting(q) \in 0 .. PoolSize
    BY <1>1, PoolNumbers DEF SessionsSound, SessionTypes, Accounts, Waiting, Pool
  <2>2. PICK r \in Pool :
          /\ pool' = [pool EXCEPT ![q] = r]
          /\ r.opened + Waiting(q) = pool[q].opened + r.live + r.dead + 1
          /\ r.live + r.dead <= PoolSize
    <3>1. CASE pool[q].live > 0 /\ pool' = [pool EXCEPT ![q].live = @ - 1]
      <4>. DEFINE r == [pool[q] EXCEPT !.live = @ - 1]
      <4>1. r = [live |-> pool[q].live - 1, dead |-> pool[q].dead, opened |-> pool[q].opened]
        BY <2>1 DEF Pool
      <4>2. pool' = [pool EXCEPT ![q] = r]
        BY <3>1
      <4>. HIDE DEF r
      <4>3. r \in Pool
        BY <2>1, <3>1, <4>1, PoolNumbers DEF Pool
      <4>4. r.opened + Waiting(q) = pool[q].opened + r.live + r.dead + 1
            /\ r.live + r.dead <= PoolSize
        BY <2>1, <3>1, <4>1, PoolNumbers DEF Pool, Waiting
      <4>. QED  BY <4>2, <4>3, <4>4
    <3>2. CASE pool[q].dead > 0 /\ pool' = [pool EXCEPT ![q].dead = @ - 1]
      <4>. DEFINE r == [pool[q] EXCEPT !.dead = @ - 1]
      <4>1. r = [live |-> pool[q].live, dead |-> pool[q].dead - 1, opened |-> pool[q].opened]
        BY <2>1 DEF Pool
      <4>2. pool' = [pool EXCEPT ![q] = r]
        BY <3>2
      <4>. HIDE DEF r
      <4>3. r \in Pool
        BY <2>1, <3>2, <4>1, PoolNumbers DEF Pool
      <4>4. r.opened + Waiting(q) = pool[q].opened + r.live + r.dead + 1
            /\ r.live + r.dead <= PoolSize
        BY <2>1, <3>2, <4>1, PoolNumbers DEF Pool, Waiting
      <4>. QED  BY <4>2, <4>3, <4>4
    <3>3. CASE /\ Waiting(q) = 0 /\ pool[q].opened < Capacity
               /\ pool' = [pool EXCEPT ![q].opened = @ + 1]
      <4>. DEFINE r == [pool[q] EXCEPT !.opened = @ + 1]
      <4>1. r = [live |-> pool[q].live, dead |-> pool[q].dead, opened |-> pool[q].opened + 1]
        BY <2>1 DEF Pool
      <4>2. pool' = [pool EXCEPT ![q] = r]
        BY <3>3
      <4>. HIDE DEF r
      <4>3. r \in Pool
        BY <2>1, <3>3, <4>1, PoolNumbers DEF Pool
      <4>4. r.opened + Waiting(q) = pool[q].opened + r.live + r.dead + 1
            /\ r.live + r.dead <= PoolSize
        BY <2>1, <3>3, <4>1, PoolNumbers DEF Pool, Waiting
      <4>. QED  BY <4>2, <4>3, <4>4
    <3>. QED  BY <3>1, <3>2, <3>3 DEF Checkout
  <2>3. Waiting(q)' = pool'[q].live + pool'[q].dead
    BY DEF Waiting
  <2>. QED  BY <1>1, <2>1, <2>2, <2>3 DEF SessionsSound, SessionTypes, Pool
<1>5. ASSUME NEW p \in Services
      PROVE  Accounts(p)'
  <2>1. /\ p = q => Cardinality(Out(p)') = Cardinality(Out(p)) + 1
        /\ p # q => Out(p)' = Out(p)
    BY <1>1, Opened DEF Checkout, SessionsSound, SessionTypes
  <2>2. CASE p = q
    <3>1. /\ pool'[q].opened \in Nat /\ Waiting(q)' \in Nat
          /\ pool[q].opened \in Nat /\ Waiting(q) \in Nat
      BY <1>1, <1>4, PoolNumbers DEF SessionsSound, SessionTypes, Pool, Waiting
    <3>2. pool[q].opened = Waiting(q) + Cardinality(Out(q)) /\ Cardinality(Out(q)) \in Nat
      BY <1>1, OutFinite DEF SessionsSound, Accounts
    <3>3. pool'[q].opened = Waiting(q)' + Cardinality(Out(q)')
      BY <1>4, <2>1, <2>2, <3>1, <3>2
    <3>. QED  BY <1>1, <1>4, <2>2, <3>3 DEF Accounts
  <2>3. CASE p # q
    BY <1>4, <2>1, <2>3 DEF SessionsSound, Accounts, Waiting
  <2>. QED  BY <2>2, <2>3
<1>. HIDE DEF s
<1>. QED  BY <1>1, <1>2, <1>3, <1>4, <1>5, SessionMoved DEF SessionsSound, SessionTypes

\* The close of a connection: it waits in the pool, or is one less opened.
LEMMA CloseStep ==
  ASSUME SessionsSound, NEW t \in Tasks,
         session[t].conn \in {"live", "dead"}, Close(t),
         UNCHANGED <<db, phase, stored>>, answered' \subseteq stored,
         disruptions' \in 0 .. MaxDisruptions
  PROVE  SessionsSound'
<1>. DEFINE q == Process(t)
            conn == session[t].conn
<1>1. q \in Services /\ session' = [session EXCEPT ![t] = NoSession]
  BY ProcessType DEF Close
<1>2. /\ pool[q] \in Pool /\ Waiting(q) \in 0 .. PoolSize
      /\ Waiting(q) = pool[q].live + pool[q].dead
  BY <1>1, PoolNumbers DEF SessionsSound, SessionTypes, Accounts, Waiting, Pool
<1>3. \A p : /\ p = q => Cardinality(Out(p)) = Cardinality(Out(p)') + 1
             /\ p # q => Out(p)' = Out(p)
             /\ Cardinality(Out(p)') \in Nat
  BY <1>1, Closed DEF SessionsSound, SessionTypes
<1>4. /\ pool[q].opened = Waiting(q) + Cardinality(Out(q))
      /\ Cardinality(Out(q)) \in Nat /\ Cardinality(Out(q)) > 0
      /\ phase[q] \in Up
  <2>1. Cardinality(Out(q)') \in Nat
    BY <1>3
  <2>2. Cardinality(Out(q)) \in Nat
    BY OutFinite
  <2>. QED  BY <1>1, <1>3, <2>1, <2>2 DEF SessionsSound, Accounts, Scopes
<1>5. PICK r \in Pool :
        /\ pool' = [pool EXCEPT ![q] = r]
        /\ r.opened + Waiting(q) + 1 = pool[q].opened + r.live + r.dead
        /\ r.live + r.dead <= PoolSize
  <2>1. CASE Waiting(q) = PoolSize
    <3>. DEFINE r == [pool[q] EXCEPT !.opened = @ - 1]
    <3>1. r = [live |-> pool[q].live, dead |-> pool[q].dead, opened |-> pool[q].opened - 1]
      BY <1>2 DEF Pool
    <3>2. pool' = [pool EXCEPT ![q] = r]
      BY <2>1 DEF Close, GiveBack
    <3>. HIDE DEF r
    <3>3. r \in Pool
      BY <1>2, <1>4, <3>1, PoolNumbers DEF Pool
    <3>4. /\ r.opened + Waiting(q) + 1 = pool[q].opened + r.live + r.dead
          /\ r.live + r.dead <= PoolSize
      BY <1>2, <3>1, PoolNumbers DEF Pool
    <3>. QED  BY <3>2, <3>3, <3>4
  <2>2. CASE Waiting(q) # PoolSize /\ conn = "live"
    <3>. DEFINE r == [pool[q] EXCEPT !.live = @ + 1]
    <3>1. r = [live |-> pool[q].live + 1, dead |-> pool[q].dead, opened |-> pool[q].opened]
      BY <1>2 DEF Pool
    <3>2. pool' = [pool EXCEPT ![q] = r]
      BY <2>2 DEF Close, GiveBack
    <3>. HIDE DEF r
    <3>3. r \in Pool
      BY <1>2, <2>2, <3>1, PoolNumbers DEF Pool
    <3>4. /\ r.opened + Waiting(q) + 1 = pool[q].opened + r.live + r.dead
          /\ r.live + r.dead <= PoolSize
      BY <1>2, <2>2, <3>1, PoolNumbers DEF Pool
    <3>. QED  BY <3>2, <3>3, <3>4
  <2>3. CASE Waiting(q) # PoolSize /\ conn = "dead"
    <3>. DEFINE r == [pool[q] EXCEPT !.dead = @ + 1]
    <3>1. r = [live |-> pool[q].live, dead |-> pool[q].dead + 1, opened |-> pool[q].opened]
      BY <1>2 DEF Pool
    <3>2. pool' = [pool EXCEPT ![q] = r]
      BY <2>3 DEF Close, GiveBack
    <3>. HIDE DEF r
    <3>3. r \in Pool
      BY <1>2, <2>3, <3>1, PoolNumbers DEF Pool
    <3>4. /\ r.opened + Waiting(q) + 1 = pool[q].opened + r.live + r.dead
          /\ r.live + r.dead <= PoolSize
      BY <1>2, <2>3, <3>1, PoolNumbers DEF Pool
    <3>. QED  BY <3>2, <3>3, <3>4
  <2>. QED  BY <2>1, <2>2, <2>3
<1>6. ASSUME NEW p \in Services
      PROVE  Accounts(p)'
  <2>1. CASE p = q
    <3>1. pool'[q] = r
      BY <1>1, <1>5 DEF SessionsSound, SessionTypes
    <3>2. Waiting(q)' = r.live + r.dead
      BY <3>1 DEF Waiting
    <3>3. Cardinality(Out(q)) = Cardinality(Out(q)') + 1
      BY <1>3
    <3>4. /\ r.opened \in Nat /\ r.live \in Nat /\ r.dead \in Nat
          /\ pool[q].opened \in Nat
      BY <1>2, PoolNumbers DEF Pool
    <3>5. Cardinality(Out(q)') \in Nat
      BY <1>3
    <3>6. r.opened = r.live + r.dead + Cardinality(Out(q)')
      BY <1>2, <1>4, <1>5, <3>3, <3>4, <3>5
    <3>. QED  BY <1>4, <1>5, <2>1, <3>1, <3>2, <3>6 DEF Accounts
  <2>2. CASE p # q
    BY <1>3, <1>5, <2>2 DEF SessionsSound, Accounts, Waiting
  <2>. QED  BY <2>1, <2>2
<1>7. pool' \in [Services -> Pool]
  BY <1>5 DEF SessionsSound, SessionTypes
<1>8. NoSession \in Session /\ NoSession.pc = "none" /\ NoSession.conn = "none"
  BY SessionFields DEF NoSession
<1>. QED
  BY <1>1, <1>6, <1>7, <1>8, SessionMoved DEF SessionsSound, SessionTypes

LEMMA CommitStep ==
  ASSUME SessionsSound, NEW t \in Tasks, Commit(t), UNCHANGED phase
  PROVE  SessionsSound'
<1>. DEFINE s == [session[t] EXCEPT !.pc = "committed"]
<1>1. /\ session[t] \in Session /\ session[t].conn = "live"
      /\ phase[Process(t)] \in Up
  BY DEF Commit, SessionsSound, SessionTypes, Scopes
<1>2. /\ s \in Session /\ s.pc = "committed" /\ s.conn = "live"
      /\ session' = [session EXCEPT ![t] = s]
  BY <1>1, SessionFields DEF Commit, Session
<1>3. /\ UNCHANGED <<db, pool, answered, disruptions>>
      /\ stored' = stored \cup ({t} \cap Requests)
  BY DEF Commit
<1>. HIDE DEF s
<1>4. \A p \in Services : Accounts(p)'
  BY <1>1, <1>2, <1>3, AccountsKept
<1>. QED  BY <1>1, <1>2, <1>3, <1>4, SessionMoved DEF SessionsSound, SessionTypes

\* No connection was had, none is given back.
LEMMA RefusedStep ==
  ASSUME SessionsSound, NEW t \in Tasks, session[t].pc = "waiting",
         session' = [session EXCEPT ![t] = NoSession],
         UNCHANGED <<db, pool, stored, answered, phase>>,
         disruptions' \in 0 .. MaxDisruptions
  PROVE  SessionsSound'
<1>1. session[t].conn = "none"
  BY DEF SessionsSound, Scopes
<1>2. NoSession \in Session /\ NoSession.pc = "none" /\ NoSession.conn = "none"
  BY SessionFields DEF NoSession
<1>3. \A p \in Services : Accounts(p)'
  BY <1>1, <1>2, AccountsKept
<1>. QED  BY <1>2, <1>3, SessionMoved DEF SessionsSound, SessionTypes

LEMMA DisruptType ==
  ASSUME disruptions \in 0 .. MaxDisruptions, Disrupt
  PROVE  disruptions' \in 0 .. MaxDisruptions
BY SessionsAssumption DEF Disrupt

LEMMA TaskStep ==
  ASSUME SessionsSound, NEW t \in Tasks, UNCHANGED phase,
         \/ phase[Process(t)] = "running" /\ Begin(t)
         \/ Checkout(t) \/ Commit(t) \/ Finish(t) \/ Fail(t)
         \/ CheckoutFails(t) \/ CheckoutTimesOut(t) \/ Abort(t)
  PROVE  SessionsSound'
<1>0. disruptions \in 0 .. MaxDisruptions /\ session[t] \in Session
  BY DEF SessionsSound, SessionTypes
<1>1. CASE phase[Process(t)] = "running" /\ Begin(t)
  BY <1>1, BeginStep DEF Up
<1>2. CASE Checkout(t)
  BY <1>2, CheckoutStep
<1>3. CASE Commit(t)
  BY <1>3, CommitStep
<1>4. CASE Finish(t)
  <2>1. {t} \cap Requests \subseteq stored /\ answered \subseteq stored
    BY <1>4 DEF Finish, SessionsSound, SessionTypes, Scopes
  <2>. QED  BY <1>0, <1>4, <2>1, CloseStep DEF Finish
<1>5. CASE Fail(t)
  BY <1>0, <1>5, CloseStep DEF Fail, SessionsSound, SessionTypes
<1>6. CASE Abort(t)
  BY <1>0, <1>6, CloseStep, DisruptType DEF Abort, SessionsSound, SessionTypes
<1>7. CASE CheckoutFails(t)
  BY <1>0, <1>7, RefusedStep DEF CheckoutFails
<1>8. CASE CheckoutTimesOut(t)
  BY <1>0, <1>8, RefusedStep, DisruptType DEF CheckoutTimesOut
<1>. QED  BY <1>1, <1>2, <1>3, <1>4, <1>5, <1>6, <1>7, <1>8

LEMMA SessionStep ==
  ASSUME IInv, Next
  PROVE  SessionsSound'
<1>0. /\ SessionsSound
      /\ disruptions \in 0 .. MaxDisruptions
      /\ db \in {"down", "initialising", "up"}
      /\ phase \in [Services -> Phases]
  BY PoolAccountsByProcess DEF IInv, TypeOK, SessionsSound, SessionTypes
<1>1. CASE Database \/ Migrator
  <2>1. UNCHANGED <<session, pool, stored, answered, disruptions, phase>>
    BY <1>1 DEF Database, DbStarts, DbInitialised, CheckHealth, Migrator, MigrateStarts,
                MigrateConnects, RunVersion, CommitUpgrade, composeVars, sessionVars
  <2>2. db' \in {"down", "initialising", "up"}
    BY <1>0, <1>1 DEF Database, DbStarts, DbInitialised, CheckHealth, Migrator,
                      MigrateStarts, MigrateConnects, RunVersion, CommitUpgrade, sessionVars
  <2>. QED  BY <1>0, <2>1, <2>2, SessionsKept
<1>2. CASE MigrateDies
  BY <1>0, <1>2, SessionsKept, DisruptType DEF MigrateDies
<1>3. CASE DbStops
  BY <1>0, <1>3, SessionsHit, DisruptType DEF DbStops
<1>4. CASE ComposeUp
  BY <1>0, <1>4, SessionsDropped, DisruptType DEF ComposeUp
<1>5. ASSUME NEW p \in Services, Service(p) \/ Crash(p) \/ Stop(p)
      PROVE  SessionsSound'
  <2>1. CASE ServiceStarts(p) \/ Boot(p) \/ Restarts(p)
    <3>1. /\ UNCHANGED <<db, session, pool, stored, answered, disruptions>>
          /\ phase[p] \notin Up
          /\ \E next \in Phases : phase' = [phase EXCEPT ![p] = next]
      BY <2>1 DEF ServiceStarts, Boot, Restarts, Move, Up, Phases, sessionVars
    <3>. QED  BY <1>0, <3>1, SessionsKept
  <2>2. CASE Exit(p)
    BY <1>0, <2>2, SessionsDropped DEF Exit, Move
  <2>3. CASE Crash(p)
    BY <1>0, <2>3, SessionsDropped, DisruptType DEF Crash, Move
  <2>4. CASE Stop(p)
    BY <1>0, <2>4, SessionsKept, DisruptType DEF Stop, Move, Up
  <2>. QED  BY <1>5, <2>1, <2>2, <2>3, <2>4 DEF Service
<1>6. ASSUME NEW t \in Tasks,
             BeginSession(t) \/ GetConnection(t) \/ Proceed(t) \/ GoWrong(t)
      PROVE  SessionsSound'
  BY <1>0, <1>6, TaskStep DEF BeginSession, GetConnection, Proceed, GoWrong, Step, composeVars
<1>. QED  BY <1>1, <1>2, <1>3, <1>4, <1>5, <1>6 DEF Next

-----------------------------------------------------------------------------

LEMMA InitInv == Init => IInv
<1>. SUFFICES ASSUME Init PROVE IInv
  OBVIOUS
<1>1. TypeOK
  <2>1. /\ NoSession \in Session
        /\ EmptyPool \in Pool
    BY PoolNumbers DEF NoSession, Session, EmptyPool, Pool
  <2>2. /\ db \in {"down", "initialising", "up"}
        /\ session \in [Tasks -> Session] /\ pool \in [Services -> Pool]
        /\ stored \subseteq Requests /\ answered \subseteq stored
        /\ disruptions \in 0 .. MaxDisruptions
    BY <2>1, SessionsAssumption DEF Init, InitSessions
  <2>3. /\ fresh \in BOOLEAN /\ healthy \in BOOLEAN /\ configured \in BOOLEAN
    BY DEF Init
  <2>4. /\ revision \in 0 .. LatestVersion
        /\ tables \subseteq TablesAt(LatestVersion)
        /\ migrate \in Migrate
        /\ upgrade \in [at : 0 .. LatestVersion, tables : SUBSET TablesAt(LatestVersion)]
        /\ phase \in [Services -> Phases]
    BY NoUpgradeType, AllTables DEF Init, Migrate, Phases
  <2>. QED  BY <2>2, <2>3, <2>4 DEF TypeOK
<1>2. SchemaIsStamped /\ ReadyToRun /\ Transaction
  BY DEF Init, SchemaIsStamped, ReadyToRun, Transaction
<1>3. Scopes
  BY DEF Init, InitSessions, Scopes, NoSession
<1>4. \A p \in Services : Accounts(p)
  <2>1. \A p : Out(p) = {}
    BY DEF Init, InitSessions, Out, NoSession
  <2>. QED
    BY <2>1, FS_EmptySet, PoolNumbers DEF Init, InitSessions, Accounts, Waiting, EmptyPool
<1>. QED  BY <1>1, <1>2, <1>3, <1>4, PoolAccountsByProcess DEF IInv

LEMMA StepInv == IInv /\ [Next]_vars => IInv'
<1>. SUFFICES ASSUME IInv, [Next]_vars PROVE IInv'
  OBVIOUS
<1>1. CASE Next
  <2>1. SchemaTypes' /\ SchemaIsStamped' /\ ReadyToRun' /\ Transaction'
    BY <1>1, SchemaStep
  <2>2. SessionsSound'
    BY <1>1, SessionStep
  <2>3. PoolAccounts' <=> \A p \in Services : Accounts(p)'
    BY DEF PoolAccounts, Accounts, Out, Up
  <2>. QED
    BY <2>1, <2>2, <2>3 DEF IInv, TypeOK, SchemaTypes, SessionsSound, SessionTypes
<1>2. CASE UNCHANGED vars
  BY <1>2 DEF vars, sessionVars, schemaVars, composeVars, IInv, TypeOK, SchemaIsStamped,
              ReadyToRun, Transaction, PoolAccounts, Scopes, Waiting
<1>. QED  BY <1>1, <1>2

LEMMA Invariance == Spec => []IInv
BY InitInv, StepInv, PTL DEF Spec

\* Every variable keeps to its values: no pool counts a connection too many.
THEOREM TypeCorrect == Spec => []TypeOK
<1>1. IInv => TypeOK
  BY DEF IInv
<1>. QED  BY <1>1, Invariance, PTL

\* env.py:96-104: the schema is the one of the revision it is stamped with.
THEOREM SchemaStamped == Spec => []SchemaIsStamped
<1>1. IInv => SchemaIsStamped
  BY DEF IInv
<1>. QED  BY <1>1, Invariance, PTL

\* docker-compose.yml:7-8: no service runs on an older schema, or on settings
\* that Settings refuses.
THEOREM Ready == Spec => []ReadyToRun
<1>1. IInv => ReadyToRun
  BY DEF IInv
<1>. QED  BY <1>1, Invariance, PTL

\* db.py:60-78: no session keeps a connection, for pools of any size.
THEOREM NoLeak == Spec => []PoolAccounts
<1>1. IInv => PoolAccounts
  BY DEF IInv
<1>. QED  BY <1>1, Invariance, PTL

-----------------------------------------------------------------------------
(* Outages.                                                                *)

\* A connection is broken only where the database went away under its session.
BrokenByOutage == \A t \in Tasks : session[t].conn = "dead" => session[t].hit

Excused(t) == session[t].hit \/ db # "up" \/ disruptions' > disruptions

\* What a step has to leave of every session, and what it may end.
OutagesAccounted ==
    \A t \in Tasks : /\ session'[t].conn = "dead" => session'[t].hit
                     /\ Errs(t) => Excused(t)

LEMMA Disruption ==
  ASSUME IInv, Disrupt
  PROVE  disruptions' > disruptions
BY SessionsAssumption DEF IInv, TypeOK, Disrupt

\* The steps that no session takes part in, or all of those that are gone.
LEMMA OutagesKept ==
  ASSUME BrokenByOutage, UNCHANGED session
  PROVE  OutagesAccounted
BY DEF BrokenByOutage, OutagesAccounted, Errs

LEMMA OutagesDropped ==
  ASSUME BrokenByOutage, NEW ps, Drop(ps),
         disruptions' > disruptions \/ \A p \in ps : Quiet(p)
  PROVE  OutagesAccounted
<1>. SUFFICES ASSUME NEW t \in Tasks
     PROVE  /\ session'[t].conn = "dead" => session'[t].hit
            /\ Errs(t) => Excused(t)
  BY DEF OutagesAccounted
<1>1. CASE Process(t) \in ps
  <2>1. session'[t] = NoSession
    BY <1>1 DEF Drop
  <2>2. session[t].pc = "none" \/ disruptions' > disruptions
    BY <1>1 DEF Quiet
  <2>. QED  BY <2>1, <2>2 DEF NoSession, Errs, Excused
<1>2. CASE Process(t) \notin ps
  BY <1>2 DEF Drop, BrokenByOutage, Errs
<1>. QED  BY <1>1, <1>2

\* What is left of a session whose database goes away.
Struck(s) == [s EXCEPT !.hit = TRUE, !.conn = IF @ = "live" THEN "dead" ELSE @]

LEMMA StruckFields ==
  ASSUME NEW s \in Session
  PROVE  Struck(s).hit = TRUE /\ Struck(s).pc = s.pc
<1>. DEFINE hit == [s EXCEPT !.hit = TRUE]
<1>1. hit \in Session /\ hit.hit = TRUE /\ hit.pc = s.pc /\ hit.conn = s.conn
  BY DEF Session
<1>2. Struck(s) = [hit EXCEPT !.conn = IF s.conn = "live" THEN "dead" ELSE s.conn]
  BY DEF Struck
<1>. HIDE DEF hit
<1>. QED  BY <1>1, <1>2 DEF Session

LEMMA OutagesHit ==
  ASSUME IInv, BrokenByOutage, LoseConnections
  PROVE  OutagesAccounted
<1>1. session' = [t \in Tasks |-> IF session[t].pc = "none" THEN session[t]
                                  ELSE Struck(session[t])]
  BY Zenon DEF LoseConnections, Struck
<1>2. ASSUME NEW t \in Tasks
      PROVE  /\ session'[t].conn = "dead" => session'[t].hit
             /\ session'[t].pc = session[t].pc
  <2>1. session[t] \in Session
    BY DEF IInv, TypeOK
  <2>2. CASE session[t].pc = "none"
    <3>1. session'[t] = session[t]
      BY <1>1, <2>2
    <3>. QED  BY <3>1 DEF BrokenByOutage
  <2>3. CASE session[t].pc # "none"
    <3>1. session'[t] = Struck(session[t])
      BY <1>1, <2>3
    <3>2. Struck(session[t]).hit /\ Struck(session[t]).pc = session[t].pc
      BY <2>1, StruckFields
    <3>. QED  BY <3>1, <3>2
  <2>. QED  BY <2>2, <2>3
<1>. QED  BY <1>2 DEF OutagesAccounted, Errs

\* The steps of one session: the others are as they were.
LEMMA OutagesOfOne ==
  ASSUME IInv, BrokenByOutage, NEW t \in Tasks, NEW s \in Session,
         session' = [session EXCEPT ![t] = s],
         s.conn = "dead" => s.hit,
         session[t].pc \in {"waiting", "open"} /\ s.pc = "none" => Excused(t)
  PROVE  OutagesAccounted
<1>1. /\ session'[t] = s
      /\ \A u \in Tasks : u # t => session'[u] = session[u]
  BY DEF IInv, TypeOK
<1>. QED  BY <1>1 DEF BrokenByOutage, OutagesAccounted, Errs

LEMMA TaskOutages ==
  ASSUME IInv, BrokenByOutage, NEW t \in Tasks,
         BeginSession(t) \/ GetConnection(t) \/ Proceed(t) \/ GoWrong(t)
  PROVE  OutagesAccounted
<1>0. session[t] \in Session
  BY DEF IInv, TypeOK
<1>9. NoSession \in Session /\ NoSession.conn = "none" /\ NoSession.pc = "none"
  BY DEF NoSession, Session
<1>1. CASE Begin(t)
  <2>. DEFINE s == [session[t] EXCEPT !.pc = "waiting"]
  <2>1. s \in Session
    BY <1>0 DEF Session
  <2>2. s.conn = session[t].conn /\ s.hit = session[t].hit
    BY <1>0 DEF Session
  <2>3. session' = [session EXCEPT ![t] = s] /\ session[t].pc = "none"
    BY <1>1 DEF Begin
  <2>. HIDE DEF s
  <2>. QED  BY <2>1, <2>2, <2>3, OutagesOfOne DEF BrokenByOutage
<1>2. CASE Checkout(t)
  <2>. DEFINE s == [session[t] EXCEPT !.pc = "open", !.conn = "live"]
  <2>1. s \in Session
    BY <1>0 DEF Session
  <2>2. s.conn = "live" /\ s.pc = "open"
    BY <1>0 DEF Session
  <2>3. session' = [session EXCEPT ![t] = s]
    BY <1>2 DEF Checkout, Open
  <2>. HIDE DEF s
  <2>. QED  BY <2>1, <2>2, <2>3, OutagesOfOne
<1>3. CASE Commit(t)
  <2>. DEFINE s == [session[t] EXCEPT !.pc = "committed"]
  <2>1. s \in Session
    BY <1>0 DEF Session
  <2>2. s.conn = session[t].conn /\ s.pc = "committed"
    BY <1>0 DEF Session
  <2>3. session' = [session EXCEPT ![t] = s] /\ session[t].conn = "live"
    BY <1>3 DEF Commit
  <2>. HIDE DEF s
  <2>. QED  BY <2>1, <2>2, <2>3, OutagesOfOne
<1>4. CASE /\ session' = [session EXCEPT ![t] = NoSession]
           /\ session[t].pc \in {"waiting", "open"} => Excused(t)
  BY <1>4, <1>9, OutagesOfOne
<1>5. CASE Finish(t)
  <2>1. session[t].pc = "committed" /\ session' = [session EXCEPT ![t] = NoSession]
    BY <1>5 DEF Finish, Close
  <2>. QED  BY <1>4, <2>1
<1>6. CASE Fail(t)
  <2>1. session[t].hit /\ session' = [session EXCEPT ![t] = NoSession]
    BY <1>6 DEF Fail, Close, BrokenByOutage
  <2>. QED  BY <1>4, <2>1 DEF Excused
<1>7. CASE CheckoutFails(t)
  <2>1. db # "up" /\ session' = [session EXCEPT ![t] = NoSession]
    BY <1>7 DEF CheckoutFails
  <2>. QED  BY <1>4, <2>1 DEF Excused
<1>8. CASE CheckoutTimesOut(t) \/ Abort(t)
  <2>1. Disrupt /\ session' = [session EXCEPT ![t] = NoSession]
    BY <1>8 DEF CheckoutTimesOut, Abort, Close
  <2>. QED  BY <1>4, <2>1, Disruption DEF Excused
<1>. QED
  BY <1>1, <1>2, <1>3, <1>5, <1>6, <1>7, <1>8
     DEF BeginSession, GetConnection, Proceed, GoWrong, Step

LEMMA OutagesStep ==
  ASSUME IInv, BrokenByOutage, [Next]_vars
  PROVE  OutagesAccounted
<1>1. CASE Database \/ Migrator \/ MigrateDies \/ UNCHANGED vars
  <2>1. UNCHANGED session
    BY <1>1 DEF Database, DbStarts, DbInitialised, CheckHealth, Migrator, MigrateStarts,
                MigrateConnects, RunVersion, CommitUpgrade, MigrateDies, composeVars,
                sessionVars, vars
  <2>. QED  BY <2>1, OutagesKept
<1>2. CASE DbStops
  BY <1>2, OutagesHit DEF DbStops
<1>3. CASE ComposeUp
  BY <1>3, OutagesDropped, Disruption DEF ComposeUp
<1>4. ASSUME NEW p \in Services, Service(p) \/ Crash(p) \/ Stop(p)
      PROVE  OutagesAccounted
  <2>1. CASE ServiceStarts(p) \/ Boot(p) \/ Restarts(p) \/ Stop(p)
    <3>1. UNCHANGED session
      BY <2>1 DEF ServiceStarts, Boot, Restarts, Stop, sessionVars
    <3>. QED  BY <3>1, OutagesKept
  <2>2. CASE Exit(p)
    <3>1. Drop({p}) /\ \A q \in {p} : Quiet(q)
      BY <2>2 DEF Exit
    <3>. QED  BY <3>1, OutagesDropped
  <2>3. CASE Crash(p)
    <3>1. Drop({p}) /\ disruptions' > disruptions
      BY <2>3, Disruption DEF Crash
    <3>. QED  BY <3>1, OutagesDropped
  <2>. QED  BY <1>4, <2>1, <2>2, <2>3 DEF Service
<1>5. ASSUME NEW t \in Tasks,
             BeginSession(t) \/ GetConnection(t) \/ Proceed(t) \/ GoWrong(t)
      PROVE  OutagesAccounted
  BY <1>5, TaskOutages
<1>. QED  BY <1>1, <1>2, <1>3, <1>4, <1>5 DEF Next

\* db.py:37-39: for pools of any size and any number of sessions, outages and
\* restarts, no session that begins after an outage pays for it: one ends in
\* an error only where the database went away under it, is away, or something
\* else goes wrong in that very step.
THEOREM OutagesEndHolds == Spec => OutagesEnd
<1>1. Init => BrokenByOutage
  BY DEF Init, InitSessions, NoSession, BrokenByOutage
<1>2. IInv /\ BrokenByOutage /\ [Next]_vars => BrokenByOutage'
  BY OutagesStep DEF OutagesAccounted, BrokenByOutage
<1>3. IInv /\ BrokenByOutage /\ [Next]_vars
      => [\A t \in Tasks :
             Errs(t) => session[t].hit \/ db # "up" \/ disruptions' > disruptions]_vars
  BY OutagesStep DEF OutagesAccounted, Excused
<1>. QED  BY <1>1, <1>2, <1>3, Invariance, PTL DEF Spec, OutagesEnd
=============================================================================
