----------------------------- MODULE Deployment -----------------------------
(***************************************************************************)
(* The stack of docker-compose.yml: a database with a health check, a      *)
(* migrator that runs once (alembic/env.py and its two versions), and the  *)
(* receiver and the worker, which wait for both on `docker compose up` but *)
(* on no later restart, read their settings at startup, and use the        *)
(* database through Sessions.                                              *)
(***************************************************************************)
EXTENDS Sessions

LatestVersion == 2                      \* 0002_subscription_mappings

\* What the upgrade() of each version creates.
Creates == <<{"webhook_events", "customer_mappings"}, {"subscription_mappings"}>>

TablesAt(r) == UNION {Creates[i] : i \in 1 .. r}

VARIABLES
    fresh,         \* sidecar_pgdata is empty: PostgreSQL has to initialise it
    healthy,       \* what the last health check of the database said
    revision,      \* alembic_version as committed, 0 without one
    tables,        \* the tables as committed
    migrate,       \* the migrator's container, see Migrate
    upgrade,       \* its open transaction: the revision and tables it sees
    phase,         \* process -> where its container is, see Phases
    configured     \* .env has what Settings asks for

schemaVars == <<fresh, revision, tables>>

composeVars == <<healthy, migrate, upgrade, phase, configured>>

vars == <<sessionVars, schemaVars, composeVars>>

Migrate == {"waiting", "starting", "upgrading", "done", "failed"}

Phases == {"waiting", "starting", "running", "stopping", "down"}

NoUpgrade == [at |-> 0, tables |-> {}]

\* A new volume, or one that an earlier release or run has left.
Init ==
    /\ InitSessions
    /\ fresh \in BOOLEAN
    /\ healthy = FALSE
    /\ revision \in 0 .. LatestVersion
    /\ fresh => revision = 0
    /\ tables = TablesAt(revision)
    /\ migrate = "waiting"
    /\ upgrade = NoUpgrade
    /\ phase = [p \in Services |-> "waiting"]
    /\ configured \in BOOLEAN

-----------------------------------------------------------------------------
(* The database's container.                                               *)

DbStarts ==
    /\ db = "down"
    /\ db' = IF fresh THEN "initialising" ELSE "up"
    /\ UNCHANGED <<session, pool, stored, answered, disruptions, schemaVars, composeVars>>

\* The image's entrypoint has set up the volume and lets clients in.
DbInitialised ==
    /\ db = "initialising"
    /\ db' = "up"
    /\ fresh' = FALSE
    /\ UNCHANGED <<session, pool, stored, answered, disruptions,
                   revision, tables, composeVars>>

\* pg_isready asks on the container's own socket, which is served before the
\* volume is initialised; what it said is kept until it is asked again.
CheckHealth ==
    /\ healthy' = (db \in {"initialising", "up"})
    /\ UNCHANGED <<sessionVars, schemaVars, migrate, upgrade, phase, configured>>

DbStops ==
    /\ Disrupt
    /\ db = "up"
    /\ db' = "down"
    /\ LoseConnections
    /\ IF migrate = "upgrading"
       THEN migrate' = "failed" /\ upgrade' = NoUpgrade
       ELSE UNCHANGED <<migrate, upgrade>>
    /\ UNCHANGED <<schemaVars, healthy, phase, configured>>

-----------------------------------------------------------------------------
(* The migrator: `alembic upgrade head`.                                   *)

MigrateStarts ==
    /\ migrate = "waiting"
    /\ healthy
    /\ migrate' = "starting"
    /\ UNCHANGED <<sessionVars, schemaVars, healthy, upgrade, phase, configured>>

\* One connection, one transaction around all versions.
MigrateConnects ==
    /\ migrate = "starting"
    /\ IF db = "up"
       THEN /\ migrate' = "upgrading"
            /\ upgrade' = [at |-> revision, tables |-> tables]
       ELSE /\ migrate' = "failed"
            /\ UNCHANGED upgrade
    /\ UNCHANGED <<sessionVars, schemaVars, healthy, phase, configured>>

\* Mutant: the tables are created outside the transaction.
RunVersionAutocommit ==
    /\ migrate = "upgrading"
    /\ upgrade.at < LatestVersion
    /\ Creates[upgrade.at + 1] \cap upgrade.tables = {}
    /\ tables' = tables \cup Creates[upgrade.at + 1]
    /\ upgrade' = [at |-> upgrade.at + 1, tables |-> tables']
    /\ UNCHANGED <<sessionVars, fresh, revision, healthy, migrate, phase, configured>>

\* CREATE TABLE fails on a table that exists; here none does.
RunVersion ==
    /\ migrate = "upgrading"
    /\ upgrade.at < LatestVersion
    /\ Creates[upgrade.at + 1] \cap upgrade.tables = {}
    /\ upgrade' = [at     |-> upgrade.at + 1,
                   tables |-> upgrade.tables \cup Creates[upgrade.at + 1]]
    /\ UNCHANGED <<sessionVars, schemaVars, healthy, migrate, phase, configured>>

CommitUpgrade ==
    /\ migrate = "upgrading"
    /\ upgrade.at = LatestVersion
    /\ revision' = upgrade.at
    /\ tables' = upgrade.tables
    /\ migrate' = "done"
    /\ upgrade' = NoUpgrade
    /\ UNCHANGED <<sessionVars, fresh, healthy, phase, configured>>

MigrateDies ==
    /\ Disrupt
    /\ migrate \in {"starting", "upgrading"}
    /\ migrate' = "failed"
    /\ upgrade' = NoUpgrade
    /\ UNCHANGED <<db, session, pool, stored, answered, schemaVars,
                   healthy, phase, configured>>

-----------------------------------------------------------------------------
(* The receiver's and the worker's containers.                             *)

Move(p, next) == phase' = [phase EXCEPT ![p] = next]

\* Mutant: depends_on migrate with condition service_started.
ServiceStartsEarly(p) ==
    /\ phase[p] = "waiting"
    /\ healthy
    /\ migrate # "waiting"
    /\ Move(p, "starting")
    /\ UNCHANGED <<sessionVars, schemaVars, healthy, migrate, upgrade, configured>>

\* depends_on: db is healthy, migrate has completed successfully.
ServiceStarts(p) ==
    /\ phase[p] = "waiting"
    /\ healthy
    /\ migrate = "done"
    /\ Move(p, "starting")
    /\ UNCHANGED <<sessionVars, schemaVars, healthy, migrate, upgrade, configured>>

\* get_settings() in _lifespan and _amain: a process without settings exits.
Boot(p) ==
    /\ phase[p] = "starting"
    /\ Move(p, IF configured THEN "running" ELSE "down")
    /\ UNCHANGED <<sessionVars, schemaVars, healthy, migrate, upgrade, configured>>

\* Mutant: only a startup that fails is tried again.
RetriesStartupOnly(p) ==
    /\ phase[p] = "down"
    /\ ~ configured
    /\ Move(p, "starting")
    /\ UNCHANGED <<sessionVars, schemaVars, healthy, migrate, upgrade, configured>>

\* restart: unless-stopped, with no look at the dependencies or at .env.
Restarts(p) ==
    /\ phase[p] = "down"
    /\ Move(p, "starting")
    /\ UNCHANGED <<sessionVars, schemaVars, healthy, migrate, upgrade, configured>>

Crash(p) ==
    /\ Disrupt
    /\ phase[p] \in {"running", "stopping"}
    /\ Move(p, "down")
    /\ Drop({p})
    /\ UNCHANGED <<db, schemaVars, healthy, migrate, upgrade, configured>>

\* SIGTERM, as `docker compose restart` sends it.
Stop(p) ==
    /\ Disrupt
    /\ phase[p] = "running"
    /\ Move(p, "stopping")
    /\ UNCHANGED <<db, session, pool, stored, answered, schemaVars,
                   healthy, migrate, upgrade, configured>>

\* The last session is over: dispose_engine, and the end.
Exit(p) ==
    /\ phase[p] = "stopping"
    /\ Quiet(p)
    /\ Move(p, "down")
    /\ Drop({p})
    /\ UNCHANGED <<db, disruptions, schemaVars, healthy, migrate, upgrade, configured>>

\* Ctrl-C, perhaps a change of .env, and `docker compose up` again.
ComposeUp ==
    /\ Disrupt
    /\ db # "initialising"
    /\ db' = "down"
    /\ healthy' = FALSE
    /\ migrate' = "waiting"
    /\ upgrade' = NoUpgrade
    /\ phase' = [p \in Services |-> "waiting"]
    /\ configured' \in BOOLEAN
    /\ Drop(Services)
    /\ UNCHANGED schemaVars

-----------------------------------------------------------------------------
(* The processes at work.                                                  *)

Step(step) == step /\ UNCHANGED <<schemaVars, composeVars>>

\* A post that has not had its 200 comes again; the worker polls.
BeginSession(t) == phase[Process(t)] = "running" /\ Step(Begin(t))

GetConnection(t) == Step(Checkout(t))

Proceed(t) == Step(Commit(t) \/ Finish(t) \/ Fail(t))

GoWrong(t) == Step(CheckoutFails(t) \/ CheckoutTimesOut(t) \/ Abort(t))

-----------------------------------------------------------------------------

Database == DbStarts \/ DbInitialised \/ CheckHealth

Migrator == MigrateStarts \/ MigrateConnects \/ RunVersion \/ CommitUpgrade

Service(p) == ServiceStarts(p) \/ Boot(p) \/ Restarts(p) \/ Exit(p)

Next == \/ Database \/ DbStops
        \/ Migrator \/ MigrateDies
        \/ \E p \in Services : Service(p) \/ Crash(p) \/ Stop(p)
        \/ ComposeUp
        \/ \E t \in Tasks : \/ BeginSession(t) \/ GetConnection(t)
                            \/ Proceed(t) \/ GoWrong(t)

Spec == Init /\ [][Next]_vars

\* Docker starts and probes what it has to, programs run on, Stripe posts
\* again. The pool serves those who wait in turn.
Fairness ==
    /\ WF_vars(DbStarts) /\ WF_vars(DbInitialised) /\ WF_vars(CheckHealth)
    /\ WF_vars(Migrator)
    /\ \A p \in Services : WF_vars(Service(p))
    /\ \A t \in Tasks : /\ WF_vars(BeginSession(t))
                        /\ WF_vars(GetConnection(t))
                        /\ WF_vars(Proceed(t))

FairSpec == Spec /\ Fairness

-----------------------------------------------------------------------------
(* Properties.                                                             *)

\* Every variable keeps to its values.
TypeOK ==
    /\ db \in {"down", "initialising", "up"}
    /\ session \in [Tasks -> Session]
    /\ pool \in [Services -> Pool]
    /\ stored \subseteq Requests
    /\ answered \subseteq stored
    /\ disruptions \in 0 .. MaxDisruptions
    /\ fresh \in BOOLEAN /\ healthy \in BOOLEAN /\ configured \in BOOLEAN
    /\ revision \in 0 .. LatestVersion
    /\ tables \subseteq TablesAt(LatestVersion)
    /\ migrate \in Migrate
    /\ upgrade \in [at : 0 .. LatestVersion, tables : SUBSET TablesAt(LatestVersion)]
    /\ phase \in [Services -> Phases]

\* env.py:96-104: whatever a migration is interrupted by, the schema is the
\* one of the revision it is stamped with, so that the next run goes on there.
SchemaIsStamped == tables = TablesAt(revision)

\* docker-compose.yml:7-8: the receiver and the worker, restarted by whatever
\* and with any state of the migrator behind them, never meet a schema older
\* than the code, and never run on settings that Settings refuses.
ReadyToRun ==
    \A p \in Services :
        /\ phase[p] # "waiting" => revision = LatestVersion
        /\ phase[p] \in {"running", "stopping"} => configured

\* db.py:60-78: no way to leave a session keeps its connection: what a pool
\* counts as opened is in the pool or with a session of this process.
PoolAccounts ==
    \A p \in Services :
        LET out == {t \in Tasks : Process(t) = p /\ session[t].conn # "none"}
        IN  /\ pool[p].opened = Waiting(p) + Cardinality(out)
            /\ Waiting(p) <= PoolSize
            /\ phase[p] \notin {"running", "stopping"} => pool[p].opened = 0

\* db.py:37-39: an outage that is over costs no later session an error. A
\* session ends without its commit only where the database went away under
\* it, is away, or something else went wrong there and then.
Errs(t) == /\ session[t].pc \in {"waiting", "open"}
           /\ session'[t].pc = "none"

OutagesEnd ==
    [][\A t \in Tasks :
          Errs(t) => session[t].hit \/ db # "up" \/ disruptions' > disruptions]_vars

\* server.py:8-14 and README.md:247: the stack comes up by itself, and every
\* post is answered in the end, over outages, restarts and a pool that is
\* used up; unless the migration fails or .env is wrong and stays so.
HeldBack == <>[](migrate = "failed") \/ <>[]~configured

EveryPostAnswered == <>(answered = Requests) \/ HeldBack

\* worker.py:120-136: the worker's loop outlives whatever hits its sessions.
PollsGoOn == []<>(session[Poll].pc = "committed") \/ HeldBack
=============================================================================
