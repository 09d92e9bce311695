----------------------------- MODULE Provisioning ----------------------------
(***************************************************************************)
(* The control plane and the database of one slug: provisionTenant with    *)
(* its rollback, the lifecycle operations down to hardDeleteTenant, and the *)
(* fleet migration, as the CLI and the admin console run them.             *)
(*                                                                         *)
(* Every statement on the control plane or on Postgres is a step. A step   *)
(* may throw, a rollback step may throw as well (it is then skipped), and  *)
(* the process may die between any two steps; Faults counts all of these.  *)
(*                                                                         *)
(* Roles, object storage, the user directory and the audit rows live and   *)
(* fail with the steps they belong to and are not kept as state. The name  *)
(* of the database is a function of the slug, so every tenant that ever    *)
(* has the slug has the same one.                                          *)
(***************************************************************************)
EXTENDS Naturals, Sequences, SequencesExt

CONSTANTS
    Operator,     \* CLI and console processes
    MaxTenants,   \* bound: tenant rows ever created for the slug
    MaxVersion,   \* bound: migrations the releases can contain
    Faults        \* bound: steps that throw, and processes that die

ASSUME SlugAssumption ==
    MaxTenants \in Nat /\ MaxVersion \in Nat \ {0} /\ Faults \in Nat

NoId == 0
TenantId == 1 .. MaxTenants
Status == {"TRIAL", "ACTIVE", "SUSPENDED", "DELETING"}
Undo == {"tenant", "database", "datastore"}

VARIABLES
    tenant,      \* the Tenant row of the slug, with NoId when there is none
    datastore,   \* its TenantDatastore row: owner, recorded schemaVersion
    db,          \* the Postgres database: migrations applied, tenants' data in it
    release,     \* migrations in the deployed release: latestSchemaVersion()
    op,          \* what each operator is doing
    created,     \* tenant rows created so far
    faults,      \* faults so far
    dropped,     \* tenants whose hard deletion has dropped the database
    clean        \* no two calls built or deleted at once, no rollback step
                 \* failed, no half-provisioned tenant was hard-deleted

slugVars == <<tenant, datastore, db, release, op, created, faults, dropped, clean>>
ghosts == <<created, faults, dropped, clean>>

NoCall == [pc |-> "idle"]
NoTenant == [id |-> NoId, status |-> "TRIAL"]
NoStore == [id |-> NoId, version |-> 0]
NoDatabase == [exists |-> FALSE, version |-> 0, data |-> {}]

SlugInit ==
    /\ tenant = NoTenant /\ datastore = NoStore /\ db = NoDatabase
    /\ release = 1
    /\ op = [o \in Operator |-> NoCall]
    /\ created = 0 /\ faults = 0 /\ dropped = {} /\ clean = TRUE

At(o, pc) == op[o].pc = pc
Becomes(o, s) == op' = [op EXCEPT ![o] = s]
Moves(o, pc) == Becomes(o, [op[o] EXCEPT !.pc = pc])
Fault == faults < Faults /\ faults' = faults + 1

\* Operators inside provisionTenant or hardDeleteTenant.
Building == {o \in Operator : op[o].pc \notin {"idle", "migrate", "stamp"}}

-----------------------------------------------------------------------------
(* provisionTenant *)

\* The slug is looked up: with a datastore there is nothing to do, a row without
\* one is a provisioning to resume.
StartProvision(o) ==
    /\ At(o, "idle")
    /\ tenant.id = NoId \/ datastore.id = NoId
    /\ Becomes(o, [pc |-> IF tenant.id = NoId THEN "create" ELSE "database",
                   id |-> tenant.id, undo |-> <<>>])
    /\ clean' = (clean /\ Building = {})
    /\ UNCHANGED <<tenant, datastore, db, release, created, faults, dropped>>

\* The slug is unique: of two creations the second throws, with nothing to undo.
CreateTenant(o) ==
    /\ At(o, "create")
    /\ IF tenant.id = NoId
       THEN /\ created < MaxTenants                  \* bound
            /\ tenant' = [id |-> created + 1, status |-> "TRIAL"]
            /\ created' = created + 1
            /\ Becomes(o, [pc |-> "database", id |-> created + 1,
                           undo |-> <<"tenant">>])
       ELSE /\ Becomes(o, NoCall)
            /\ UNCHANGED <<tenant, created>>
    /\ UNCHANGED <<datastore, db, release, faults, dropped, clean>>

\* createDatabase keeps a database that exists; the undo drops it all the same.
CreateDatabase(o) ==
    /\ At(o, "database")
    /\ db' = [db EXCEPT !.exists = TRUE]
    /\ Becomes(o, [op[o] EXCEPT !.pc = "fill", !.undo = Append(@, "database")])
    /\ UNCHANGED <<tenant, datastore, release, ghosts>>

\* Role, migrate deploy, seed, and the directory index, which needs the tenant row.
FillDatabase(o) ==
    /\ At(o, "fill")
    /\ db.exists /\ tenant.id = op[o].id
    /\ db' = [db EXCEPT !.version = release, !.data = @ \cup {op[o].id}]
    /\ Moves(o, "record")
    /\ UNCHANGED <<tenant, datastore, release, ghosts>>

\* Needs the tenant row (foreign key) and no other datastore row (unique).
RecordDatastore(o) ==
    /\ At(o, "record")
    /\ tenant.id = op[o].id /\ datastore.id = NoId
    /\ datastore' = [id |-> op[o].id, version |-> 1]
    /\ Becomes(o, [op[o] EXCEPT !.pc = "complete", !.undo = Append(@, "datastore")])
    /\ UNCHANGED <<tenant, db, release, ghosts>>

\* The audit row tenant.provision.complete.
Complete(o) ==
    /\ At(o, "complete")
    /\ Becomes(o, NoCall)
    /\ UNCHANGED <<tenant, datastore, db, release, ghosts>>

\* A step throws: by itself, or because what it needs is not there.
Throw(o) ==
    /\ op[o].pc \in {"database", "fill", "record", "complete"}
    /\ \/ Fault
       \/ /\ \/ At(o, "fill") /\ ~(db.exists /\ tenant.id = op[o].id)
             \/ At(o, "record") /\ ~(tenant.id = op[o].id /\ datastore.id = NoId)
          /\ UNCHANGED faults
    /\ Moves(o, "undo")
    /\ UNCHANGED <<tenant, datastore, db, release, created, dropped, clean>>

\* The effect of one rollback step; deleting the tenant cascades to its datastore.
Undone(step, id) ==
    /\ tenant' = IF step = "tenant" /\ tenant.id = id THEN NoTenant ELSE tenant
    /\ datastore' = IF step # "database" /\ datastore.id = id THEN NoStore ELSE datastore
    /\ db' = IF step = "database" THEN NoDatabase ELSE db

\* Mutation of RollBack: the undo chain runs in the order it was built.
RollBackInOrder(o) ==
    /\ At(o, "undo") /\ op[o].undo # <<>>
    /\ \/ Undone(Head(op[o].undo), op[o].id) /\ UNCHANGED <<faults, clean>>
       \/ Fault /\ clean' = FALSE /\ UNCHANGED <<tenant, datastore, db>>
    /\ Becomes(o, [op[o] EXCEPT !.undo = Tail(@)])
    /\ UNCHANGED <<release, created, dropped>>

\* In reverse order, best effort: a step that throws is skipped without a trace.
RollBack(o) ==
    /\ At(o, "undo") /\ op[o].undo # <<>>
    /\ \/ Undone(Last(op[o].undo), op[o].id) /\ UNCHANGED <<faults, clean>>
       \/ Fault /\ clean' = FALSE /\ UNCHANGED <<tenant, datastore, db>>
    /\ Becomes(o, [op[o] EXCEPT !.undo = Front(@)])
    /\ UNCHANGED <<release, created, dropped>>

RolledBack(o) ==
    /\ At(o, "undo") /\ op[o].undo = <<>>
    /\ Becomes(o, NoCall)
    /\ UNCHANGED <<tenant, datastore, db, release, ghosts>>

-----------------------------------------------------------------------------
(* Lifecycle *)

\* suspendTenant, resumeTenant (TRIAL or ACTIVE by trialEndsAt, whatever the
\* status was) and scheduleTenantDeletion: updates by id, no look at the status.
SetStatus(s) ==
    /\ tenant.id # NoId /\ tenant.status # s
    /\ tenant' = [tenant EXCEPT !.status = s]
    /\ UNCHANGED <<datastore, db, release, op, ghosts>>

\* hardDeleteTenant reads status and datastore once.
StartHardDelete(o) ==
    /\ At(o, "idle")
    /\ tenant.id # NoId /\ tenant.status = "DELETING"
    /\ Becomes(o, [pc |-> IF datastore.id = NoId THEN "delete" ELSE "drop",
                   id |-> tenant.id])
    /\ clean' = (clean /\ Building = {} /\ (datastore.id # NoId \/ ~db.exists))
    /\ UNCHANGED <<tenant, datastore, db, release, created, faults, dropped>>

DropDatabase(o) ==
    /\ At(o, "drop")
    /\ db' = NoDatabase
    /\ dropped' = dropped \cup {op[o].id}
    /\ Moves(o, "unlink")
    /\ UNCHANGED <<tenant, datastore, release, created, faults, clean>>

\* Deleting a datastore row that is gone throws and ends the call.
DeleteDatastore(o) ==
    /\ At(o, "unlink")
    /\ IF datastore.id = op[o].id
       THEN datastore' = NoStore /\ Moves(o, "delete")
       ELSE Becomes(o, NoCall) /\ UNCHANGED datastore
    /\ UNCHANGED <<tenant, db, release, ghosts>>

DeleteTenantRow(o) ==
    /\ At(o, "delete")
    /\ Undone("tenant", op[o].id)
    /\ Becomes(o, NoCall)
    /\ UNCHANGED <<release, ghosts>>

-----------------------------------------------------------------------------
(* migrateAll, for this tenant *)

Deploy ==
    /\ release < MaxVersion
    /\ release' = release + 1
    /\ UNCHANGED <<tenant, datastore, db, op, ghosts>>

\* The fleet is listed once; a tenant recorded at the target is skipped.
ListFleet(o) ==
    /\ At(o, "idle")
    /\ datastore.id # NoId /\ datastore.version # release
    /\ Becomes(o, [pc |-> "migrate", id |-> datastore.id, target |-> release])
    /\ UNCHANGED <<tenant, datastore, db, release, ghosts>>

\* prisma migrate deploy with the release's files; a database that is gone fails.
RunMigration(o) ==
    /\ At(o, "migrate")
    /\ IF db.exists
       THEN /\ db' = [db EXCEPT !.version =
                         IF @ < op[o].target THEN op[o].target ELSE @]
            /\ Moves(o, "stamp")
       ELSE /\ Becomes(o, NoCall)
            /\ UNCHANGED db
    /\ UNCHANGED <<tenant, datastore, release, ghosts>>

\* The run is SUCCEEDED and the datastore row, if it is there, gets the version.
StampVersion(o) ==
    /\ At(o, "stamp")
    /\ datastore' = IF datastore.id = op[o].id
                    THEN [datastore EXCEPT !.version = op[o].target] ELSE datastore
    /\ Becomes(o, NoCall)
    /\ UNCHANGED <<tenant, db, release, ghosts>>

\* The process dies, or a step of a deletion or a migration throws.
Crash(o) ==
    /\ ~At(o, "idle")
    /\ Fault
    /\ Becomes(o, NoCall)
    /\ UNCHANGED <<tenant, datastore, db, release, created, dropped, clean>>

Provision(o) ==
    \/ StartProvision(o) \/ CreateTenant(o) \/ CreateDatabase(o) \/ FillDatabase(o)
    \/ RecordDatastore(o) \/ Complete(o) \/ Throw(o) \/ RollBack(o) \/ RolledBack(o)

HardDelete(o) ==
    \/ StartHardDelete(o) \/ DropDatabase(o) \/ DeleteDatastore(o) \/ DeleteTenantRow(o)

Migrate(o) == ListFleet(o) \/ RunMigration(o) \/ StampVersion(o)

SlugNext ==
    \/ \E o \in Operator : Provision(o) \/ HardDelete(o) \/ Migrate(o) \/ Crash(o)
    \/ \E s \in Status : SetStatus(s)
    \/ Deploy

SlugSpec == SlugInit /\ [][SlugNext]_slugVars

-----------------------------------------------------------------------------
(* Properties *)

\* A datastore row belongs to the tenant that holds the slug (deleting a tenant
\* takes its row along), and that tenant can be connected to: through failed and
\* resumed provisionings, crashes anywhere, migrations and status changes its
\* database exists, until its own hard deletion drops it, with at least the
\* migrations of the schemaVersion the row records.
StoreHasDatabase ==
    /\ datastore.id \in {NoId, tenant.id}
    /\ clean /\ datastore.id # NoId =>
          /\ db.exists \/ datastore.id \in dropped
          /\ db.exists => datastore.version <= db.version

\* A school's database never holds rows of an earlier school of the same slug.
NoStrangersData ==
    clean /\ datastore.id # NoId => db.data \subseteq {datastore.id}

\* A datastore row leads to a database with its migrations and without rows of an
\* earlier school of its slug (provision.ts:118-324, lifecycle.ts:98-134).
RegistryIsTrue == StoreHasDatabase /\ NoStrangersData
=============================================================================
