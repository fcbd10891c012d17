----------------------------- MODULE SeedDeploy -----------------------------
(* The start command of a deploy, `migration:run && seed && start`         *)
(* (railway.json), of several instances at once: the old one still serves  *)
(* while the new one starts, any of them can die at any step, and the      *)
(* platform starts a failed one again, a bounded number of times.          *)
(*                                                                         *)
(* The migrations run in one transaction.  The seed does not: it is one    *)
(* action per database round trip.  Meanwhile admins of an instance that   *)
(* serves edit the same tables; an edit is one UPDATE here, its own        *)
(* interleavings are those of AdminSessions.                               *)
EXTENDS Integers, Sequences, TypeOrmSave

CONSTANTS
  Instances,     \* deploys, each of them a start command
  RoleIds,       \* primary keys of admin_roles
  RoleNames, Permissions,
  DefaultRoles,  \* DEFAULT_ROLES: a sequence of roles
  SuperAdmin,    \* 'Super Admin'
  Tables,        \* what the database can hold before the first deploy of a run
  RoleEdits,     \* rows admins turn a role into
  AdminEdits,    \* rows admins turn the seeded account into
  MaxRetries,    \* restartPolicyMaxRetries
  MaxEdits, MaxCrashes,  \* bounds on what may happen from outside
  None

Role == [name: RoleNames, perms: SUBSET Permissions]
Account == [status: {"active", "disabled"}, roles: SUBSET RoleNames]

ASSUME SeedAssumption ==
  /\ DefaultRoles \in Seq(Role) /\ Len(DefaultRoles) > 0
  /\ \E i \in DOMAIN DefaultRoles : DefaultRoles[i].name = SuperAdmin
  /\ \A i, j \in DOMAIN DefaultRoles : i # j => DefaultRoles[i].name # DefaultRoles[j].name
\* The tables hold rows, under the unique names of UQ_admin_roles_name.
ASSUME TableAssumption ==
  /\ \A db \in Tables :
       /\ db.migrated \in BOOLEAN /\ db.admin \in Account \cup {None}
       /\ db.roles \in [RoleIds -> Role \cup {None}]
       /\ \A id, other \in RoleIds :
            /\ db.roles[id] # None /\ db.roles[other] # None
            /\ db.roles[id].name = db.roles[other].name
            => id = other
  /\ RoleEdits \subseteq Role /\ AdminEdits \subseteq Account
  /\ {MaxEdits, MaxCrashes} \subseteq Nat
\* None is a value of its own.
ASSUME NoneAssumption == None \notin Role \cup Account \cup RoleIds
\* Ten retries for five roles, one account and the migrations.
ASSUME RetryAssumption == MaxRetries \in Nat /\ MaxRetries >= Len(DefaultRoles) + 2

VARIABLES
  migrated,  \* InitAdminTables is in the migrations table
  roles,     \* admin_roles: the row of each role, or None
  admin,     \* the admin_users row of ADMIN_SEED_EMAIL, or None
  inst,      \* per instance: where its start command stands
  edits,     \* history: edits admins made
  crashes    \* history: processes that died

vars == <<migrated, roles, admin, inst, edits, crashes>>

\* `i` counts the default roles; `id`, `ent` and `base` are the row the seed
\* found, made of it, and save() selected; `tries` counts the restarts.
Instance ==
  [pc: {"down", "migrate", "migrating", "findRole", "insertRole", "loadRole", "writeRole",
        "findAdmin", "insertAdmin", "loadAdmin", "writeAdmin", "up", "gaveUp"},
   i: 1..Len(DefaultRoles), id: RoleIds \cup {None},
   ent: Role \cup Account \cup {None}, base: Role \cup Account \cup {None},
   tries: 0..MaxRetries]

Fresh(pc, tries) ==
  [pc |-> pc, i |-> 1, id |-> None, ent |-> None, base |-> None, tries |-> tries]

At(x, pc) == inst[x].pc = pc
Goto(x, pc) == inst' = [inst EXCEPT ![x].pc = pc]
Booting(x) == inst[x].pc \notin {"down", "up", "gaveUp"}
Named(name) == {id \in RoleIds : roles[id] # None /\ roles[id].name = name}
NewId == CHOOSE id \in RoleIds : roles[id] = None  \* which one does not matter
Default(x) == DefaultRoles[inst[x].i]

\* The command fails: the platform runs it again from its beginning, or not.
Failed(x) ==
  IF inst[x].tries < MaxRetries
  THEN Fresh("migrate", inst[x].tries + 1) ELSE Fresh("gaveUp", inst[x].tries)
Fail(x) == inst' = [inst EXCEPT ![x] = Failed(x)]

\* Fault: one role too many.
NextRoleOffByOne(x) ==
  inst' = [inst EXCEPT ![x] =
    IF @.i <= Len(DefaultRoles) THEN [Fresh("findRole", @.tries) EXCEPT !.i = inst[x].i + 1]
                                ELSE Fresh("findAdmin", @.tries)]

\* On to the next default role, or to the account.
NextRole(x) ==
  inst' = [inst EXCEPT ![x] =
    IF @.i < Len(DefaultRoles) THEN [Fresh("findRole", @.tries) EXCEPT !.i = inst[x].i + 1]
                               ELSE Fresh("findAdmin", @.tries)]
-----------------------------------------------------------------------------
Deploy(x) ==
  /\ At(x, "down")
  /\ inst' = [inst EXCEPT ![x] = Fresh("migrate", 0)]
  /\ UNCHANGED <<migrated, roles, admin, edits, crashes>>

\* migration:run looks up what was executed (the table it keeps that in is
\* there, which TypeORM creates on its first run of all) ...
ReadMigrations(x) ==
  /\ At(x, "migrate")
  /\ Goto(x, IF migrated THEN "findRole" ELSE "migrating")
  /\ UNCHANGED <<migrated, roles, admin, edits, crashes>>

\* ... and runs the rest in one transaction, whose CREATE TABLE fails when
\* another instance was first.
Migrate(x) ==
  /\ At(x, "migrating")
  /\ IF migrated THEN Fail(x) ELSE Goto(x, "findRole")
  /\ migrated' = TRUE
  /\ UNCHANGED <<roles, admin, edits, crashes>>

\* Fault: the seed does not look for the role first.
FindRoleBlindly(x) ==
  /\ At(x, "findRole")
  /\ Goto(x, "insertRole")
  /\ UNCHANGED <<migrated, roles, admin, edits, crashes>>

\* findOne by name; an existing role is given the default permissions.
FindRole(x) ==
  /\ At(x, "findRole")
  /\ \/ /\ Named(Default(x).name) = {}
        /\ Goto(x, "insertRole")
     \/ \E id \in Named(Default(x).name) :
          inst' = [inst EXCEPT ![x].pc = "loadRole", ![x].id = id, ![x].ent = Default(x)]
  /\ UNCHANGED <<migrated, roles, admin, edits, crashes>>

\* Fault: no unique index stands behind the INSERT.
InsertRoleUnindexed(x) ==
  /\ At(x, "insertRole")
  /\ \E id \in RoleIds : roles[id] = None
  /\ roles' = [roles EXCEPT ![NewId] = Default(x)]
  /\ NextRole(x)
  /\ UNCHANGED <<migrated, admin, edits, crashes>>

\* Fault: an INSERT that fails is tried again as it is.
InsertRoleAgain(x) ==
  /\ At(x, "insertRole")
  /\ \/ Named(Default(x).name) # {} /\ UNCHANGED <<roles, inst>>
     \/ /\ Named(Default(x).name) = {}
        /\ roles' = [roles EXCEPT ![NewId] = Default(x)]
        /\ NextRole(x)
  /\ UNCHANGED <<migrated, admin, edits, crashes>>

\* Under the unique name, which fails the seed when it is taken by now.  New
\* ids do not run out.
InsertRole(x) ==
  /\ At(x, "insertRole")
  /\ \/ /\ Named(Default(x).name) # {}
        /\ Fail(x) /\ UNCHANGED roles
     \/ /\ Named(Default(x).name) = {} /\ \E id \in RoleIds : roles[id] = None
        /\ roles' = [roles EXCEPT ![NewId] = Default(x)]
        /\ NextRole(x)
  /\ UNCHANGED <<migrated, admin, edits, crashes>>

LoadRole(x) ==
  /\ At(x, "loadRole")
  /\ inst' = [inst EXCEPT ![x].pc = "writeRole", ![x].base = roles[inst[x].id]]
  /\ UNCHANGED <<migrated, roles, admin, edits, crashes>>

WriteRole(x) ==
  LET q == inst[x]
      row == [name |-> SavedColumn(roles[q.id].name, q.ent.name, q.base.name),
              perms |-> SavedColumn(roles[q.id].perms, q.ent.perms, q.base.perms)]
  IN /\ At(x, "writeRole")
     /\ IF Named(row.name) \ {q.id} # {} THEN Fail(x) /\ UNCHANGED roles
        ELSE roles' = [roles EXCEPT ![q.id] = row] /\ NextRole(x)
     /\ UNCHANGED <<migrated, admin, edits, crashes>>

\* Fault: an account that exists is taken for a super admin.
FindAdminOnly(x) ==
  /\ At(x, "findAdmin")
  /\ Goto(x, IF admin = None THEN "insertAdmin" ELSE "up")
  /\ UNCHANGED <<migrated, roles, admin, edits, crashes>>

\* findOne by email; an account without the role is given it.
FindAdmin(x) ==
  /\ At(x, "findAdmin")
  /\ \/ admin = None /\ Goto(x, "insertAdmin")
     \/ /\ admin # None /\ SuperAdmin \in admin.roles
        /\ Goto(x, "up")
     \/ /\ admin # None /\ SuperAdmin \notin admin.roles
        /\ inst' = [inst EXCEPT ![x].pc = "loadAdmin",
             ![x].ent = [admin EXCEPT !.roles = @ \cup {SuperAdmin}]]
  /\ UNCHANGED <<migrated, roles, admin, edits, crashes>>

InsertAdmin(x) ==
  /\ At(x, "insertAdmin")
  /\ IF admin # None THEN Fail(x) /\ UNCHANGED admin
     ELSE /\ admin' = [status |-> "active", roles |-> {SuperAdmin}]
          /\ Goto(x, "up")
  /\ UNCHANGED <<migrated, roles, edits, crashes>>

LoadAdmin(x) ==
  /\ At(x, "loadAdmin")
  /\ inst' = [inst EXCEPT ![x].pc = "writeAdmin", ![x].base = admin]
  /\ UNCHANGED <<migrated, roles, admin, edits, crashes>>

WriteAdmin(x) ==
  LET q == inst[x] IN
  /\ At(x, "writeAdmin")
  /\ admin' = [status |-> SavedColumn(admin.status, q.ent.status, q.base.status),
               roles |-> SavedColumn(admin.roles, q.ent.roles, q.base.roles)]
  /\ inst' = [inst EXCEPT ![x] = Fresh("up", @.tries)]
  /\ UNCHANGED <<migrated, roles, edits, crashes>>

\* A process dies, at any step of the command or while it serves.
Crash(x) ==
  /\ Booting(x) \/ At(x, "up")
  /\ crashes < MaxCrashes
  /\ crashes' = crashes + 1
  /\ Fail(x)
  /\ UNCHANGED <<migrated, roles, admin, edits>>

\* A newer deploy has taken over.
Stop(x) ==
  /\ At(x, "up")
  /\ Goto(x, "down")
  /\ UNCHANGED <<migrated, roles, admin, edits, crashes>>

\* saveRole and updateAdmin, at an instance that serves.
Edit ==
  /\ \E x \in Instances : At(x, "up")
  /\ edits < MaxEdits
  /\ edits' = edits + 1
  /\ \/ \E id \in RoleIds, row \in RoleEdits :
          /\ roles[id] # None /\ Named(row.name) \subseteq {id}
          /\ roles' = [roles EXCEPT ![id] = row]
          /\ UNCHANGED admin
     \/ \E row \in AdminEdits :
          /\ admin # None /\ admin' = row
          /\ UNCHANGED roles
  /\ UNCHANGED <<migrated, inst, crashes>>
-----------------------------------------------------------------------------
Init ==
  /\ \E db \in Tables : migrated = db.migrated /\ roles = db.roles /\ admin = db.admin
  /\ inst = [x \in Instances |-> Fresh("down", 0)]
  /\ edits = 0
  /\ crashes = 0

Step(x) ==
  \/ ReadMigrations(x) \/ Migrate(x)
  \/ FindRole(x) \/ InsertRole(x) \/ LoadRole(x) \/ WriteRole(x)
  \/ FindAdmin(x) \/ InsertAdmin(x) \/ LoadAdmin(x) \/ WriteAdmin(x)

Next ==
  \/ \E x \in Instances : Deploy(x) \/ Step(x) \/ Crash(x) \/ Stop(x)
  \/ Edit

Spec == Init /\ [][Next]_vars

\* A start command goes on until it ends.
FairSpec == Spec /\ \A x \in Instances : WF_vars(Step(x))
-----------------------------------------------------------------------------
TypeOK ==
  /\ migrated \in BOOLEAN
  /\ roles \in [RoleIds -> Role \cup {None}]
  /\ admin \in Account \cup {None}
  /\ inst \in [Instances -> Instance]
  /\ edits \in 0..MaxEdits /\ crashes \in 0..MaxCrashes

\* What a seed leaves behind: the default roles, and an account with the role
\* that has every permission.
Seeded ==
  /\ migrated
  /\ \A i \in DOMAIN DefaultRoles : \E id \in RoleIds : roles[id] = DefaultRoles[i]
  /\ admin # None /\ SuperAdmin \in admin.roles

\* An instance serves only over a seeded database, whatever died or collided
\* on the way, unless an admin has edited it since (railway.json, seed.ts:16-52).
ServingMeansSeeded == (\E x \in Instances : At(x, "up")) /\ edits = 0 => Seeded

\* No start command uses up its retries because of the others: each collision
\* is over an object that is there the next time.  Crashes and edits (which
\* can rename a role) cost retries of their own.
CollisionsNeverGiveUp ==
  (\E x \in Instances : At(x, "gaveUp")) => crashes + edits > 0

\* No seed holds a copy of a row that differs from the stored one.
Quiet ==
  \A x \in Instances :
    /\ inst[x].pc \in {"loadRole", "writeRole"} => inst[x].ent = roles[inst[x].id]
    /\ inst[x].pc \in {"loadAdmin", "writeAdmin"} => inst[x].ent = admin

\* The seed is idempotent (seed.ts:9): over a seeded database every further
\* seed, in whatever overlap, leaves the rows as they are.
SeedIsIdempotent ==
  [][Seeded /\ Quiet /\ edits' = edits => Quiet' /\ UNCHANGED <<roles, admin>>]_vars

\* Every start command comes to an end.
EveryBootEnds == \A x \in Instances : Booting(x) ~> ~Booting(x)

\* permissions.ts:40: "Default roles seeded on first run": a later deploy
\* leaves the roles that are stored as they are.
StoredRolesAreLeftAlone ==
  [][edits' = edits => \A id \in RoleIds : roles[id] # None => roles'[id] = roles[id]]_vars
=============================================================================
