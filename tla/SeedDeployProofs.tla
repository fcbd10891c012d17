-------------------------- MODULE SeedDeployProofs --------------------------
(* Theorems of SeedDeploy, for every number of instances, every list of    *)
(* default roles with distinct names, and whatever the database held.      *)
EXTENDS SeedDeploy, TLAPS

\* UQ_admin_roles_name.
UniqueNames ==
  \A id, other \in RoleIds :
    /\ roles[id] # None /\ roles[other] # None
    /\ roles[id].name = roles[other].name
    => id = other

Stored(j) == \E id \in RoleIds : roles[id] = DefaultRoles[j]
HasSuperAdmin == admin # None /\ SuperAdmin \in admin.roles

\* What a start command has in hand at each of its steps.
Holding(x) ==
  LET q == inst[x] IN
  /\ q.pc \in {"migrate", "migrating"} => q.i = 1
  /\ q.pc \in {"loadRole", "writeRole"} =>
       q.id \in RoleIds /\ roles[q.id] # None /\ q.ent = Default(x)
  /\ q.pc = "writeRole" => q.base \in Role
  /\ q.pc \in {"loadAdmin", "writeAdmin"} =>
       admin # None /\ q.ent \in Account /\ SuperAdmin \in q.ent.roles
  /\ q.pc = "writeAdmin" => q.base \in Account

\* What it has achieved by then, as long as no admin has edited anything.
Achieved(x) ==
  LET q == inst[x] IN
  /\ q.pc \notin {"down", "migrate", "migrating", "gaveUp"} => migrated
  /\ q.pc \in {"findRole", "insertRole", "loadRole", "writeRole"} =>
       \A j \in 1..(q.i - 1) : Stored(j)
  /\ q.pc \in {"findAdmin", "insertAdmin", "loadAdmin", "writeAdmin", "up"} =>
       \A j \in DOMAIN DefaultRoles : Stored(j)
  /\ q.pc \in {"loadRole", "writeRole"} => roles[q.id].name = Default(x).name
  /\ q.pc = "writeRole" =>
       /\ q.base.name = Default(x).name
       /\ q.base.perms = q.ent.perms => roles[q.id] = Default(x)
  /\ q.pc = "writeAdmin" /\ q.base.roles = q.ent.roles => HasSuperAdmin
  /\ q.pc = "up" => HasSuperAdmin

Fine(x) == Holding(x) /\ (edits = 0 => Achieved(x))

\* The inductive invariant.
SInv == TypeOK /\ UniqueNames /\ \A x \in Instances : Fine(x)
-----------------------------------------------------------------------------
\* What no step takes back, of what the start commands rely on.
Kept ==
  /\ \A id \in RoleIds : roles[id] # None => roles'[id] # None
  /\ admin # None => admin' # None
  /\ migrated => migrated'
  /\ edits' = 0 =>
       /\ edits = 0
       /\ \A id \in RoleIds : roles[id] # None => roles'[id].name = roles[id].name
       /\ \A id \in RoleIds, j \in DOMAIN DefaultRoles :
            roles[id] = DefaultRoles[j] => roles'[id] = DefaultRoles[j]
       /\ HasSuperAdmin => HasSuperAdmin'

LEMMA DefaultType ==
  /\ Len(DefaultRoles) \in Nat \ {0} /\ DOMAIN DefaultRoles = 1..Len(DefaultRoles)
  /\ \A j \in 1..Len(DefaultRoles) : DefaultRoles[j] \in Role /\ DefaultRoles[j] # None
BY SeedAssumption, NoneAssumption

\* An instance that does not move stays fine while nothing is taken back.
LEMMA StaysFine ==
  ASSUME SInv, Kept, NEW x \in Instances, inst'[x] = inst[x]
  PROVE  Fine(x)'
<1> DEFINE q == inst[x]
<1>1. q \in Instance /\ Fine(x)
  BY DEF SInv, TypeOK
<1>2. Default(x)' = Default(x) /\ q.i \in DOMAIN DefaultRoles
  BY <1>1, DefaultType DEF Default, Instance
<1>3. Holding(x)'
  BY <1>1, <1>2 DEF Fine, Holding, Kept
<1>4. ASSUME edits' = 0 PROVE Achieved(x)'
  <2>1. Achieved(x) /\ Holding(x)
    BY <1>1, <1>4 DEF Fine, Kept
  <2>2. \A j \in DOMAIN DefaultRoles : Stored(j) => Stored(j)'
    BY <1>4 DEF Kept, Stored
  <2>3. 1..(q.i - 1) \subseteq DOMAIN DefaultRoles
    BY <1>2, DefaultType
  <2>4. q.pc \in {"loadRole", "writeRole"} => roles'[q.id].name = roles[q.id].name
    BY <1>4, <2>1 DEF Kept, Holding
  <2>5. q.pc = "writeRole" /\ roles[q.id] = Default(x) => roles'[q.id] = Default(x)
    BY <1>2, <1>4, <2>1 DEF Kept, Holding, Default
  <2>6. HasSuperAdmin => HasSuperAdmin'
    BY <1>4 DEF Kept
  <2>7. QED
    BY <1>2, <2>1, <2>2, <2>3, <2>4, <2>5, <2>6 DEF Achieved, Kept
<1>5. QED
  BY <1>3, <1>4 DEF Fine

LEMMA SInvStep ==
  ASSUME SInv, Kept, NEW x \in Instances, Fine(x)', TypeOK', UniqueNames',
         \A y \in Instances \ {x} : inst'[y] = inst[y]
  PROVE  SInv'
BY StaysFine DEF SInv

\* A command that starts again, or not, has nothing in hand.
LEMMA FreshType ==
  ASSUME NEW pc \in {"down", "migrate", "findRole", "findAdmin", "up", "gaveUp"},
         NEW tries \in 0..MaxRetries
  PROVE  /\ Fresh(pc, tries) \in Instance
         /\ Fresh(pc, tries).pc = pc /\ Fresh(pc, tries).i = 1
         /\ Fresh(pc, tries).tries = tries
BY DefaultType DEF Fresh, Instance

LEMMA FailFine ==
  ASSUME SInv, NEW x \in Instances, Fail(x)
  PROVE  /\ inst' \in [Instances -> Instance] /\ Fine(x)'
         /\ inst'[x].pc \in {"migrate", "gaveUp"}
         /\ \A y \in Instances \ {x} : inst'[y] = inst[y]
<1>1. inst \in [Instances -> Instance] /\ inst[x].tries \in 0..MaxRetries
  BY DEF SInv, TypeOK, Instance
<1>2. /\ Failed(x) \in Instance /\ Failed(x).i = 1
      /\ Failed(x).pc \in {"migrate", "gaveUp"}
  <2>1. CASE inst[x].tries < MaxRetries
    <3>1. inst[x].tries + 1 \in 0..MaxRetries
      BY <1>1, <2>1, RetryAssumption
    <3>2. QED
      BY <2>1, <3>1, FreshType DEF Failed
  <2>2. CASE ~(inst[x].tries < MaxRetries)
    BY <1>1, <2>2, FreshType DEF Failed
  <2>3. QED
    BY <2>1, <2>2
<1>3. /\ inst' \in [Instances -> Instance] /\ inst'[x] = Failed(x)
      /\ \A y \in Instances \ {x} : inst'[y] = inst[y]
  BY <1>1, <1>2 DEF Fail
<1>4. Fine(x)'
  BY <1>2, <1>3 DEF Fine, Holding, Achieved
<1>5. QED
  BY <1>2, <1>3, <1>4

LEMMA GotoStep ==
  ASSUME SInv, NEW x \in Instances,
         NEW pc \in {"down", "migrating", "findRole", "insertRole", "insertAdmin", "up"},
         Goto(x, pc)
  PROVE  /\ inst' \in [Instances -> Instance] /\ inst'[x] = [inst[x] EXCEPT !.pc = pc]
         /\ inst[x] \in Instance /\ inst'[x].pc = pc /\ inst'[x].i = inst[x].i
         /\ \A y \in Instances \ {x} : inst'[y] = inst[y]
BY DEF SInv, TypeOK, Goto, Instance

\* A step that touches neither table takes nothing back.
LEMMA KeptBesides ==
  ASSUME UNCHANGED <<roles, admin, edits>>, migrated => migrated'
  PROVE  Kept /\ (UniqueNames => UniqueNames')
BY DEF Kept, UniqueNames, HasSuperAdmin
-----------------------------------------------------------------------------
LEMMA SInvInit == Init => SInv
<1> SUFFICES ASSUME Init PROVE SInv
  OBVIOUS
<1>1. PICK db \in Tables : migrated = db.migrated /\ roles = db.roles /\ admin = db.admin
  BY DEF Init
<1>2. Fresh("down", 0) \in Instance /\ Fresh("down", 0).pc = "down"
  BY FreshType, RetryAssumption
<1>3. inst = [x \in Instances |-> Fresh("down", 0)] /\ edits = 0 /\ crashes = 0
  BY DEF Init
<1>4. TypeOK
  BY <1>1, <1>2, <1>3, TableAssumption DEF TypeOK
<1>5. UniqueNames
  BY <1>1, TableAssumption DEF UniqueNames
<1>6. \A x \in Instances : Fine(x)
  BY <1>2, <1>3 DEF Fine, Holding, Achieved
<1>7. QED
  BY <1>4, <1>5, <1>6 DEF SInv

LEMMA SInvDeploy == ASSUME SInv, NEW x \in Instances, Deploy(x) PROVE SInv'
<1>1. Fresh("migrate", 0) \in Instance /\ Fresh("migrate", 0).pc = "migrate"
      /\ Fresh("migrate", 0).i = 1
  BY FreshType, RetryAssumption
<1>2. /\ inst' \in [Instances -> Instance] /\ inst'[x] = Fresh("migrate", 0)
      /\ \A y \in Instances \ {x} : inst'[y] = inst[y]
      /\ UNCHANGED <<migrated, roles, admin, edits, crashes>>
  BY <1>1 DEF Deploy, SInv, TypeOK
<1>3. Fine(x)'
  BY <1>1, <1>2 DEF Fine, Holding, Achieved
<1>4. TypeOK' /\ UniqueNames' /\ Kept
  BY <1>2, KeptBesides DEF SInv, TypeOK
<1>5. QED
  BY <1>2, <1>3, <1>4, SInvStep

LEMMA SInvReadMigrations ==
  ASSUME SInv, NEW x \in Instances, ReadMigrations(x) PROVE SInv'
<1> DEFINE pc == IF migrated THEN "findRole" ELSE "migrating"
<1>1. Goto(x, pc) /\ inst[x].pc = "migrate" /\ UNCHANGED <<migrated, roles, admin, edits, crashes>>
  BY DEF ReadMigrations, At
<1>2. /\ inst' \in [Instances -> Instance] /\ inst'[x].pc = pc /\ inst'[x].i = inst[x].i
      /\ \A y \in Instances \ {x} : inst'[y] = inst[y]
  BY <1>1, GotoStep
<1>3. inst[x].i = 1
  BY <1>1 DEF SInv, Fine, Holding
<1>4. Fine(x)'
  BY <1>1, <1>2, <1>3 DEF Fine, Holding, Achieved
<1>5. TypeOK' /\ UniqueNames' /\ Kept
  BY <1>1, <1>2, KeptBesides DEF SInv, TypeOK
<1>6. QED
  BY <1>2, <1>4, <1>5, SInvStep

LEMMA SInvMigrate == ASSUME SInv, NEW x \in Instances, Migrate(x) PROVE SInv'
<1>1. inst[x].pc = "migrating" /\ migrated' = TRUE /\ UNCHANGED <<roles, admin, edits, crashes>>
  BY DEF Migrate, At
<1>2. /\ inst' \in [Instances -> Instance] /\ Fine(x)'
      /\ \A y \in Instances \ {x} : inst'[y] = inst[y]
  <2>1. CASE migrated
    BY <2>1, FailFine DEF Migrate
  <2>2. CASE ~migrated
    <3>1. /\ inst' \in [Instances -> Instance]
          /\ inst'[x].pc = "findRole" /\ inst'[x].i = inst[x].i
          /\ \A y \in Instances \ {x} : inst'[y] = inst[y]
      BY <2>2, GotoStep DEF Migrate
    <3>2. inst[x].i = 1
      BY <1>1 DEF SInv, Fine, Holding
    <3>3. QED
      BY <1>1, <3>1, <3>2 DEF Fine, Holding, Achieved
  <2>3. QED
    BY <2>1, <2>2
<1>3. TypeOK' /\ UniqueNames' /\ Kept
  BY <1>1, <1>2, KeptBesides DEF SInv, TypeOK
<1>4. QED
  BY <1>2, <1>3, SInvStep
-----------------------------------------------------------------------------
(* The roles.                                                              *)

LEMMA NextRoleFine ==
  ASSUME SInv, NEW x \in Instances, NextRole(x),
         edits' = 0 => migrated' /\ \A j \in 1..inst[x].i : Stored(j)'
  PROVE  /\ inst' \in [Instances -> Instance] /\ Fine(x)'
         /\ inst'[x].pc \in {"findRole", "findAdmin"}
         /\ \A y \in Instances \ {x} : inst'[y] = inst[y]
<1> DEFINE q == inst[x]
           next == [Fresh("findRole", q.tries) EXCEPT !.i = q.i + 1]
<1>1. inst \in [Instances -> Instance] /\ q \in Instance
  BY DEF SInv, TypeOK
<1>2. q.i \in 1..Len(DefaultRoles) /\ q.tries \in 0..MaxRetries
  BY <1>1 DEF Instance
<1>3. CASE q.i < Len(DefaultRoles)
  <2>1. Fresh("findRole", q.tries) \in Instance /\ q.i + 1 \in 1..Len(DefaultRoles)
    BY <1>2, <1>3, FreshType, DefaultType
  <2>2. next \in Instance /\ next.pc = "findRole" /\ next.i = q.i + 1
    BY <2>1, FreshType, <1>2 DEF Instance
  <2>3. inst' = [inst EXCEPT ![x] = next]
    BY <1>3 DEF NextRole
  <2> HIDE DEF next
  <2>4. inst' \in [Instances -> Instance] /\ inst'[x] = next
        /\ \A y \in Instances \ {x} : inst'[y] = inst[y]
    BY <1>1, <2>2, <2>3
  <2>5. (q.i + 1) - 1 = q.i
    BY <1>2
  <2>6. Fine(x)'
    BY <2>2, <2>4, <2>5 DEF Fine, Holding, Achieved
  <2>7. QED
    BY <2>2, <2>4, <2>6
<1>4. CASE ~(q.i < Len(DefaultRoles))
  <2>1. /\ Fresh("findAdmin", q.tries) \in Instance
        /\ Fresh("findAdmin", q.tries).pc = "findAdmin"
    BY <1>2, FreshType
  <2>2. /\ inst' \in [Instances -> Instance] /\ inst'[x] = Fresh("findAdmin", q.tries)
        /\ \A y \in Instances \ {x} : inst'[y] = inst[y]
    BY <1>1, <1>4, <2>1 DEF NextRole
  <2>3. DOMAIN DefaultRoles = 1..q.i
    BY <1>2, <1>4, DefaultType
  <2>4. Fine(x)'
    BY <2>1, <2>2, <2>3 DEF Fine, Holding, Achieved
  <2>5. QED
    BY <2>1, <2>2, <2>4
<1>5. QED
  BY <1>3, <1>4

LEMMA SInvFindRole == ASSUME SInv, NEW x \in Instances, FindRole(x) PROVE SInv'
<1> DEFINE q == inst[x]
<1>1. q.pc = "findRole" /\ UNCHANGED <<migrated, roles, admin, edits, crashes>>
  BY DEF FindRole, At
<1>2. q \in Instance /\ inst \in [Instances -> Instance] /\ Fine(x)
  BY DEF SInv, TypeOK
<1>3. Default(x) \in Role
  BY <1>2, DefaultType DEF Default, Instance
<1>4. /\ inst' \in [Instances -> Instance] /\ Fine(x)'
      /\ \A y \in Instances \ {x} : inst'[y] = inst[y]
  <2>1. CASE Goto(x, "insertRole")
    <3>1. /\ inst' \in [Instances -> Instance]
          /\ inst'[x].pc = "insertRole" /\ inst'[x].i = q.i
          /\ \A y \in Instances \ {x} : inst'[y] = inst[y]
      BY <2>1, GotoStep
    <3>2. QED
      BY <1>1, <1>2, <3>1 DEF Fine, Holding, Achieved, Stored
  <2>2. ASSUME NEW id \in Named(Default(x).name),
               inst' = [inst EXCEPT ![x].pc = "loadRole", ![x].id = id, ![x].ent = Default(x)]
        PROVE  <1>4!:
    <3>1. id \in RoleIds /\ roles[id] # None /\ roles[id].name = Default(x).name
      BY DEF Named
    <3>2. /\ inst' \in [Instances -> Instance]
          /\ inst'[x].pc = "loadRole" /\ inst'[x].id = id /\ inst'[x].ent = Default(x)
          /\ inst'[x].i = q.i
          /\ \A y \in Instances \ {x} : inst'[y] = inst[y]
      BY <1>2, <1>3, <2>2, <3>1 DEF Instance
    <3>3. Default(x)' = Default(x)
      BY <3>2 DEF Default
    <3>4. Fine(x)'
      BY <1>1, <1>2, <3>1, <3>2, <3>3 DEF Fine, Holding, Achieved, Stored
    <3>5. QED
      BY <3>2, <3>4
  <2>3. QED
    BY <2>1, <2>2 DEF FindRole
<1>5. TypeOK' /\ UniqueNames' /\ Kept
  BY <1>1, <1>4, KeptBesides DEF SInv, TypeOK
<1>6. QED
  BY <1>4, <1>5, SInvStep

LEMMA SInvInsertRole ==
  ASSUME SInv, NEW x \in Instances, InsertRole(x) PROVE SInv' /\ Kept
<1> DEFINE q == inst[x]
<1>1. q.pc = "insertRole" /\ UNCHANGED <<migrated, admin, edits, crashes>>
  BY DEF InsertRole, At
<1>2. q \in Instance /\ q.i \in 1..Len(DefaultRoles) /\ Fine(x)
  BY DEF SInv, TypeOK, Instance
<1>3. Default(x) \in Role /\ Default(x) # None /\ Default(x) = DefaultRoles[q.i]
  BY <1>2, DefaultType DEF Default
<1>4. CASE Fail(x) /\ UNCHANGED roles
  <2>1. TypeOK' /\ UniqueNames' /\ Kept
    BY <1>1, <1>4, FailFine, KeptBesides DEF SInv, TypeOK
  <2>2. QED
    BY <1>4, <2>1, FailFine, SInvStep
<1>5. CASE /\ Named(Default(x).name) = {} /\ \E id \in RoleIds : roles[id] = None
           /\ roles' = [roles EXCEPT ![NewId] = Default(x)] /\ NextRole(x)
  <2>1. NewId \in RoleIds /\ roles[NewId] = None
    BY <1>5 DEF NewId
  <2> DEFINE new == NewId
  <2> HIDE DEF new
  <2>2. /\ roles' \in [RoleIds -> Role \cup {None}] /\ roles'[new] = Default(x)
        /\ new \in RoleIds /\ roles[new] = None
        /\ \A id \in RoleIds \ {new} : roles'[id] = roles[id]
    BY <1>3, <1>5, <2>1 DEF SInv, TypeOK, new
  <2>3. UniqueNames'
    <3>1. \A id \in RoleIds : roles[id] # None => roles[id].name # Default(x).name
      BY <1>5 DEF Named
    <3>2. QED
      BY <2>2, <3>1 DEF SInv, UniqueNames
  <2>4. Kept
    <3>1. \A j \in DOMAIN DefaultRoles : DefaultRoles[j] # None
      BY DefaultType
    <3>2. QED
      BY <1>1, <2>2, <3>1 DEF Kept, HasSuperAdmin
  <2>5. edits' = 0 => migrated' /\ \A j \in 1..q.i : Stored(j)'
    <3> SUFFICES ASSUME edits' = 0 PROVE migrated' /\ \A j \in 1..q.i : Stored(j)'
      OBVIOUS
    <3>1. migrated /\ \A j \in 1..(q.i - 1) : Stored(j)
      BY <1>1, <1>2 DEF Fine, Achieved
    <3>2. \A j \in DOMAIN DefaultRoles : Stored(j) => Stored(j)'
      BY <2>4 DEF Kept, Stored
    <3>3. \A j : j = q.i => Stored(j)'
      BY <1>3, <2>2 DEF Stored
    <3>4. \A j \in 1..q.i : j \in DOMAIN DefaultRoles /\ (j = q.i \/ j \in 1..(q.i - 1))
      BY <1>2, DefaultType
    <3>5. QED
      BY <1>1, <3>1, <3>2, <3>3, <3>4
  <2>6. /\ inst' \in [Instances -> Instance] /\ Fine(x)'
        /\ \A y \in Instances \ {x} : inst'[y] = inst[y]
    BY <1>5, <2>5, NextRoleFine
  <2>7. TypeOK'
    BY <1>1, <2>2, <2>6 DEF SInv, TypeOK
  <2>8. QED
    BY <2>3, <2>4, <2>6, <2>7, SInvStep
<1>6. QED
  BY <1>4, <1>5 DEF InsertRole

LEMMA SInvLoadRole == ASSUME SInv, NEW x \in Instances, LoadRole(x) PROVE SInv'
<1> DEFINE q == inst[x]
<1>1. q.pc = "loadRole" /\ UNCHANGED <<migrated, roles, admin, edits, crashes>>
  BY DEF LoadRole, At
<1>2. q \in Instance /\ inst \in [Instances -> Instance] /\ Fine(x)
  BY DEF SInv, TypeOK
<1>3. q.id \in RoleIds /\ roles[q.id] # None /\ q.ent = Default(x)
  BY <1>1, <1>2 DEF Fine, Holding
<1>4. roles[q.id] \in Role /\ Default(x) \in Role
  BY <1>2, <1>3, DefaultType DEF SInv, TypeOK, Default, Instance
<1>5. /\ inst' \in [Instances -> Instance]
      /\ inst'[x].pc = "writeRole" /\ inst'[x].base = roles[q.id]
      /\ inst'[x].id = q.id /\ inst'[x].ent = q.ent /\ inst'[x].i = q.i
      /\ \A y \in Instances \ {x} : inst'[y] = inst[y]
  BY <1>2, <1>4 DEF LoadRole, Instance
<1>6. Default(x)' = Default(x)
  BY <1>5 DEF Default
<1>7. Holding(x)'
  BY <1>1, <1>3, <1>4, <1>5, <1>6 DEF Holding
<1>8. ASSUME edits' = 0 PROVE Achieved(x)'
  <2>1. Achieved(x)
    BY <1>1, <1>2, <1>8 DEF Fine
  <2>2. roles[q.id].name = Default(x).name /\ migrated /\ \A j \in 1..(q.i - 1) : Stored(j)
    BY <1>1, <2>1 DEF Achieved
  <2>3. roles[q.id].perms = q.ent.perms => roles[q.id] = Default(x)
    BY <1>3, <1>4, <2>2 DEF Role
  <2>4. QED
    BY <1>1, <1>5, <1>6, <2>2, <2>3 DEF Achieved, Stored
<1>9. TypeOK' /\ UniqueNames' /\ Kept
  BY <1>1, <1>5, KeptBesides DEF SInv, TypeOK
<1>10. QED
  BY <1>5, <1>7, <1>8, <1>9, SInvStep DEF Fine

LEMMA SInvWriteRole ==
  ASSUME SInv, NEW x \in Instances, WriteRole(x) PROVE SInv' /\ Kept
<1> DEFINE q == inst[x]
           row == [name |-> SavedColumn(roles[q.id].name, q.ent.name, q.base.name),
                   perms |-> SavedColumn(roles[q.id].perms, q.ent.perms, q.base.perms)]
<1>1. q.pc = "writeRole" /\ UNCHANGED <<migrated, admin, edits, crashes>>
  BY DEF WriteRole, At
<1>2. q \in Instance /\ q.i \in 1..Len(DefaultRoles) /\ Fine(x)
  BY DEF SInv, TypeOK, Instance
<1>3. q.id \in RoleIds /\ roles[q.id] # None /\ q.ent = Default(x) /\ q.base \in Role
  BY <1>1, <1>2 DEF Fine, Holding
<1>4. roles[q.id] \in Role /\ Default(x) \in Role /\ Default(x) = DefaultRoles[q.i]
  BY <1>2, <1>3, DefaultType DEF SInv, TypeOK, Default
<1>5. row \in Role /\ row # None
  BY <1>3, <1>4, NoneAssumption DEF Role, SavedColumn
<1>6. edits = 0 => row = Default(x)
  <2> SUFFICES ASSUME edits = 0 PROVE row = Default(x)
    OBVIOUS
  <2>1. /\ roles[q.id].name = Default(x).name /\ q.base.name = Default(x).name
        /\ q.base.perms = q.ent.perms => roles[q.id] = Default(x)
    BY <1>1, <1>2 DEF Fine, Achieved
  <2>2. row.name = Default(x).name /\ row.perms = Default(x).perms
    BY <1>3, <2>1 DEF SavedColumn
  <2>3. QED
    BY <1>4, <1>5, <2>2 DEF Role
<1>7. CASE Fail(x) /\ UNCHANGED roles
  <2>1. TypeOK' /\ UniqueNames' /\ Kept
    BY <1>1, <1>7, FailFine, KeptBesides DEF SInv, TypeOK
  <2>2. QED
    BY <1>7, <2>1, FailFine, SInvStep
<1>8. CASE Named(row.name) \ {q.id} = {} /\ roles' = [roles EXCEPT ![q.id] = row] /\ NextRole(x)
  <2> HIDE DEF row
  <2>1. /\ roles' \in [RoleIds -> Role \cup {None}] /\ roles'[q.id] = row
        /\ \A id \in RoleIds \ {q.id} : roles'[id] = roles[id]
    BY <1>3, <1>5, <1>8 DEF SInv, TypeOK
  <2>2. UniqueNames'
    <3>1. \A id \in RoleIds \ {q.id} : roles[id] # None => roles[id].name # row.name
      BY <1>8 DEF Named
    <3>2. QED
      BY <2>1, <3>1 DEF SInv, UniqueNames
  <2>3. Kept
    <3>1. \A j \in DOMAIN DefaultRoles : edits = 0 /\ roles[q.id] = DefaultRoles[j] =>
            row = DefaultRoles[j]
      <4> SUFFICES ASSUME NEW j \in DOMAIN DefaultRoles, edits = 0,
                          roles[q.id] = DefaultRoles[j]
                   PROVE  row = DefaultRoles[j]
        OBVIOUS
      <4>1. roles[q.id].name = Default(x).name
        BY <1>1, <1>2 DEF Fine, Achieved
      <4>2. j = q.i
        BY <1>2, <1>4, <4>1, SeedAssumption, DefaultType
      <4>3. QED
        BY <1>4, <1>6, <4>2
    <3>2. edits = 0 => row.name = roles[q.id].name
      BY <1>1, <1>2, <1>6 DEF Fine, Achieved
    <3>3. QED
      BY <1>1, <1>5, <2>1, <3>1, <3>2 DEF Kept, HasSuperAdmin
  <2>4. edits' = 0 => migrated' /\ \A j \in 1..q.i : Stored(j)'
    <3> SUFFICES ASSUME edits' = 0 PROVE migrated' /\ \A j \in 1..q.i : Stored(j)'
      OBVIOUS
    <3>1. migrated /\ \A j \in 1..(q.i - 1) : Stored(j)
      BY <1>1, <1>2 DEF Fine, Achieved
    <3>2. \A j \in DOMAIN DefaultRoles : Stored(j) => Stored(j)'
      BY <2>3 DEF Kept, Stored
    <3>3. \A j : j = q.i => Stored(j)'
      BY <1>1, <1>3, <1>4, <1>6, <2>1 DEF Stored
    <3>4. \A j \in 1..q.i : j \in DOMAIN DefaultRoles /\ (j = q.i \/ j \in 1..(q.i - 1))
      BY <1>2, DefaultType
    <3>5. QED
      BY <1>1, <3>1, <3>2, <3>3, <3>4
  <2>5. /\ inst' \in [Instances -> Instance] /\ Fine(x)'
        /\ \A y \in Instances \ {x} : inst'[y] = inst[y]
    BY <1>8, <2>4, NextRoleFine
  <2>6. TypeOK'
    BY <1>1, <2>1, <2>5 DEF SInv, TypeOK
  <2>7. QED
    BY <2>2, <2>3, <2>5, <2>6, SInvStep
<1>9. QED
  BY <1>7, <1>8 DEF WriteRole
-----------------------------------------------------------------------------
(* The account.                                                            *)

LEMMA SInvFindAdmin == ASSUME SInv, NEW x \in Instances, FindAdmin(x) PROVE SInv'
<1> DEFINE q == inst[x]
<1>1. q.pc = "findAdmin" /\ UNCHANGED <<migrated, roles, admin, edits, crashes>>
  BY DEF FindAdmin, At
<1>2. q \in Instance /\ inst \in [Instances -> Instance] /\ Fine(x)
  BY DEF SInv, TypeOK
<1>3. /\ inst' \in [Instances -> Instance] /\ Fine(x)'
      /\ \A y \in Instances \ {x} : inst'[y] = inst[y]
  <2>1. CASE Goto(x, "insertAdmin")
    <3>1. /\ inst' \in [Instances -> Instance] /\ inst'[x].pc = "insertAdmin"
          /\ \A y \in Instances \ {x} : inst'[y] = inst[y]
      BY <2>1, GotoStep
    <3>2. QED
      BY <1>1, <1>2, <3>1 DEF Fine, Holding, Achieved, Stored
  <2>2. CASE HasSuperAdmin /\ Goto(x, "up")
    <3>1. /\ inst' \in [Instances -> Instance] /\ inst'[x].pc = "up"
          /\ \A y \in Instances \ {x} : inst'[y] = inst[y]
      BY <2>2, GotoStep
    <3>2. QED
      BY <1>1, <1>2, <2>2, <3>1 DEF Fine, Holding, Achieved, Stored, HasSuperAdmin
  <2>3. CASE /\ admin # None
             /\ inst' = [inst EXCEPT ![x].pc = "loadAdmin",
                           ![x].ent = [admin EXCEPT !.roles = @ \cup {SuperAdmin}]]
    <3> DEFINE ent == [admin EXCEPT !.roles = @ \cup {SuperAdmin}]
    <3>1. SuperAdmin \in RoleNames
      BY SeedAssumption, DefaultType DEF Role
    <3>2. admin \in Account
      BY <2>3 DEF SInv, TypeOK
    <3>3. ent \in Account /\ SuperAdmin \in ent.roles
      BY <3>1, <3>2 DEF Account
    <3> HIDE DEF ent
    <3>4. inst' = [inst EXCEPT ![x].pc = "loadAdmin", ![x].ent = ent]
      BY <2>3 DEF ent
    <3>5. /\ inst' \in [Instances -> Instance]
          /\ inst'[x].pc = "loadAdmin" /\ inst'[x].ent = ent
          /\ \A y \in Instances \ {x} : inst'[y] = inst[y]
      BY <1>2, <3>3, <3>4 DEF Instance
    <3>6. QED
      BY <1>1, <1>2, <2>3, <3>3, <3>5 DEF Fine, Holding, Achieved, Stored
  <2>4. QED
    BY <2>1, <2>2, <2>3 DEF FindAdmin, HasSuperAdmin
<1>4. TypeOK' /\ UniqueNames' /\ Kept
  BY <1>1, <1>3, KeptBesides DEF SInv, TypeOK
<1>5. QED
  BY <1>3, <1>4, SInvStep

LEMMA SInvInsertAdmin ==
  ASSUME SInv, NEW x \in Instances, InsertAdmin(x) PROVE SInv' /\ Kept
<1>1. inst[x].pc = "insertAdmin" /\ UNCHANGED <<migrated, roles, edits, crashes>>
  BY DEF InsertAdmin, At
<1>2. CASE admin # None
  <2>1. Fail(x) /\ UNCHANGED admin
    BY <1>2 DEF InsertAdmin
  <2>2. TypeOK' /\ UniqueNames' /\ Kept
    BY <1>1, <2>1, FailFine, KeptBesides DEF SInv, TypeOK
  <2>3. QED
    BY <2>1, <2>2, FailFine, SInvStep
<1>3. CASE admin = None
  <2>1. admin' = [status |-> "active", roles |-> {SuperAdmin}] /\ Goto(x, "up")
    BY <1>3 DEF InsertAdmin
  <2>2. admin' \in Account /\ admin' # None /\ SuperAdmin \in admin'.roles
    BY <2>1, SeedAssumption, DefaultType, NoneAssumption DEF Role, Account
  <2>3. /\ inst' \in [Instances -> Instance] /\ inst'[x].pc = "up"
        /\ \A y \in Instances \ {x} : inst'[y] = inst[y]
    BY <2>1, GotoStep
  <2>4. Fine(x) /\ HasSuperAdmin'
    BY <2>2 DEF SInv, HasSuperAdmin
  <2>5. Fine(x)'
    BY <1>1, <2>3, <2>4 DEF Fine, Holding, Achieved, Stored
  <2>6. TypeOK' /\ UniqueNames'
    BY <1>1, <2>2, <2>3 DEF SInv, TypeOK, UniqueNames
  <2>7. Kept
    BY <1>1, <1>3 DEF Kept, HasSuperAdmin
  <2>8. QED
    BY <2>3, <2>5, <2>6, <2>7, SInvStep
<1>4. QED
  BY <1>2, <1>3

LEMMA SInvLoadAdmin == ASSUME SInv, NEW x \in Instances, LoadAdmin(x) PROVE SInv'
<1> DEFINE q == inst[x]
<1>1. q.pc = "loadAdmin" /\ UNCHANGED <<migrated, roles, admin, edits, crashes>>
  BY DEF LoadAdmin, At
<1>2. q \in Instance /\ inst \in [Instances -> Instance] /\ Fine(x)
  BY DEF SInv, TypeOK
<1>3. admin # None /\ q.ent \in Account /\ SuperAdmin \in q.ent.roles
  BY <1>1, <1>2 DEF Fine, Holding
<1>4. admin \in Account
  BY <1>3 DEF SInv, TypeOK
<1>5. /\ inst' \in [Instances -> Instance]
      /\ inst'[x].pc = "writeAdmin" /\ inst'[x].base = admin /\ inst'[x].ent = q.ent
      /\ \A y \in Instances \ {x} : inst'[y] = inst[y]
  BY <1>2, <1>4 DEF LoadAdmin, Instance
<1>6. Fine(x)'
  BY <1>1, <1>2, <1>3, <1>4, <1>5 DEF Fine, Holding, Achieved, Stored, HasSuperAdmin
<1>7. TypeOK' /\ UniqueNames' /\ Kept
  BY <1>1, <1>5, KeptBesides DEF SInv, TypeOK
<1>8. QED
  BY <1>5, <1>6, <1>7, SInvStep

LEMMA SInvWriteAdmin ==
  ASSUME SInv, NEW x \in Instances, WriteAdmin(x) PROVE SInv' /\ Kept
<1> DEFINE q == inst[x]
<1>1. q.pc = "writeAdmin" /\ UNCHANGED <<migrated, roles, edits, crashes>>
  BY DEF WriteAdmin, At
<1>2. q \in Instance /\ inst \in [Instances -> Instance] /\ Fine(x)
  BY DEF SInv, TypeOK
<1>3. /\ admin # None /\ q.ent \in Account /\ SuperAdmin \in q.ent.roles
      /\ q.base \in Account
  BY <1>1, <1>2 DEF Fine, Holding
<1>4. admin \in Account
  BY <1>3 DEF SInv, TypeOK
<1>5. admin' = [status |-> SavedColumn(admin.status, q.ent.status, q.base.status),
                roles |-> SavedColumn(admin.roles, q.ent.roles, q.base.roles)]
  BY DEF WriteAdmin
<1>6. admin' \in Account /\ admin' # None
  BY <1>3, <1>4, <1>5, NoneAssumption DEF Account, SavedColumn
<1>7. edits = 0 => HasSuperAdmin'
  <2>1. admin'.roles = q.ent.roles \/ (q.ent.roles = q.base.roles /\ admin'.roles = admin.roles)
    BY <1>5 DEF SavedColumn
  <2>2. edits = 0 /\ q.base.roles = q.ent.roles => HasSuperAdmin
    BY <1>1, <1>2 DEF Fine, Achieved
  <2>3. QED
    BY <1>3, <1>6, <2>1, <2>2 DEF HasSuperAdmin
<1>8. /\ inst' \in [Instances -> Instance] /\ inst'[x].pc = "up"
      /\ \A y \in Instances \ {x} : inst'[y] = inst[y]
  <2>1. Fresh("up", q.tries) \in Instance /\ Fresh("up", q.tries).pc = "up"
    BY <1>2, FreshType DEF Instance
  <2>2. inst' = [inst EXCEPT ![x] = Fresh("up", q.tries)]
    BY DEF WriteAdmin
  <2>3. QED
    BY <1>2, <2>1, <2>2
<1>9. Fine(x)'
  BY <1>1, <1>2, <1>7, <1>8 DEF Fine, Holding, Achieved, Stored
<1>10. TypeOK' /\ UniqueNames'
  BY <1>1, <1>6, <1>8 DEF SInv, TypeOK, UniqueNames
<1>11. Kept
  BY <1>1, <1>6, <1>7 DEF Kept
<1>12. QED
  BY <1>8, <1>9, <1>10, <1>11, SInvStep
-----------------------------------------------------------------------------
(* From outside.                                                           *)

LEMMA SInvCrash == ASSUME SInv, NEW x \in Instances, Crash(x) PROVE SInv'
<1>1. /\ Fail(x) /\ crashes' = crashes + 1 /\ crashes < MaxCrashes
      /\ UNCHANGED <<migrated, roles, admin, edits>>
  BY DEF Crash
<1>2. crashes' \in 0..MaxCrashes
  BY <1>1, TableAssumption DEF SInv, TypeOK
<1>3. TypeOK' /\ UniqueNames' /\ Kept
  BY <1>1, <1>2, FailFine, KeptBesides DEF SInv, TypeOK
<1>4. QED
  BY <1>1, <1>3, FailFine, SInvStep

LEMMA SInvStop == ASSUME SInv, NEW x \in Instances, Stop(x) PROVE SInv'
<1>1. Goto(x, "down") /\ UNCHANGED <<migrated, roles, admin, edits, crashes>>
  BY DEF Stop
<1>2. /\ inst' \in [Instances -> Instance] /\ inst'[x].pc = "down"
      /\ \A y \in Instances \ {x} : inst'[y] = inst[y]
  BY <1>1, GotoStep
<1>3. Fine(x)'
  BY <1>2 DEF Fine, Holding, Achieved
<1>4. TypeOK' /\ UniqueNames' /\ Kept
  BY <1>1, <1>2, KeptBesides DEF SInv, TypeOK
<1>5. QED
  BY <1>2, <1>3, <1>4, SInvStep

LEMMA SInvEdit == ASSUME SInv, Edit PROVE SInv'
<1>1. edits \in Nat /\ edits' = edits + 1 /\ edits < MaxEdits /\ UNCHANGED <<migrated, inst, crashes>>
  BY TableAssumption DEF Edit, SInv, TypeOK
<1>2. edits' \in 0..MaxEdits /\ edits' # 0
  BY <1>1, TableAssumption
<1>3. /\ roles' \in [RoleIds -> Role \cup {None}] /\ admin' \in Account \cup {None}
      /\ UniqueNames'
      /\ \A id \in RoleIds : roles[id] # None => roles'[id] # None
      /\ admin # None => admin' # None
  <2>1. ASSUME NEW id \in RoleIds, NEW row \in RoleEdits,
               roles[id] # None, Named(row.name) \subseteq {id},
               roles' = [roles EXCEPT ![id] = row], UNCHANGED admin
        PROVE  <1>3!:
    <3>1. row \in Role /\ row # None
      BY TableAssumption, NoneAssumption
    <3>2. /\ roles' \in [RoleIds -> Role \cup {None}] /\ roles'[id] = row
          /\ \A other \in RoleIds \ {id} : roles'[other] = roles[other]
      BY <2>1, <3>1 DEF SInv, TypeOK
    <3>3. \A other \in RoleIds \ {id} : roles[other] # None => roles[other].name # row.name
      BY <2>1 DEF Named
    <3>4. UniqueNames'
      BY <3>2, <3>3 DEF SInv, UniqueNames
    <3>5. QED
      BY <2>1, <3>1, <3>2, <3>4 DEF SInv, TypeOK
  <2>2. ASSUME NEW row \in AdminEdits, admin' = row, UNCHANGED roles
        PROVE  <1>3!:
    <3>1. row \in Account /\ row # None
      BY TableAssumption, NoneAssumption
    <3>2. QED
      BY <2>2, <3>1 DEF SInv, TypeOK, UniqueNames
  <2>3. QED
    BY <2>1, <2>2 DEF Edit
<1>4. Kept
  BY <1>1, <1>2, <1>3 DEF Kept
<1>5. \A x \in Instances : Fine(x)'
  BY <1>1, <1>4, StaysFine
<1>6. TypeOK'
  BY <1>1, <1>2, <1>3 DEF SInv, TypeOK
<1>7. QED
  BY <1>3, <1>5, <1>6 DEF SInv

LEMMA SInvNext == SInv /\ [Next]_vars => SInv'
<1> SUFFICES ASSUME SInv, [Next]_vars PROVE SInv'
  OBVIOUS
<1>1. CASE UNCHANGED vars
  <2>1. Kept /\ UniqueNames' /\ TypeOK'
    BY <1>1, KeptBesides DEF vars, SInv, TypeOK
  <2>2. \A x \in Instances : Fine(x)'
    BY <1>1, <2>1, StaysFine DEF vars
  <2>3. QED
    BY <2>1, <2>2 DEF SInv
<1>2. ASSUME NEW x \in Instances, Deploy(x) \/ Step(x) \/ Crash(x) \/ Stop(x) PROVE SInv'
  BY <1>2, SInvDeploy, SInvReadMigrations, SInvMigrate, SInvFindRole, SInvInsertRole,
     SInvLoadRole, SInvWriteRole, SInvFindAdmin, SInvInsertAdmin, SInvLoadAdmin,
     SInvWriteAdmin, SInvCrash, SInvStop DEF Step
<1>3. CASE Edit
  BY <1>3, SInvEdit
<1>4. QED
  BY <1>1, <1>2, <1>3 DEF Next

LEMMA SInvHolds == Spec => []SInv
BY SInvInit, SInvNext, PTL DEF Spec

\* Every reachable state is well typed.
THEOREM TypeCorrect == Spec => []TypeOK
<1>1. SInv => TypeOK
  BY DEF SInv
<1>2. QED
  BY <1>1, SInvHolds, PTL

\* Whatever crashed or collided on the way, an instance serves only over a
\* seeded database, as long as no admin has edited it (railway.json,
\* seed.ts:16-52).
THEOREM OnlySeededServe == Spec => []ServingMeansSeeded
<1>1. SInv => ServingMeansSeeded
  BY DEF SInv, Fine, Achieved, ServingMeansSeeded, Seeded, At, Stored, HasSuperAdmin
<1>2. QED
  BY <1>1, SInvHolds, PTL
-----------------------------------------------------------------------------
(* A seed over a seeded database changes nothing.                          *)

\* What Quiet says of one instance.
Idle(x) ==
  /\ inst[x].pc \in {"loadRole", "writeRole"} => inst[x].ent = roles[inst[x].id]
  /\ inst[x].pc \in {"loadAdmin", "writeAdmin"} => inst[x].ent = admin

LEMMA IdleStep ==
  ASSUME SInv, Quiet, UNCHANGED <<roles, admin>>, NEW x \in Instances, Idle(x)',
         \A y \in Instances \ {x} : inst'[y] = inst[y]
  PROVE  Quiet' /\ UNCHANGED <<roles, admin>>
BY DEF Quiet, Idle

LEMMA QuietStep ==
  ASSUME SInv, Seeded, Quiet, NEW x \in Instances,
         Deploy(x) \/ Step(x) \/ Crash(x) \/ Stop(x)
  PROVE  Quiet' /\ UNCHANGED <<roles, admin>>
<1> DEFINE q == inst[x]
<1>1. inst \in [Instances -> Instance] /\ q \in Instance /\ Holding(x) /\ Idle(x)
  BY DEF SInv, TypeOK, Fine, Quiet, Idle
<1>2. ASSUME NEW pc \in {"down", "migrating", "findRole", "insertRole", "insertAdmin", "up"},
             Goto(x, pc), UNCHANGED <<roles, admin>>
      PROVE  Quiet' /\ UNCHANGED <<roles, admin>>
  BY <1>2, GotoStep, IdleStep DEF Idle
<1>3. ASSUME Fail(x), UNCHANGED <<roles, admin>>
      PROVE  Quiet' /\ UNCHANGED <<roles, admin>>
  BY <1>3, FailFine, IdleStep DEF Idle
<1>4. q.i \in DOMAIN DefaultRoles /\ Default(x) = DefaultRoles[q.i]
  BY <1>1, DefaultType DEF Instance, Default
<1>5. PICK seeded \in RoleIds : roles[seeded] = Default(x)
  BY <1>4 DEF Seeded
<1>6. roles[seeded] # None
  BY <1>4, <1>5, DefaultType
<1>7. CASE Deploy(x)
  <2>1. inst' = [inst EXCEPT ![x] = Fresh("migrate", 0)] /\ UNCHANGED <<roles, admin>>
    BY <1>7 DEF Deploy
  <2>2. /\ inst'[x].pc = "migrate" /\ \A y \in Instances \ {x} : inst'[y] = inst[y]
    BY <1>1, <2>1 DEF Fresh
  <2>3. QED
    BY <2>1, <2>2, IdleStep DEF Idle
<1>8. CASE ReadMigrations(x)
  BY <1>2, <1>8 DEF ReadMigrations
<1>9. CASE Migrate(x)
  BY <1>3, <1>9 DEF Migrate, Seeded
<1>10. CASE FindRole(x)
  <2>1. Named(Default(x).name) # {}
    BY <1>5, <1>6 DEF Named
  <2>2. PICK id \in Named(Default(x).name) :
          inst' = [inst EXCEPT ![x].pc = "loadRole", ![x].id = id, ![x].ent = Default(x)]
    BY <1>10, <2>1 DEF FindRole
  <2>3. id \in RoleIds /\ roles[id] # None /\ roles[id].name = roles[seeded].name
    BY <1>5 DEF Named
  <2>4. id = seeded
    BY <1>6, <2>3 DEF SInv, UniqueNames
  <2>5. /\ inst'[x].pc = "loadRole" /\ inst'[x].id = id /\ inst'[x].ent = Default(x)
        /\ \A y \in Instances \ {x} : inst'[y] = inst[y]
    BY <1>1, <2>2 DEF Instance
  <2>6. UNCHANGED <<roles, admin>>
    BY <1>10 DEF FindRole
  <2>7. QED
    BY <1>5, <2>4, <2>5, <2>6, IdleStep DEF Idle
<1>11. CASE InsertRole(x)
  <2>1. Named(Default(x).name) # {}
    BY <1>5, <1>6 DEF Named
  <2>2. QED
    BY <1>3, <1>11, <2>1 DEF InsertRole
<1>12. CASE LoadRole(x)
  <2>1. /\ inst'[x].pc = "writeRole" /\ inst'[x].id = q.id /\ inst'[x].ent = q.ent
        /\ \A y \in Instances \ {x} : inst'[y] = inst[y]
    BY <1>1, <1>12 DEF LoadRole, Instance
  <2>2. UNCHANGED <<roles, admin>> /\ q.pc = "loadRole"
    BY <1>12 DEF LoadRole, At
  <2>3. QED
    BY <1>1, <2>1, <2>2, IdleStep DEF Idle
<1>13. CASE WriteRole(x)
  <2>1. q.pc = "writeRole" /\ UNCHANGED admin
    BY <1>13 DEF WriteRole, At
  <2>2. q.id \in RoleIds /\ roles[q.id] # None /\ q.ent = roles[q.id]
    BY <1>1, <2>1 DEF Holding, Idle
  <2>3. roles[q.id] \in Role
    BY <2>2 DEF SInv, TypeOK
  <2> DEFINE row == [name |-> SavedColumn(roles[q.id].name, q.ent.name, q.base.name),
                     perms |-> SavedColumn(roles[q.id].perms, q.ent.perms, q.base.perms)]
  <2>4. row = roles[q.id]
    BY <2>2, <2>3 DEF Role, SavedColumn
  <2>5. CASE Fail(x) /\ UNCHANGED roles
    BY <1>3, <2>1, <2>5
  <2>6. CASE roles' = [roles EXCEPT ![q.id] = row] /\ NextRole(x)
    <3>1. roles' = roles
      BY <2>2, <2>4, <2>6 DEF SInv, TypeOK
    <3>2. /\ inst'[x].pc \in {"findRole", "findAdmin"}
          /\ \A y \in Instances \ {x} : inst'[y] = inst[y]
      BY <1>1, <2>6 DEF NextRole, Fresh
    <3>3. QED
      BY <2>1, <3>1, <3>2, IdleStep DEF Idle
  <2>7. QED
    BY <1>13, <2>5, <2>6 DEF WriteRole
<1>14. CASE FindAdmin(x)
  BY <1>2, <1>14 DEF FindAdmin, Seeded
<1>15. CASE InsertAdmin(x)
  BY <1>3, <1>15 DEF InsertAdmin, Seeded
<1>16. CASE LoadAdmin(x)
  <2>1. /\ inst'[x].pc = "writeAdmin" /\ inst'[x].ent = q.ent
        /\ \A y \in Instances \ {x} : inst'[y] = inst[y]
    BY <1>1, <1>16 DEF LoadAdmin, Instance
  <2>2. UNCHANGED <<roles, admin>> /\ q.pc = "loadAdmin"
    BY <1>16 DEF LoadAdmin, At
  <2>3. QED
    BY <1>1, <2>1, <2>2, IdleStep DEF Idle
<1>17. CASE WriteAdmin(x)
  <2>1. q.pc = "writeAdmin" /\ UNCHANGED roles
    BY <1>17 DEF WriteAdmin, At
  <2>2. q.ent = admin /\ admin \in Account
    BY <1>1, <2>1 DEF Holding, Idle
  <2>3. admin' = admin
    BY <1>17, <2>2 DEF WriteAdmin, Account, SavedColumn
  <2>4. /\ inst'[x].pc = "up" /\ \A y \in Instances \ {x} : inst'[y] = inst[y]
    BY <1>1, <1>17 DEF WriteAdmin, Fresh
  <2>5. QED
    BY <2>1, <2>3, <2>4, IdleStep DEF Idle
<1>18. CASE Crash(x)
  BY <1>3, <1>18 DEF Crash
<1>19. CASE Stop(x)
  BY <1>2, <1>19 DEF Stop
<1>20. QED
  BY <1>7, <1>8, <1>9, <1>10, <1>11, <1>12, <1>13, <1>14, <1>15, <1>16, <1>17, <1>18, <1>19
  DEF Step

\* Over a seeded database further seeds leave every row as it is, however
\* they overlap and die (seed.ts:9).
THEOREM SeedsAreIdempotent == Spec => SeedIsIdempotent
<1>1. ASSUME SInv, [Next]_vars, Seeded, Quiet, edits' = edits
      PROVE  Quiet' /\ UNCHANGED <<roles, admin>>
  <2>1. CASE UNCHANGED vars
    BY <1>1, <2>1 DEF vars, Quiet
  <2>2. CASE Edit
    <3>1. edits \in Nat
      BY <1>1, TableAssumption DEF SInv, TypeOK
    <3>2. QED
      BY <1>1, <2>2, <3>1 DEF Edit
  <2>3. QED
    BY <1>1, <2>1, <2>2, QuietStep DEF Next
<1>2. SInv /\ [Next]_vars => [Seeded /\ Quiet /\ edits' = edits =>
                               Quiet' /\ UNCHANGED <<roles, admin>>]_vars
  BY <1>1
<1>3. QED
  BY <1>2, SInvHolds, PTL DEF Spec, SeedIsIdempotent
-----------------------------------------------------------------------------
(* Collisions never use up the restarts: a command fails over an object    *)
(* only once, and the objects are created in one order: the tables, the    *)
(* roles, the account.                                                     *)

NamePresent(j) == Named(DefaultRoles[j].name) # {}

\* After its t-th restart the first t objects are there, and what a command
\* is about to insert is none of them.
Tried(x) ==
  LET q == inst[x]
      n == Len(DefaultRoles)
  IN /\ q.pc # "gaveUp"
     /\ q.tries >= 1 => migrated
     /\ \A j \in DOMAIN DefaultRoles : q.tries >= j + 1 => NamePresent(j)
     /\ q.tries >= n + 2 => admin # None
     /\ q.pc = "migrating" => q.tries = 0
     /\ q.pc = "insertRole" => q.tries <= q.i
     /\ q.pc = "insertAdmin" => q.tries <= n + 1

Undisturbed == edits = 0 /\ crashes = 0

TInv == SInv /\ (Undisturbed => \A x \in Instances : Tried(x))

\* A step of x keeps the others' part; of x itself there is left to prove what
\* the places to insert and a restart need.
LEMMA TriedStep ==
  ASSUME TInv, SInv', Kept, Undisturbed, Undisturbed', NEW x \in Instances,
         \A y \in Instances \ {x} : inst'[y] = inst[y],
         inst'[x].tries = inst[x].tries,
         inst'[x].pc # "gaveUp",
         inst'[x].pc = "migrating" => inst'[x].tries = 0,
         inst'[x].pc = "insertRole" => inst'[x].tries <= inst'[x].i,
         inst'[x].pc = "insertAdmin" => inst'[x].tries <= Len(DefaultRoles) + 1
  PROVE  \A y \in Instances : Tried(y)'
<1>1. \A j \in DOMAIN DefaultRoles : NamePresent(j) => NamePresent(j)'
  BY DEF Kept, Undisturbed, NamePresent, Named
<1>2. \A y \in Instances : Tried(y)
  BY DEF TInv
<1>3. QED
  BY <1>1, <1>2 DEF Tried, Kept

\* The restart after a collision over the object that is there now.
LEMMA TriedFails ==
  ASSUME TInv, SInv', Kept, Undisturbed, Undisturbed', NEW x \in Instances, Fail(x),
         inst[x].tries <= Len(DefaultRoles) + 1, migrated',
         \A j \in DOMAIN DefaultRoles : j <= inst[x].tries => NamePresent(j)',
         inst[x].tries >= Len(DefaultRoles) + 1 => admin' # None
  PROVE  \A y \in Instances : Tried(y)'
<1> DEFINE q == inst[x]
<1>1. q.tries \in 0..MaxRetries /\ inst \in [Instances -> Instance]
  BY DEF TInv, SInv, TypeOK, Instance
<1>2. q.tries < MaxRetries /\ q.tries + 1 \in 0..MaxRetries /\ q.tries \in Nat
  BY <1>1, RetryAssumption, DefaultType
<1>3. inst' = [inst EXCEPT ![x] = Fresh("migrate", q.tries + 1)]
  BY <1>2 DEF Fail, Failed
<1>4. /\ inst'[x].pc = "migrate" /\ inst'[x].tries = q.tries + 1
      /\ \A y \in Instances \ {x} : inst'[y] = inst[y]
  BY <1>1, <1>2, <1>3, FreshType
<1>5. \A j \in DOMAIN DefaultRoles : j \in Nat /\ (NamePresent(j) => NamePresent(j)')
  BY DefaultType DEF Kept, Undisturbed, NamePresent, Named
<1>6. ASSUME NEW y \in Instances \ {x} PROVE Tried(y)'
  <2>1. Tried(y)
    BY DEF TInv
  <2>2. QED
    BY <1>4, <1>5, <2>1 DEF Tried, Kept
<1>7. Tried(x)'
  BY <1>2, <1>4, <1>5, DefaultType DEF Tried
<1>8. QED
  BY <1>6, <1>7

\* No step of a start command disturbs this.
LEMMA TInvStep ==
  ASSUME TInv, SInv', NEW x \in Instances, Deploy(x) \/ Step(x) \/ Stop(x),
         Undisturbed, Undisturbed', Kept
  PROVE  \A y \in Instances : Tried(y)'
<1> DEFINE q == inst[x]
           n == Len(DefaultRoles)
<1>1. /\ SInv /\ inst \in [Instances -> Instance] /\ q \in Instance
      /\ Tried(x) /\ Holding(x) /\ Achieved(x)
  BY DEF TInv, SInv, TypeOK, Fine, Undisturbed
<1>2. q.i \in 1..n /\ n \in Nat /\ q.tries \in 0..MaxRetries /\ q.tries \in Nat
  BY <1>1, DefaultType, RetryAssumption DEF Instance
<1>3. /\ \A j \in DOMAIN DefaultRoles : Stored(j) => NamePresent(j)
      /\ \A j \in DOMAIN DefaultRoles : NamePresent(j) => NamePresent(j)'
  BY DefaultType DEF Stored, NamePresent, Named, Kept, Undisturbed
<1>4. ASSUME NEW pc \in {"down", "migrating", "findRole", "insertRole", "insertAdmin", "up"},
             Goto(x, pc), pc = "migrating" => q.tries = 0,
             pc = "insertRole" => q.tries <= q.i, pc = "insertAdmin" => q.tries <= n + 1
      PROVE  \A y \in Instances : Tried(y)'
  <2>1. /\ inst'[x] = [q EXCEPT !.pc = pc] /\ inst'[x].pc = pc /\ inst'[x].i = q.i
        /\ \A y \in Instances \ {x} : inst'[y] = inst[y]
    BY <1>1, <1>4, GotoStep
  <2>2. inst'[x].tries = q.tries
    BY <1>1, <2>1 DEF Instance
  <2>3. QED
    BY <1>4, <2>1, <2>2, TriedStep
<1>5. CASE Deploy(x)
  <2>1. inst' = [inst EXCEPT ![x] = Fresh("migrate", 0)]
    BY <1>5 DEF Deploy
  <2>2. /\ inst'[x].pc = "migrate" /\ inst'[x].tries = 0
        /\ \A y \in Instances \ {x} : inst'[y] = inst[y]
    BY <1>1, <2>1 DEF Fresh
  <2>3. Tried(x)'
    BY <1>2, <2>2, DefaultType DEF Tried
  <2>4. ASSUME NEW y \in Instances \ {x} PROVE Tried(y)'
    <3>1. Tried(y)
      BY DEF TInv
    <3>2. QED
      BY <1>3, <2>2, <3>1 DEF Tried, Kept
  <2>5. QED
    BY <2>3, <2>4
<1>6. CASE ReadMigrations(x)
  <2>1. ~migrated => q.tries = 0
    BY <1>1, <1>2 DEF Tried
  <2>2. QED
    BY <1>4, <1>6, <2>1 DEF ReadMigrations
<1>7. CASE Migrate(x)
  <2>1. q.tries = 0 /\ migrated'
    BY <1>1, <1>7 DEF Migrate, At, Tried
  <2>2. CASE Fail(x)
    <3>1. \A j \in DOMAIN DefaultRoles : ~(j <= q.tries)
      BY <2>1, DefaultType
    <3>2. QED
      BY <1>2, <2>1, <2>2, <3>1, TriedFails
  <2>3. CASE Goto(x, "findRole")
    BY <1>4, <2>3
  <2>4. QED
    BY <1>7, <2>2, <2>3 DEF Migrate
<1>8. CASE FindRole(x)
  <2>1. CASE Named(Default(x).name) = {} /\ Goto(x, "insertRole")
    <3>1. q.tries <= q.i
      BY <1>1, <1>2, <2>1, DefaultType DEF Tried, NamePresent, Default
    <3>2. QED
      BY <1>4, <2>1, <3>1
  <2>2. ASSUME NEW id \in Named(Default(x).name),
               inst' = [inst EXCEPT ![x].pc = "loadRole", ![x].id = id, ![x].ent = Default(x)]
        PROVE  \A y \in Instances : Tried(y)'
    <3>1. /\ inst'[x].pc = "loadRole" /\ inst'[x].tries = q.tries
          /\ \A y \in Instances \ {x} : inst'[y] = inst[y]
      BY <1>1, <2>2 DEF Instance
    <3>2. QED
      BY <3>1, TriedStep
  <2>3. QED
    BY <1>8, <2>1, <2>2 DEF FindRole
<1>9. ASSUME NextRole(x), q.pc \in {"insertRole", "writeRole"}
      PROVE  \A y \in Instances : Tried(y)'
  <2>1. /\ inst'[x].pc \in {"findRole", "findAdmin"} /\ inst'[x].tries = q.tries
        /\ \A y \in Instances \ {x} : inst'[y] = inst[y]
    BY <1>1, <1>9 DEF NextRole, Fresh
  <2>2. QED
    BY <2>1, TriedStep
<1>10. CASE InsertRole(x)
  <2>1. q.pc = "insertRole" /\ migrated
    BY <1>1, <1>10 DEF InsertRole, At, Achieved
  <2>2. CASE Fail(x) /\ Named(Default(x).name) # {}
    <3>1. q.tries <= q.i /\ q.tries <= n + 1
      BY <1>1, <1>2, <2>1 DEF Tried
    <3>2. \A j \in 1..(q.i - 1) : j \in DOMAIN DefaultRoles /\ NamePresent(j)
      BY <1>1, <1>2, <1>3, <2>1, DefaultType DEF Achieved
    <3>3. \A j \in DOMAIN DefaultRoles : j = q.i => NamePresent(j)
      BY <2>2 DEF NamePresent, Default
    <3>4. \A j \in DOMAIN DefaultRoles : j <= q.tries => NamePresent(j)'
      BY <1>2, <1>3, <3>1, <3>2, <3>3, DefaultType
    <3>5. ~(q.tries >= n + 1) /\ migrated'
      BY <1>2, <2>1, <3>1 DEF Kept
    <3>6. QED
      BY <2>2, <3>1, <3>4, <3>5, TriedFails
  <2>3. CASE NextRole(x)
    BY <1>9, <2>1, <2>3
  <2>4. QED
    BY <1>10, <2>2, <2>3 DEF InsertRole
<1>11. CASE LoadRole(x)
  <2>1. /\ inst'[x].pc = "writeRole" /\ inst'[x].tries = q.tries
        /\ \A y \in Instances \ {x} : inst'[y] = inst[y]
    BY <1>1, <1>11 DEF LoadRole, Instance
  <2>2. QED
    BY <2>1, TriedStep
<1>12. CASE WriteRole(x)
  <2> DEFINE name == SavedColumn(roles[q.id].name, q.ent.name, q.base.name)
  <2>1. q.pc = "writeRole"
    BY <1>12 DEF WriteRole, At
  <2>2. /\ q.id \in RoleIds /\ roles[q.id] # None /\ q.ent = Default(x)
        /\ roles[q.id].name = Default(x).name /\ q.base.name = Default(x).name
    BY <1>1, <2>1 DEF Holding, Achieved
  <2>3. name = roles[q.id].name
    BY <2>2 DEF SavedColumn
  <2>4. Named(name) \ {q.id} = {}
    BY <1>1, <2>2, <2>3 DEF SInv, UniqueNames, Named
  <2>5. NextRole(x)
    BY <1>12, <2>4 DEF WriteRole
  <2>6. QED
    BY <1>9, <2>1, <2>5
<1>13. CASE FindAdmin(x)
  <2>1. CASE admin = None /\ Goto(x, "insertAdmin")
    <3>1. q.tries <= n + 1
      BY <1>1, <1>2, <2>1 DEF Tried
    <3>2. QED
      BY <1>4, <2>1, <3>1
  <2>2. CASE Goto(x, "up")
    BY <1>4, <2>2
  <2>3. CASE inst' = [inst EXCEPT ![x].pc = "loadAdmin",
                        ![x].ent = [admin EXCEPT !.roles = @ \cup {SuperAdmin}]]
    <3>1. /\ inst'[x].pc = "loadAdmin" /\ inst'[x].tries = q.tries
          /\ \A y \in Instances \ {x} : inst'[y] = inst[y]
      BY <1>1, <2>3 DEF Instance
    <3>2. QED
      BY <3>1, TriedStep
  <2>4. QED
    BY <1>13, <2>1, <2>2, <2>3 DEF FindAdmin
<1>14. CASE InsertAdmin(x)
  <2>1. q.pc = "insertAdmin" /\ migrated /\ \A j \in DOMAIN DefaultRoles : NamePresent(j)
    BY <1>1, <1>3, <1>14 DEF InsertAdmin, At, Achieved
  <2>2. CASE Fail(x) /\ admin' # None
    <3>1. q.tries <= n + 1 /\ migrated'
      BY <1>1, <2>1 DEF Tried, Kept
    <3>2. QED
      BY <1>3, <2>1, <2>2, <3>1, TriedFails
  <2>3. CASE Goto(x, "up")
    BY <1>4, <2>3
  <2>4. QED
    BY <1>14, <2>2, <2>3 DEF InsertAdmin
<1>15. CASE LoadAdmin(x)
  <2>1. /\ inst'[x].pc = "writeAdmin" /\ inst'[x].tries = q.tries
        /\ \A y \in Instances \ {x} : inst'[y] = inst[y]
    BY <1>1, <1>15 DEF LoadAdmin, Instance
  <2>2. QED
    BY <2>1, TriedStep
<1>16. CASE WriteAdmin(x)
  <2>1. /\ inst'[x].pc = "up" /\ inst'[x].tries = q.tries
        /\ \A y \in Instances \ {x} : inst'[y] = inst[y]
    BY <1>1, <1>16 DEF WriteAdmin, Fresh
  <2>2. QED
    BY <2>1, TriedStep
<1>17. CASE Stop(x)
  BY <1>4, <1>17 DEF Stop
<1>18. QED
  BY <1>5, <1>6, <1>7, <1>8, <1>10, <1>11, <1>12, <1>13, <1>14, <1>15, <1>16, <1>17 DEF Step

LEMMA TInvNext == TInv /\ [Next]_vars => TInv'
<1> SUFFICES ASSUME TInv, [Next]_vars PROVE TInv'
  OBVIOUS
<1>1. SInv'
  BY SInvNext DEF TInv
<1>2. ASSUME NEW x \in Instances, Deploy(x) \/ Step(x) \/ Stop(x), Undisturbed'
      PROVE  \A y \in Instances : Tried(y)'
  <2>1. Undisturbed
    BY <1>2
    DEF Undisturbed, Step, Deploy, Stop, ReadMigrations, Migrate, FindRole, InsertRole, LoadRole,
        WriteRole, FindAdmin, InsertAdmin, LoadAdmin, WriteAdmin
  <2>2. CASE InsertRole(x) \/ WriteRole(x) \/ InsertAdmin(x) \/ WriteAdmin(x)
    <3>1. Kept
      BY <2>2, SInvInsertRole, SInvWriteRole, SInvInsertAdmin, SInvWriteAdmin DEF TInv
    <3>2. QED
      BY <1>1, <1>2, <2>1, <3>1, TInvStep
  <2>3. CASE ~(InsertRole(x) \/ WriteRole(x) \/ InsertAdmin(x) \/ WriteAdmin(x))
    <3>1. UNCHANGED <<roles, admin, edits>> /\ (migrated => migrated')
      <4>1. CASE Deploy(x) \/ Stop(x)
        BY <4>1 DEF Deploy, Stop
      <4>2. CASE ReadMigrations(x) \/ Migrate(x)
        BY <4>2 DEF ReadMigrations, Migrate
      <4>3. CASE FindRole(x) \/ LoadRole(x)
        <5>1. UNCHANGED <<migrated, roles, admin, edits, crashes>>
          BY <4>3 DEF FindRole, LoadRole
        <5>2. QED
          BY <5>1
      <4>4. CASE FindAdmin(x) \/ LoadAdmin(x)
        BY <4>4 DEF FindAdmin, LoadAdmin
      <4>5. QED
        BY <1>2, <2>3, <4>1, <4>2, <4>3, <4>4 DEF Step
    <3>2. QED
      BY <1>1, <1>2, <2>1, <3>1, KeptBesides, TInvStep
  <2>4. QED
    BY <2>2, <2>3
<1>3. ASSUME NEW x \in Instances, Crash(x) PROVE ~Undisturbed'
  BY <1>3 DEF Crash, Undisturbed, TInv, SInv, TypeOK
<1>4. Edit => ~Undisturbed'
  BY DEF Edit, Undisturbed, TInv, SInv, TypeOK
<1>5. CASE UNCHANGED vars
  BY <1>1, <1>5 DEF vars, TInv, Undisturbed, Tried, NamePresent, Named
<1>6. QED
  BY <1>1, <1>2, <1>3, <1>4, <1>5 DEF Next, TInv

\* However many deploys overlap, collisions alone never exhaust the restarts:
\* one for each default role, one for the account and one for the tables are
\* enough (railway.json, seed.ts:16-52).
THEOREM CollisionsAreSurvived == Spec => []CollisionsNeverGiveUp
<1>1. Init => TInv
  <2> SUFFICES ASSUME Init PROVE TInv
    OBVIOUS
  <2>1. \A x \in Instances : inst[x].pc = "down" /\ inst[x].tries = 0
    BY DEF Init, Fresh
  <2>2. \A x \in Instances : Tried(x)
    BY <2>1, DefaultType DEF Tried
  <2>3. QED
    BY <2>2, SInvInit DEF TInv
<1>2. TInv => CollisionsNeverGiveUp
  <2> SUFFICES ASSUME TInv, NEW x \in Instances, At(x, "gaveUp") PROVE crashes + edits > 0
    BY DEF CollisionsNeverGiveUp
  <2>1. ~Undisturbed
    BY DEF TInv, Tried, At
  <2>2. crashes \in Nat /\ edits \in Nat
    BY TableAssumption DEF TInv, SInv, TypeOK
  <2>3. QED
    BY <2>1, <2>2 DEF Undisturbed
<1>3. QED
  BY <1>1, <1>2, TInvNext, PTL DEF Spec
=============================================================================
