--------------------------- MODULE AdminSessions ---------------------------
(* The identity part of the admin service: the admin_users and admin_roles *)
(* tables, the handlers of AuthService (login, refresh), AuthController    *)
(* (logout) and AdminsService (invite, updateAdmin, saveRole), the two     *)
(* guards in front of them and the tokens the consoles hold.               *)
(*                                                                         *)
(* Every handler is cut at its awaits: one action per database round trip, *)
(* the synchronous code after it included, so handlers interleave exactly  *)
(* where the event loop lets them.  Tokens carry their REMAINING lifetime, *)
(* which Tick decreases; there is no absolute clock to bound.              *)
EXTENDS Naturals, TypeOrmSave

CONSTANTS
  Admins,         \* primary keys of admin_users
  RoleIds,        \* primary keys of admin_roles
  RoleNames,      \* role names: what role_names holds and saveRole sets
  Permissions,    \* permission strings
  Manage,         \* 'admin.manage', required by the routes modelled here
  Clients,        \* consoles: a browser's cookie jar and bearer token
  Slots,          \* account requests the server can have in flight
  RoleSlots,      \* saveRole requests the server can have in flight
  AccessTTL,      \* ADMIN_JWT_ACCESS_TTL, in ticks
  RefreshTTL,     \* ADMIN_REFRESH_TTL, in ticks
  SeedRow,        \* admin_users as the seed left it
  SeedRole,       \* admin_roles as the seed left it
  KnowsPassword,  \* accounts whose password somebody knows
  HasSecret,      \* accounts with a totp_secret
  Patches,        \* bodies of PATCH /admin/admins/:id
  RoleBodies,     \* bodies of POST and PATCH /admin/roles
  Invitations,    \* role lists of POST /admin/admins/invite
  Keep,           \* a field a patch leaves out (or that is not of its type)
  None            \* no row, no token, no request, nothing read yet

Statuses == {"active", "disabled"}
Account == [status: Statuses, roles: SUBSET RoleNames, totp: BOOLEAN]
Role == [name: RoleNames, perms: SUBSET Permissions]
Patch == [status: Statuses \cup {Keep},
          roles: (SUBSET RoleNames) \cup {Keep},
          totp: BOOLEAN \cup {Keep}]

ASSUME PermissionAssumption == Manage \in Permissions
ASSUME TTLAssumption ==
  AccessTTL \in Nat \ {0} /\ RefreshTTL \in Nat \ {0} /\ AccessTTL <= RefreshTTL
ASSUME SeedAssumption ==
  /\ SeedRow \in [Admins -> Account \cup {None}]
  /\ SeedRole \in [RoleIds -> Role \cup {None}]
  /\ \A q, r \in RoleIds : q # r /\ SeedRole[q] # None /\ SeedRole[r] # None
                          => SeedRole[q].name # SeedRole[r].name
ASSUME BodyAssumption ==
  /\ Patches \subseteq Patch
  /\ RoleBodies \subseteq Role
  /\ Invitations \subseteq SUBSET RoleNames
\* None and Keep are values of their own.
ASSUME NoneAssumption ==
  /\ None \notin Account /\ None \notin Role
  /\ Keep \notin Statuses /\ Keep \notin BOOLEAN

VARIABLES
  admins,   \* admin_users: the row of each account, or None
  roles,    \* admin_roles: the row of each role, or None
  bearer,   \* per client: the access token its console sends, or None
  cookie,   \* per client: the admin_refresh cookie, or None
  req,      \* per slot: the account request in flight, or None
  roleReq,  \* per role slot: the saveRole request in flight, or None
  lapse     \* history: ticks since an account last had a permission

vars == <<admins, roles, bearer, cookie, req, roleReq, lapse>>

AccessToken == [sub: Admins, perms: SUBSET Permissions, left: 1..AccessTTL]
RefreshToken == [sub: Admins, left: 1..RefreshTTL]

\* An account request: `pc` is the await its handler stands at, `ent` the
\* entity findOne returned (and the handler changed), `base` what save()'s
\* SELECT returned, `perms` what resolvePermissions returned; `due` is history,
\* the permissions the account had coming at that moment.
Request ==
  [op: {"login", "refresh", "update"},
   pc: {"find", "load", "write", "resolve", "sign"},
   client: Clients, sub: Admins, patch: Patches \cup {None},
   ent: Account \cup {None}, base: Account \cup {None},
   perms: SUBSET Permissions, due: SUBSET Permissions]

\* A saveRole request: the role row `id` is to become `body`.
RoleRequest ==
  [pc: {"load", "write"}, id: RoleIds, body: Role, base: Role \cup {None}]
-----------------------------------------------------------------------------
(* Operators of the code.                                                  *)

\* resolvePermissions: the union of the permissions of the stored roles the
\* account names; a name without a role adds nothing.
ResolvePermissions(names) ==
  UNION {roles[r].perms : r \in {q \in RoleIds : /\ roles[q] # None
                                                 /\ roles[q].name \in names}}

\* The permissions a list of role names stands for: what resolvePermissions
\* ought to return, for the history of who had which permission.
Granted(names) ==
  {p \in Permissions : \E r \in RoleIds : /\ roles[r] # None
                                         /\ roles[r].name \in names
                                         /\ p \in roles[r].perms}

\* hasPermission for the permission the routes of this module require.
HasPermission(granted, required) == required \in granted

\* JwtAuthGuard, JwtStrategy.validate and PermissionsGuard: an unexpired
\* access token whose own claims list the permission.  No table is read.
Admitted(c) == bearer[c] # None /\ HasPermission(bearer[c].perms, Manage)

\* What updateAdmin assigns for one field of the body.
PatchedColumn(wanted, old) == IF wanted = Keep THEN old ELSE wanted

\* Fault: the two-factor switch of the body is forgotten.
PatchedRowButTotp(row, patch) ==
  [status |-> PatchedColumn(patch.status, row.status),
   roles |-> PatchedColumn(patch.roles, row.roles),
   totp |-> row.totp]

PatchedRow(row, patch) ==
  [status |-> PatchedColumn(patch.status, row.status),
   roles |-> PatchedColumn(patch.roles, row.roles),
   totp |-> PatchedColumn(patch.totp, row.totp)]

\* Fault: every column of the entity is written.
SavedAccountWhole(now, ent, base) == ent

\* save(): the stored row after the UPDATE of the columns that differ.
SavedAccount(now, ent, base) ==
  [status |-> SavedColumn(now.status, ent.status, base.status),
   roles |-> SavedColumn(now.roles, ent.roles, base.roles),
   totp |-> SavedColumn(now.totp, ent.totp, base.totp)]

\* Fault: permissions are added to those the role has.
SavedRoleMerged(now, body, base) ==
  [name |-> SavedColumn(now.name, body.name, base.name),
   perms |-> now.perms \cup body.perms]

SavedRole(now, body, base) ==
  [name |-> SavedColumn(now.name, body.name, base.name),
   perms |-> SavedColumn(now.perms, body.perms, base.perms)]

\* The unique index on admin_roles.name.
NameTaken(id, name) ==
  \E r \in RoleIds \ {id} : roles[r] # None /\ roles[r].name = name

\* The credentials login checks against the row it read: an active account,
\* and with two-factor on a code, which only verifies against a secret.
CredentialsOk(a, row) ==
  row # None /\ row.status = "active" /\ (row.totp => a \in HasSecret)

\* Fault: refresh forgets the status.
AccountExists(row) == row # None

\* refresh only asks that the account it read is active.
StillActive(row) == row # None /\ row.status = "active"

Finish(s) == req' = [req EXCEPT ![s] = None]
FinishRole(t) == roleReq' = [roleReq EXCEPT ![t] = None]
Idle(s) == req[s] = None
At(s, ops, pc) == req[s] # None /\ req[s].op \in ops /\ req[s].pc = pc
-----------------------------------------------------------------------------
(* What the consoles send.                                                 *)

New(op, c, a, patch) ==
  [op |-> op, pc |-> "find", client |-> c, sub |-> a, patch |-> patch,
   ent |-> None, base |-> None, perms |-> {}, due |-> {}]

\* POST /admin/auth/login with the right password (a wrong one ends in 401
\* after two reads, without a trace).
StartLogin(s, c, a) ==
  /\ Idle(s) /\ a \in KnowsPassword
  /\ req' = [req EXCEPT ![s] = New("login", c, a, None)]
  /\ UNCHANGED <<admins, roles, bearer, cookie, roleReq>>

\* POST /admin/auth/refresh: the cookie is present, its token verifies and is
\* of type `refresh`, as every token setRefreshCookie was given is.
StartRefresh(s, c) ==
  /\ Idle(s) /\ cookie[c] # None
  /\ req' = [req EXCEPT ![s] = New("refresh", c, cookie[c].sub, None)]
  /\ UNCHANGED <<admins, roles, bearer, cookie, roleReq>>

\* POST /admin/auth/logout: clears the cookie and nothing else.
Logout(c) ==
  /\ cookie' = [cookie EXCEPT ![c] = None]
  /\ UNCHANGED <<admins, roles, bearer, req, roleReq>>

\* PATCH /admin/admins/:id, past both guards.
StartUpdate(s, c, a, patch) ==
  /\ Idle(s) /\ Admitted(c)
  /\ req' = [req EXCEPT ![s] = New("update", c, a, patch)]
  /\ UNCHANGED <<admins, roles, bearer, cookie, roleReq>>

\* POST /admin/admins/invite: one INSERT, which the unique email refuses
\* when the account exists; the password it hashes is thrown away.
Invite(c, a, names) ==
  /\ Admitted(c) /\ admins[a] = None
  /\ admins' = [admins EXCEPT ![a] =
       [status |-> "active", roles |-> names, totp |-> FALSE]]
  /\ UNCHANGED <<roles, bearer, cookie, req, roleReq>>

\* POST /admin/roles: one INSERT under the unique name.
CreateRole(c, r, body) ==
  /\ Admitted(c) /\ roles[r] = None /\ ~NameTaken(r, body.name)
  /\ roles' = [roles EXCEPT ![r] = body]
  /\ UNCHANGED <<admins, bearer, cookie, req, roleReq>>

\* PATCH /admin/roles: findOne answers 404 for an id that has no row.
StartSaveRole(t, c, r, body) ==
  /\ roleReq[t] = None /\ Admitted(c) /\ roles[r] # None
  /\ roleReq' = [roleReq EXCEPT ![t] =
       [pc |-> "load", id |-> r, body |-> body, base |-> None]]
  /\ UNCHANGED <<admins, roles, bearer, cookie, req>>
-----------------------------------------------------------------------------
(* The handlers, one action per await.                                     *)

\* login after findOne: 401, the TOTP answers, or on to save().
LoginFind(s) ==
  /\ At(s, {"login"}, "find")
  /\ LET row == admins[req[s].sub]
     IN IF CredentialsOk(req[s].sub, row)
        THEN req' = [req EXCEPT ![s].pc = "load", ![s].ent = row]
        ELSE Finish(s)
  /\ UNCHANGED <<admins, roles, bearer, cookie, roleReq>>

\* refresh after findOne: 401, or on to issueTokens.
RefreshFind(s) ==
  /\ At(s, {"refresh"}, "find")
  /\ LET row == admins[req[s].sub]
     IN IF StillActive(row)
        THEN req' = [req EXCEPT ![s].pc = "resolve", ![s].ent = row]
        ELSE Finish(s)
  /\ UNCHANGED <<admins, roles, bearer, cookie, roleReq>>

\* updateAdmin after findOne: 404, or the patched entity on to save().
UpdateFind(s) ==
  /\ At(s, {"update"}, "find")
  /\ LET row == admins[req[s].sub]
     IN IF row # None
        THEN req' = [req EXCEPT ![s].pc = "load",
                                ![s].ent = PatchedRow(row, req[s].patch)]
        ELSE Finish(s)
  /\ UNCHANGED <<admins, roles, bearer, cookie, roleReq>>

\* save() of login and updateAdmin: the SELECT ...
SaveLoad(s) ==
  /\ At(s, {"login", "update"}, "load")
  /\ req' = [req EXCEPT ![s].pc = "write", ![s].base = admins[req[s].sub]]
  /\ UNCHANGED <<admins, roles, bearer, cookie, roleReq>>

\* ... and the UPDATE, after which updateAdmin answers and login goes on to
\* issueTokens with the entity it read at the start.
SaveWrite(s) ==
  /\ At(s, {"login", "update"}, "write")
  /\ admins' = [admins EXCEPT ![req[s].sub] =
                  SavedAccount(@, req[s].ent, req[s].base)]
  /\ IF req[s].op = "login"
     THEN req' = [req EXCEPT ![s].pc = "resolve", ![s].base = None]
     ELSE Finish(s)
  /\ UNCHANGED <<roles, bearer, cookie, roleReq>>

\* issueTokens reads the role table for the role names of the entity.
ResolveRoles(s) ==
  /\ At(s, {"login", "refresh"}, "resolve")
  /\ req' = [req EXCEPT ![s].pc = "sign",
                        ![s].perms = ResolvePermissions(req[s].ent.roles),
                        ![s].due = Granted(req[s].ent.roles)]
  /\ UNCHANGED <<admins, roles, bearer, cookie, roleReq>>

\* issueTokens signs both tokens; the response sets the cookie and gives the
\* console its bearer token.  (A response that arrives later only finds the
\* tokens older.)
SignAndRespond(s) ==
  /\ At(s, {"login", "refresh"}, "sign")
  /\ LET q == req[s] IN
     /\ bearer' = [bearer EXCEPT ![q.client] =
          [sub |-> q.sub, perms |-> q.perms, left |-> AccessTTL]]
     /\ cookie' = [cookie EXCEPT ![q.client] =
          [sub |-> q.sub, left |-> RefreshTTL]]
  /\ Finish(s)
  /\ UNCHANGED <<admins, roles, roleReq>>

\* A query of the handler fails, or the client hangs up: nothing after it runs.
RequestFails(s) ==
  /\ req[s] # None
  /\ Finish(s)
  /\ UNCHANGED <<admins, roles, bearer, cookie, roleReq>>

\* save() of saveRole, whose entity is the body for both columns.
RoleLoad(t) ==
  /\ roleReq[t] # None /\ roleReq[t].pc = "load"
  /\ roleReq' = [roleReq EXCEPT ![t].pc = "write",
                                ![t].base = roles[roleReq[t].id]]
  /\ UNCHANGED <<admins, roles, bearer, cookie, req>>

\* The UPDATE; a name another role took meanwhile makes it fail (500).
RoleWrite(t) ==
  /\ roleReq[t] # None /\ roleReq[t].pc = "write"
  /\ LET q == roleReq[t]
         row == SavedRole(roles[q.id], q.body, q.base)
     IN roles' = IF NameTaken(q.id, row.name)
                 THEN roles ELSE [roles EXCEPT ![q.id] = row]
  /\ FinishRole(t)
  /\ UNCHANGED <<admins, bearer, cookie, req>>

RoleRequestFails(t) ==
  /\ roleReq[t] # None
  /\ FinishRole(t)
  /\ UNCHANGED <<admins, roles, bearer, cookie, req>>

\* The process dies and starts again: every handler in flight is gone, the
\* tables and what the clients hold stay.
Restart ==
  /\ req' = [s \in Slots |-> None]
  /\ roleReq' = [t \in RoleSlots |-> None]
  /\ UNCHANGED <<admins, roles, bearer, cookie>>

\* Fault: a token is good for the tick after its last.
AgedLeniently(token) ==
  IF token = None \/ token.left = 0 THEN None
  ELSE [token EXCEPT !.left = @ - 1]

\* An expired bearer token is refused and an expired cookie is
\* dropped by the browser: neither can be told from none.
Aged(token) ==
  IF token = None \/ token.left = 1 THEN None
  ELSE [token EXCEPT !.left = @ - 1]

\* Fault: ignoreExpiration is true for bearer tokens.
TickIgnoringExpiration ==
  /\ cookie' = [c \in Clients |-> Aged(cookie[c])]
  /\ UNCHANGED <<admins, roles, bearer, req, roleReq>>

\* Time passes.
Tick ==
  /\ bearer' = [c \in Clients |-> Aged(bearer[c])]
  /\ cookie' = [c \in Clients |-> Aged(cookie[c])]
  /\ UNCHANGED <<admins, roles, req, roleReq>>
-----------------------------------------------------------------------------
(* Whose authority is whose: the history behind the properties.            *)

\* A login or refresh of account a that read it as active and has not
\* answered: its tokens are as good as issued.
Issuing(s, a) ==
  /\ req[s] # None /\ req[s].op \in {"login", "refresh"} /\ req[s].sub = a
  /\ req[s].ent # None /\ req[s].ent.status = "active"

Active(a) == admins[a] # None /\ admins[a].status = "active"

\* The permissions account a has: by its row while that is active, or by a
\* login or refresh in flight that read it so.
Authority(a) ==
  (IF Active(a) THEN Granted(admins[a].roles) ELSE {})
  \cup UNION {Granted(req[s].ent.roles) \cup req[s].due :
                s \in {q \in Slots : Issuing(q, a)}}

\* lapse counts the ticks since, up to AccessTTL, beyond which it says no more.
Later(n, ticks) == IF n + ticks > AccessTTL THEN AccessTTL ELSE n + ticks
Record(ticks) ==
  lapse' = [a \in Admins |-> [p \in Permissions |->
              IF p \in Authority(a)' THEN 0 ELSE Later(lapse[a][p], ticks)]]
-----------------------------------------------------------------------------
Init ==
  /\ admins = SeedRow
  /\ roles = SeedRole
  /\ bearer = [c \in Clients |-> None]
  /\ cookie = [c \in Clients |-> None]
  /\ req = [s \in Slots |-> None]
  /\ roleReq = [t \in RoleSlots |-> None]
  /\ lapse = [a \in Admins |-> [p \in Permissions |->
                IF p \in Authority(a) THEN 0 ELSE AccessTTL]]

Console ==
  \E c \in Clients :
    \/ Logout(c)
    \/ \E s \in Slots :
         \/ \E a \in Admins : StartLogin(s, c, a)
         \/ StartRefresh(s, c)
         \/ \E a \in Admins, patch \in Patches : StartUpdate(s, c, a, patch)
    \/ \E a \in Admins, names \in Invitations : Invite(c, a, names)
    \/ \E r \in RoleIds, body \in RoleBodies :
         \/ CreateRole(c, r, body)
         \/ \E t \in RoleSlots : StartSaveRole(t, c, r, body)

Handler(s) ==
  \/ LoginFind(s) \/ RefreshFind(s) \/ UpdateFind(s)
  \/ SaveLoad(s) \/ SaveWrite(s)
  \/ ResolveRoles(s) \/ SignAndRespond(s)

RoleHandler(t) == RoleLoad(t) \/ RoleWrite(t)

Work ==
  \/ Console
  \/ \E s \in Slots : Handler(s) \/ RequestFails(s)
  \/ \E t \in RoleSlots : RoleHandler(t) \/ RoleRequestFails(t)
  \/ Restart

Next == (Work /\ Record(0)) \/ (Tick /\ Record(1))

Spec == Init /\ [][Next]_vars

\* Time passes, and a handler whose query was sent gets an answer or an error.
Fairness ==
  /\ WF_vars(Tick /\ Record(1))
  /\ \A s \in Slots : WF_vars(Handler(s) /\ Record(0))
  /\ \A t \in RoleSlots : WF_vars(RoleHandler(t) /\ Record(0))

FairSpec == Spec /\ Fairness
-----------------------------------------------------------------------------
TypeOK ==
  /\ admins \in [Admins -> Account \cup {None}]
  /\ roles \in [RoleIds -> Role \cup {None}]
  /\ bearer \in [Clients -> AccessToken \cup {None}]
  /\ cookie \in [Clients -> RefreshToken \cup {None}]
  /\ req \in [Slots -> Request \cup {None}]
  /\ roleReq \in [RoleSlots -> RoleRequest \cup {None}]
  /\ lapse \in [Admins -> [Permissions -> 0..AccessTTL]]

\* The window of a revocation: an access token still carries a permission of
\* its account only for as long as AccessTTL has not passed since the account
\* last had it (auth.service.ts:105 signs the permissions into the token and
\* jwt.strategy.ts:17 never looks them up again).
RevocationWindow ==
  \A c \in Clients : bearer[c] # None =>
    \A p \in bearer[c].perms :
      bearer[c].left + lapse[bearer[c].sub][p] <= AccessTTL

\* The abstract specification of what revocation promises.
Promise == INSTANCE RevocationPromise
             WITH held <- [a \in Admins |-> Authority(a)]
PromiseSpec == Promise!Spec

\* An account that stays disabled ends up with no token anywhere, the logins,
\* refreshes and saves in flight at the time included (auth.service.ts:42, :76).
DisabledEndsPowerless ==
  \A a \in Admins :
    <>[](~Active(a)) =>
      <>[](\A c \in Clients : /\ bearer[c] = None \/ bearer[c].sub # a
                              /\ cookie[c] = None \/ cookie[c].sub # a)
=============================================================================
