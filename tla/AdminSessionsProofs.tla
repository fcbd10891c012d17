------------------------ MODULE AdminSessionsProofs ------------------------
(* Theorems of AdminSessions and, with the history of overlapping saves,   *)
(* of OverlappingSaves: for every set of accounts, roles, consoles,        *)
(* requests in flight, patches and every pair of token lifetimes.          *)
EXTENDS OverlappingSaves, TLAPS

\* The part of TypeOK without the history.
StateOK ==
  /\ admins \in [Admins -> Account \cup {None}]
  /\ roles \in [RoleIds -> Role \cup {None}]
  /\ bearer \in [Clients -> AccessToken \cup {None}]
  /\ cookie \in [Clients -> RefreshToken \cup {None}]
  /\ req \in [Slots -> Request \cup {None}]
  /\ roleReq \in [RoleSlots -> RoleRequest \cup {None}]

\* What a handler has in hand at each of its awaits: the row it read, which
\* nobody can have deleted since, and the row save() selected.
InHand(q) ==
  /\ q.op = "update" => q.patch \in Patches
  /\ q.pc \in {"load", "write"} =>
       /\ q.op \in {"login", "update"}
       /\ q.ent \in Account
       /\ admins[q.sub] \in Account
  /\ q.pc = "write" => q.base \in Account
  /\ q.pc \in {"resolve", "sign"} =>
       q.op \in {"login", "refresh"} /\ q.ent \in Account
RoleInHand(q) ==
  /\ roles[q.id] \in Role
  /\ q.pc = "write" => q.base \in Role

HandlersOK ==
  /\ \A s \in Slots : req[s] # None => InHand(req[s])
  /\ \A t \in RoleSlots : roleReq[t] # None => RoleInHand(roleReq[t])

\* The inductive invariant behind TypeOK.
TInv == StateOK /\ HandlersOK
-----------------------------------------------------------------------------
\* save() of a typed entity over a typed row is a typed row.
LEMMA SavedAccountType ==
  ASSUME NEW now \in Account, NEW ent \in Account, NEW base \in Account
  PROVE  SavedAccount(now, ent, base) \in Account
BY DEF Account, SavedAccount, SavedColumn

LEMMA SavedRoleType ==
  ASSUME NEW now \in Role, NEW body \in Role, NEW base \in Role
  PROVE  SavedRole(now, body, base) \in Role
BY DEF Role, SavedRole, SavedColumn

\* updateAdmin assigns only what the body has: the entity stays a row.
LEMMA PatchedRowType ==
  ASSUME NEW row \in Account, NEW patch \in Patches
  PROVE  PatchedRow(row, patch) \in Account
<1>1. patch \in Patch
  BY BodyAssumption
<1>2. PatchedColumn(patch.status, row.status) \in Statuses
  BY <1>1 DEF Account, Patch, PatchedColumn
<1>3. PatchedColumn(patch.roles, row.roles) \in SUBSET RoleNames
  BY <1>1 DEF Account, Patch, PatchedColumn
<1>4. patch.totp \in BOOLEAN \cup {Keep} /\ row.totp \in BOOLEAN
  BY <1>1 DEF Account, Patch
<1>5. PatchedColumn(patch.totp, row.totp) \in BOOLEAN
  BY <1>4, Zenon DEF PatchedColumn
<1>6. QED
  BY <1>2, <1>3, <1>5 DEF Account, PatchedRow

LEMMA ResolveType ==
  ASSUME StateOK, NEW names
  PROVE  /\ ResolvePermissions(names) \subseteq Permissions
         /\ Granted(names) \subseteq Permissions
<1>1. Granted(names) \subseteq Permissions
  BY DEF Granted
<1>2. \A r \in RoleIds : roles[r] # None => roles[r].perms \subseteq Permissions
  BY DEF StateOK, Role
<1>3. QED
  BY <1>1, <1>2 DEF ResolvePermissions

LEMMA AgedType ==
  /\ \A token \in AccessToken \cup {None} : Aged(token) \in AccessToken \cup {None}
  /\ \A token \in RefreshToken \cup {None} : Aged(token) \in RefreshToken \cup {None}
<1>1. ASSUME NEW token \in AccessToken, token.left # 1
      PROVE  [token EXCEPT !.left = @ - 1] \in AccessToken
  BY <1>1, TTLAssumption DEF AccessToken
<1>2. ASSUME NEW token \in RefreshToken, token.left # 1
      PROVE  [token EXCEPT !.left = @ - 1] \in RefreshToken
  BY <1>2, TTLAssumption DEF RefreshToken
<1>3. QED
  BY <1>1, <1>2 DEF Aged
-----------------------------------------------------------------------------
(* TInv holds in every reachable state.                                    *)

LEMMA TInvInit == Init => TInv
BY SeedAssumption DEF Init, TInv, StateOK, HandlersOK

\* One slot takes a step: it is enough that the request in it is well formed
\* and that no row disappears.
LEMMA TInvSlot ==
  ASSUME TInv,
         NEW s \in Slots, NEW q \in Request \cup {None},
         q # None => InHand(q),
         req' = [req EXCEPT ![s] = q],
         admins' \in [Admins -> Account \cup {None}],
         \A a \in Admins : admins[a] \in Account => admins'[a] \in Account,
         bearer' \in [Clients -> AccessToken \cup {None}],
         cookie' \in [Clients -> RefreshToken \cup {None}],
         UNCHANGED <<roles, roleReq>>
  PROVE  TInv'
<1>1. StateOK'
  BY DEF TInv, StateOK
<1>2. ASSUME NEW x \in Slots, req'[x] # None
      PROVE  (InHand(req[x]) /\ req'[x] = req[x]) \/ req'[x] = q
  BY <1>2 DEF TInv, StateOK, HandlersOK
<1>3. q # None => q.sub \in Admins
  BY DEF Request
<1>4. \A x \in Slots : req[x] # None => req[x].sub \in Admins
  BY DEF TInv, StateOK, Request
<1>5. ASSUME NEW x \in Slots, req'[x] # None
      PROVE  InHand(req[x])' 
  BY <1>2, <1>3, <1>4, <1>5 DEF InHand
<1>6. QED
  BY <1>1, <1>5 DEF TInv, HandlersOK, RoleInHand

\* What the consoles send.
LEMMA TInvConsole == TInv /\ Console => TInv'
<1> SUFFICES ASSUME TInv, NEW c \in Clients,
                    \/ Logout(c)
                    \/ \E s \in Slots :
                         \/ \E a \in Admins : StartLogin(s, c, a)
                         \/ StartRefresh(s, c)
                         \/ \E a \in Admins, patch \in Patches :
                              StartUpdate(s, c, a, patch)
                    \/ \E a \in Admins, names \in Invitations : Invite(c, a, names)
                    \/ \E r \in RoleIds, body \in RoleBodies :
                         \/ CreateRole(c, r, body)
                         \/ \E t \in RoleSlots : StartSaveRole(t, c, r, body)
             PROVE  TInv'
  BY DEF Console
<1> USE DEF TInv
<1>1. ASSUME NEW s \in Slots, NEW op \in {"login", "refresh", "update"},
             NEW a \in Admins, NEW patch \in Patches \cup {None},
             op = "update" => patch \in Patches,
             req' = [req EXCEPT ![s] = New(op, c, a, patch)],
             UNCHANGED <<admins, roles, bearer, cookie, roleReq>>
      PROVE  TInv'
  <2>1. New(op, c, a, patch) \in Request /\ InHand(New(op, c, a, patch))
    BY <1>1 DEF New, Request, InHand
  <2>2. QED
    BY <1>1, <2>1, TInvSlot DEF StateOK
<1>2. CASE Logout(c)
  BY <1>2 DEF Logout, StateOK, HandlersOK, InHand, RoleInHand
<1>3. CASE \E s \in Slots, a \in Admins : StartLogin(s, c, a)
  BY <1>1, <1>3 DEF StartLogin
<1>4. CASE \E s \in Slots : StartRefresh(s, c)
  <2>1. PICK s \in Slots : StartRefresh(s, c)
    BY <1>4
  <2>2. cookie[c].sub \in Admins
    BY <2>1 DEF StartRefresh, StateOK, RefreshToken
  <2>3. QED
    BY <2>1, <2>2, <1>1 DEF StartRefresh
<1>5. CASE \E s \in Slots, a \in Admins, patch \in Patches :
             StartUpdate(s, c, a, patch)
  BY <1>1, <1>5 DEF StartUpdate
<1>6. CASE \E a \in Admins, names \in Invitations : Invite(c, a, names)
  <2>1. PICK a \in Admins, names \in Invitations : Invite(c, a, names)
    BY <1>6
  <2>2. [status |-> "active", roles |-> names, totp |-> FALSE] \in Account
    BY BodyAssumption DEF Account, Statuses
  <2>3. StateOK'
    BY <2>1, <2>2 DEF Invite, StateOK
  <2>4. \A b \in Admins : admins[b] \in Account => admins'[b] \in Account
    BY <2>1, <2>2 DEF Invite, StateOK
  <2>5. \A s \in Slots : req[s] # None => req[s].sub \in Admins
    BY DEF StateOK, Request
  <2>6. QED
    BY <2>1, <2>3, <2>4, <2>5 DEF Invite, HandlersOK, InHand, RoleInHand
<1>7. CASE \E r \in RoleIds, body \in RoleBodies : CreateRole(c, r, body)
  <2>1. PICK r \in RoleIds, body \in RoleBodies : CreateRole(c, r, body)
    BY <1>7
  <2>2. StateOK'
    BY <2>1, BodyAssumption DEF CreateRole, StateOK
  <2>3. \A q \in RoleIds : roles[q] \in Role => roles'[q] \in Role
    BY <2>1, BodyAssumption DEF CreateRole, StateOK
  <2>4. \A t \in RoleSlots : roleReq[t] # None => roleReq[t].id \in RoleIds
    BY DEF StateOK, RoleRequest
  <2>5. QED
    BY <2>1, <2>2, <2>3, <2>4 DEF CreateRole, HandlersOK, InHand, RoleInHand
<1>8. CASE \E r \in RoleIds, body \in RoleBodies, t \in RoleSlots :
             StartSaveRole(t, c, r, body)
  <2>1. PICK r \in RoleIds, body \in RoleBodies, t \in RoleSlots :
          StartSaveRole(t, c, r, body)
    BY <1>8
  <2> DEFINE q == [pc |-> "load", id |-> r, body |-> body, base |-> None]
  <2>2. q \in RoleRequest /\ RoleInHand(q)
    BY <2>1, BodyAssumption DEF StartSaveRole, StateOK, RoleRequest, RoleInHand
  <2>3. StateOK'
    BY <2>1, <2>2 DEF StartSaveRole, StateOK
  <2>4. \A u \in RoleSlots : roleReq'[u] = roleReq[u] \/ roleReq'[u] = q
    BY <2>1 DEF StartSaveRole, StateOK
  <2>5. QED
    BY <2>1, <2>2, <2>3, <2>4 DEF StartSaveRole, HandlersOK, InHand, RoleInHand
<1>9. QED
  BY <1>2, <1>3, <1>4, <1>5, <1>6, <1>7, <1>8

\* The handlers of login, refresh and updateAdmin.
LEMMA TInvHandler ==
  ASSUME TInv, NEW s \in Slots, Handler(s) \/ RequestFails(s)
  PROVE  TInv'
<1> DEFINE q == req[s]
<1> USE DEF At
<1>1. q # None
  BY DEF Handler, LoginFind, RefreshFind, UpdateFind, SaveLoad, SaveWrite,
         ResolveRoles, SignAndRespond, RequestFails
<1>2. q \in Request /\ InHand(q)
  BY <1>1 DEF TInv, StateOK, HandlersOK
<1>3. /\ q.sub \in Admins /\ q.client \in Clients
      /\ q.perms \in SUBSET Permissions /\ q.due \in SUBSET Permissions
      /\ admins[q.sub] \in Account \cup {None}
  BY <1>2 DEF TInv, StateOK, Request
<1>4. ASSUME UNCHANGED <<admins, roles, bearer, cookie, roleReq>>,
             NEW r \in Request \cup {None}, r # None => InHand(r),
             req' = [req EXCEPT ![s] = r]
      PROVE  TInv'
  BY <1>4, TInvSlot DEF TInv, StateOK
<1>5. CASE LoginFind(s)
  <2> DEFINE r == [q EXCEPT !.pc = "load", !.ent = admins[q.sub]]
  <2>1. CredentialsOk(q.sub, admins[q.sub]) => r \in Request /\ InHand(r)
    BY <1>2, <1>3, <1>5 DEF LoginFind, CredentialsOk, Request, InHand
  <2>2. \/ req' = [req EXCEPT ![s] = None]
        \/ CredentialsOk(q.sub, admins[q.sub]) /\ req' = [req EXCEPT ![s] = r]
    BY <1>5 DEF LoginFind, Finish
  <2>3. QED
    BY <1>4, <1>5, <2>1, <2>2 DEF LoginFind
<1>6. CASE RefreshFind(s)
  <2> DEFINE r == [q EXCEPT !.pc = "resolve", !.ent = admins[q.sub]]
  <2>1. StillActive(admins[q.sub]) => r \in Request /\ InHand(r)
    BY <1>2, <1>3, <1>6 DEF RefreshFind, StillActive, Request, InHand
  <2>2. \/ req' = [req EXCEPT ![s] = None]
        \/ StillActive(admins[q.sub]) /\ req' = [req EXCEPT ![s] = r]
    BY <1>6 DEF RefreshFind, Finish
  <2>3. QED
    BY <1>4, <1>6, <2>1, <2>2 DEF RefreshFind
<1>7. CASE UpdateFind(s)
  <2> DEFINE r == [q EXCEPT !.pc = "load",
                            !.ent = PatchedRow(admins[q.sub], q.patch)]
  <2>1. q.patch \in Patches
    BY <1>2, <1>7 DEF UpdateFind, InHand
  <2>2. ASSUME admins[q.sub] # None PROVE r \in Request /\ InHand(r)
    <3>1. PatchedRow(admins[q.sub], q.patch) \in Account
      BY <1>3, <2>1, <2>2, PatchedRowType
    <3>2. QED
      BY <1>2, <1>3, <1>7, <2>1, <2>2, <3>1 DEF UpdateFind, Request, InHand
  <2>3. \/ req' = [req EXCEPT ![s] = None]
        \/ admins[q.sub] # None /\ req' = [req EXCEPT ![s] = r]
    BY <1>7 DEF UpdateFind, Finish
  <2>4. QED
    BY <1>4, <1>7, <2>2, <2>3 DEF UpdateFind
<1>8. CASE SaveLoad(s)
  <2> DEFINE r == [q EXCEPT !.pc = "write", !.base = admins[q.sub]]
  <2>1. r \in Request /\ InHand(r)
    BY <1>2, <1>3, <1>8 DEF SaveLoad, Request, InHand
  <2>2. req' = [req EXCEPT ![s] = r]
    BY <1>8 DEF SaveLoad
  <2>3. QED
    BY <1>4, <1>8, <2>1, <2>2 DEF SaveLoad
<1>9. CASE SaveWrite(s)
  <2> DEFINE r == [q EXCEPT !.pc = "resolve", !.base = None]
             row == SavedAccount(admins[q.sub], q.ent, q.base)
  <2>1. row \in Account
    BY <1>2, <1>9, SavedAccountType DEF SaveWrite, InHand
  <2>2. admins' = [admins EXCEPT ![q.sub] = row]
    BY <1>9 DEF SaveWrite
  <2>3. /\ admins' \in [Admins -> Account \cup {None}]
        /\ \A a \in Admins : admins[a] \in Account => admins'[a] \in Account
    BY <1>3, <2>1, <2>2 DEF TInv, StateOK
  <2>4. q.op = "login" => r \in Request /\ InHand(r)
    BY <1>2, <1>9 DEF SaveWrite, Request, InHand
  <2>5. \/ req' = [req EXCEPT ![s] = None]
        \/ q.op = "login" /\ req' = [req EXCEPT ![s] = r]
    BY <1>9 DEF SaveWrite, Finish
  <2>6. QED
    BY <1>9, <2>3, <2>4, <2>5, TInvSlot DEF SaveWrite, TInv, StateOK
<1>10. CASE ResolveRoles(s)
  <2> DEFINE r == [q EXCEPT !.pc = "sign",
                            !.perms = ResolvePermissions(q.ent.roles),
                            !.due = Granted(q.ent.roles)]
  <2>1. /\ ResolvePermissions(q.ent.roles) \in SUBSET Permissions
        /\ Granted(q.ent.roles) \in SUBSET Permissions
    BY ResolveType DEF TInv
  <2>2. r \in Request /\ InHand(r)
    BY <1>2, <1>10, <2>1 DEF ResolveRoles, Request, InHand
  <2>3. req' = [req EXCEPT ![s] = r]
    BY <1>10 DEF ResolveRoles
  <2>4. QED
    BY <1>4, <1>10, <2>2, <2>3 DEF ResolveRoles
<1>11. CASE SignAndRespond(s)
  <2>1. /\ [sub |-> q.sub, perms |-> q.perms, left |-> AccessTTL] \in AccessToken
        /\ [sub |-> q.sub, left |-> RefreshTTL] \in RefreshToken
    BY <1>3, TTLAssumption DEF AccessToken, RefreshToken
  <2>2. /\ bearer' \in [Clients -> AccessToken \cup {None}]
        /\ cookie' \in [Clients -> RefreshToken \cup {None}]
    BY <1>3, <1>11, <2>1 DEF SignAndRespond, TInv, StateOK
  <2>3. QED
    BY <1>11, <2>2, TInvSlot DEF SignAndRespond, Finish, TInv, StateOK
<1>12. CASE RequestFails(s)
  BY <1>4, <1>12 DEF RequestFails, Finish
<1>13. QED
  BY <1>5, <1>6, <1>7, <1>8, <1>9, <1>10, <1>11, <1>12 DEF Handler

\* The handler of saveRole.
LEMMA TInvRole ==
  ASSUME TInv, NEW t \in RoleSlots, RoleHandler(t) \/ RoleRequestFails(t)
  PROVE  TInv'
<1> DEFINE q == roleReq[t]
<1>1. q # None /\ q \in RoleRequest /\ RoleInHand(q)
  BY DEF RoleHandler, RoleLoad, RoleWrite, RoleRequestFails,
         TInv, StateOK, HandlersOK
<1>2. q.id \in RoleIds /\ q.body \in Role /\ roles[q.id] \in Role
  BY <1>1 DEF RoleRequest, RoleInHand
<1>3. \A u \in RoleSlots : roleReq[u] # None => roleReq[u].id \in RoleIds
  BY DEF TInv, StateOK, RoleRequest
<1>4. CASE RoleLoad(t)
  <2> DEFINE r == [q EXCEPT !.pc = "write", !.base = roles[q.id]]
  <2>1. r \in RoleRequest /\ RoleInHand(r)
    BY <1>1, <1>2 DEF RoleRequest, RoleInHand
  <2>2. roleReq' = [roleReq EXCEPT ![t] = r]
    BY <1>4 DEF RoleLoad
  <2>3. StateOK'
    BY <1>4, <2>1, <2>2 DEF RoleLoad, TInv, StateOK
  <2>4. \A u \in RoleSlots : roleReq'[u] = roleReq[u] \/ roleReq'[u] = r
    BY <2>2 DEF TInv, StateOK
  <2>5. QED
    BY <1>4, <2>1, <2>3, <2>4 DEF RoleLoad, TInv, HandlersOK, InHand, RoleInHand
<1>5. CASE RoleWrite(t)
  <2> DEFINE row == SavedRole(roles[q.id], q.body, q.base)
  <2>1. row \in Role
    BY <1>1, <1>2, <1>5, SavedRoleType DEF RoleWrite, RoleInHand
  <2>2. \/ roles' = roles
        \/ roles' = [roles EXCEPT ![q.id] = row]
    BY <1>5 DEF RoleWrite
  <2>3. /\ roles' \in [RoleIds -> Role \cup {None}]
        /\ \A r \in RoleIds : roles[r] \in Role => roles'[r] \in Role
    BY <1>2, <2>1, <2>2 DEF TInv, StateOK
  <2>4. StateOK'
    BY <1>5, <2>3 DEF RoleWrite, FinishRole, TInv, StateOK
  <2>5. \A u \in RoleSlots : roleReq'[u] = roleReq[u] \/ roleReq'[u] = None
    BY <1>5 DEF RoleWrite, FinishRole, TInv, StateOK
  <2>6. QED
    BY <1>3, <1>5, <2>3, <2>4, <2>5
       DEF RoleWrite, TInv, HandlersOK, InHand, RoleInHand
<1>6. CASE RoleRequestFails(t)
  BY <1>6 DEF RoleRequestFails, FinishRole,
              TInv, StateOK, HandlersOK, InHand, RoleInHand
<1>7. QED
  BY <1>4, <1>5, <1>6 DEF RoleHandler

LEMMA TInvWork == TInv /\ Work => TInv'
<1>1. TInv /\ Restart => TInv'
  BY DEF Restart, TInv, StateOK, HandlersOK
<1>2. QED
  BY <1>1, TInvConsole, TInvHandler, TInvRole DEF Work

LEMMA TInvTick == TInv /\ Tick => TInv'
BY AgedType DEF Tick, TInv, StateOK, HandlersOK, InHand, RoleInHand

\* TInv is inductive.
LEMMA TInvNext == TInv /\ [Next]_vars => TInv'
<1>1. TInv /\ UNCHANGED vars => TInv'
  BY DEF vars, TInv, StateOK, HandlersOK, InHand, RoleInHand
<1>2. QED
  BY <1>1, TInvWork, TInvTick DEF Next

LEMMA TInvAlways == Spec => []TInv
BY TInvInit, TInvNext, PTL DEF Spec
-----------------------------------------------------------------------------
(* The history.                                                            *)

LapseOK == lapse \in [Admins -> [Permissions -> 0..AccessTTL]]

\* A permission an account has lapsed 0 ticks ago.
LapseFresh ==
  \A a \in Admins : \A p \in Authority(a) \cap Permissions : lapse[a][p] = 0

LEMMA RecordType ==
  ASSUME LapseOK, NEW ticks \in 0..1, Record(ticks)
  PROVE  LapseOK' /\ LapseFresh'
<1>1. \A a \in Admins, p \in Permissions : Later(lapse[a][p], ticks) \in 0..AccessTTL
  BY TTLAssumption DEF LapseOK, Later
<1>2. LapseOK'
  BY <1>1, TTLAssumption DEF Record, LapseOK
<1>3. QED
  BY <1>2 DEF Record, LapseFresh

LEMMA LapseInit == Init => LapseOK /\ LapseFresh
<1>1. Init => LapseOK
  BY TTLAssumption DEF Init, LapseOK
<1>2. QED
  BY <1>1 DEF Init, LapseFresh

LEMMA LapseNext == LapseOK /\ LapseFresh /\ [Next]_vars => (LapseOK /\ LapseFresh)'
<1>1. LapseOK /\ Next => (LapseOK /\ LapseFresh)'
  BY RecordType DEF Next
<1>2. LapseOK /\ LapseFresh /\ UNCHANGED vars => (LapseOK /\ LapseFresh)'
  BY DEF vars, LapseOK, LapseFresh, Authority, Active, Issuing, Granted
<1>3. QED
  BY <1>1, <1>2

LEMMA LapseAlways == Spec => [](LapseOK /\ LapseFresh)
BY LapseInit, LapseNext, PTL DEF Spec

\* Whatever the sizes, every row, token and request in flight is well formed:
\* in particular no handler writes back or signs for a row it never read
\* (auth.service.ts:40-80, admins.service.ts:59-84).
THEOREM TypeCorrect == Spec => []TypeOK
<1>1. TInv /\ LapseOK => TypeOK
  BY DEF TInv, StateOK, LapseOK, TypeOK
<1>2. QED
  BY <1>1, TInvAlways, LapseAlways, PTL
-----------------------------------------------------------------------------
(* The window of a revocation.                                             *)

\* A login or refresh past its findOne read an active account, and what it
\* resolved is what the account had coming.
Entitled(q) ==
  /\ q.op \in {"login", "refresh"} /\ q.pc # "find" => q.ent.status = "active"
  /\ q.pc = "sign" => q.perms \subseteq q.due
EntitledInv == \A s \in Slots : req[s] # None => Entitled(req[s])

\* resolvePermissions returns what the role names stand for.
LEMMA ResolveGrants ==
  ASSUME StateOK, NEW names PROVE ResolvePermissions(names) = Granted(names)
<1>1. \A r \in RoleIds : roles[r] # None => roles[r].perms \subseteq Permissions
  BY DEF StateOK, Role
<1>2. QED
  BY <1>1 DEF ResolvePermissions, Granted

LEMMA EntitledSlot ==
  ASSUME StateOK, EntitledInv, NEW s \in Slots, NEW q,
         q # None => Entitled(q), req' = [req EXCEPT ![s] = q]
  PROVE  EntitledInv'
<1>1. \A x \in Slots : req'[x] = IF x = s THEN q ELSE req[x]
  BY DEF StateOK
<1>2. QED
  BY <1>1 DEF EntitledInv, Entitled

LEMMA EntitledHandler ==
  ASSUME TInv, EntitledInv, NEW s \in Slots, Handler(s)
  PROVE  EntitledInv'
<1> DEFINE q == req[s]
<1> USE DEF At
<1>1. q # None
  BY DEF Handler, LoginFind, RefreshFind, UpdateFind, SaveLoad, SaveWrite,
         ResolveRoles, SignAndRespond
<1>2. /\ StateOK /\ q \in Request /\ InHand(q) /\ Entitled(q)
      /\ q.sub \in Admins
  BY <1>1 DEF TInv, StateOK, HandlersOK, EntitledInv, Request
<1>3. ASSUME NEW r, r # None => Entitled(r), req' = [req EXCEPT ![s] = r]
      PROVE  EntitledInv'
  BY <1>2, <1>3, EntitledSlot
<1>4. CASE req' = [req EXCEPT ![s] = None]
  BY <1>3, <1>4
<1>5. CASE LoginFind(s)
  <2> DEFINE r == [q EXCEPT !.pc = "load", !.ent = admins[q.sub]]
  <2>1. CredentialsOk(q.sub, admins[q.sub]) => Entitled(r)
    BY <1>2, <1>5 DEF LoginFind, CredentialsOk, Request, Entitled
  <2>2. QED
    BY <1>3, <1>4, <1>5, <2>1 DEF LoginFind, Finish
<1>6. CASE RefreshFind(s)
  <2> DEFINE r == [q EXCEPT !.pc = "resolve", !.ent = admins[q.sub]]
  <2>1. StillActive(admins[q.sub]) => Entitled(r)
    BY <1>2, <1>6 DEF RefreshFind, StillActive, Request, Entitled
  <2>2. QED
    BY <1>3, <1>4, <1>6, <2>1 DEF RefreshFind, Finish
<1>7. CASE UpdateFind(s)
  <2> DEFINE r == [q EXCEPT !.pc = "load",
                            !.ent = PatchedRow(admins[q.sub], q.patch)]
  <2>1. Entitled(r)
    BY <1>2, <1>7 DEF UpdateFind, Request, Entitled
  <2>2. QED
    BY <1>3, <1>4, <1>7, <2>1 DEF UpdateFind, Finish
<1>8. CASE SaveLoad(s)
  <2> DEFINE r == [q EXCEPT !.pc = "write", !.base = admins[q.sub]]
  <2>1. Entitled(r)
    BY <1>2, <1>8 DEF SaveLoad, Request, Entitled
  <2>2. QED
    BY <1>3, <1>8, <2>1 DEF SaveLoad
<1>9. CASE SaveWrite(s)
  <2> DEFINE r == [q EXCEPT !.pc = "resolve", !.base = None]
  <2>1. Entitled(r)
    BY <1>2, <1>9 DEF SaveWrite, Request, Entitled
  <2>2. QED
    BY <1>3, <1>4, <1>9, <2>1 DEF SaveWrite, Finish
<1>10. CASE ResolveRoles(s)
  <2> DEFINE r == [q EXCEPT !.pc = "sign",
                            !.perms = ResolvePermissions(q.ent.roles),
                            !.due = Granted(q.ent.roles)]
  <2>1. ResolvePermissions(q.ent.roles) = Granted(q.ent.roles)
    BY <1>2, ResolveGrants
  <2>2. Entitled(r)
    BY <1>2, <1>10, <2>1 DEF ResolveRoles, Request, Entitled
  <2>3. QED
    BY <1>3, <1>10, <2>2 DEF ResolveRoles
<1>11. CASE SignAndRespond(s)
  BY <1>4, <1>11 DEF SignAndRespond, Finish
<1>12. QED
  BY <1>5, <1>6, <1>7, <1>8, <1>9, <1>10, <1>11 DEF Handler

LEMMA EntitledNext == TInv /\ EntitledInv /\ [Next]_vars => EntitledInv'
<1> SUFFICES ASSUME TInv, EntitledInv, [Next]_vars PROVE EntitledInv'
  OBVIOUS
<1>1. StateOK
  BY DEF TInv
<1>2. ASSUME NEW s \in Slots, NEW op, NEW c, NEW a, NEW patch,
             req' = [req EXCEPT ![s] = New(op, c, a, patch)]
      PROVE  EntitledInv'
  <2>1. Entitled(New(op, c, a, patch))
    BY DEF New, Entitled
  <2>2. QED
    BY <1>1, <1>2, <2>1, EntitledSlot
<1>3. ASSUME UNCHANGED req PROVE EntitledInv'
  BY <1>3 DEF EntitledInv, Entitled
<1>4. CASE Console
  BY <1>2, <1>3, <1>4 DEF Console, Logout, StartLogin, StartRefresh, StartUpdate,
     Invite, CreateRole, StartSaveRole
<1>5. ASSUME NEW s \in Slots, RequestFails(s) PROVE EntitledInv'
  BY <1>1, <1>5, EntitledSlot DEF RequestFails, Finish
<1>6. ASSUME NEW t \in RoleSlots, RoleHandler(t) \/ RoleRequestFails(t)
      PROVE  EntitledInv'
  BY <1>3, <1>6 DEF RoleHandler, RoleLoad, RoleWrite, RoleRequestFails
<1>7. CASE Restart
  BY <1>7 DEF Restart, EntitledInv
<1>8. CASE Tick \/ UNCHANGED vars
  BY <1>3, <1>8 DEF Tick, vars
<1>9. QED
  BY <1>4, <1>5, <1>6, <1>7, <1>8, EntitledHandler DEF Next, Work

\* All of it together.
SessionInv == TInv /\ LapseOK /\ LapseFresh /\ EntitledInv

LEMMA SessionInit == Init => SessionInv
<1>1. Init => EntitledInv
  BY DEF Init, EntitledInv
<1>2. QED
  BY <1>1, TInvInit, LapseInit DEF SessionInv

LEMMA SessionNext == SessionInv /\ [Next]_vars => SessionInv'
BY TInvNext, LapseNext, EntitledNext DEF SessionInv

LEMMA SessionAlways == Spec => []SessionInv
BY SessionInit, SessionNext, PTL DEF Spec

LEMMA AuthorityType ==
  ASSUME TInv, NEW a \in Admins PROVE Authority(a) \in SUBSET Permissions
<1>1. \A s \in Slots : req[s] # None => req[s].due \in SUBSET Permissions
  BY DEF TInv, StateOK, Request
<1>2. QED
  BY <1>1 DEF Authority, Granted, Issuing

LEMMA AuthorityTypes == TInv => \A a \in Admins : Authority(a) \in SUBSET Permissions
BY AuthorityType

\* What a handler signs, its account has at that moment.
LEMMA SignedIsHeld ==
  ASSUME SessionInv, NEW s \in Slots, SignAndRespond(s)
  PROVE  /\ req[s].sub \in Admins /\ req[s].client \in Clients
         /\ req[s].perms \in SUBSET Permissions
         /\ req[s].perms \subseteq Authority(req[s].sub)
<1> DEFINE q == req[s]
<1>1. /\ q # None /\ q.pc = "sign" /\ q.op \in {"login", "refresh"}
      /\ q \in Request /\ InHand(q) /\ Entitled(q)
  BY DEF SignAndRespond, At, SessionInv, TInv, StateOK, HandlersOK, EntitledInv
<1>2. q.sub \in Admins /\ q.client \in Clients /\ q.perms \in SUBSET Permissions
  BY <1>1 DEF Request
<1>3. Issuing(s, q.sub) /\ q.perms \subseteq q.due
  BY <1>1, NoneAssumption DEF Issuing, Entitled, InHand
<1>4. q.due \subseteq Authority(q.sub)
  BY <1>3 DEF Authority
<1>5. QED
  BY <1>2, <1>3, <1>4

\* Nobody but SignAndRespond and Tick touches a bearer token.
LEMMA BearerKept ==
  ASSUME Work, \A s \in Slots : ~SignAndRespond(s)
  PROVE  bearer' = bearer
BY DEF Work, Console, Logout, StartLogin, StartRefresh, StartUpdate, Invite,
   CreateRole, StartSaveRole, Handler, LoginFind, RefreshFind, UpdateFind,
   SaveLoad, SaveWrite, ResolveRoles, RequestFails, RoleHandler, RoleLoad,
   RoleWrite, RoleRequestFails, Restart

LEMMA WindowNext ==
  ASSUME SessionInv, RevocationWindow, [Next]_vars
  PROVE  RevocationWindow'
<1> USE DEF SessionInv
<1>1. /\ bearer \in [Clients -> AccessToken \cup {None}]
      /\ \A c \in Clients : bearer[c] # None =>
           /\ bearer[c].sub \in Admins
           /\ bearer[c].perms \subseteq Permissions
           /\ bearer[c].left \in 1..AccessTTL
  BY DEF TInv, StateOK, AccessToken
<1>2. ASSUME NEW ticks \in 0..1, Record(ticks), NEW a \in Admins, NEW p \in Permissions
      PROVE  /\ lapse[a][p] \in 0..AccessTTL
             /\ lapse'[a][p] \in 0..AccessTTL
             /\ lapse'[a][p] <= lapse[a][p] + ticks
  BY <1>2, TTLAssumption DEF Record, Later, LapseOK
<1>3. ASSUME Record(0), bearer' = bearer PROVE RevocationWindow'
  BY <1>1, <1>2, <1>3, TTLAssumption DEF RevocationWindow
<1>4. ASSUME NEW s \in Slots, SignAndRespond(s), Record(0)
      PROVE  RevocationWindow'
  <2> DEFINE q == req[s]
             t == [sub |-> q.sub, perms |-> q.perms, left |-> AccessTTL]
  <2>1. bearer' = [bearer EXCEPT ![q.client] = t]
    BY <1>4 DEF SignAndRespond
  <2>2. \A p \in q.perms : q.sub \in Admins /\ p \in Permissions /\ lapse[q.sub][p] = 0
    BY <1>4, SignedIsHeld DEF LapseFresh
  <2>3. \A p \in q.perms : lapse'[q.sub][p] = 0
    BY <1>2, <1>4, <2>2
  <2>4. \A p \in t.perms : t.left + lapse'[t.sub][p] <= AccessTTL
    BY <2>3, TTLAssumption
  <2>5. ASSUME NEW c \in Clients, bearer'[c] # None, NEW p \in bearer'[c].perms
        PROVE  bearer'[c].left + lapse'[bearer'[c].sub][p] <= AccessTTL
    <3>1. CASE bearer'[c] = t
      BY <3>1, <2>4, <2>5
    <3>2. CASE bearer'[c] = bearer[c]
      BY <3>2, <1>1, <1>2, <1>4, <2>5, TTLAssumption DEF RevocationWindow
    <3>3. QED
      BY <2>1, <3>1, <3>2, <1>1
  <2>6. QED
    BY <2>5 DEF RevocationWindow
<1>5. ASSUME Tick, Record(1) PROVE RevocationWindow'
  <2>1. ASSUME NEW c \in Clients, bearer'[c] # None
        PROVE  /\ bearer[c] # None
               /\ bearer'[c].sub = bearer[c].sub
               /\ bearer'[c].perms = bearer[c].perms
               /\ bearer'[c].left = bearer[c].left - 1
    BY <1>1, <1>5, <2>1 DEF Tick, Aged, AccessToken
  <2>2. QED
    BY <1>1, <1>2, <1>5, <2>1, TTLAssumption DEF RevocationWindow
<1>6. ASSUME UNCHANGED vars PROVE RevocationWindow'
  BY <1>6 DEF vars, RevocationWindow
<1>7. QED
  BY <1>3, <1>4, <1>5, <1>6, BearerKept DEF Next

\* However logins, refreshes, updates, role changes, failures and restarts
\* interleave, an access token carries a permission for at most AccessTTL
\* after its account last had it (auth.service.ts:93, jwt.strategy.ts:17).
THEOREM WindowHolds == Spec => []RevocationWindow
<1>1. Init => RevocationWindow
  BY DEF Init, RevocationWindow
<1>2. QED
  BY <1>1, SessionAlways, WindowNext, PTL DEF Spec
-----------------------------------------------------------------------------
(* The refinement.                                                         *)

LEMMA PromiseInit == Init => Promise!Init
<1> SUFFICES ASSUME Init PROVE Promise!Init
  OBVIOUS
<1>1. \A a \in Admins : Authority(a) \in SUBSET Permissions
  BY TInvInit, AuthorityType
<1>2. [a \in Admins |-> Authority(a)] \in [Admins -> SUBSET Permissions]
  BY <1>1
<1>3. QED
  BY <1>2 DEF Init, Promise!Init

\* Every step is a step of the promise, or one it does not see.
LEMMA PromiseStep ==
  ASSUME SessionInv, [Next]_vars
  PROVE  [Promise!Next]_Promise!vars
<1>1. CASE UNCHANGED vars
  BY <1>1 DEF vars, Promise!vars, Authority, Active, Issuing, Granted
<1>2. ASSUME NEW ticks \in 0..1, Record(ticks), TInv'
      PROVE  Promise!HeldChanges(ticks)
  <2>1. \A a \in Admins : Authority(a)' \in SUBSET Permissions
    <3>1. (\A a \in Admins : Authority(a) \in SUBSET Permissions)'
      BY <1>2, AuthorityTypes, PTL
    <3>2. QED
      BY <3>1
  <2>2. QED
    BY <1>2, <2>1 DEF Record, Later, Promise!HeldChanges, Promise!Later
<1>3. ASSUME Next PROVE TInv'
  BY <1>3, TInvNext DEF SessionInv
<1>4. ASSUME Next, bearer' = bearer, Record(0) PROVE Promise!Next
  BY <1>2, <1>3, <1>4 DEF Promise!Next, Promise!Regrant
<1>5. ASSUME NEW s \in Slots, SignAndRespond(s), Next, Record(0)
      PROVE  Promise!Next
  <2> DEFINE q == req[s]
  <2>1. Promise!HeldChanges(0)
    BY <1>2, <1>3, <1>5
  <2>2. /\ q.sub \in Admins /\ q.client \in Clients
        /\ q.perms \in SUBSET Permissions
        /\ q.perms \subseteq [a \in Admins |-> Authority(a)][q.sub]
    BY <1>5, SignedIsHeld
  <2>3. Promise!Issue(q.client, q.sub, q.perms)
    BY <1>5, <2>1, <2>2 DEF Promise!Issue, SignAndRespond
  <2>4. QED
    BY <2>2, <2>3 DEF Promise!Next
<1>6. ASSUME Tick, Record(1), Next PROVE Promise!Next
  <2>1. Promise!HeldChanges(1)
    BY <1>2, <1>3, <1>6
  <2>2. QED
    BY <1>6, <2>1 DEF Promise!Next, Promise!Tick, Promise!Aged, Tick, Aged
<1>7. QED
  BY <1>1, <1>4, <1>5, <1>6, BearerKept DEF Next

\* The tables, the handlers and the cookies implement the promise: a token is
\* issued only with permissions its account has, and lives AccessTTL.
THEOREM SessionsImplementPromise == Spec => PromiseSpec
BY PromiseInit, PromiseStep, SessionAlways, PTL DEF Spec, PromiseSpec, Promise!Spec
-----------------------------------------------------------------------------
(* What overlapping saves can and cannot undo (OverlappingSaves).          *)

\* One column of what the operators of the code make of a row.
LEMMA PatchedColumns ==
  ASSUME NEW row, NEW patch, NEW col \in Columns
  PROVE  PatchedRow(row, patch)[col] = PatchedColumn(patch[col], row[col])
BY DEF Columns, PatchedRow

LEMMA SavedColumns ==
  ASSUME NEW now, NEW ent, NEW base, NEW col \in Columns
  PROVE  SavedAccount(now, ent, base)[col] = SavedColumn(now[col], ent[col], base[col])
BY DEF Columns, SavedAccount

LEMMA SavedRoleColumns ==
  ASSUME NEW now, NEW body, NEW base, NEW col \in RoleColumns
  PROVE  SavedRole(now, body, base)[col] = SavedColumn(now[col], body[col], base[col])
BY DEF RoleColumns, SavedRole

\* Two copies of a row agree but for the columns others have changed.
Agree(columns, one, other, changed) ==
  \A col \in columns : one[col] = other[col] \/ col \in changed

\* What a request holds, column by column: of the columns its body names what
\* the body says, of the others what findOne returned.
AsNamed(q) == \A col \in Columns : Names(q, col) => q.ent[col] = q.patch[col]
Unnamed(q) == {col \in Columns : ~Names(q, col)}

SlotRace(s) ==
  /\ Stands(s, "load") => /\ AsNamed(req[s])
                          /\ Agree(Unnamed(req[s]), req[s].ent, admins[req[s].sub], before[s])
  /\ Stands(s, "write") => /\ AsNamed(req[s])
                           /\ Agree(Unnamed(req[s]), req[s].ent, req[s].base, before[s])
                           /\ Agree(Columns, req[s].base, admins[req[s].sub], after[s])
RoleRace(t) ==
  RoleStands(t) => Agree(RoleColumns, roleReq[t].base, roles[roleReq[t].id], roleAfter[t])

RaceInv ==
  /\ \A s \in Slots : SlotRace(s)
  /\ \A t \in RoleSlots : RoleRace(t)

\* A request that does not move keeps its share, whoever writes its row.
LEMMA SlotKept ==
  ASSUME TInv, Remember, NEW s \in Slots, SlotRace(s), req'[s] = req[s]
  PROVE  SlotRace(s)'
<1> DEFINE q == req[s]
<1>1. CASE Stands(s, "load")
  <2>1. q # None /\ q.pc = "load" /\ admins[q.sub] # None
    BY <1>1, NoneAssumption DEF Stands, TInv, HandlersOK, InHand
  <2>2. before'[s] = before[s] \cup ChangedNow(q.sub)
    BY <2>1 DEF Remember, Stands
  <2>3. AsNamed(q) /\ Agree(Unnamed(q), q.ent, admins[q.sub], before[s])
    BY <1>1 DEF SlotRace
  <2>4. \A col \in Columns : admins'[q.sub][col] = admins[q.sub][col]
                             \/ col \in ChangedNow(q.sub)
    BY <2>1 DEF ChangedNow
  <2>5. Agree(Unnamed(q), q.ent, admins'[q.sub], before'[s])
    BY <2>2, <2>3, <2>4 DEF Agree, Unnamed
  <2>6. QED
    BY <2>1, <2>3, <2>5 DEF SlotRace, Stands, AsNamed, Unnamed, Names
<1>2. CASE Stands(s, "write")
  <2>1. q # None /\ q.pc = "write" /\ admins[q.sub] # None
    BY <1>2, NoneAssumption DEF Stands, TInv, HandlersOK, InHand
  <2>2. before'[s] = before[s] /\ after'[s] = after[s] \cup ChangedNow(q.sub)
    BY <2>1 DEF Remember, Stands
  <2>3. /\ AsNamed(q) /\ Agree(Unnamed(q), q.ent, q.base, before[s])
        /\ Agree(Columns, q.base, admins[q.sub], after[s])
    BY <1>2 DEF SlotRace
  <2>4. \A col \in Columns : admins'[q.sub][col] = admins[q.sub][col]
                             \/ col \in ChangedNow(q.sub)
    BY <2>1 DEF ChangedNow
  <2>5. Agree(Columns, q.base, admins'[q.sub], after'[s])
    BY <2>2, <2>3, <2>4 DEF Agree
  <2>6. QED
    BY <2>1, <2>2, <2>3, <2>5 DEF SlotRace, Stands, AsNamed, Unnamed, Names, Agree
<1>3. CASE ~Stands(s, "load") /\ ~Stands(s, "write")
  BY <1>3 DEF SlotRace, Stands
<1>4. QED
  BY <1>1, <1>2, <1>3

\* Nor has a request a share before its findOne and after its UPDATE.
LEMMA SlotAside ==
  ASSUME NEW s \in Slots, req'[s] # None => req'[s].pc \notin {"load", "write"}
  PROVE  SlotRace(s)'
BY DEF SlotRace, Stands

\* A request that moves.
LEMMA SlotMoves ==
  ASSUME TInv, Remember, NEW s \in Slots, SlotRace(s), Handler(s)
  PROVE  SlotRace(s)'
<1> DEFINE q == req[s]
<1> USE DEF At
<1>1. /\ q # None /\ q \in Request /\ InHand(q)
      /\ req \in [Slots -> Request \cup {None}]
  BY DEF Handler, LoginFind, RefreshFind, UpdateFind, SaveLoad, SaveWrite,
         ResolveRoles, SignAndRespond, TInv, StateOK, HandlersOK
<1>2. CASE LoginFind(s) /\ req'[s] # None
  <2>1. /\ q.op = "login" /\ UNCHANGED admins
        /\ req' = [req EXCEPT ![s] = [q EXCEPT !.pc = "load", !.ent = admins[q.sub]]]
    BY <1>1, <1>2 DEF LoginFind, Finish
  <2>2. /\ req'[s].op = "login" /\ req'[s].pc = "load" /\ req'[s].sub = q.sub
        /\ req'[s].ent = admins[q.sub]
    BY <1>1, <2>1 DEF Request
  <2>3. QED
    BY <2>1, <2>2 DEF SlotRace, Stands, AsNamed, Unnamed, Names, Agree
<1>3. CASE UpdateFind(s) /\ req'[s] # None
  <2>1. /\ q.op = "update" /\ UNCHANGED admins
        /\ req' = [req EXCEPT ![s] = [q EXCEPT !.pc = "load",
                                               !.ent = PatchedRow(admins[q.sub], q.patch)]]
    BY <1>1, <1>3 DEF UpdateFind, Finish
  <2>2. /\ req'[s].op = "update" /\ req'[s].pc = "load" /\ req'[s].sub = q.sub
        /\ req'[s].patch = q.patch /\ req'[s].ent = PatchedRow(admins[q.sub], q.patch)
    BY <1>1, <2>1 DEF Request
  <2>3. \A col \in Columns :
          req'[s].ent[col] = IF q.patch[col] = Keep THEN admins[q.sub][col] ELSE q.patch[col]
    BY <2>2, PatchedColumns DEF PatchedColumn
  <2>4. QED
    BY <2>1, <2>2, <2>3 DEF SlotRace, Stands, AsNamed, Unnamed, Names, Agree
<1>4. CASE SaveLoad(s) /\ req'[s] # None
  <2>1. /\ q.pc = "load" /\ UNCHANGED admins
        /\ req' = [req EXCEPT ![s] = [q EXCEPT !.pc = "write", !.base = admins[q.sub]]]
    BY <1>1, <1>4 DEF SaveLoad
  <2>2. /\ req'[s].op = q.op /\ req'[s].pc = "write" /\ req'[s].sub = q.sub
        /\ req'[s].patch = q.patch /\ req'[s].ent = q.ent /\ req'[s].base = admins[q.sub]
    BY <1>1, <2>1 DEF Request
  <2>3. before'[s] = before[s]
    BY <1>4, <2>2 DEF Remember, Stands
  <2>4. AsNamed(q) /\ Agree(Unnamed(q), q.ent, admins[q.sub], before[s])
    BY <1>1, <2>1 DEF SlotRace, Stands
  <2>5. QED
    BY <2>1, <2>2, <2>3, <2>4 DEF SlotRace, Stands, AsNamed, Unnamed, Names, Agree
<1>5. CASE \/ req'[s] = None
           \/ RefreshFind(s) \/ SaveWrite(s) \/ ResolveRoles(s) \/ SignAndRespond(s)
  <2>1. req'[s] # None => req'[s].pc \in {"resolve", "sign"}
    BY <1>1, <1>5
       DEF RefreshFind, SaveWrite, ResolveRoles, SignAndRespond, Finish, Request
  <2>2. QED
    BY <2>1, SlotAside
<1>6. QED
  BY <1>2, <1>3, <1>4, <1>5 DEF Handler

\* The same of a saveRole request.
LEMMA RoleKept ==
  ASSUME TInv, Remember, NEW t \in RoleSlots, RoleRace(t), roleReq'[t] = roleReq[t]
  PROVE  RoleRace(t)'
<1> DEFINE q == roleReq[t]
<1>1. CASE RoleStands(t)
  <2>1. q # None /\ q.pc = "write" /\ roles[q.id] # None
    BY <1>1, NoneAssumption DEF RoleStands, TInv, HandlersOK, RoleInHand
  <2>2. roleAfter'[t] = roleAfter[t] \cup RoleChangedNow(q.id)
    BY <2>1 DEF Remember, RoleStands
  <2>3. \A col \in RoleColumns : roles'[q.id][col] = roles[q.id][col]
                                 \/ col \in RoleChangedNow(q.id)
    BY <2>1 DEF RoleChangedNow
  <2>4. Agree(RoleColumns, q.base, roles[q.id], roleAfter[t])
    BY <1>1 DEF RoleRace
  <2>5. QED
    BY <2>2, <2>3, <2>4 DEF RoleRace, Agree
<1>2. CASE ~RoleStands(t)
  BY <1>2 DEF RoleRace, RoleStands
<1>3. QED
  BY <1>1, <1>2

LEMMA RoleMoves ==
  ASSUME TInv, NEW t \in RoleSlots, RoleHandler(t)
  PROVE  RoleRace(t)'
<1> DEFINE q == roleReq[t]
<1>1. q \in RoleRequest /\ roleReq \in [RoleSlots -> RoleRequest \cup {None}]
  BY DEF RoleHandler, RoleLoad, RoleWrite, TInv, StateOK
<1>2. CASE RoleLoad(t)
  <2>1. /\ UNCHANGED roles
        /\ roleReq' = [roleReq EXCEPT ![t] = [q EXCEPT !.pc = "write", !.base = roles[q.id]]]
    BY <1>1, <1>2 DEF RoleLoad
  <2>2. roleReq'[t].base = roles[q.id] /\ roleReq'[t].id = q.id
    BY <1>1, <2>1 DEF RoleRequest
  <2>3. QED
    BY <2>1, <2>2 DEF RoleRace, Agree
<1>3. CASE RoleWrite(t)
  <2>1. roleReq'[t] = None
    BY <1>1, <1>3 DEF RoleWrite, FinishRole
  <2>2. QED
    BY <2>1 DEF RoleRace, RoleStands
<1>4. QED
  BY <1>2, <1>3 DEF RoleHandler

LEMMA RaceInvInit == RaceInit => RaceInv
BY DEF RaceInit, Init, RaceInv, SlotRace, RoleRace, Stands, RoleStands

LEMMA RaceInvNext == TInv /\ RaceInv /\ [RaceNext]_allVars => RaceInv'
<1> SUFFICES ASSUME TInv, RaceInv, [RaceNext]_allVars PROVE RaceInv'
  OBVIOUS
<1>1. CASE UNCHANGED allVars
  BY <1>1 DEF allVars, vars, raceVars, RaceInv, SlotRace, RoleRace, Stands, RoleStands,
              Agree, AsNamed, Unnamed, Names
<1>2. CASE Next /\ Remember
  <2>1. /\ req \in [Slots -> Request \cup {None}]
        /\ roleReq \in [RoleSlots -> RoleRequest \cup {None}]
        /\ \A s \in Slots : SlotRace(s)
        /\ \A t \in RoleSlots : RoleRace(t)
    BY DEF TInv, StateOK, RaceInv
  <2>2. (\A s \in Slots : req'[s] = req[s]) => \A s \in Slots : SlotRace(s)'
    BY <1>2, <2>1, SlotKept
  <2>3. (\A t \in RoleSlots : roleReq'[t] = roleReq[t]) => \A t \in RoleSlots : RoleRace(t)'
    BY <1>2, <2>1, RoleKept
  <2>4. CASE Console
    <3>1. ASSUME NEW s \in Slots PROVE SlotRace(s)'
      <4>1. req'[s] = req[s] \/ req'[s].pc = "find"
        BY <2>1, <2>4 DEF Console, Logout, StartLogin, StartRefresh, StartUpdate, New,
           Invite, CreateRole, StartSaveRole
      <4>2. QED
        BY <1>2, <2>1, <4>1, SlotKept, SlotAside
    <3>2. ASSUME NEW t \in RoleSlots PROVE RoleRace(t)'
      <4>1. roleReq'[t] = roleReq[t] \/ roleReq'[t].pc = "load"
        BY <2>1, <2>4 DEF Console, Logout, StartLogin, StartRefresh, StartUpdate,
           Invite, CreateRole, StartSaveRole
      <4>2. QED
        BY <1>2, <2>1, <4>1, RoleKept DEF RoleRace, RoleStands
    <3>3. QED
      BY <3>1, <3>2 DEF RaceInv
  <2>5. ASSUME NEW s \in Slots, Handler(s) \/ RequestFails(s) PROVE RaceInv'
    <3>1. /\ UNCHANGED roleReq
          /\ \A x \in Slots \ {s} : req'[x] = req[x]
          /\ RequestFails(s) => req'[s] = None
      BY <2>1, <2>5 DEF Handler, LoginFind, RefreshFind, UpdateFind, SaveLoad, SaveWrite,
         ResolveRoles, SignAndRespond, RequestFails, Finish
    <3>2. SlotRace(s)'
      BY <1>2, <2>1, <2>5, <3>1, SlotMoves, SlotAside
    <3>3. QED
      BY <1>2, <2>1, <2>3, <3>1, <3>2, SlotKept DEF RaceInv
  <2>6. ASSUME NEW t \in RoleSlots, RoleHandler(t) \/ RoleRequestFails(t) PROVE RaceInv'
    <3>1. /\ UNCHANGED req
          /\ \A x \in RoleSlots \ {t} : roleReq'[x] = roleReq[x]
          /\ RoleRequestFails(t) => roleReq'[t] = None
      BY <2>1, <2>6 DEF RoleHandler, RoleLoad, RoleWrite, RoleRequestFails, FinishRole
    <3>2. RoleRace(t)'
      BY <2>6, <3>1, RoleMoves DEF RoleRace, RoleStands
    <3>3. QED
      BY <1>2, <2>1, <2>2, <3>1, <3>2, RoleKept DEF RaceInv
  <2>7. CASE Restart
    <3>1. /\ \A s \in Slots : req'[s] = None
          /\ \A t \in RoleSlots : roleReq'[t] = None
      BY <2>7 DEF Restart
    <3>2. QED
      BY <3>1, SlotAside DEF RaceInv, RoleRace, RoleStands
  <2>8. CASE Tick
    BY <2>2, <2>3, <2>8 DEF Tick, RaceInv
  <2>9. QED
    BY <1>2, <2>4, <2>5, <2>6, <2>7, <2>8 DEF Next, Work
<1>3. QED
  BY <1>1, <1>2 DEF RaceNext

\* The history adds nothing to the specification and takes nothing from it.
LEMMA RaceIsSpec == RaceSpec => Spec
<1>1. RaceInit => Init
  BY DEF RaceInit
<1>2. [RaceNext]_allVars => [Next]_vars
  BY DEF RaceNext, allVars
<1>3. QED
  BY <1>1, <1>2, PTL DEF RaceSpec, Spec

LEMMA RaceInvHolds == RaceSpec => []RaceInv
BY RaceInvInit, RaceInvNext, RaceIsSpec, TInvAlways, PTL DEF RaceSpec

\* Only an UPDATE changes a row there is, and only the row of its request.
LEMMA OnlySavesChange ==
  ASSUME TInv, [Next]_vars, NEW a \in Admins, admins[a] # None, admins'[a] # admins[a]
  PROVE  \E s \in Slots : SaveWrite(s) /\ req[s].sub = a
<1>1. admins \in [Admins -> Account \cup {None}]
  BY DEF TInv, StateOK
<1>2. ASSUME Console PROVE admins'[a] = admins[a]
  BY <1>1, <1>2 DEF Console, Logout, StartLogin, StartRefresh, StartUpdate, Invite,
     CreateRole, StartSaveRole
<1>3. ASSUME NEW s \in Slots, Handler(s) \/ RequestFails(s)
      PROVE  admins'[a] = admins[a] \/ (SaveWrite(s) /\ req[s].sub = a)
  BY <1>1, <1>3 DEF Handler, LoginFind, RefreshFind, UpdateFind, SaveLoad, SaveWrite,
     ResolveRoles, SignAndRespond, RequestFails
<1>4. QED
  BY <1>2, <1>3 DEF Next, Work, Tick, Restart, vars, RoleHandler, RoleLoad, RoleWrite,
     RoleRequestFails

\* What a request had in hand when its save() writes.
LEMMA WriteInHand ==
  ASSUME TInv, RaceInv, NEW s \in Slots, SaveWrite(s)
  PROVE  /\ Stands(s, "write") /\ SlotRace(s) /\ req[s].sub \in Admins
         /\ \A col \in Columns :
              admins'[req[s].sub][col] =
                SavedColumn(admins[req[s].sub][col], req[s].ent[col], req[s].base[col])
<1>1. Stands(s, "write") /\ SlotRace(s) /\ req[s].sub \in Admins
  BY DEF SaveWrite, At, Stands, RaceInv, TInv, StateOK, Request
<1>2. admins'[req[s].sub] = SavedAccount(admins[req[s].sub], req[s].ent, req[s].base)
  BY <1>1 DEF SaveWrite, TInv, StateOK
<1>3. QED
  BY <1>1, <1>2, SavedColumns

\* A change of an account is undone only by a request that had read it before
\* the change and reached its save()'s SELECT after it, and that puts back
\* what it read (auth.service.ts:58, admins.service.ts:68).
THEOREM UndoingNeedsOverlap == RaceSpec => UndoNeedsAnOverlap
<1>1. ASSUME TInv, RaceInv, [RaceNext]_allVars, NEW a \in Admins, NEW col \in Columns,
             admins[a] # None, admins'[a][col] # admins[a][col]
      PROVE  \E s \in Slots : /\ Stands(s, "write") /\ req[s].sub = a
                              /\ admins'[a][col] = req[s].ent[col]
                              /\ Names(req[s], col) \/ col \in before[s]
  <2>1. [Next]_vars
    BY <1>1 DEF RaceNext, allVars
  <2>2. PICK s \in Slots : SaveWrite(s) /\ req[s].sub = a
    BY <1>1, <2>1, OnlySavesChange
  <2>3. /\ Stands(s, "write") /\ SlotRace(s)
        /\ admins'[a][col] = SavedColumn(admins[a][col], req[s].ent[col], req[s].base[col])
    BY <1>1, <2>2, WriteInHand
  <2>4. admins'[a][col] = req[s].ent[col] /\ req[s].ent[col] # req[s].base[col]
    BY <1>1, <2>3 DEF SavedColumn
  <2>5. Names(req[s], col) \/ col \in before[s]
    BY <1>1, <2>3, <2>4 DEF SlotRace, Agree, Unnamed
  <2>6. QED
    BY <2>2, <2>3, <2>4, <2>5
<1>2. TInv /\ RaceInv /\ [RaceNext]_allVars =>
        [\A a \in Admins, col \in Columns :
           admins[a] # None /\ admins'[a][col] # admins[a][col] =>
             \E s \in Slots : /\ Stands(s, "write") /\ req[s].sub = a
                              /\ admins'[a][col] = req[s].ent[col]
                              /\ Names(req[s], col) \/ col \in before[s]]_allVars
  BY <1>1
<1>3. QED
  BY <1>2, RaceIsSpec, TInvAlways, RaceInvHolds, PTL DEF RaceSpec, UndoNeedsAnOverlap

\* An answered update has left what its body names in the row, unless another
\* request changed the column between its SELECT and its UPDATE
\* (admins.service.ts:65-68).
THEOREM AnsweredPatchesLand == RaceSpec => PatchesLand
<1>1. ASSUME TInv, RaceInv, NEW s \in Slots, SaveWrite(s),
             NEW col \in Columns, Names(req[s], col)
      PROVE  \/ admins'[req[s].sub][col] = req[s].patch[col]
             \/ col \in after[s]
  <2>1. /\ Stands(s, "write") /\ SlotRace(s)
        /\ admins'[req[s].sub][col] =
             SavedColumn(admins[req[s].sub][col], req[s].ent[col], req[s].base[col])
    BY <1>1, WriteInHand
  <2>2. /\ req[s].ent[col] = req[s].patch[col]
        /\ req[s].base[col] = admins[req[s].sub][col] \/ col \in after[s]
    BY <1>1, <2>1 DEF SlotRace, AsNamed, Agree
  <2>3. QED
    BY <2>1, <2>2 DEF SavedColumn
<1>2. TInv /\ RaceInv /\ [RaceNext]_allVars =>
        [\A s \in Slots : SaveWrite(s) =>
           \A col \in Columns : Names(req[s], col) =>
             \/ admins'[req[s].sub][col] = req[s].patch[col]
             \/ col \in after[s]]_allVars
  BY <1>1
<1>3. QED
  BY <1>2, RaceIsSpec, TInvAlways, RaceInvHolds, PTL DEF RaceSpec, PatchesLand
-----------------------------------------------------------------------------
\* The unique index (admin-role.entity.ts:15): two roles never share a name.
RoleNamesUnique ==
  \A q, r \in RoleIds :
    q # r /\ roles[q] # None /\ roles[r] # None => roles[q].name # roles[r].name

LEMMA RoleNamesStayUnique == Spec => []RoleNamesUnique
<1>1. Init => RoleNamesUnique
  BY SeedAssumption DEF Init, RoleNamesUnique
<1>2. ASSUME TInv, RoleNamesUnique, [Next]_vars PROVE RoleNamesUnique'
  <2>1. roles \in [RoleIds -> Role \cup {None}]
    BY <1>2 DEF TInv, StateOK
  <2>2. ASSUME NEW r \in RoleIds, NEW row \in Role, ~NameTaken(r, row.name),
               roles' = [roles EXCEPT ![r] = row]
        PROVE  RoleNamesUnique'
    BY <1>2, <2>1, <2>2 DEF RoleNamesUnique, NameTaken
  <2>3. ASSUME NEW c \in Clients, NEW r \in RoleIds, NEW body \in RoleBodies,
               CreateRole(c, r, body)
        PROVE  RoleNamesUnique'
    BY <2>2, <2>3, BodyAssumption DEF CreateRole
  <2>4. ASSUME NEW t \in RoleSlots, RoleWrite(t) PROVE RoleNamesUnique'
    <3> DEFINE q == roleReq[t]
               row == SavedRole(roles[q.id], q.body, q.base)
    <3>1. q \in RoleRequest /\ RoleInHand(q) /\ q.pc = "write"
      BY <1>2, <2>4 DEF RoleWrite, TInv, StateOK, HandlersOK
    <3>2. q.id \in RoleIds /\ q.body \in Role /\ q.base \in Role /\ roles[q.id] \in Role
      BY <3>1 DEF RoleRequest, RoleInHand
    <3>3. row \in Role
      BY <3>2, SavedRoleType
    <3>4. \/ roles' = roles
          \/ ~NameTaken(q.id, row.name) /\ roles' = [roles EXCEPT ![q.id] = row]
      BY <2>4 DEF RoleWrite
    <3>5. QED
      BY <1>2, <2>2, <3>2, <3>3, <3>4 DEF RoleNamesUnique
  <2>5. CASE UNCHANGED roles
    BY <1>2, <2>5 DEF RoleNamesUnique
  <2>6. ASSUME Console PROVE \/ UNCHANGED roles
                             \/ \E c \in Clients, r \in RoleIds, body \in RoleBodies :
                                  CreateRole(c, r, body)
    BY <2>6 DEF Console, Logout, StartLogin, StartRefresh, StartUpdate, Invite,
       StartSaveRole
  <2>7. ASSUME NEW s \in Slots, Handler(s) \/ RequestFails(s) PROVE UNCHANGED roles
    BY <2>7 DEF Handler, LoginFind, RefreshFind, UpdateFind, SaveLoad, SaveWrite,
       ResolveRoles, SignAndRespond, RequestFails
  <2>8. QED
    BY <1>2, <2>3, <2>4, <2>5, <2>6, <2>7 DEF Next, Work, Tick, Restart, vars,
       RoleHandler, RoleLoad, RoleRequestFails
<1>3. QED
  BY <1>1, <1>2, TInvAlways, PTL DEF Spec

\* A saveRole leaves its whole body in the row, or nothing because the name is
\* another role's; a column it does not leave was changed by another save
\* between its SELECT and its UPDATE (admins.service.ts:79-81).
THEOREM SavedRolesLandWhole == RaceSpec => RolesLandWhole
<1>1. ASSUME TInv, RaceInv, RoleNamesUnique, NEW t \in RoleSlots, RoleWrite(t)
      PROVE  \/ NameTaken(roleReq[t].id, roleReq[t].body.name) /\ UNCHANGED roles
             \/ \A col \in RoleColumns :
                  \/ roles'[roleReq[t].id][col] = roleReq[t].body[col]
                  \/ col \in roleAfter[t]
  <2> DEFINE q == roleReq[t]
             row == SavedRole(roles[q.id], q.body, q.base)
  <2>1. q \in RoleRequest /\ RoleInHand(q) /\ RoleStands(t) /\ RoleRace(t)
    BY <1>1 DEF RoleWrite, RoleStands, TInv, StateOK, HandlersOK, RaceInv
  <2>2. q.id \in RoleIds /\ roles[q.id] # None /\ roles \in [RoleIds -> Role \cup {None}]
    BY <1>1, <2>1, NoneAssumption DEF RoleRequest, RoleInHand, TInv, StateOK
  <2>3. \A col \in RoleColumns :
          row[col] = SavedColumn(roles[q.id][col], q.body[col], q.base[col])
    BY SavedRoleColumns
  <2>4. CASE NameTaken(q.id, row.name)
    <3>1. roles' = roles
      BY <1>1, <2>4 DEF RoleWrite
    <3>2. row.name # roles[q.id].name
      BY <1>1, <2>2, <2>4 DEF NameTaken, RoleNamesUnique
    <3>3. row.name = q.body.name
      BY <3>2 DEF SavedRole, SavedColumn
    <3>4. QED
      BY <2>4, <3>1, <3>3
  <2>5. CASE ~NameTaken(q.id, row.name)
    <3>1. roles'[q.id] = row
      BY <1>1, <2>2, <2>5 DEF RoleWrite
    <3>2. Agree(RoleColumns, q.base, roles[q.id], roleAfter[t])
      BY <2>1 DEF RoleRace
    <3>3. QED
      BY <2>3, <3>1, <3>2 DEF SavedColumn, Agree
  <2>6. QED
    BY <2>4, <2>5
<1>2. TInv /\ RaceInv /\ RoleNamesUnique /\ [RaceNext]_allVars =>
        [\A t \in RoleSlots : RoleWrite(t) =>
           LET q == roleReq[t] IN
             \/ NameTaken(q.id, q.body.name) /\ UNCHANGED roles
             \/ \A col \in RoleColumns :
                  roles'[q.id][col] = q.body[col] \/ col \in roleAfter[t]]_allVars
  BY <1>1
<1>3. QED
  BY <1>2, RaceIsSpec, TInvAlways, RaceInvHolds, RoleNamesStayUnique, PTL
     DEF RaceSpec, RolesLandWhole
=============================================================================
