-------------------------- MODULE OverlappingSaves --------------------------
(* AdminSessions with the history of what overlaps a save().  login,       *)
(* updateAdmin and saveRole each read a row with findOne, change it in     *)
(* memory and hand it to save(), which reads the row again and writes the  *)
(* columns that differ.  Another request can write the row in either gap:  *)
(* between findOne and save()'s SELECT, and between SELECT and UPDATE.     *)
EXTENDS AdminSessions

VARIABLES
  before,     \* per slot: the columns of its account that other requests
              \* changed between its findOne and its save()'s SELECT
  after,      \* per slot: those changed since its save()'s SELECT
  roleAfter   \* per role slot: the columns of its role changed since then

raceVars == <<before, after, roleAfter>>
allVars == <<vars, raceVars>>

Columns == {"status", "roles", "totp"}
RoleColumns == {"name", "perms"}

\* The columns of a stored row that this step changes.
ChangedNow(a) == {col \in Columns : admins[a] # None /\ admins'[a][col] # admins[a][col]}
RoleChangedNow(r) == {col \in RoleColumns : roles[r] # None /\ roles'[r][col] # roles[r][col]}

\* A request on its way to save() stands before the SELECT, or before the
\* UPDATE.  (The pc of a refresh is neither.)
Stands(s, pc) == req[s] # None /\ req[s].pc = pc
RoleStands(t) == roleReq[t] # None /\ roleReq[t].pc = "write"

Remember ==
  /\ before' = [s \in Slots |->
       IF Stands(s, "load")' THEN before[s] \cup ChangedNow(req'[s].sub)
       ELSE IF Stands(s, "write")' THEN before[s] ELSE {}]
  /\ after' = [s \in Slots |->
       IF Stands(s, "write")' THEN after[s] \cup ChangedNow(req'[s].sub) ELSE {}]
  /\ roleAfter' = [t \in RoleSlots |->
       IF RoleStands(t)' THEN roleAfter[t] \cup RoleChangedNow(roleReq'[t].id) ELSE {}]

RaceInit ==
  /\ Init
  /\ before = [s \in Slots |-> {}]
  /\ after = [s \in Slots |-> {}]
  /\ roleAfter = [t \in RoleSlots |-> {}]

RaceNext == Next /\ Remember

RaceSpec == RaceInit /\ [][RaceNext]_allVars
FairRaceSpec == RaceSpec /\ Fairness
-----------------------------------------------------------------------------
\* The body of the request names the column.
Names(q, col) == q.op = "update" /\ q.patch[col] # Keep

\* What one request did to an account is undone by a request that does not
\* name the column only if that one had read the account before, and reaches
\* the SELECT of its save() afterwards; what it puts back is what it had read.
\* So a login (auth.service.ts:58) or an update of other columns
\* (admins.service.ts:68) that finds an account disabled leaves it disabled,
\* and so does one whose SELECT came before the disabling UPDATE; one that
\* read it in time and is overtaken before its SELECT makes it active again.
UndoNeedsAnOverlap ==
  [][\A a \in Admins, col \in Columns :
       admins[a] # None /\ admins'[a][col] # admins[a][col] =>
         \E s \in Slots : /\ Stands(s, "write") /\ req[s].sub = a
                          /\ admins'[a][col] = req[s].ent[col]
                          /\ Names(req[s], col) \/ col \in before[s]]_allVars

\* An update that is answered has left what its body names in the row, or else
\* another request changed that column between its SELECT, which found the
\* wanted value there already, and its UPDATE, which left it out
\* (admins.service.ts:65-68).
PatchesLand ==
  [][\A s \in Slots : SaveWrite(s) =>
       \A col \in Columns : Names(req[s], col) =>
         \/ admins'[req[s].sub][col] = req[s].patch[col]
         \/ col \in after[s]]_allVars

\* A saveRole leaves the name and the permissions of its body in the row, both
\* of them, or nothing at all because the name belongs to another role
\* (admins.service.ts:79-81); a name of one body beside the permissions of
\* another needs a second save between SELECT and UPDATE of the first.
RolesLandWhole ==
  [][\A t \in RoleSlots : RoleWrite(t) =>
       LET q == roleReq[t] IN
         \/ NameTaken(q.id, q.body.name) /\ UNCHANGED roles
         \/ \A col \in RoleColumns :
              roles'[q.id][col] = q.body[col] \/ col \in roleAfter[t]]_allVars
=============================================================================
