------------------------- MODULE RevocationPromise -------------------------
(* What the sessions of the admin service promise about permissions, with  *)
(* no tables, handlers or cookies: permissions come and go, a token is     *)
(* issued only with permissions its account has, and it lives AccessTTL.   *)
EXTENDS Naturals

CONSTANTS Admins, Permissions, Clients, AccessTTL, None

VARIABLES
  held,    \* the permissions each account has
  bearer,  \* the access token each client holds, or None
  lapse    \* ticks since the account last had the permission

vars == <<held, bearer, lapse>>

Token == [sub: Admins, perms: SUBSET Permissions, left: 1..AccessTTL]

Later(n, ticks) == IF n + ticks > AccessTTL THEN AccessTTL ELSE n + ticks

\* Permissions may be granted and withdrawn in any step; lapse starts anew
\* from 0 whenever a permission is held.
HeldChanges(ticks) ==
  /\ held' \in [Admins -> SUBSET Permissions]
  /\ lapse' = [a \in Admins |-> [p \in Permissions |->
                 IF p \in held'[a] THEN 0 ELSE Later(lapse[a][p], ticks)]]

Init ==
  /\ held \in [Admins -> SUBSET Permissions]
  /\ bearer = [c \in Clients |-> None]
  /\ lapse = [a \in Admins |-> [p \in Permissions |->
                IF p \in held[a] THEN 0 ELSE AccessTTL]]

Regrant == HeldChanges(0) /\ UNCHANGED bearer

Issue(c, a, perms) ==
  /\ perms \subseteq held[a]
  /\ bearer' = [bearer EXCEPT ![c] =
                  [sub |-> a, perms |-> perms, left |-> AccessTTL]]
  /\ HeldChanges(0)

Aged(token) ==
  IF token = None \/ token.left = 1 THEN None
  ELSE [token EXCEPT !.left = @ - 1]

Tick ==
  /\ bearer' = [c \in Clients |-> Aged(bearer[c])]
  /\ HeldChanges(1)

Next ==
  \/ Regrant
  \/ \E c \in Clients, a \in Admins, perms \in SUBSET Permissions :
       Issue(c, a, perms)
  \/ Tick

Spec == Init /\ [][Next]_vars
=============================================================================
