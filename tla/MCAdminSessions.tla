-------------------------- MODULE MCAdminSessions --------------------------
(* Small instances of AdminSessions for TLC.                               *)
EXTENDS AdminSessions, TLC

CONSTANTS ann, bob, opsRole, ops, audit, audit_read

Nobody == [status |-> Keep, roles |-> Keep, totp |-> Keep]
Disable == [Nobody EXCEPT !.status = "disabled"]
Enable == [Nobody EXCEPT !.status = "active"]
Strip == [Nobody EXCEPT !.roles = {}]

Holds(names) == [status |-> "active", roles |-> names, totp |-> FALSE]

\* One account that manages itself: the smallest system in which a revocation
\* races the sessions of the account revoked.
OneSeed == [a \in Admins |-> Holds({ops})]
\* ann is seeded, bob not invited yet.
AnnSeed == [a \in Admins |-> IF a = ann THEN Holds({ops}) ELSE None]

OpsManages == [r \in RoleIds |-> IF r = opsRole
                                 THEN [name |-> ops, perms |-> {Manage}]
                                 ELSE None]

StatusPatches == {Disable, Enable}
\* Bodies that set one column, and one that sets two.
AllPatches == {Disable, Enable, [Strip EXCEPT !.totp = TRUE]}
OpsBodies == {[name |-> ops, perms |-> {}], [name |-> ops, perms |-> {Manage}]}
\* Two names and, for one of them, two sets of permissions.
TeamBodies == {[name |-> ops, perms |-> {Manage}],
               [name |-> audit, perms |-> {}], [name |-> audit, perms |-> {Manage}]}
TeamInvitations == {{audit}}
NoBodies == {}
NoPatches == {}
NoInvitations == {}

Interchangeable ==
  Permutations(Clients) \cup Permutations(Slots) \cup Permutations(RoleSlots)
=============================================================================
