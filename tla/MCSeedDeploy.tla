---------------------------- MODULE MCSeedDeploy ----------------------------
(* Small instances of SeedDeploy for TLC.                                  *)
EXTENDS SeedDeploy

CONSTANTS ops, custom, manage, read

TwoRoles == <<[name |-> SuperAdmin, perms |-> {manage, read}],
              [name |-> ops, perms |-> {read}]>>

Nothing == [id \in RoleIds |-> None]
\* An empty database, and one whose admins were there before the roles.
FreshTables == {[migrated |-> FALSE, roles |-> Nothing, admin |-> None],
                [migrated |-> TRUE, roles |-> Nothing,
                 admin |-> [status |-> "active", roles |-> {}]]}

\* An edit that takes a permission away, and one that renames a role.
SomeRoleEdits == {[name |-> ops, perms |-> {}], [name |-> custom, perms |-> {read}]}
SomeAdminEdits == {[status |-> "disabled", roles |-> {SuperAdmin}],
                   [status |-> "active", roles |-> {}]}
=============================================================================
