\* Two handlers saving the same account, all three columns patched: what a
\* save() of a stale copy can undo or lose, and that a disabled account loses
\* every session under fairness.
SPECIFICATION FairRaceSpec
CONSTANTS
  None = None
  Keep = Keep
  ann = ann
  bob = bob
  ops = ops
  audit = audit
  opsRole = opsRole
  Manage = Manage
  audit_read = audit_read
  Admins = {ann}
  RoleIds = {opsRole}
  RoleNames = {ops}
  Permissions = {Manage}
  Clients = {c1}
  Slots = {s1, s2}
  RoleSlots = {}
  AccessTTL = 1
  RefreshTTL = 2
  SeedRow <- OneSeed
  SeedRole <- OpsManages
  KnowsPassword = {ann}
  HasSecret = {ann}
  Patches <- AllPatches
  RoleBodies <- NoBodies
  Invitations <- NoInvitations
PROPERTIES UndoNeedsAnOverlap PatchesLand DisabledEndsPowerless
