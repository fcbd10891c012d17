\* A manager who invites, creates roles and changes them beside a second
\* account without the permission.
SPECIFICATION RaceSpec
SYMMETRY Interchangeable
CONSTANTS
  None = None
  Keep = Keep
  ann = ann
  bob = bob
  ops = ops
  audit = audit
  opsRole = opsRole
  Manage = Manage
  audit_read = audit_read
  Admins = {ann, bob}
  RoleIds = {opsRole, r2}
  RoleNames = {ops, audit}
  Permissions = {Manage}
  Clients = {c1}
  Slots = {s1}
  RoleSlots = {t1, t2}
  AccessTTL = 1
  RefreshTTL = 1
  SeedRow <- AnnSeed
  SeedRole <- OpsManages
  KnowsPassword = {ann}
  HasSecret = {}
  Patches <- NoPatches
  RoleBodies <- TeamBodies
  Invitations <- TeamInvitations
PROPERTIES RolesLandWhole
