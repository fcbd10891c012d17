\* One account managing itself from two consoles: revocation by its row and
\* by its role against logins and refreshes in flight.
SPECIFICATION Spec
SYMMETRY Interchangeable
CONSTANTS
  None = None
  Keep = Keep
  ann = ann
  bob = bob
  ops = ops
  audit = audit
  opsRole = opsRole
  Manage = Manage
  audit_read = audit_read
  Admins = {ann}
  RoleIds = {opsRole}
  RoleNames = {ops}
  Permissions = {Manage}
  Clients = {c1, c2}
  Slots = {s1, s2}
  RoleSlots = {t1}
  AccessTTL = 2
  RefreshTTL = 2
  SeedRow <- OneSeed
  SeedRole <- OpsManages
  KnowsPassword = {ann}
  HasSecret = {}
  Patches <- StatusPatches
  RoleBodies <- OpsBodies
  Invitations <- NoInvitations
INVARIANTS TypeOK RevocationWindow
PROPERTIES PromiseSpec
