\* Are the default roles seeded on the first run only?
SPECIFICATION FairSpec
CONSTANTS
  None = None
  SuperAdmin = SuperAdmin
  ops = ops
  custom = custom
  manage = manage
  read = read
  Instances = {i1}
  RoleIds = {1, 2, 3}
  RoleNames = {SuperAdmin, ops, custom}
  Permissions = {manage, read}
  DefaultRoles <- TwoRoles
  Tables <- FreshTables
  RoleEdits <- SomeRoleEdits
  AdminEdits <- SomeAdminEdits
  MaxRetries = 4
  MaxEdits = 1
  MaxCrashes = 0
PROPERTIES StoredRolesAreLeftAlone
