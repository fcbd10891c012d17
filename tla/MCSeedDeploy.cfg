\* Two overlapping deploys, a crash and an edit at any step.
SPECIFICATION FairSpec
CONSTANTS
  None = None
  SuperAdmin = SuperAdmin
  ops = ops
  custom = custom
  manage = manage
  read = read
  Instances = {i1, i2}
  RoleIds = {1, 2, 3}
  RoleNames = {SuperAdmin, ops, custom}
  Permissions = {manage, read}
  DefaultRoles <- TwoRoles
  Tables <- FreshTables
  RoleEdits <- SomeRoleEdits
  AdminEdits <- SomeAdminEdits
  MaxRetries = 4
  MaxEdits = 1
  MaxCrashes = 1
INVARIANTS TypeOK ServingMeansSeeded CollisionsNeverGiveUp
PROPERTIES SeedIsIdempotent EveryBootEnds
