\* Does every error envelope carry a requestId?
SPECIFICATION Spec
CONSTANTS
  None = None
  ann = ann
  bob = bob
  write = write
  audit_read = audit_read
  Adjust = Adjust
  Capped = Capped
  x1 = x1
  Permissions = {write, audit_read, Adjust, Capped}
  Requests = {r1}
  Routes <- AllRoutes
  Credentials <- Team
  HeaderIds = {x1}
INVARIANTS ErrorsCarryRequestId
