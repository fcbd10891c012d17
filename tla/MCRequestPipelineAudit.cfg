\* Is every successful mutation audited?
SPECIFICATION FairSpec
CONSTANTS
  None = None
  ann = ann
  bob = bob
  write = write
  audit_read = audit_read
  Adjust = Adjust
  Capped = Capped
  x1 = x1
  Permissions = {write, audit_read, Adjust, Capped}
  Requests = {r1}
  Routes <- FewRoutes
  Credentials <- AnnOnly
  HeaderIds = {}
PROPERTIES SuccessIsAudited
