\* Two decisions, a retry or a contradiction of each other, about a listing
\* whose service guards its transitions, an owner whose service does not, one
\* whose service is not configured, and one whose base URL does not parse.
SPECIFICATION Spec
CONSTANTS
  None = None
  listing = listing
  owner = owner
  elsewhere = elsewhere
  astray = astray
  Calls = {c1, c2}
  Targets = {listing, owner, elsewhere, astray}
  Listings = {listing}
  Guarded = {listing}
  Configured = {listing, owner, astray}
  Misspelt = {astray}
INVARIANTS TypeOK SuccessMeansCarriedOut RefusalIsFinal SuccessStands
