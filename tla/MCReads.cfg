\* Two bookings, three owners in two chunks, a list of up to three rows in
\* pages of one with two changes on the way, three days of four units with a
\* time zone one unit ahead; two mutations of every kind for an identity with
\* and one without a colon; answers of two rows over three users; two events
\* during an overview of three rows; two payments and two payouts, with an
\* amount of half a paisa.  What has ended has no next step.
SPECIFICATION FairSpec
CONSTANTS
  None = None
  Bookings = {b1, b2}
  Owners = {o1, o2, o3}
  ChunkSize = 2
  MaxHeld = 2
  MaxRows = 3
  Stamps = {1, 2}
  Limit = 1
  MaxChanges = 2
  Day = 4
  Offset = 1
  Days = 3
  Start = 14
  Horizon = 30
  MaxMade = 3
  Names = {n1, c1}
  Colons = {c1}
  Existing = {n1}
  Admins = {1, 2}
  MaxMutations = 2
  Users = {u1, u2}
  Listings = {l1}
  MaxShown = 2
  MaxTables = 3
  Entries = {r1, r2}
  MaxEvents = 3
  Payments = {p1, p2}
  Payouts = {q1, q2}
  Payees = {h1, h2}
  Amounts = {5, 20}
INVARIANTS
  AutoRejectedMeansNoAnswer
  LoggedDecisionsKeepTheirTime
  StatsAgree
  NeverFalselyVerified
  FailuresStayInTheirChunk
  MissedOnlyByDepartures
  RepeatedOnlyByArrivals
  SettledWalkIsTheList
  WholeDaysAreCounted
  ObjectHistoryIsTold
  RowsAreEarned
  NamesHeldTogether
  CountsNest
  MoneyAgrees
PROPERTY EveryListEnds
CHECK_DEADLOCK FALSE
