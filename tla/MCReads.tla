------------------------------ MODULE MCReads ------------------------------
(* The read side's modules in one run.  They have nothing to do with each  *)
(* other: `part` says which of them a behaviour is about, and the others'  *)
(* variables stay unset.                                                   *)
EXTENDS Integers, Sequences, FiniteSets

CONSTANTS
  None,
  Bookings,                           \* BookingProjection
  Owners, ChunkSize, MaxHeld,         \* HostDirectory
  MaxRows, Stamps, Limit, MaxChanges, \* PagedList; Limit of AuditTrail too
  Day, Offset, Days, Start, Horizon, MaxMade, \* MetricsSeries
  Names, Colons, Existing, Admins, MaxMutations, \* AuditTrail
  Users, Listings, MaxShown, MaxTables, \* JoinedRows
  Entries, MaxEvents,                 \* OverviewCounts
  Payments, Payouts, Payees, Amounts  \* MoneyViews

ASSUME BoundsAssumption ==
  /\ IsFiniteSet(Owners) /\ IsFiniteSet(Entries) /\ ChunkSize \in Nat \ {0} /\ MaxHeld \in Nat
  /\ Limit \in Nat \ {0} /\ {MaxRows, MaxChanges} \subseteq Nat
  /\ Stamps \subseteq Int /\ None \notin Stamps
  /\ {Day, Days} \subseteq Nat \ {0} /\ Offset \in 0..(Day - 1)
  /\ {Start, Horizon, MaxMade} \subseteq Nat /\ Days * Day < Start
  /\ {MaxMutations, MaxShown, MaxTables, MaxEvents} \subseteq Nat
  /\ Colons \cup Existing \subseteq Names /\ None \notin Names \cup Users \cup Listings
  /\ Amounts \subseteq Nat \ {0} /\ IsFiniteSet(Payments) /\ IsFiniteSet(Payouts)
  /\ Owners # {}

VARIABLES part,
  bookings,
  kyc, request, held, failed,
  table, query, page, got, entered, left, stayed,
  now, made,
  pending, log, clock, walk,
  names, seen,
  rows, added, changed,
  payments, payouts

Projection == INSTANCE BookingProjection
Hosts == INSTANCE HostDirectory
List == INSTANCE PagedList
Metrics == INSTANCE MetricsSeries
Routes == INSTANCE AdminRoutes

\* No value is none of the values that are compared with it.
ASSUME NoneAssumption ==
  None \notin Hosts!Records \cup Hosts!Shown \cup {"owner", "payment", "later", "test"}

\* An admin who may look at everything and one who may do everything.
Granted == [a \in Admins |-> IF a = 1 THEN Routes!ReadPermissions ELSE Routes!AllPermissions]

Trail == INSTANCE AuditTrail

\* No identity reads `reply`: the update of a support thread of that name would
\* leave the row of a reply.  The words of the routes have no colon.
ASSUME NameAssumption ==
  /\ "reply" \notin Names
  /\ \A r \in Trail!ToSet(Trail!Routes) :
       Trail!ToSet(r.path) \cap Colons \subseteq Trail!Parameters

Joins == INSTANCE JoinedRows

\* ... nor is it a lookup of names.
ASSUME NoLookupAssumption == \A S \in SUBSET (Users \cup Listings) : None \notin [S -> Nat]

Counts == INSTANCE OverviewCounts

\* ... nor an entry or a number of an overview.
ASSUME NoCountAssumption ==
  None \notin [status: UNION {Counts!Statuses[t] : t \in DOMAIN Counts!Statuses}, age: Nat] \cup Nat

Money == INSTANCE MoneyViews

hostsVars == <<kyc, held, failed>>
walkVars == <<query, page, entered, left, stayed>>
metricsVars == <<now, made>>
trailVars == <<pending, log, clock, walk>>
joinVars == <<names, seen>>
countVars == <<rows, added, changed>>
moneyVars == <<payments, payouts>>

NoProjection == bookings = None
NoHosts == kyc = None /\ held = None /\ failed = None
NoRequest == request = None        \* of HostDirectory or JoinedRows
NoTable == table = None /\ got = None \* of PagedList or OverviewCounts
NoWalk == query = None /\ page = None /\ entered = None /\ left = None /\ stayed = None
NoMetrics == now = None /\ made = None
NoTrail == pending = None /\ log = None /\ clock = None /\ walk = None
NoJoins == names = None /\ seen = None
NoCounts == rows = None /\ added = None /\ changed = None
NoMoney == payments = None /\ payouts = None

Init ==
  \/ /\ part = "bookings" /\ Projection!Init
     /\ NoHosts /\ NoRequest /\ NoTable /\ NoWalk /\ NoMetrics
     /\ NoTrail /\ NoJoins /\ NoCounts /\ NoMoney
  \/ /\ part = "hosts" /\ Hosts!Init
     /\ NoProjection /\ NoTable /\ NoWalk /\ NoMetrics /\ NoTrail
     /\ NoJoins /\ NoCounts /\ NoMoney
  \/ /\ part = "list" /\ List!Init
     /\ NoProjection /\ NoHosts /\ NoRequest /\ NoMetrics /\ NoTrail
     /\ NoJoins /\ NoCounts /\ NoMoney
  \/ /\ part = "metrics" /\ Metrics!Init
     /\ NoProjection /\ NoHosts /\ NoRequest /\ NoTable /\ NoWalk
     /\ NoTrail /\ NoJoins /\ NoCounts /\ NoMoney
  \/ /\ part = "trail" /\ Trail!Init
     /\ NoProjection /\ NoHosts /\ NoRequest /\ NoTable /\ NoWalk
     /\ NoMetrics /\ NoJoins /\ NoCounts /\ NoMoney
  \/ /\ part = "joins" /\ Joins!Init
     /\ NoProjection /\ NoHosts /\ NoTable /\ NoWalk /\ NoMetrics
     /\ NoTrail /\ NoCounts /\ NoMoney
  \/ /\ part = "counts" /\ Counts!Init
     /\ NoProjection /\ NoHosts /\ NoRequest /\ NoWalk /\ NoMetrics
     /\ NoTrail /\ NoJoins /\ NoMoney
  \/ /\ part = "money" /\ Money!Init
     /\ NoProjection /\ NoHosts /\ NoRequest /\ NoTable /\ NoWalk
     /\ NoMetrics /\ NoTrail /\ NoJoins /\ NoCounts

Next ==
  \/ /\ part = "bookings" /\ Projection!Next
     /\ UNCHANGED <<part, hostsVars, request, table, got, walkVars, metricsVars, trailVars,
                       joinVars, countVars, moneyVars>>
  \/ /\ part = "hosts" /\ Hosts!Next
     /\ UNCHANGED <<part, bookings, table, got, walkVars, metricsVars, trailVars, joinVars,
                       countVars, moneyVars>>
  \/ /\ part = "list" /\ List!Next
     /\ UNCHANGED <<part, bookings, hostsVars, request, metricsVars, trailVars, joinVars,
                       countVars, moneyVars>>
  \/ /\ part = "metrics" /\ Metrics!Next
     /\ UNCHANGED <<part, bookings, hostsVars, request, table, got, walkVars, trailVars,
                       joinVars, countVars, moneyVars>>
  \/ /\ part = "trail" /\ Trail!Next
     /\ UNCHANGED <<part, bookings, hostsVars, request, table, got, walkVars, metricsVars,
                       joinVars, countVars, moneyVars>>
  \/ /\ part = "joins" /\ Joins!Next
     /\ UNCHANGED <<part, bookings, hostsVars, table, got, walkVars, metricsVars,
                       trailVars, countVars, moneyVars>>
  \/ /\ part = "counts" /\ Counts!Next
     /\ UNCHANGED <<part, bookings, hostsVars, request, walkVars, metricsVars, trailVars,
                       joinVars, moneyVars>>
  \/ /\ part = "money" /\ Money!Next
     /\ UNCHANGED <<part, bookings, hostsVars, request, table, got, walkVars, metricsVars,
                       trailVars, joinVars, countVars>>

vars == <<part, bookings, hostsVars, request, table, got, walkVars, metricsVars, trailVars,
          joinVars, countVars, moneyVars>>

\* As in HostDirectory: a list's queries and lookups end.
HostsHandler ==
  /\ part = "hosts" /\ Hosts!Handler
  /\ UNCHANGED <<part, bookings, table, got, walkVars, metricsVars, trailVars, joinVars,
                 countVars, moneyVars>>

FairSpec == Init /\ [][Next]_vars /\ WF_vars(HostsHandler)
-----------------------------------------------------------------------------
(* The properties of the modules, each for its part.                       *)

\* A booking is shown as auto-rejected exactly when its owner never answered,
\* unless its log cannot tell (bookings.service.ts:64-83).
AutoRejectedMeansNoAnswer == part = "bookings" => Projection!AutoRejectedMeansNoAnswer
\* A logged decision keeps its time (bookings.service.ts:85-94).
LoggedDecisionsKeepTheirTime == part = "bookings" => Projection!LoggedDecisionsKeepTheirTime
\* The two statistics endpoints differ only over instant bookings, lapsed
\* payments and requests with neither log nor deadline
\* (hosts.service.ts:227-249).
StatsAgree == part = "bookings" => Projection!StatsAgree
\* No host is shown with a status it never had during the list
\* (hosts.service.ts:57-63).
NeverFalselyVerified == part = "hosts" => Hosts!NeverFalselyVerified
\* A failed lookup costs the owners of its own chunk only
\* (hosts.service.ts:134-154).
FailuresStayInTheirChunk == part = "hosts" => Hosts!FailuresStayInTheirChunk
\* A host request ends, whatever kyc-service does (hosts.service.ts:133).
EveryListEnds == part = "hosts" ~> part = "hosts" /\ request.pc \in Hosts!Ended
\* A walk misses a row at most for each departure (paginate.ts:66-68).
MissedOnlyByDepartures == part = "list" => List!MissedOnlyByDepartures
\* A walk repeats a row at most for each arrival (paginate.ts:66-68).
RepeatedOnlyByArrivals == part = "list" => List!RepeatedOnlyByArrivals
\* The pages of a settled list are that list in order (paginate.ts:49-63).
SettledWalkIsTheList == part = "list" => List!SettledWalkIsTheList
\* The daily series counts the whole local days before today, each booking
\* once (dashboard.service.ts:167-200).
WholeDaysAreCounted == part = "metrics" => Metrics!WholeDaysAreCounted
\* A walk through the history of an object shows what was done to it
\* (audit.interceptor.ts:50-64, audit.service.ts:41-65).
ObjectHistoryIsTold == part = "trail" => Trail!ObjectHistoryIsTold
\* A row of the audit log is of an admin who may change something, and of an
\* object there is where the handler looks (permissions.guard.ts:16-32).
RowsAreEarned == part = "trail" => Trail!RowsAreEarned
\* The names in an answer held together at one moment
\* (bookings.service.ts:136-151 and its like in four other services).
NamesHeldTogether == part = "joins" => Joins!NamesHeldTogether
\* The numbers of an overview fit together but for what came in meanwhile
\* (dashboard.service.ts:88-130).
CountsNest == part = "counts" => Counts!CountsNest
\* The endpoints agree on refunds, payouts, earnings, backlog and GMV
\* (payments.service.ts:41-126, payouts.service.ts:30-68).
MoneyAgrees == part = "money" => Money!MoneyAgrees
=============================================================================
