---------------------------- MODULE AdminRoutes ----------------------------
(* The routes under /api/v1/admin as the controllers declare them, which    *)
(* of them a request reaches, who may pass, and what AuditInterceptor makes *)
(* of the path of a mutation.  A path is the sequence of its segments after *)
(* `admin`; controllers share no path, so only the order within one counts. *)
EXTENDS Sequences, SequencesExt

CONSTANTS
  Names,   \* identities in a path: uuids and flag keys
  Colons,  \* those of them with a colon
  None     \* no value

Parameters == {":id", ":key", ":hostId"}

\* A route: `needs` are its @RequirePermissions, `finds` says that the handler
\* answers 404 unless the row named by its parameter exists.
Route(method, path, needs, public, finds) ==
  [method |-> method, path |-> path, needs |-> needs, public |-> public, finds |-> finds]

Get(path, needs) == Route("GET", path, needs, FALSE, FALSE)
Change(method, path, needs) == Route(method, path, needs, FALSE, FALSE)
Finding(method, path, needs) == Route(method, path, needs, FALSE, TRUE)
Public(path) == Route("POST", path, {}, TRUE, FALSE)
-----------------------------------------------------------------------------
AuthRoutes ==
  << Public(<<"auth", "login">>), Public(<<"auth", "refresh">>), Public(<<"auth", "logout">>) >>

MeRoutes == << Get(<<"me">>, {}) >>

AuditRoutes ==
  << Get(<<"audit">>, {"audit.read"}),
     Get(<<"audit", "export">>, {"audit.read", "export.run"}),
     Get(<<"audit", ":id">>, {"audit.read"}) >>

ConfigRoutes ==
  << Get(<<"config">>, {"config.read"}),
     Change("PUT", <<"config">>, {"config.write"}),
     Get(<<"flags">>, {"config.read"}),
     Change("PATCH", <<"flags", ":key">>, {"config.write"}) >>

AdminsRoutes ==
  << Get(<<"admins">>, {"admin.read"}),
     Change("POST", <<"admins", "invite">>, {"admin.manage"}),
     Finding("PATCH", <<"admins", ":id">>, {"admin.manage"}),
     Get(<<"roles">>, {"admin.read"}),
     Change("POST", <<"roles">>, {"admin.manage"}),
     Change("PATCH", <<"roles">>, {"admin.manage"}) >>

\* The dashboard is open to every admin.
DashboardRoutes ==
  << Get(<<"metrics", "overview">>, {}), Get(<<"metrics", "queues">>, {}),
     Get(<<"metrics", "timeseries">>, {}), Get(<<"search">>, {}) >>

UsersRoutes ==
  << Get(<<"users">>, {"user.read"}),
     Get(<<"users", ":id">>, {"user.read"}),
     Get(<<"users", ":id", "bookings">>, {"user.read"}),
     Get(<<"users", ":id", "wallet">>, {"user.read"}),
     Finding("POST", <<"users", ":id", "wallet-adjust">>, {"wallet.adjust"}),
     Finding("PATCH", <<"users", ":id", "status">>, {"user.suspend"}) >>

HostsRoutes ==
  << Get(<<"hosts">>, {"host.read"}),
     Get(<<"hosts", ":id">>, {"host.read"}),
     Change("POST", <<"hosts", ":id", "kyc", "decision">>, {"host.verify"}),
     Finding("PATCH", <<"hosts", ":id", "status">>, {"host.suspend"}),
     Finding("POST", <<"hosts", ":id", "flag">>, {"host.suspend"}),
     Get(<<"hosts", ":id", "approval-stats">>, {"host.read"}) >>

ListingsRoutes ==
  << Get(<<"listings">>, {"listing.read"}),
     Get(<<"listings", ":id">>, {"listing.read"}),
     Change("POST", <<"listings", ":id", "moderate">>, {"listing.approve", "listing.takedown"}),
     Finding("PATCH", <<"listings", ":id">>, {"listing.edit"}) >>

BookingsRoutes ==
  << Get(<<"bookings">>, {"booking.read"}),
     Get(<<"bookings", ":id">>, {"booking.read"}),
     Finding("POST", <<"bookings", ":id", "cancel">>, {"booking.cancel"}),
     Finding("POST", <<"bookings", ":id", "owner-decision">>, {"booking.override"}),
     Finding("POST", <<"bookings", ":id", "extend-deadline">>, {"booking.override"}),
     Finding("POST", <<"bookings", ":id", "resolve-dispute">>, {"booking.cancel"}),
     Get(<<"owners", ":hostId", "approval-stats">>, {"booking.read"}) >>

PaymentsRoutes ==
  << Get(<<"payments">>, {"payment.read"}),
     Get(<<"refunds">>, {"payment.read"}),
     Get(<<"payments", ":id">>, {"payment.read"}),
     Change("POST", <<"payments", ":id", "refund">>, {"payment.refund"}) >>

PayoutsRoutes ==
  << Get(<<"payouts">>, {"payout.read"}),
     Change("POST", <<"payouts", "run">>, {"payout.trigger"}),
     Get(<<"payouts", ":id">>, {"payout.read"}),
     Change("POST", <<"payouts", ":id", "trigger">>, {"payout.trigger"}),
     Change("POST", <<"payouts", ":id", "hold">>, {"payout.hold"}) >>

WalletRoutes == << Change("POST", <<"wallet", "bulk-credit">>, {"wallet.adjust"}) >>

ReviewsRoutes ==
  << Get(<<"reviews">>, {"review.read"}),
     Change("POST", <<"reviews", ":id", "moderate">>, {"review.moderate"}) >>

\* Fault: whoever may read a thread may change it.
SupportRoutesForReaders ==
  << Get(<<"support", "threads">>, {"support.read"}),
     Get(<<"support", "threads", ":id", "messages">>, {"support.read"}),
     Get(<<"support", "threads", ":id">>, {"support.read"}),
     Change("POST", <<"support", "threads", ":id", "reply">>, {"support.reply"}),
     Change("PATCH", <<"support", "threads", ":id">>, {"support.read"}) >>

SupportRoutes ==
  << Get(<<"support", "threads">>, {"support.read"}),
     Get(<<"support", "threads", ":id", "messages">>, {"support.read"}),
     Get(<<"support", "threads", ":id">>, {"support.read"}),
     Change("POST", <<"support", "threads", ":id", "reply">>, {"support.reply"}),
     Change("PATCH", <<"support", "threads", ":id">>, {"support.reply"}) >>

NotificationsRoutes ==
  << Get(<<"notifications">>, {"notification.send"}),
     Change("POST", <<"notifications">>, {"notification.send"}),
     Change("POST", <<"notifications", "test">>, {"notification.send"}),
     Change("POST", <<"notifications", ":id", "send">>, {"notification.send"}) >>

\* In the order of AppModule's imports.
Routes ==
  AuthRoutes \o MeRoutes \o AuditRoutes \o ConfigRoutes \o AdminsRoutes \o DashboardRoutes
  \o UsersRoutes \o HostsRoutes \o ListingsRoutes \o BookingsRoutes \o PaymentsRoutes
  \o PayoutsRoutes \o WalletRoutes \o ReviewsRoutes \o SupportRoutes \o NotificationsRoutes

ReadPermissions ==
  {"user.read", "host.read", "listing.read", "booking.read", "payment.read", "payout.read",
   "wallet.read", "review.read", "support.read", "config.read", "admin.read", "audit.read"}

\* PERMISSIONS.
AllPermissions ==
  ReadPermissions \cup
  {"user.suspend", "user.delete", "host.verify", "host.suspend", "listing.approve",
   "listing.edit", "listing.takedown", "booking.cancel", "booking.override", "payment.refund",
   "payout.trigger", "payout.hold", "wallet.adjust", "wallet.adjust:capped", "review.moderate",
   "support.reply", "support.assign", "notification.send", "config.write", "admin.manage",
   "export.run"}
-----------------------------------------------------------------------------
(* Dispatch and the guards.                                                *)

\* The path of a request to a route for an identity.
Filled(route, name) ==
  [i \in DOMAIN route.path |-> IF route.path[i] \in Parameters THEN name ELSE route.path[i]]

Matches(route, method, path) ==
  /\ route.method = method
  /\ Len(route.path) = Len(path)
  /\ \A i \in DOMAIN path : route.path[i] \in Parameters \cup {path[i]}

\* Express takes the first route that matches.
Handler(method, path) ==
  LET routes == Routes
  IN routes[Min({i \in DOMAIN routes : Matches(routes[i], method, path)})]

HasPermission(granted, required) ==
  \/ required \in granted
  \/ required = "wallet.adjust:capped" /\ "wallet.adjust" \in granted

\* PermissionsGuard: one of the listed permissions is enough.
Authorized(granted, route) ==
  route.needs = {} \/ \E p \in route.needs : HasPermission(granted, p)
-----------------------------------------------------------------------------
(* The audit row of a mutation.                                            *)

\* resource.replace(/s$/, '')
Singular ==
  [users |-> "user", hosts |-> "host", listings |-> "listing", bookings |-> "booking",
   payments |-> "payment", payouts |-> "payout", wallet |-> "wallet", reviews |-> "review",
   support |-> "support", notifications |-> "notification", config |-> "config",
   flags |-> "flag", admins |-> "admin", roles |-> "role"]

Lowercase == [POST |-> "post", PUT |-> "put", PATCH |-> "patch"]

\* The second segment, unless it has a colon.  It is the segment of req.path,
\* with the identity written as in the parameters: not percent-encoded.
SecondSegment(path) == IF Len(path) > 1 /\ path[2] \notin Colons THEN path[2] ELSE None

Verb(method, path) == IF Len(path) > 2 THEN Last(path) ELSE Lowercase[method]

\* Fault: the identity is looked for in the path alone.
DerivedFromPath(route, path) ==
  [action |-> <<Singular[path[1]], Verb(route.method, path)>>,
   targetType |-> Singular[path[1]],
   targetId |-> SecondSegment(path)]

\* deriveTarget: the parameter named `id`, or else the second segment.
DeriveTarget(route, path) ==
  [action |-> <<Singular[path[1]], Verb(route.method, path)>>,
   targetType |-> Singular[path[1]],
   targetId |-> IF \E i \in DOMAIN path : route.path[i] = ":id"
                THEN path[CHOOSE i \in DOMAIN path : route.path[i] = ":id"]
                ELSE SecondSegment(path)]
=============================================================================
