--------------------------- MODULE OverviewCounts ---------------------------
(* DashboardService.overview and queues: counts and sums that run in       *)
(* parallel, each a statement with a snapshot of its own, while the domain *)
(* services add rows and change them.  Numbers of different tables have    *)
(* nothing to do with each other: a behaviour looks at one table.          *)
EXTENDS Integers, FiniteSets

CONSTANTS
  Entries,   \* rows of the table, there from the start or added
  MaxEvents, \* bound: rows added and changed during the answer
  None       \* no value, no row

VARIABLES
  rows,    \* per row its [status, age], age in days at the start of the answer
  added,   \* rows added since the answer began (history)
  changed, \* changes of status since then (history)
  table,   \* the table looked at
  got      \* the numbers so far, None while a query runs

vars == <<rows, added, changed, table, got>>

Hosts == {"unverified host", "verified host"}

\* The rows a query counts; a sum has amount 1 for each.
Counted ==
  [gmv |-> {"captured"}, refundedPayments |-> {"refunded", "partially_refunded"},
   pendingOwnerApproval |-> {"pending"}, payoutBacklog |-> {"processing"},
   onHoldPayouts |-> {"processing"}, newHosts7d |-> Hosts, pendingKyc |-> {"unverified host"},
   activeListings |-> {"active"}]

\* created_at >= startOfToday, daysAgoDate(7), daysAgoDate(30).
Window == [bookingsToday |-> 0, bookings7d |-> 7, bookings30d |-> 30, newHosts7d |-> 7]

\* Fault: payments count once they are captured.
SelectsCaptured(query, row) ==
  /\ query \in DOMAIN Counted => row.status \in Counted[query]
  /\ query \in DOMAIN Window => row.age <= Window[query]
  /\ query = "totalPayments" => row.status = "captured"

Selects(query, row) ==
  /\ query \in DOMAIN Counted => row.status \in Counted[query]
  /\ query \in DOMAIN Window => row.age <= Window[query]

Overview ==
  [payments |-> {"gmv", "totalPayments", "refundedPayments"},
   bookings |-> {"bookingsToday", "bookings7d", "bookings30d", "pendingOwnerApproval"},
   payouts |-> {"payoutBacklog", "onHoldPayouts"},
   users |-> {"newHosts7d", "pendingKyc"},
   listings |-> {"activeListings"}]

\* What GET /metrics/queues asks for; flagged reviews and open support are 0.
Queues == {"pendingKyc", "onHoldPayouts", "pendingOwnerApproval"}

\* Math.round(refunded / total * 1000), in tenths of a percent.
RefundRate(refunded, total) ==
  IF total = 0 THEN 0 ELSE (2 * refunded * 1000 + total) \div (2 * total)
-----------------------------------------------------------------------------
(* The tables, which are the domain services'.                              *)

First == [payments |-> "created", bookings |-> "pending", payouts |-> "processing",
          users |-> "unverified host", listings |-> "draft"]

Moves(status) ==
  CASE status = "created"            -> {"captured", "failed"}
    [] status = "captured"           -> {"refunded", "partially_refunded"}
    [] status = "partially_refunded" -> {"refunded"}
    [] status = "pending"            -> {"confirmed"}
    [] status = "processing"         -> {"completed"}
    [] status = "unverified host"    -> {"verified host"}
    [] status = "draft"              -> {"active"}
    [] status = "active"             -> {"draft"}
    [] OTHER                         -> {}

Statuses ==
  [payments |-> {"created", "captured", "failed", "refunded", "partially_refunded"},
   bookings |-> {"pending", "confirmed"}, payouts |-> {"processing", "completed"},
   users |-> Hosts \cup {"seeker"}, listings |-> {"draft", "active"}]

\* Only bookings and users are counted by age.
Ages == IF table \in {"bookings", "users"} THEN {0, 7, 30, 31} ELSE {0}

Running == \E query \in DOMAIN got : got[query] = None

Init ==
  /\ table \in DOMAIN Overview
  /\ rows \in [Entries -> {None} \cup [status: Statuses[table], age: Ages]]
  /\ \E asked \in {Overview[table], Overview[table] \cap Queues} :
       got = [query \in asked |-> None]
  /\ added = 0 /\ changed = 0

Add(x) ==
  /\ Running /\ added + changed < MaxEvents
  /\ rows[x] = None
  /\ rows' = [rows EXCEPT ![x] = [status |-> First[table], age |-> 0]]
  /\ added' = added + 1
  /\ UNCHANGED <<changed, table, got>>

Move(x) ==
  /\ Running /\ added + changed < MaxEvents
  /\ rows[x] # None
  /\ \E status \in Moves(rows[x].status) : rows' = [rows EXCEPT ![x].status = status]
  /\ changed' = changed + 1
  /\ UNCHANGED <<added, table, got>>
-----------------------------------------------------------------------------
\* A statement of Promise.all ends; they end in any order.
Count(query) ==
  /\ got[query] = None
  /\ got' = [got EXCEPT
       ![query] = Cardinality({x \in Entries : rows[x] # None /\ Selects(query, rows[x])})]
  /\ UNCHANGED <<rows, added, changed, table>>

Next ==
  \/ \E x \in Entries : Add(x) \/ Move(x)
  \/ \E query \in DOMAIN got : Count(query)

Spec == Init /\ [][Next]_vars
-----------------------------------------------------------------------------
\* However the queries interleave with the tables' changes, the numbers of an
\* overview fit together but for what came in meanwhile: periods nest,
\* captured and refunded payments are part of all payments, backlog and number
\* of payouts in process agree, and without a new payment the refund rate is
\* at most 100% (dashboard.service.ts:88-130).
CountsNest ==
  ~Running /\ DOMAIN got = Overview[table] =>
    CASE table = "payments" ->
           /\ got.refundedPayments <= got.totalPayments + added
           /\ got.gmv + got.refundedPayments <= got.totalPayments + added + changed
           /\ added = 0 => RefundRate(got.refundedPayments, got.totalPayments) <= 1000
      [] table = "bookings" ->
           /\ got.bookingsToday <= got.bookings7d + added
           /\ got.bookings7d <= got.bookings30d + added
      [] table = "payouts" ->
           got.payoutBacklog - got.onHoldPayouts \in -(added + changed)..(added + changed)
      [] OTHER -> TRUE
=============================================================================
