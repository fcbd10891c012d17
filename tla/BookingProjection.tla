------------------------- MODULE BookingProjection -------------------------
(* How BookingsService and HostsService read the bookings table of the     *)
(* booking service: the status a booking is shown with, when it was        *)
(* decided, and an owner's approval statistics.                            *)
(*                                                                         *)
(* The life of a booking is the booking service's (external).  Its columns *)
(* do not say which of two transitions led to `expired`; status_timeline   *)
(* does, for bookings that were made after it was introduced.              *)
EXTENDS Integers, Sequences, FiniteSets

CONSTANTS Bookings, None

VARIABLES
  bookings  \* per booking: [status, instant, deadline, timeline, touched, cause, full]

(* `deadline` is whether owner_response_deadline or auto_reject_at is set,  *)
(* `timeline` the log of statuses, `touched` whether the row was updated    *)
(* after its last transition; `cause` (why it expired) and `full` (whether  *)
(* every transition was logged) are history.                                *)

Terminal == {"completed", "cancelled", "rejected", "expired"}
Statuses == Terminal \cup {"pending", "pending_payment", "confirmed", "active"}

Approved == {"confirmed", "active", "completed"}
-----------------------------------------------------------------------------
(* The booking service.                                                    *)

\* Moves of a booking: an instant one starts with its payment, a
\* request-to-book waits for the owner and then for the payment.
Moves(status) ==
  CASE status = "pending"         -> {"pending_payment", "rejected", "cancelled", "expired"}
    [] status = "pending_payment" -> {"confirmed", "cancelled", "expired"}
    [] status = "confirmed"       -> {"active", "cancelled"}
    [] status = "active"          -> {"completed"}
    [] OTHER                      -> {}

\* The transition, logged once the service keeps a timeline.
Move(b, status, logged) ==
  /\ status \in Moves(bookings[b].status)
  /\ bookings[b].timeline # <<>> => logged
  /\ bookings' = [bookings EXCEPT
       ![b].status = status,
       ![b].timeline = IF logged THEN Append(@, status) ELSE @,
       ![b].full = @ /\ logged,
       ![b].touched = FALSE,
       ![b].cause = IF status = "expired"
                    THEN IF bookings[b].status = "pending" THEN "owner" ELSE "payment"
                    ELSE @]

\* Only a request-to-book ever carries a deadline; it need not.
MayCarry(instant, deadline) == deadline => ~instant

\* Any other update of the row, which may set or clear the deadline, moves
\* updated_at.
Touch(b, deadline) ==
  /\ MayCarry(bookings[b].instant, deadline)
  /\ bookings' = [bookings EXCEPT ![b].touched = TRUE, ![b].deadline = deadline]

\* A new row, its first status logged or not.
Row(instant, deadline, logged) ==
  LET status == IF instant THEN "pending_payment" ELSE "pending"
  IN [status |-> status, instant |-> instant, deadline |-> deadline,
      timeline |-> IF logged THEN <<status>> ELSE <<>>,
      touched |-> FALSE, cause |-> None, full |-> TRUE]

Init ==
  \E instant, deadline, logged \in [Bookings -> BOOLEAN] :
    /\ \A b \in Bookings : MayCarry(instant[b], deadline[b])
    /\ bookings = [b \in Bookings |-> Row(instant[b], deadline[b], logged[b])]

Next ==
  \E b \in Bookings :
    \/ \E status \in Statuses, logged \in BOOLEAN : Move(b, status, logged)
    \/ \E deadline \in BOOLEAN : Touch(b, deadline)

Spec == Init /\ [][Next]_bookings
-----------------------------------------------------------------------------
(* The admin service.                                                      *)

\* Boolean(owner_response_deadline ?? auto_reject_at), of two nullable columns.
HasDeadline(b) == bookings[b].deadline

\* Fault: the entry before the expiry is not looked at.
EveryExpiry(b) == bookings[b].status = "expired" /\ ~bookings[b].instant

\* Fault: the log alone is asked.
NonResponseFromLog(b) ==
  /\ bookings[b].status = "expired"
  /\ \E i \in DOMAIN bookings[b].timeline : bookings[b].timeline[i] = "pending"

\* isOwnerNonResponse: the entry before the first `expired`, or the shape of
\* the row when there is none.
IsOwnerNonResponse(b) ==
  LET log == bookings[b].timeline
      expiries == {i \in DOMAIN log : log[i] = "expired"}
      first == CHOOSE i \in expiries : \A j \in expiries : i <= j
  IN /\ bookings[b].status = "expired"
     /\ IF expiries # {} /\ first > 1
        THEN log[first - 1] = "pending"
        ELSE ~bookings[b].instant /\ HasDeadline(b)

\* adminStatus.
AdminStatus(b) ==
  IF bookings[b].status = "pending" /\ ~bookings[b].instant THEN "pending_owner_approval"
  ELSE IF IsOwnerNonResponse(b) THEN "auto_rejected"
  ELSE bookings[b].status

\* Fault: the decision is looked for in updated_at alone.
DecidedAtUpdate(b) ==
  IF bookings[b].status \notin Terminal THEN None
  ELSE IF bookings[b].touched THEN "later" ELSE "decision"

\* decidedAt: the log entry of the terminal status, else updated_at, which is
\* the moment of the decision or a later one.
DecidedAt(b) ==
  IF bookings[b].status \notin Terminal THEN None
  ELSE IF \E i \in DOMAIN bookings[b].timeline :
            bookings[b].timeline[i] = bookings[b].status THEN "decision"
  ELSE IF bookings[b].touched THEN "later" ELSE "decision"

\* Math.round(part / whole * 1000): the rate in tenths of a percent.
Rate(part, whole) ==
  IF whole = 0 THEN 0 ELSE (2 * part * 1000 + whole) \div (2 * whole)

\* The counts over a set of bookings, `auto` those of them that count as
\* rejected for want of an answer.
Stats(set, auto) ==
  LET In(statuses) == Cardinality({b \in set : bookings[b].status \in statuses})
      approved == In(Approved)
      refused == In({"rejected"}) + Cardinality(auto)
  IN [pending |-> In({"pending"}), approved |-> approved, rejected |-> In({"rejected"}),
      auto |-> Cardinality(auto), rate |-> Rate(refused, approved + refused)]

\* BookingsService.ownerApprovalStats: request-to-book bookings only.
OwnerApprovalStats ==
  LET asked == {b \in Bookings : ~bookings[b].instant}
  IN Stats(asked, {b \in asked : IsOwnerNonResponse(b)})

\* HostsService.approvalStats: all bookings, and every expiry.
HostApprovalStats ==
  Stats(Bookings, {b \in Bookings : bookings[b].status = "expired"})
-----------------------------------------------------------------------------
\* Whether the log has an entry before the one of the expiry.
Unlogged(b) == Len(bookings[b].timeline) < 2

\* A booking is shown as auto-rejected when, and only when, its owner never
\* answered, but for two kinds of request-to-book whose log has nothing before
\* the expiry: one with a deadline that was approved and lapsed on payment is
\* taken for unanswered, and one without a deadline that was never answered is
\* not (bookings.service.ts:64-83).
AutoRejectedMeansNoAnswer ==
  \A b \in Bookings :
    (AdminStatus(b) = "auto_rejected") # (bookings[b].cause = "owner") =>
      /\ ~bookings[b].instant /\ Unlogged(b)
      /\ bookings[b].cause = IF bookings[b].deadline THEN "payment" ELSE "owner"

\* A decision that was logged keeps its time, whatever updates the row later
\* (bookings.service.ts:85-94).
LoggedDecisionsKeepTheirTime ==
  \A b \in Bookings : bookings[b].full => DecidedAt(b) # "later"

\* The two endpoints for the same owner differ only over instant bookings,
\* over requests whose payment lapsed, and over unanswered requests that have
\* neither a log nor a deadline (bookings.service.ts:187-212,
\* hosts.service.ts:227-249).
StatsAgree ==
  (\A b \in Bookings :
     /\ ~bookings[b].instant /\ bookings[b].cause # "payment"
     /\ bookings[b].cause = "owner" => ~Unlogged(b) \/ bookings[b].deadline) =>
    OwnerApprovalStats = HostApprovalStats
=============================================================================
