--------------------------- MODULE MetricsSeries ---------------------------
(* DashboardService.timeseries: bookings per day.  The range begins at a   *)
(* midnight of the service's time zone (TZ, Asia/Kolkata), the buckets and *)
(* the key of a booking are dates in UTC, which begin Offset later.        *)
EXTENDS Integers, FiniteSets, FiniteSetsExt

CONSTANTS
  Day,      \* units of time in a day
  Offset,   \* the time zone's lead over UTC, in the same units
  Days,     \* days of the series (30)
  Start,    \* the moment the model begins, in local time
  Horizon,  \* bound: the last moment
  MaxMade   \* bound: bookings

VARIABLES
  now,  \* the time, in UTC
  made  \* the moments at which bookings were made (one at each at most)

vars == <<now, made>>

Midnight(t) == t - (t % Day)        \* of UTC
UtcDate(t) == t \div Day            \* toISOString().slice(0, 10)
-----------------------------------------------------------------------------
Init == now = Start - Offset /\ made = {}

Tick ==
  /\ now < Horizon
  /\ now' = now + 1
  /\ UNCHANGED made

Book ==
  /\ now \notin made
  /\ Cardinality(made) < MaxMade
  /\ made' = made \cup {now}
  /\ UNCHANGED now

Next == Tick \/ Book

Spec == Init /\ [][Next]_vars
-----------------------------------------------------------------------------
\* Fault: midnight of UTC instead of the time zone's.
UtcSince(t) == Midnight(t - (Days - 1) * Day)

\* since.setHours(0, 0, 0, 0) on the moment Days - 1 days ago: the midnight
\* of the time zone, in UTC.
Since(t) == Midnight(t - (Days - 1) * Day + Offset) - Offset

\* One bucket for each day from `since` on.
Buckets(t) == {UtcDate(Since(t) + i * Day) : i \in 0..(Days - 1)}

\* The answer: bookings since `since`, each in the bucket of its date.
Series(t) ==
  [d \in Buckets(t) |-> Cardinality({b \in made : b >= Since(t) /\ UtcDate(b) = d})]

Total(t) == MapThenSumSet(LAMBDA d : Series(t)[d], Buckets(t))
-----------------------------------------------------------------------------
\* The series has a point for each of its days; it counts every booking of the
\* whole local days before today once, and no booking from before them
\* (dashboard.service.ts:167-200).  How much of today it counts is left open:
\* today's bookings drop out when the day begins in UTC.
WholeDaysAreCounted ==
  LET today == Midnight(now + Offset) - Offset
      since == {b \in made : b >= today - (Days - 1) * Day}
  IN /\ Cardinality(Buckets(now)) = Days
     /\ Total(now) \in Cardinality({b \in since : b < today})..Cardinality(since)
=============================================================================
