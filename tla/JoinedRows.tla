----------------------------- MODULE JoinedRows -----------------------------
(* How the read services answer with rows of one table and names from      *)
(* another: the rows are read first, then the users or listings they refer *)
(* to, each table in one query of its own, while the domain services go    *)
(* on.  Nothing of an answer is kept for the next one.                     *)
EXTENDS Integers, FiniteSets

CONSTANTS
  Users, Listings,
  MaxShown,   \* bound: rows of an answer
  MaxTables, \* bound: changes of the names during an answer
  None       \* no value, no row

VARIABLES
  names,   \* the name of each user and the title of each listing
  seen,    \* what `names` was since the rows were read (history)
  request  \* [service, form, pc, raw, found]

vars == <<names, seen, request>>

Rows == [seeker: Users, owner: Users, listing: Listings]

\* The tables names come from, and the columns that refer to them.
References == [users |-> {"seeker", "owner"}, listings |-> {"listing"}]

\* A service: the columns whose ids it collects for the lookup, those it shows
\* by name, whether a row without a name is shown by its id, and its forms: a
\* list, one row, or a mutation that looks its row up the same way, changes
\* nothing and answers `ok` or the row with its body.
Service(joined, forms) ==
  [joined |-> joined, shown |-> joined, byId |-> TRUE, forms |-> forms]

UserRows == Service({}, {"list", "one"})
UserChanges == Service({}, {"stub"})
WalletRows == Service({}, {"list"})
PaymentRows == Service({}, {"list", "one"})
UserBookingRows == Service({"owner"}, {"list"})

\* Fault: the owners are not looked up.
BookingRowsOfSeekers ==
  [Service({"seeker"}, {"list", "one", "stub"}) EXCEPT !.shown = {"seeker", "owner"}]

BookingRows == Service({"seeker", "owner"}, {"list", "one", "stub"})
ListingRows == Service({"owner"}, {"list", "one", "stub"})
PayoutRows == Service({"owner"}, {"list", "one"})
ReviewRows == [Service({"seeker", "listing"}, {"list"}) EXCEPT !.byId = FALSE]

Services ==
  {UserRows, UserChanges, WalletRows, PaymentRows, UserBookingRows, BookingRows, ListingRows,
   PayoutRows, ReviewRows}

\* The ids to look up in a table, without duplicates.
Wanted(r, table) ==
  UNION {{row[c] : row \in r.raw} : c \in r.service.joined \cap References[table]}

\* Queries not answered yet; one without ids is not made.
Due(r) == {table \in DOMAIN References : Wanted(r, table) # {} /\ r.found[table] = None}

Advance(r) == [r EXCEPT !.pc = IF Due(r) = {} THEN "answered" ELSE "names"]

\* names.get(id) ?? id, but null in reviews.
Shown(r, table, x) ==
  IF r.found[table] # None /\ x \in DOMAIN r.found[table] THEN r.found[table][x]
  ELSE IF r.service.byId THEN x ELSE None
-----------------------------------------------------------------------------
Init ==
  /\ names \in [Users \cup Listings -> {None, 0}]
  /\ seen = {names}
  /\ \E service \in Services : \E form \in service.forms :
       request = [service |-> service, form |-> form, pc |-> "rows", raw |-> {},
                  found |-> [table \in DOMAIN References |-> None]]

\* A row of a name comes, is renamed, or goes.
NamesChange ==
  /\ request.pc = "names" /\ Cardinality(seen) < MaxTables
  /\ \E x \in Users \cup Listings, name \in {None, Cardinality(seen)} :
       names' = [names EXCEPT ![x] = name]
  /\ seen' = seen \cup {names'}
  /\ UNCHANGED request

\* find or findOne, whatever rows there are.
RowsRead ==
  /\ request.pc = "rows"
  /\ \E raw \in SUBSET Rows :
       /\ Cardinality(raw) <= IF request.form = "list" THEN MaxShown ELSE 1
       /\ request' = IF raw = {} /\ request.form # "list" THEN [request EXCEPT !.pc = "notFound"]
                     ELSE Advance([request EXCEPT !.raw = raw])
  /\ UNCHANGED <<names, seen>>

\* users.find or listings.find for the ids; reviews make both at once.
NamesRead(table) ==
  /\ request.pc = "names" /\ table \in Due(request)
  /\ request' = Advance([request EXCEPT
       !.found[table] = [x \in {y \in Wanted(request, table) : names[y] # None} |-> names[x]]])
  /\ UNCHANGED <<names, seen>>

QueryFails ==
  /\ request.pc \in {"rows", "names"}
  /\ request' = [request EXCEPT !.pc = "error"]
  /\ UNCHANGED <<names, seen>>

Next ==
  \/ NamesChange
  \/ RowsRead
  \/ \E table \in DOMAIN References : NamesRead(table)
  \/ QueryFails

Spec == Init /\ [][Next]_vars
-----------------------------------------------------------------------------
\* The names in an answer held together, at one moment after the rows were
\* read: nobody appears under two names, and whoever appears without one had
\* none at that moment.  Users and listings may be of two moments
\* (bookings.service.ts:136-151, listings.service.ts:84-113,
\* payouts.service.ts:69-98, users.service.ts:78-106, reviews.service.ts:38-66).
NamesHeldTogether ==
  request.pc = "answered" =>
    \A table \in DOMAIN References :
      \E moment \in seen :
        \A c \in request.service.shown \cap References[table], row \in request.raw :
          LET x == row[c]
          IN Shown(request, table, x) =
               IF moment[x] # None THEN moment[x]
               ELSE IF request.service.byId THEN x ELSE None
=============================================================================
