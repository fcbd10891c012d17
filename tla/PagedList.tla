----------------------------- MODULE PagedList -----------------------------
(* paginate(), and a console that walks a list page by page.  Every list   *)
(* endpoint reads its whole table anew for each page, newest row first,    *)
(* filters, sorts and slices it in memory: a row that enters or leaves the *)
(* filter between two pages shifts the slices after it.                    *)
(*                                                                         *)
(* The table comes in one order: the times it is sorted by differ.  Where  *)
(* they do not (the refunds under way, which have none), the database may  *)
(* order ties anew for each page, and nothing here is about such a list.   *)
EXTENDS Integers, Sequences, FiniteSets, FiniteSetsExt

CONSTANTS
  MaxRows,   \* bound: rows of the table, numbered as they come
  Stamps,    \* values of the sort field (a decision's time)
  None,      \* no value
  Limit,     \* rows per page
  MaxChanges \* bound: changes of the table during a walk

VARIABLES
  table,    \* the rows: [id, wanted, stamp]
  query,    \* [sort, desc]: sort by the stamp or keep the table's order
  page,     \* the next page to ask for, None once the walk is over
  got,      \* identities received, in order
  entered, left,  \* how often a row came between others or went (history)
  stayed    \* rows that were in the list, at their stamp, all the time (history)

vars == <<table, query, page, got, entered, left, stayed>>

Row == [id: 1..MaxRows, wanted: BOOLEAN, stamp: Stamps \cup {None}]
Ids(rows) == {r.id : r \in rows}
-----------------------------------------------------------------------------
(* paginate().                                                             *)

\* Fault: a missing value is compared like any other and flips with `desc`.
PrecedesFlipping(desc, a, b) ==
  LET value(r) == IF r.stamp = None THEN Max(Stamps) + 1 ELSE r.stamp
  IN IF a.stamp = b.stamp THEN a.id > b.id
     ELSE IF desc THEN value(a) > value(b) ELSE value(a) < value(b)

\* The comparator: rows without the field last whatever the direction, ties
\* (the sort is stable) in the order of the table, the newest first.
Precedes(desc, a, b) ==
  IF a.stamp = b.stamp THEN a.id > b.id
  ELSE IF a.stamp = None \/ b.stamp = None THEN b.stamp = None
  ELSE IF desc THEN a.stamp > b.stamp ELSE a.stamp < b.stamp

Before(q, a, b) == IF q.sort THEN Precedes(q.desc, a, b) ELSE a.id > b.id

\* The status filter.
Kept(rows) == {r \in rows : r.wanted}

\* A row's place: one after those that come before it.
Place(rows, q, r) == Cardinality({s \in Kept(rows) : Before(q, s, r)}) + 1

\* The list a query selects: the filter, then the sort.
Listed(rows, q) ==
  [p \in 1..Cardinality(Kept(rows)) |-> CHOOSE r \in Kept(rows) : Place(rows, q, r) = p]

\* The entries of a list after the first `start`, up to the `end`-th.
Part(list, start, end) == SubSeq(list, start + 1, Min({end, Len(list)}))

\* Fault: pages counted from zero.
SliceFromZero(list, p) == Part(list, p * Limit, (p + 1) * Limit)

\* Fault: the end of the slice counted in.
SliceInclusive(list, p) == Part(list, (p - 1) * Limit, p * Limit + 1)

\* data.slice(start, start + limit), which stops at the end of the list.
Slice(list, p) == Part(list, (p - 1) * Limit, p * Limit)
-----------------------------------------------------------------------------
Init ==
  /\ \E n \in 0..MaxRows : \E columns \in [1..n -> [wanted: BOOLEAN, stamp: Stamps \cup {None}]] :
       table = {[id |-> i, wanted |-> columns[i].wanted, stamp |-> columns[i].stamp] : i \in 1..n}
  /\ query \in [sort: BOOLEAN, desc: BOOLEAN]
  /\ page = 1
  /\ got = <<>>
  /\ entered = 0 /\ left = 0
  /\ stayed = Ids(Kept(table))

\* The console asks for a page; it is done when the total is reached.
Fetch ==
  /\ page # None
  /\ LET list == Listed(table, query)
         slice == Slice(list, page)
     IN /\ got' = got \o [i \in DOMAIN slice |-> slice[i].id]
        /\ page' = IF page * Limit < Len(list) THEN page + 1 ELSE None
  /\ UNCHANGED <<table, query, entered, left, stayed>>

\* A change of the table takes rows out of the list and puts rows into it.
Changed(new) ==
  LET gone == Kept(table) \ Kept(new)
      come == Kept(new) \ Kept(table)
  IN /\ page # None
     /\ entered + left < MaxChanges
     /\ table' = new
     /\ entered' = entered + Cardinality(come)
     /\ left' = left + Cardinality(gone)
     /\ stayed' = stayed \ Ids(gone)
     /\ UNCHANGED <<query, page, got>>

\* A new row is the newest.
Arrive == \E r \in Row : r.id = Cardinality(table) + 1 /\ Changed(table \cup {r})

\* A row changes its status, and with it perhaps its stamp.
Update ==
  \E old \in table, wanted \in BOOLEAN, stamp \in Stamps \cup {None} :
    Changed((table \ {old}) \cup {[old EXCEPT !.wanted = wanted, !.stamp = stamp]})

Next == Fetch \/ Arrive \/ Update

Spec == Init /\ [][Next]_vars
-----------------------------------------------------------------------------
Received == {got[i] : i \in DOMAIN got}

\* Once the last page is there, a row that was in the list all along is
\* missing only because another one left it: a missing row for each departure
\* at most (paginate.ts:66-68).
MissedOnlyByDepartures ==
  page = None => Cardinality(stayed \ Received) <= left

\* A row appears twice only because another one came in before it: a repeated
\* row for each arrival at most (paginate.ts:66-68).
RepeatedOnlyByArrivals ==
  Len(got) - Cardinality(Received) <= entered

\* The pages of a list that stays as it is are that list: every row once, in
\* the order asked for, those without a stamp at the end (paginate.ts:49-63).
SettledWalkIsTheList ==
  page = None /\ entered = 0 /\ left = 0 =>
    /\ Received = Ids(Kept(table))
    /\ \A i, j \in DOMAIN got : got[i] = got[j] => i = j
    /\ query.sort =>
         LET stamp(i) == (CHOOSE r \in table : r.id = got[i]).stamp
         IN \A i, j \in DOMAIN got : i < j /\ stamp(j) # None =>
              /\ stamp(i) # None
              /\ IF query.desc THEN stamp(i) >= stamp(j) ELSE stamp(i) <= stamp(j)
=============================================================================
