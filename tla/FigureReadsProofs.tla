------------------------- MODULE FigureReadsProofs -------------------------
(* What the figures of the read side keep while the domain services write: *)
(* the numbers of an overview fit together (OverviewCounts), the sums of   *)
(* money are the same through every endpoint (MoneyViews), and the daily   *)
(* series counts every whole day (MetricsSeries).                          *)
EXTENDS MCReads, FiniteSetTheorems, WellFoundedInduction, TLAPS

EntryRow ==
  [status: UNION {Counts!Statuses[t] : t \in DOMAIN Counts!Statuses}, age: Nat]

Present == {x \in Entries : rows[x] # None}
SelectedBy(q) == {x \in Present : Counts!Selects(q, rows[x])}

\* What a query has answered, or would answer now.
Value(q) ==
  IF q \in DOMAIN got /\ got[q] # None THEN got[q] ELSE Cardinality(SelectedBy(q))

CountsTyped ==
  /\ table \in DOMAIN Counts!Overview
  /\ rows \in [Entries -> {None} \cup EntryRow]
  /\ added \in Nat /\ changed \in Nat
  /\ got \in [DOMAIN got -> Nat \cup {None}]

\* All payments are in the total but those added; the captured and refunded
\* ones are disjoint parts of them, but for one change of status each.
PaymentsNest ==
  /\ Cardinality(Present) <= Value("totalPayments") + added
  /\ Value("refundedPayments") <= Cardinality(Present)
  /\ Value("gmv") + Value("refundedPayments") <= Cardinality(Present) + changed

BookingsNest ==
  /\ Value("bookingsToday") <= Value("bookings7d") + added
  /\ Value("bookings7d") <= Value("bookings30d") + added

PayoutsAgree ==
  /\ Value("payoutBacklog") <= Value("onHoldPayouts") + added + changed
  /\ Value("onHoldPayouts") <= Value("payoutBacklog") + added + changed

\* The inductive invariant of the part.
CInv == CountsTyped /\ PaymentsNest /\ BookingsNest /\ PayoutsAgree
CountsInv == part = "counts" => CInv
-----------------------------------------------------------------------------
LEMMA CountsCardinality == \A S : Counts!Cardinality(S) = Cardinality(S)
BY DEF Counts!Cardinality, Cardinality

\* Two sets that differ at one element at most.
LEMMA NearlyEqual ==
  ASSUME NEW S, NEW T, NEW x, IsFiniteSet(S), S \ {x} = T \ {x}
  PROVE  /\ IsFiniteSet(T)
         /\ Cardinality(S) \in Nat /\ Cardinality(T) \in Nat
         /\ Cardinality(T) <= Cardinality(S) + 1
         /\ Cardinality(S) <= Cardinality(T) + 1
         /\ x \in T => Cardinality(S) <= Cardinality(T)
<1> DEFINE R == S \ {x}
<1>1. IsFiniteSet(R)
  BY FS_Subset
<1>2. /\ S = R \/ S = R \cup {x}
      /\ T = R \/ T = R \cup {x}
      /\ x \in T => T = R \cup {x}
      /\ x \notin R
  OBVIOUS
<1> HIDE DEF R
<1>3. /\ Cardinality(R) \in Nat
      /\ IsFiniteSet(R \cup {x}) /\ Cardinality(R \cup {x}) = Cardinality(R) + 1
  BY <1>1, <1>2, FS_AddElement, FS_CardinalityType
<1>4. CASE T = R
  BY <1>1, <1>2, <1>3, <1>4
<1>5. CASE T = R \cup {x}
  BY <1>1, <1>2, <1>3, <1>5
<1>6. QED
  BY <1>2, <1>4, <1>5

LEMMA SelectedIsFinite ==
  /\ IsFiniteSet(Present) /\ Cardinality(Present) \in Nat
  /\ \A q : /\ IsFiniteSet(SelectedBy(q)) /\ Cardinality(SelectedBy(q)) \in Nat
            /\ Cardinality(SelectedBy(q)) <= Cardinality(Present)
<1>1. IsFiniteSet(Present)
  BY BoundsAssumption, FS_Subset DEF Present
<1>2. \A q : SelectedBy(q) \subseteq Present
  BY DEF SelectedBy
<1>3. QED
  BY <1>1, <1>2, FS_Subset, FS_CardinalityType

LEMMA ValuesAreNumbers ==
  ASSUME CountsTyped, NEW q PROVE Value(q) \in Nat
BY SelectedIsFinite DEF Value, CountsTyped

\* Captured and refunded payments are different ones.
LEMMA PartsOfAllPayments ==
  Cardinality(SelectedBy("gmv")) + Cardinality(SelectedBy("refundedPayments"))
    <= Cardinality(Present)
<1> DEFINE A == SelectedBy("gmv")
           B == SelectedBy("refundedPayments")
<1>1. A \cap B = {}
  BY DEF SelectedBy, Counts!Selects, Counts!Counted
<1>2. A \cup B \subseteq Present
  BY DEF SelectedBy
<1>3. /\ Cardinality(A) \in Nat /\ Cardinality(B) \in Nat
      /\ Cardinality(A \cup B) = Cardinality(A) + Cardinality(B)
  <2>1. IsFiniteSet(A) /\ IsFiniteSet(B) /\ Cardinality(A) \in Nat /\ Cardinality(B) \in Nat
    BY SelectedIsFinite
  <2> HIDE DEF A, B
  <2>2. Cardinality(A \cup B) = Cardinality(A) + Cardinality(B) - Cardinality(A \cap B)
    BY <2>1, FS_Union
  <2>3. QED
    <3>1. Cardinality(A \cap B) = 0
      BY <1>1, FS_EmptySet DEF A, B
    <3>2. QED
      BY <2>1, <2>2, <3>1
<1>4. QED
  BY <1>2, <1>3, SelectedIsFinite, FS_Subset

\* A longer period selects more bookings.
LEMMA PeriodsNest ==
  ASSUME CountsTyped
  PROVE  /\ Cardinality(SelectedBy("bookingsToday")) <= Cardinality(SelectedBy("bookings7d"))
         /\ Cardinality(SelectedBy("bookings7d")) <= Cardinality(SelectedBy("bookings30d"))
<1>1. \A x \in Present : rows[x].age \in Nat
  BY DEF CountsTyped, Present, EntryRow
<1>2. /\ SelectedBy("bookingsToday") \subseteq SelectedBy("bookings7d")
      /\ SelectedBy("bookings7d") \subseteq SelectedBy("bookings30d")
  BY <1>1 DEF SelectedBy, Counts!Selects, Counts!Counted, Counts!Window
<1>3. QED
  BY <1>2, SelectedIsFinite, FS_Subset
-----------------------------------------------------------------------------
(* Init, and what an event does to the sets that are counted.              *)

LEMMA CountsInvInit == Init => CountsInv
<1> SUFFICES ASSUME Counts!Init PROVE CInv
  BY DEF Init, CountsInv
<1>1. CountsTyped
  <2>1. table \in DOMAIN Counts!Overview /\ added = 0 /\ changed = 0
    BY DEF Counts!Init
  <2>2. DOMAIN Counts!Overview \subseteq DOMAIN Counts!Statuses
    BY DEF Counts!Overview, Counts!Statuses
  <2>3. Counts!Statuses[table] \subseteq UNION {Counts!Statuses[t] : t \in DOMAIN Counts!Statuses}
    BY <2>1, <2>2
  <2>4. Counts!Ages \subseteq Nat
    BY DEF Counts!Ages
  <2>5. [status: Counts!Statuses[table], age: Counts!Ages] \subseteq EntryRow
    BY <2>3, <2>4 DEF EntryRow
  <2>6. rows \in [Entries -> {None} \cup EntryRow]
    BY <2>5 DEF Counts!Init
  <2>7. got \in [DOMAIN got -> Nat \cup {None}]
    BY DEF Counts!Init
  <2>8. QED
    BY <2>1, <2>6, <2>7 DEF CountsTyped
<1>2. \A q : Value(q) = Cardinality(SelectedBy(q))
  BY DEF Value, Counts!Init
<1>3. SelectedBy("totalPayments") = Present
  BY DEF SelectedBy, Counts!Selects, Counts!Counted, Counts!Window
<1>4. SelectedBy("payoutBacklog") = SelectedBy("onHoldPayouts")
  BY DEF SelectedBy, Counts!Selects, Counts!Counted, Counts!Window
<1>5. added = 0 /\ changed = 0
  BY DEF Counts!Init
<1>6. PaymentsNest
  BY <1>2, <1>3, <1>5, SelectedIsFinite, PartsOfAllPayments DEF PaymentsNest
<1>7. BookingsNest
  BY <1>1, <1>2, <1>5, SelectedIsFinite, PeriodsNest DEF BookingsNest
<1>8. PayoutsAgree
  BY <1>2, <1>4, <1>5, SelectedIsFinite DEF PayoutsAgree
<1>9. QED
  BY <1>1, <1>6, <1>7, <1>8 DEF CInv

\* A new row is one more, for whichever query selects it.
LEMMA AddedIsOneMore ==
  ASSUME CInv, NEW x \in Entries, Counts!Add(x)
  PROVE  /\ CountsTyped' /\ got' = got /\ added' = added + 1 /\ changed' = changed
         /\ Cardinality(Present)' = Cardinality(Present) + 1
         /\ \A q : /\ Cardinality(SelectedBy(q))' \in Nat
                   /\ Cardinality(SelectedBy(q)) <= Cardinality(SelectedBy(q))'
                   /\ Cardinality(SelectedBy(q))' <= Cardinality(SelectedBy(q)) + 1
<1> DEFINE row == [status |-> Counts!First[table], age |-> 0]
<1>1. /\ rows[x] = None /\ rows' = [rows EXCEPT ![x] = row]
      /\ got' = got /\ added' = added + 1 /\ changed' = changed /\ table' = table
  BY DEF Counts!Add
<1>2. row \in EntryRow
  <2>1. table \in {"payments", "bookings", "payouts", "users", "listings"}
    BY DEF CInv, CountsTyped, Counts!Overview
  <2>2. table \in DOMAIN Counts!Statuses /\ Counts!First[table] \in Counts!Statuses[table]
    <3>1. DOMAIN Counts!Statuses = {"payments", "bookings", "payouts", "users", "listings"}
      BY DEF Counts!Statuses
    <3>2. /\ "created" \in Counts!Statuses["payments"] /\ "pending" \in Counts!Statuses["bookings"]
          /\ "processing" \in Counts!Statuses["payouts"]
          /\ "unverified host" \in Counts!Statuses["users"]
          /\ "draft" \in Counts!Statuses["listings"]
      BY DEF Counts!Statuses, Counts!Hosts
    <3>3. /\ Counts!First["payments"] = "created" /\ Counts!First["bookings"] = "pending"
          /\ Counts!First["payouts"] = "processing" /\ Counts!First["users"] = "unverified host"
          /\ Counts!First["listings"] = "draft"
      BY DEF Counts!First
    <3>4. QED
      BY <2>1, <3>1, <3>2, <3>3
  <2>3. Counts!First[table] \in UNION {Counts!Statuses[t] : t \in DOMAIN Counts!Statuses}
    BY <2>2
  <2> DEFINE status == Counts!First[table]
             all == UNION {Counts!Statuses[t] : t \in DOMAIN Counts!Statuses}
  <2>4. status \in all /\ EntryRow = [status: all, age: Nat]
    BY <2>3 DEF EntryRow
  <2> HIDE DEF status, all
  <2>5. [status |-> status, age |-> 0] \in [status: all, age: Nat]
    BY <2>4
  <2>6. QED
    BY <2>4, <2>5 DEF status
<1>3. row # None
  BY <1>2, NoCountAssumption DEF EntryRow
<1> HIDE DEF row
<1>4. /\ rows' \in [Entries -> {None} \cup EntryRow] /\ rows'[x] = row
      /\ \A y \in Entries : y # x => rows'[y] = rows[y]
  BY <1>1, <1>2 DEF CInv, CountsTyped
<1>5. CountsTyped'
  BY <1>1, <1>4 DEF CInv, CountsTyped
<1>6. Present' = Present \cup {x} /\ x \notin Present
  BY <1>1, <1>3, <1>4 DEF Present
<1>7. Cardinality(Present)' = Cardinality(Present) + 1
  BY <1>6, SelectedIsFinite, FS_AddElement
<1>8. ASSUME NEW q
      PROVE  /\ Cardinality(SelectedBy(q))' \in Nat
             /\ Cardinality(SelectedBy(q)) <= Cardinality(SelectedBy(q))'
             /\ Cardinality(SelectedBy(q))' <= Cardinality(SelectedBy(q)) + 1
  <2>1. SelectedBy(q)' \ {x} = SelectedBy(q) \ {x} /\ x \notin SelectedBy(q)
    <3>1. \A y \in Entries : y # x => (y \in SelectedBy(q)' <=> y \in SelectedBy(q))
      BY <1>4, <1>6 DEF SelectedBy
    <3>2. /\ SelectedBy(q) \subseteq Entries
          /\ SelectedBy(q)' \subseteq Entries
          /\ x \notin SelectedBy(q)
      BY <1>6 DEF SelectedBy, Present
    <3>3. QED
      BY <3>1, <3>2
  <2>2. IsFiniteSet(SelectedBy(q))
    BY SelectedIsFinite
  <2>3. CASE x \in SelectedBy(q)'
    BY <2>1, <2>2, <2>3, NearlyEqual
  <2>4. CASE x \notin SelectedBy(q)'
    <3>1. SelectedBy(q)' = SelectedBy(q)
      BY <2>1, <2>4
    <3>2. QED
      BY <3>1, SelectedIsFinite
  <2>5. QED
    BY <2>3, <2>4
<1>9. QED
  BY <1>1, <1>5, <1>7, <1>8

\* A change of status moves a row between the queries that look at it.
LEMMA MovedIsOneChange ==
  ASSUME CInv, NEW x \in Entries, Counts!Move(x)
  PROVE  /\ CountsTyped' /\ got' = got /\ added' = added /\ changed' = changed + 1
         /\ Present' = Present
         /\ \A q : /\ Cardinality(SelectedBy(q))' \in Nat
                   /\ Cardinality(SelectedBy(q)) <= Cardinality(SelectedBy(q))' + 1
                   /\ Cardinality(SelectedBy(q))' <= Cardinality(SelectedBy(q)) + 1
         /\ \A q : q \notin DOMAIN Counts!Counted => SelectedBy(q)' = SelectedBy(q)
<1>1. PICK status \in Counts!Moves(rows[x].status) :
        rows' = [rows EXCEPT ![x].status = status]
  BY DEF Counts!Move
<1>2. /\ rows[x] # None /\ got' = got /\ added' = added /\ changed' = changed + 1
      /\ table' = table
  BY DEF Counts!Move
<1>3. rows[x] \in EntryRow
  BY <1>2 DEF CInv, CountsTyped
<1>4. status \in UNION {Counts!Statuses[t] : t \in DOMAIN Counts!Statuses}
  <2>1. status \in {"captured", "failed", "refunded", "partially_refunded", "confirmed",
                    "completed", "verified host", "active", "draft"}
    BY <1>1 DEF Counts!Moves
  <2>2. Counts!Statuses["payments"] \cup Counts!Statuses["bookings"]
          \cup Counts!Statuses["payouts"] \cup Counts!Statuses["users"]
          \cup Counts!Statuses["listings"]
        \subseteq UNION {Counts!Statuses[t] : t \in DOMAIN Counts!Statuses}
    BY DEF Counts!Statuses
  <2>3. QED
    BY <2>1, <2>2 DEF Counts!Statuses, Counts!Hosts
<1>5. /\ rows'[x] \in EntryRow /\ rows'[x].age = rows[x].age
      /\ rows' \in [Entries -> {None} \cup EntryRow]
      /\ \A y \in Entries : y # x => rows'[y] = rows[y]
  BY <1>1, <1>3, <1>4 DEF CInv, CountsTyped, EntryRow
<1>6. rows'[x] # None
  BY <1>5, NoCountAssumption DEF EntryRow
<1>7. CountsTyped'
  BY <1>2, <1>5 DEF CInv, CountsTyped
<1>8. Present' = Present
  BY <1>2, <1>5, <1>6 DEF Present
<1>9. ASSUME NEW q
      PROVE  /\ SelectedBy(q)' \ {x} = SelectedBy(q) \ {x}
             /\ q \notin DOMAIN Counts!Counted => SelectedBy(q)' = SelectedBy(q)
  <2>1. \A y \in Entries : y # x => (y \in SelectedBy(q)' <=> y \in SelectedBy(q))
    BY <1>5, <1>8 DEF SelectedBy
  <2>2. SelectedBy(q) \subseteq Entries /\ SelectedBy(q)' \subseteq Entries
    BY DEF SelectedBy, Present
  <2>3. q \notin DOMAIN Counts!Counted => (x \in SelectedBy(q)' <=> x \in SelectedBy(q))
    BY <1>5, <1>8 DEF SelectedBy, Counts!Selects
  <2>4. QED
    BY <2>1, <2>2, <2>3
<1>10. \A q : /\ Cardinality(SelectedBy(q))' \in Nat
              /\ Cardinality(SelectedBy(q)) <= Cardinality(SelectedBy(q))' + 1
              /\ Cardinality(SelectedBy(q))' <= Cardinality(SelectedBy(q)) + 1
  BY <1>9, SelectedIsFinite, NearlyEqual
<1>11. QED
  BY <1>2, <1>7, <1>8, <1>9, <1>10
-----------------------------------------------------------------------------
\* The sets the queries select, after a step as before it.
LEMMA SelectedAfterwards ==
  /\ (Cardinality(SelectedBy("gmv")) + Cardinality(SelectedBy("refundedPayments"))
        <= Cardinality(Present))'
  /\ (Cardinality(SelectedBy("refundedPayments")) <= Cardinality(Present))'
  /\ (SelectedBy("payoutBacklog") = SelectedBy("onHoldPayouts"))'
<1>1. /\ Cardinality(SelectedBy("refundedPayments")) <= Cardinality(Present)
      /\ SelectedBy("payoutBacklog") = SelectedBy("onHoldPayouts")
  BY SelectedIsFinite DEF SelectedBy, Counts!Selects, Counts!Counted, Counts!Window
<1>2. QED
  BY <1>1, PartsOfAllPayments, PTL

\* What a query has answered does not change; what it would answer may.
LEMMA ValueKept ==
  ASSUME NEW q, got' = got
  PROVE  \/ Value(q)' = Value(q)
         \/ /\ Value(q) = Cardinality(SelectedBy(q))
            /\ Value(q)' = Cardinality(SelectedBy(q))'
BY DEF Value

LEMMA CountsInvAdd == ASSUME CInv, NEW x \in Entries, Counts!Add(x) PROVE CInv'
<1>1. /\ CountsTyped /\ CountsTyped' /\ got' = got /\ added' = added + 1 /\ changed' = changed
      /\ added \in Nat /\ changed \in Nat
      /\ Cardinality(Present)' = Cardinality(Present) + 1 /\ Cardinality(Present) \in Nat
  BY AddedIsOneMore, SelectedIsFinite DEF CInv, CountsTyped
<1>2. \A q : /\ Value(q) \in Nat /\ Value(q)' \in Nat
             /\ Value(q) <= Value(q)' /\ Value(q)' <= Value(q) + 1
  BY <1>1, ValuesAreNumbers, ValueKept, AddedIsOneMore, SelectedIsFinite
<1>3. PaymentsNest'
  <2>1. /\ Cardinality(Present)' <= Value("totalPayments")' + added'
        /\ Value("refundedPayments")' <= Cardinality(Present)'
    BY <1>1, <1>2 DEF CInv, PaymentsNest
  <2>2. Value("gmv")' + Value("refundedPayments")' <= Cardinality(Present)' + changed'
    <3>1. CASE Value("gmv")' = Value("gmv")
            \/ Value("refundedPayments")' = Value("refundedPayments")
      BY <1>1, <1>2, <3>1 DEF CInv, PaymentsNest
    <3>2. CASE /\ Value("gmv")' = Cardinality(SelectedBy("gmv"))'
               /\ Value("refundedPayments")' = Cardinality(SelectedBy("refundedPayments"))'
      <4>1. Value("gmv")' + Value("refundedPayments")' <= Cardinality(Present)'
        BY <3>2, SelectedAfterwards
      <4>2. QED
        BY <1>1, <1>2, <4>1
    <3>3. QED
      BY <1>1, <3>1, <3>2, ValueKept
  <2>3. QED
    BY <2>1, <2>2 DEF PaymentsNest
<1>4. BookingsNest'
  BY <1>1, <1>2 DEF CInv, BookingsNest
<1>5. PayoutsAgree'
  BY <1>1, <1>2 DEF CInv, PayoutsAgree
<1>6. QED
  BY <1>1, <1>3, <1>4, <1>5 DEF CInv

LEMMA CountsInvMove == ASSUME CInv, NEW x \in Entries, Counts!Move(x) PROVE CInv'
<1>1. /\ CountsTyped /\ CountsTyped' /\ got' = got /\ added' = added /\ changed' = changed + 1
      /\ added \in Nat /\ changed \in Nat
      /\ Present' = Present /\ Cardinality(Present) \in Nat
  BY MovedIsOneChange, SelectedIsFinite DEF CInv, CountsTyped
<1>2. \A q : /\ Value(q) \in Nat /\ Value(q)' \in Nat
             /\ Value(q) <= Value(q)' + 1 /\ Value(q)' <= Value(q) + 1
  BY <1>1, ValuesAreNumbers, ValueKept, MovedIsOneChange, SelectedIsFinite
<1>3. \A q : q \notin DOMAIN Counts!Counted => Value(q)' = Value(q)
  BY <1>1, ValueKept, MovedIsOneChange
<1>4. PaymentsNest'
  <2>1. Cardinality(Present)' <= Value("totalPayments")' + added'
    BY <1>1, <1>3 DEF CInv, PaymentsNest, Counts!Counted
  <2>2. Value("refundedPayments")' <= Cardinality(Present)'
    BY <1>1, ValueKept, SelectedAfterwards DEF CInv, PaymentsNest
  <2>3. Value("gmv")' + Value("refundedPayments")' <= Cardinality(Present)' + changed'
    <3>1. CASE Value("gmv")' = Value("gmv")
            \/ Value("refundedPayments")' = Value("refundedPayments")
      BY <1>1, <1>2, <3>1 DEF CInv, PaymentsNest
    <3>2. CASE /\ Value("gmv")' = Cardinality(SelectedBy("gmv"))'
               /\ Value("refundedPayments")' = Cardinality(SelectedBy("refundedPayments"))'
      <4>1. Value("gmv")' + Value("refundedPayments")' <= Cardinality(Present)'
        BY <3>2, SelectedAfterwards
      <4>2. QED
        BY <1>1, <1>2, <4>1
    <3>3. QED
      BY <1>1, <3>1, <3>2, ValueKept
  <2>4. QED
    BY <2>1, <2>2, <2>3 DEF PaymentsNest
<1>5. BookingsNest'
  BY <1>1, <1>3 DEF CInv, BookingsNest, Counts!Counted
<1>6. PayoutsAgree'
  <2>1. CASE Value("payoutBacklog")' = Value("payoutBacklog")
             \/ Value("onHoldPayouts")' = Value("onHoldPayouts")
    BY <1>1, <1>2, <2>1 DEF CInv, PayoutsAgree
  <2>2. CASE /\ Value("payoutBacklog")' = Cardinality(SelectedBy("payoutBacklog"))'
             /\ Value("onHoldPayouts")' = Cardinality(SelectedBy("onHoldPayouts"))'
    <3>1. Value("payoutBacklog")' = Value("onHoldPayouts")'
      BY <2>2, SelectedAfterwards
    <3>2. QED
      BY <1>1, <1>2, <3>1 DEF PayoutsAgree
  <2>3. QED
    BY <1>1, <2>1, <2>2, ValueKept
<1>7. QED
  BY <1>1, <1>4, <1>5, <1>6 DEF CInv

\* An answer fixes a value.
LEMMA CountsInvCount ==
  ASSUME CInv, NEW q \in DOMAIN got, Counts!Count(q) PROVE CInv'
<1>1. /\ got' = [got EXCEPT ![q] = Cardinality(SelectedBy(q))]
      /\ got[q] = None /\ UNCHANGED <<rows, added, changed, table>>
  <2>1. {x \in Entries : rows[x] # None /\ Counts!Selects(q, rows[x])} = SelectedBy(q)
    BY DEF SelectedBy, Present
  <2>2. QED
    BY <2>1, CountsCardinality DEF Counts!Count
<1>2. /\ Present' = Present /\ \A p : SelectedBy(p)' = SelectedBy(p)
      /\ DOMAIN got' = DOMAIN got
  BY <1>1 DEF Present, SelectedBy
<1>3. CountsTyped'
  BY <1>1, <1>2, SelectedIsFinite DEF CInv, CountsTyped
<1>4. Cardinality(SelectedBy(q)) # None
  BY SelectedIsFinite, NoCountAssumption
<1>5. \A p : Value(p)' = Value(p)
  <2> TAKE p
  <2>1. CASE p = q
    BY <1>1, <1>2, <1>4, <2>1 DEF Value
  <2>2. CASE p # q
    <3>1. p \in DOMAIN got => got'[p] = got[p]
      BY <1>1, <2>2
    <3>2. QED
      BY <1>2, <3>1 DEF Value
  <2>3. QED
    BY <2>1, <2>2
<1>6. QED
  BY <1>1, <1>2, <1>3, <1>5 DEF CInv, PaymentsNest, BookingsNest, PayoutsAgree

LEMMA CountsInvNext == CountsInv /\ [Next]_vars => CountsInv'
<1> SUFFICES ASSUME CountsInv, [Next]_vars, part' = "counts"
             PROVE  CInv'
  BY DEF CountsInv
<1>1. part = "counts" /\ (Counts!Next \/ UNCHANGED <<rows, added, changed, table, got>>)
  BY DEF Next, vars, countVars
<1>2. CInv
  BY <1>1 DEF CountsInv
<1>3. CASE UNCHANGED <<rows, added, changed, table, got>>
  <2>1. \A q : Value(q)' = Value(q)
    BY <1>3 DEF Value, SelectedBy, Present
  <2>2. Present' = Present
    BY <1>3 DEF Present
  <2>3. QED
    BY <1>2, <1>3, <2>1, <2>2 DEF CInv, CountsTyped, PaymentsNest, BookingsNest, PayoutsAgree
<1>4. CASE Counts!Next
  BY <1>2, <1>4, CountsInvAdd, CountsInvMove, CountsInvCount DEF Counts!Next
<1>5. QED
  BY <1>1, <1>3, <1>4

LEMMA CountsInvHolds == FairSpec => []CountsInv
BY CountsInvInit, CountsInvNext, PTL DEF FairSpec

\* A part of a whole is at most 1000 tenths of a percent of it.
LEMMA RateOfAPart ==
  ASSUME NEW refunded \in Nat, NEW total \in Nat, refunded <= total
  PROVE  Counts!RefundRate(refunded, total) <= 1000
<1>1. CASE total = 0
  BY <1>1 DEF Counts!RefundRate
<1>2. CASE total # 0
  <2> DEFINE n == 2 * refunded * 1000 + total
             d == 2 * total
             k == n \div d
  <2>1. n \in Nat /\ d \in Nat \ {0} /\ n < 1001 * d
    BY <1>2
  <2> HIDE DEF n, d
  <2>2. k \in Int /\ d * k <= n
    BY <2>1
  <2>3. ASSUME k >= 1001 PROVE FALSE
    <3> HIDE DEF k
    <3>1. d * 1001 <= d * k
      BY <2>1, <2>2, <2>3
    <3>2. QED
      BY <2>1, <2>2, <3>1
  <2>4. k <= 1000
    BY <2>2, <2>3
  <2>5. QED
    BY <1>2, <2>4 DEF Counts!RefundRate, n, d
<1>3. QED
  BY <1>1, <1>2

\* The numbers of an overview fit together but for what came in meanwhile
\* (dashboard.service.ts:88-130).
THEOREM OverviewsFit == FairSpec => []CountsNest
<1>1. CountsInv => CountsNest
  <2> SUFFICES ASSUME CInv, ~Counts!Running, DOMAIN got = Counts!Overview[table]
               PROVE  Counts!CountsNest
    BY DEF CountsInv, CountsNest, Counts!CountsNest
  <2>1. \A q \in DOMAIN got : Value(q) = got[q] /\ got[q] \in Nat
    BY DEF CInv, CountsTyped, Value, Counts!Running
  <2>2. added \in Nat /\ changed \in Nat /\ Cardinality(Present) \in Nat
    BY SelectedIsFinite DEF CInv, CountsTyped
  <2>3. CASE table = "payments"
    <3>1. {"gmv", "totalPayments", "refundedPayments"} = DOMAIN got
      BY <2>3 DEF Counts!Overview
    <3>2. /\ got.gmv \in Nat /\ got.totalPayments \in Nat /\ got.refundedPayments \in Nat
          /\ Cardinality(Present) <= got.totalPayments + added
          /\ got.refundedPayments <= Cardinality(Present)
          /\ got.gmv + got.refundedPayments <= Cardinality(Present) + changed
      BY <2>1, <3>1 DEF CInv, PaymentsNest
    <3>3. added = 0 => Counts!RefundRate(got.refundedPayments, got.totalPayments) <= 1000
      BY <2>2, <3>2, RateOfAPart
    <3>4. QED
      BY <2>2, <2>3, <3>2, <3>3 DEF Counts!CountsNest
  <2>4. CASE table = "bookings"
    <3>1. {"bookingsToday", "bookings7d", "bookings30d"} \subseteq DOMAIN got
      BY <2>4 DEF Counts!Overview
    <3>2. QED
      BY <2>1, <2>2, <2>4, <3>1 DEF CInv, BookingsNest, Counts!CountsNest
  <2>5. CASE table = "payouts"
    <3>1. {"payoutBacklog", "onHoldPayouts"} \subseteq DOMAIN got
      BY <2>5 DEF Counts!Overview
    <3>2. /\ got.payoutBacklog \in Nat /\ got.onHoldPayouts \in Nat
          /\ got.payoutBacklog <= got.onHoldPayouts + added + changed
          /\ got.onHoldPayouts <= got.payoutBacklog + added + changed
      BY <2>1, <3>1 DEF CInv, PayoutsAgree
    <3>3. got.payoutBacklog - got.onHoldPayouts \in -(added + changed)..(added + changed)
      BY <2>2, <3>2
    <3>4. QED
      BY <2>5, <3>3 DEF Counts!CountsNest
  <2>6. CASE table \notin {"payments", "bookings", "payouts"}
    BY <2>6 DEF Counts!CountsNest
  <2>7. QED
    BY <2>3, <2>4, <2>5, <2>6
<1>2. QED
  BY <1>1, CountsInvHolds, PTL
-----------------------------------------------------------------------------
(* Sums.  FiniteSetsExt's MapThenSumSet recurs over the subsets of a set;  *)
(* what it returns is shown by induction over their cardinalities.         *)

\* Every set of natural numbers has a least one.
LEMMA LeastNatural ==
  ASSUME NEW S, S \subseteq Nat, S # {}
  PROVE  \E n \in S : \A m \in S : n <= m
<1>1. PICK n \in S : \A m \in S : ~(<<m, n>> \in OpToRel(<, Nat))
  BY NatLessThanWellFounded, WFMin
<1>2. ASSUME NEW m \in S PROVE n <= m
  <2>1. m \in Nat /\ n \in Nat
    OBVIOUS
  <2>2. ~(m < n)
    BY <1>1, <2>1 DEF OpToRel
  <2>3. QED
    BY <2>1, <2>2
<1>3. QED
  BY <1>2

LEMMA AllNaturals ==
  ASSUME NEW I, 0 \in I, \A n \in Nat : n \in I => n + 1 \in I
  PROVE  Nat \subseteq I
<1> SUFFICES ASSUME Nat \ I # {} PROVE FALSE
  OBVIOUS
<1>1. PICK n \in Nat \ I : \A m \in Nat \ I : n <= m
  BY LeastNatural
<1>2. n # 0 /\ n \in Nat
  OBVIOUS
<1>3. n - 1 \in Nat /\ n - 1 < n
  BY <1>2
<1>4. n - 1 \in I
  BY <1>1, <1>3
<1>5. (n - 1) + 1 \in I
  BY <1>3, <1>4
<1>6. QED
  BY <1>2, <1>5

Pick(s) == CHOOSE x \in s : TRUE

\* The sums of f over the subsets in a family.
IsFold(sum, f, family) ==
  sum = [s \in family |-> IF s = {} THEN 0 ELSE f[Pick(s)] + sum[s \ {Pick(s)}]]

Sums(f, S) == CHOOSE sum : IsFold(sum, f, SUBSET S)

LEMMA OneLess ==
  ASSUME NEW s, IsFiniteSet(s), s # {}
  PROVE  /\ Pick(s) \in s /\ IsFiniteSet(s \ {Pick(s)})
         /\ Cardinality(s) \in Nat \ {0}
         /\ Cardinality(s \ {Pick(s)}) = Cardinality(s) - 1
<1>1. Pick(s) \in s
  BY DEF Pick
<1>2. QED
  BY <1>1, FS_RemoveElement, FS_CardinalityType, FS_EmptySet

LEMMA SumsExist ==
  ASSUME NEW S, IsFiniteSet(S), NEW f
  PROVE  IsFold(Sums(f, S), f, SUBSET S)
<1> DEFINE Small(n) == {s \in SUBSET S : Cardinality(s) <= n}
           I == {n \in Nat : \E sum : IsFold(sum, f, Small(n))}
<1>1. \A s \in SUBSET S : IsFiniteSet(s) /\ Cardinality(s) \in Nat
  BY FS_Subset, FS_CardinalityType
<1>2. 0 \in I
  <2>1. \A s \in Small(0) : s = {}
    BY <1>1, FS_EmptySet
  <2>2. IsFold([s \in Small(0) |-> 0], f, Small(0))
    BY <2>1 DEF IsFold
  <2>3. QED
    BY <2>2
<1>3. ASSUME NEW n \in Nat, n \in I PROVE n + 1 \in I
  <2>1. PICK sum : IsFold(sum, f, Small(n))
    BY <1>3
  <2> DEFINE more == [s \in Small(n + 1) |-> IF s = {} THEN 0 ELSE f[Pick(s)] + sum[s \ {Pick(s)}]]
  <2>2. Small(n) \subseteq Small(n + 1)
    BY <1>1
  <2>3. \A s \in Small(n) : more[s] = sum[s]
    BY <2>1, <2>2 DEF IsFold
  <2>4. ASSUME NEW s \in Small(n + 1), s # {} PROVE s \ {Pick(s)} \in Small(n)
    BY <1>1, <2>4, OneLess
  <2>5. IsFold(more, f, Small(n + 1))
    BY <2>3, <2>4 DEF IsFold
  <2> HIDE DEF more
  <2>6. \E new : IsFold(new, f, Small(n + 1))
    BY <2>5
  <2>7. n + 1 \in Nat
    OBVIOUS
  <2>8. QED
    BY <2>6, <2>7, Zenon
<1>4. Cardinality(S) \in I
  <2> HIDE DEF I
  <2>1. Nat \subseteq I
    BY <1>2, <1>3, AllNaturals
  <2>2. QED
    BY <2>1, FS_CardinalityType
<1>5. SUBSET S = Small(Cardinality(S))
  BY FS_Subset
<1>6. \E sum : IsFold(sum, f, SUBSET S)
  BY <1>4, <1>5
<1>7. QED
  BY <1>6 DEF Sums

\* How a sum is made up.
LEMMA SumOfNone == ASSUME NEW S, IsFiniteSet(S), NEW f PROVE Sums(f, S)[{}] = 0
<1>1. Sums(f, S) = [s \in SUBSET S |->
        IF s = {} THEN 0 ELSE f[Pick(s)] + Sums(f, S)[s \ {Pick(s)}]]
  BY SumsExist DEF IsFold
<1>2. {} \in SUBSET S
  OBVIOUS
<1>3. QED
  BY <1>1, <1>2

LEMMA SumOfMore ==
  ASSUME NEW S, IsFiniteSet(S), NEW f, NEW s \in SUBSET S, s # {}
  PROVE  /\ Pick(s) \in S /\ s \ {Pick(s)} \in SUBSET S
         /\ Cardinality(s) \in Nat \ {0}
         /\ Cardinality(s \ {Pick(s)}) = Cardinality(s) - 1
         /\ Sums(f, S)[s] = f[Pick(s)] + Sums(f, S)[s \ {Pick(s)}]
<1>1. Sums(f, S) = [z \in SUBSET S |->
        IF z = {} THEN 0 ELSE f[Pick(z)] + Sums(f, S)[z \ {Pick(z)}]]
  BY SumsExist DEF IsFold
<1>2. Sums(f, S)[s] = f[Pick(s)] + Sums(f, S)[s \ {Pick(s)}]
  BY <1>1
<1>3. QED
  BY <1>2, OneLess, FS_Subset

LEMMA SumOfIs ==
  ASSUME NEW S, NEW f PROVE Money!SumOf(f, S) = Sums(f, S)[S]
BY DEF Money!SumOf, Money!MapThenSumSet, Money!MapThenFoldSet, Sums, IsFold, Pick

\* A sum of rounded amounts is the rounded sum, up to one for each.
LEMMA RoundedSums ==
  ASSUME NEW S, IsFiniteSet(S), NEW a \in [S -> Nat],
         NEW b, \A x \in S : b[x] = Money!ToPaise(a[x])
  PROVE  Money!ToPaise(Money!SumOf(a, S)) - Money!SumOf(b, S)
           \in -Cardinality(S)..Cardinality(S)
<1> DEFINE A == Sums(a, S)
           B == Sums(b, S)
           I == {n \in Nat : \A s \in SUBSET S : Cardinality(s) = n =>
                   /\ A[s] \in Nat /\ B[s] \in Nat
                   /\ 10 * B[s] <= A[s] + 5 * n
                   /\ A[s] <= 10 * B[s] + 4 * n}
<1>1. A[{}] = 0 /\ B[{}] = 0
  BY SumOfNone
<1>2. ASSUME NEW s \in SUBSET S, s # {}
      PROVE  /\ Pick(s) \in S /\ s \ {Pick(s)} \in SUBSET S
             /\ Cardinality(s) \in Nat
             /\ Cardinality(s \ {Pick(s)}) = Cardinality(s) - 1
             /\ A[s] = a[Pick(s)] + A[s \ {Pick(s)}]
             /\ B[s] = b[Pick(s)] + B[s \ {Pick(s)}]
  <2>1. /\ Pick(s) \in S /\ s \ {Pick(s)} \in SUBSET S
        /\ Cardinality(s) \in Nat \ {0} /\ Cardinality(s \ {Pick(s)}) = Cardinality(s) - 1
        /\ Sums(a, S)[s] = a[Pick(s)] + Sums(a, S)[s \ {Pick(s)}]
    BY <1>2, SumOfMore, Zenon
  <2>2. Sums(b, S)[s] = b[Pick(s)] + Sums(b, S)[s \ {Pick(s)}]
    BY <1>2, SumOfMore, Zenon
  <2>3. /\ A[s] = a[Pick(s)] + A[s \ {Pick(s)}]
        /\ B[s] = b[Pick(s)] + B[s \ {Pick(s)}]
    BY <2>1, <2>2, Zenon
  <2>4. Cardinality(s) \in Nat
    BY <2>1
  <2>5. QED
    BY <2>1, <2>3, <2>4, Zenon
<1>3. \A x \in S : /\ a[x] \in Nat /\ b[x] \in Nat
                   /\ 10 * b[x] <= a[x] + 5 /\ a[x] <= 10 * b[x] + 4
  BY DEF Money!ToPaise
<1> HIDE DEF A, B
<1>4. 0 \in I
  <2>1. \A s \in SUBSET S : Cardinality(s) = 0 => s = {}
    BY FS_Subset, FS_EmptySet
  <2>2. \A s \in SUBSET S : Cardinality(s) = 0 => A[s] = 0 /\ B[s] = 0
    BY <1>1, <2>1
  <2>3. QED
    BY <2>2
<1>5. ASSUME NEW n \in Nat, n \in I PROVE n + 1 \in I
  <2> SUFFICES ASSUME NEW s \in SUBSET S, Cardinality(s) = n + 1
               PROVE  /\ A[s] \in Nat /\ B[s] \in Nat
                      /\ 10 * B[s] <= A[s] + 5 * (n + 1)
                      /\ A[s] <= 10 * B[s] + 4 * (n + 1)
    OBVIOUS
  <2> DEFINE x == Pick(s)
             t == s \ {Pick(s)}
  <2>1. s # {}
    BY FS_EmptySet
  <2>2. /\ x \in S /\ t \in SUBSET S /\ Cardinality(t) = Cardinality(s) - 1
        /\ A[s] = a[x] + A[t] /\ B[s] = b[x] + B[t]
    BY <1>2, <2>1
  <2>3. Cardinality(t) = n
    BY <2>2
  <2> HIDE DEF x, t
  <2>4. /\ A[t] \in Nat /\ B[t] \in Nat
        /\ 10 * B[t] <= A[t] + 5 * n /\ A[t] <= 10 * B[t] + 4 * n
    BY <1>5, <2>2
  <2>5. QED
    BY <1>3, <2>2, <2>4
<1>6. Cardinality(S) \in I
  <2> HIDE DEF I
  <2>1. Nat \subseteq I
    BY <1>4, <1>5, AllNaturals
  <2>2. QED
    BY <2>1, FS_CardinalityType
<1> DEFINE n == Cardinality(S)
<1>7. /\ A[S] \in Nat /\ B[S] \in Nat /\ n \in Nat
      /\ 10 * B[S] <= A[S] + 5 * n /\ A[S] <= 10 * B[S] + 4 * n
  BY <1>6
<1> HIDE DEF n
<1>8. Money!ToPaise(A[S]) - B[S] \in -n..n
  BY <1>7 DEF Money!ToPaise
<1>9. QED
  BY <1>8, SumOfIs DEF A, B, n

\* Sums of equal amounts are equal.
LEMMA EqualSums ==
  ASSUME NEW S, NEW f, NEW g, \A x \in S : f[x] = g[x]
  PROVE  Money!SumOf(f, S) = Money!SumOf(g, S)
<1>1. \A s \in SUBSET S : s # {} => f[Pick(s)] = g[Pick(s)]
  BY DEF Pick
<1>2. \A sum : IsFold(sum, f, SUBSET S) <=> IsFold(sum, g, SUBSET S)
  <2> TAKE sum
  <2>1. [s \in SUBSET S |-> IF s = {} THEN 0 ELSE f[Pick(s)] + sum[s \ {Pick(s)}]]
          = [s \in SUBSET S |-> IF s = {} THEN 0 ELSE g[Pick(s)] + sum[s \ {Pick(s)}]]
    BY <1>1
  <2>2. QED
    BY <2>1 DEF IsFold
<1>3. Sums(f, S) = Sums(g, S)
  BY <1>2 DEF Sums
<1>4. QED
  BY <1>3, SumOfIs
-----------------------------------------------------------------------------
(* The same money in two places (MoneyViews).                              *)

PaymentRow ==
  [status: {"created", "captured", "refunded", "partially_refunded"}, amount: Amounts,
   refunded: Nat, refundId: {None, "gateway"}, refundedAt: {None, "refunded"}]
\* The statuses MakePayout and MovePayout lead to.
PayoutStatuses == {"completed", "processing", "failed", "reversed", "queued"}
PayoutRow == [status: PayoutStatuses, amount: Amounts, owner: Payees]

\* The inductive invariant of the part: what counts as refunded is refunded
\* in full.
MInv ==
  /\ payments \in [Payments -> PaymentRow]
  /\ payouts \in [Payouts -> {None} \cup PayoutRow]
  /\ \A p \in Payments :
       payments[p].status = "refunded" => payments[p].refunded = payments[p].amount
MoneyInv == part = "money" => MInv
-----------------------------------------------------------------------------
LEMMA MoneyInvInit == Init => MoneyInv
<1> SUFFICES ASSUME Money!Init PROVE MInv
  BY DEF Init, MoneyInv
<1>1. payments \in [Payments -> PaymentRow]
  BY DEF Money!Init, PaymentRow
<1>2. \A p \in Payments : payments[p].status = "created"
  BY DEF Money!Init
<1>3. payouts \in [Payouts -> {None} \cup PayoutRow]
  BY DEF Money!Init
<1>4. QED
  BY <1>1, <1>2, <1>3 DEF MInv

\* A payment that changes stays one, and is refunded in full if it says so.
LEMMA MoneyInvPayment ==
  ASSUME MInv, NEW p \in Payments, payouts' = payouts, NEW row \in PaymentRow,
         payments' = [payments EXCEPT ![p] = row],
         row.status = "refunded" => row.refunded = row.amount
  PROVE  MInv'
BY DEF MInv

LEMMA MoneyInvPayments ==
  ASSUME MInv, NEW p \in Payments,
         Money!Capture(p) \/ Money!BeginRefund(p) \/ Money!NameRefund(p) \/ Money!EndRefund(p)
  PROVE  MInv'
<1> DEFINE r == payments[p]
<1>1. r \in PaymentRow /\ (r.status = "refunded" => r.refunded = r.amount)
  BY DEF MInv
<1>2. payouts' = payouts
  BY DEF Money!Capture, Money!BeginRefund, Money!NameRefund, Money!EndRefund
<1>3. CASE Money!Capture(p)
  <2> DEFINE row == [r EXCEPT !.status = "captured"]
  <2>1. payments' = [payments EXCEPT ![p] = row]
    BY <1>3 DEF Money!Capture, MInv
  <2>2. row \in PaymentRow /\ row.status = "captured"
    BY <1>1 DEF PaymentRow
  <2> HIDE DEF row, r
  <2>3. QED
    BY <1>2, <2>1, <2>2, MoneyInvPayment
<1>4. CASE Money!BeginRefund(p)
  <2>1. PICK amount \in {a \in Amounts : a <= payments[p].amount} :
          payments' = [payments EXCEPT ![p].refunded = amount]
    BY <1>4 DEF Money!BeginRefund
  <2> DEFINE row == [r EXCEPT !.refunded = amount]
  <2>2. payments' = [payments EXCEPT ![p] = row] /\ r.status = "captured"
    BY <1>4, <2>1 DEF Money!BeginRefund, MInv
  <2>3. row \in PaymentRow /\ row.status = "captured"
    BY <1>1, <2>2, BoundsAssumption DEF PaymentRow
  <2> HIDE DEF row, r
  <2>4. QED
    BY <1>2, <2>2, <2>3, MoneyInvPayment
<1>5. CASE Money!NameRefund(p)
  <2> DEFINE row == [r EXCEPT !.refundId = "gateway"]
  <2>1. payments' = [payments EXCEPT ![p] = row]
    BY <1>5 DEF Money!NameRefund, MInv
  <2>2. row \in PaymentRow /\ (row.status = "refunded" => row.refunded = row.amount)
    BY <1>1 DEF PaymentRow
  <2> HIDE DEF row, r
  <2>3. QED
    BY <1>2, <2>1, <2>2, MoneyInvPayment
<1>6. CASE Money!EndRefund(p)
  <2> DEFINE row == [r EXCEPT !.refundedAt = "refunded",
                              !.status = IF r.refunded = r.amount THEN "refunded"
                                         ELSE "partially_refunded"]
  <2>1. payments' = [payments EXCEPT ![p] = row]
    BY <1>6 DEF Money!EndRefund, MInv
  <2>2. row \in PaymentRow /\ (row.status = "refunded" => row.refunded = row.amount)
    BY <1>1 DEF PaymentRow
  <2> HIDE DEF row, r
  <2>3. QED
    BY <1>2, <2>1, <2>2, MoneyInvPayment
<1>7. QED
  BY <1>3, <1>4, <1>5, <1>6

LEMMA MoneyInvPayouts ==
  ASSUME MInv, NEW p \in Payouts, Money!MakePayout(p) \/ Money!MovePayout(p)
  PROVE  MInv'
<1>1. payments' = payments
  BY DEF Money!MakePayout, Money!MovePayout
<1>2. CASE Money!MakePayout(p)
  <2>1. PICK owner \in Payees, amount \in Amounts :
          payouts' = [payouts EXCEPT
            ![p] = [status |-> "queued", amount |-> amount, owner |-> owner]]
    BY <1>2 DEF Money!MakePayout
  <2>2. [status |-> "queued", amount |-> amount, owner |-> owner] \in PayoutRow
    BY DEF PayoutRow, PayoutStatuses
  <2>3. QED
    BY <1>1, <2>1, <2>2 DEF MInv
<1>3. CASE Money!MovePayout(p)
  <2>1. payouts[p] \in PayoutRow
    BY <1>3 DEF Money!MovePayout, MInv
  <2>2. PICK status \in {"processing", "completed", "failed", "reversed", "queued"} :
          payouts' = [payouts EXCEPT ![p].status = status]
    BY <1>3 DEF Money!MovePayout
  <2>3. payouts' \in [Payouts -> {None} \cup PayoutRow]
    BY <2>1, <2>2 DEF MInv, PayoutRow, PayoutStatuses
  <2>4. QED
    BY <1>1, <2>3 DEF MInv
<1>4. QED
  BY <1>2, <1>3

LEMMA MoneyInvNext == MoneyInv /\ [Next]_vars => MoneyInv'
<1> SUFFICES ASSUME MoneyInv, [Next]_vars, part' = "money"
             PROVE  MInv'
  BY DEF MoneyInv
<1>1. part = "money" /\ (Money!Next \/ UNCHANGED <<payments, payouts>>)
  BY DEF Next, vars, moneyVars
<1>2. MInv
  BY <1>1 DEF MoneyInv
<1>3. CASE UNCHANGED <<payments, payouts>>
  BY <1>2, <1>3 DEF MInv
<1>4. CASE Money!Next
  BY <1>2, <1>4, MoneyInvPayments, MoneyInvPayouts DEF Money!Next
<1>5. QED
  BY <1>1, <1>3, <1>4

LEMMA MoneyInvHolds == FairSpec => []MoneyInv
BY MoneyInvInit, MoneyInvNext, PTL DEF FairSpec
-----------------------------------------------------------------------------
LEMMA MoneyCardinality == \A S : Money!Cardinality(S) = Cardinality(S)
BY DEF Money!Cardinality, Cardinality

\* The refunds of the payments are the refunds listed.
LEMMA RefundsAreListed ==
  ASSUME MInv
  PROVE  UNION {{[refund |-> r, of |-> p] : r \in Money!ToPayment(p).refunds} : p \in Payments}
         = {[refund |-> [id |-> l.id, amount |-> l.amount, at |-> l.at], of |-> l.paymentId]
             : l \in Money!ListRefunds}
<1> DEFINE refunded == {q \in Payments : payments[q].refunded > 0}
           refund(p) == [id |-> Money!RefundId(p), amount |-> Money!ToPaise(payments[p].refunded),
                         at |-> Money!RefundTime(p)]
           listed(p) == [id |-> Money!RefundId(p), paymentId |-> p,
                         amount |-> Money!ToPaise(payments[p].refunded),
                         status |-> IF payments[p].status = "refunded"
                                    THEN "processed" ELSE "processing",
                         at |-> Money!RefundTime(p)]
           A == UNION {{[refund |-> r, of |-> p] : r \in Money!ToPayment(p).refunds}
                       : p \in Payments}
           B == {[refund |-> [id |-> l.id, amount |-> l.amount, at |-> l.at], of |-> l.paymentId]
                  : l \in Money!ListRefunds}
           both == {[refund |-> refund(p), of |-> p] : p \in refunded}
<1>1. \A p \in Payments : payments[p].refunded \in Nat
  BY DEF MInv, PaymentRow
<1>2. \A p \in Payments : Money!ToPayment(p).refunds = IF p \in refunded THEN {refund(p)} ELSE {}
  BY <1>1 DEF Money!ToPayment
<1>3. Money!ListRefunds = {listed(p) : p \in refunded}
  BY DEF Money!ListRefunds
<1>4. \A p : /\ listed(p).id = refund(p).id /\ listed(p).amount = refund(p).amount
             /\ listed(p).at = refund(p).at /\ listed(p).paymentId = p
             /\ refund(p) = [id |-> refund(p).id, amount |-> refund(p).amount, at |-> refund(p).at]
  OBVIOUS
<1> HIDE DEF refund, listed
<1>5. A = both
  <2> HIDE DEF refunded
  <2>1. refunded \subseteq Payments
    BY DEF refunded
  <2>2. ASSUME NEW x \in A PROVE x \in both
    <3>1. PICK p \in Payments : x \in {[refund |-> r, of |-> p] : r \in Money!ToPayment(p).refunds}
      OBVIOUS
    <3>2. p \in refunded /\ Money!ToPayment(p).refunds = {refund(p)}
      BY <1>2, <3>1
    <3>3. QED
      BY <3>1, <3>2
  <2>3. ASSUME NEW x \in both PROVE x \in A
    <3>1. PICK p \in refunded : x = [refund |-> refund(p), of |-> p]
      OBVIOUS
    <3>2. p \in Payments /\ Money!ToPayment(p).refunds = {refund(p)}
      BY <1>2, <2>1
    <3>3. x \in {[refund |-> r, of |-> p] : r \in Money!ToPayment(p).refunds}
      BY <3>1, <3>2
    <3>4. QED
      BY <3>2, <3>3
  <2>4. QED
    BY <2>2, <2>3
<1>6. B = both
  BY <1>3, <1>4
<1>7. QED
  BY <1>5, <1>6

\* A payout of a known status is shown under one of its own.
LEMMA PayoutsShown ==
  ASSUME MInv
  PROVE  /\ DOMAIN Money!ListPayouts = {q \in Payouts : payouts[q] # None}
         /\ \A p \in DOMAIN Money!ListPayouts :
              /\ payouts[p] \in PayoutRow
              /\ Money!ListPayouts[p].hostId = payouts[p].owner
              /\ Money!ListPayouts[p].netPayable = Money!ToPaise(payouts[p].amount)
              /\ Money!ListPayouts[p].status = "paid" <=> payouts[p].status = "completed"
              /\ Money!ListPayouts[p].status = "processing" <=> payouts[p].status = "processing"
<1>1. Money!ListPayouts = [p \in {q \in Payouts : payouts[q] # None} |-> Money!ToPayout(p)]
  BY DEF Money!ListPayouts
<1>2. \A p \in {q \in Payouts : payouts[q] # None} : payouts[p] \in PayoutRow
  BY DEF MInv
<1>3. QED
  BY <1>1, <1>2 DEF Money!ToPayout, Money!ShownStatus, PayoutRow, PayoutStatuses

\* The same money through two endpoints (payments.service.ts:41-126,
\* payouts.service.ts:30-68, hosts.service.ts:104-116,
\* dashboard.service.ts:102-110).
THEOREM MoneyIsTheSame == FairSpec => []MoneyAgrees
<1>1. MoneyInv => MoneyAgrees
  <2> SUFFICES ASSUME MInv PROVE Money!MoneyAgrees
    BY DEF MoneyInv, MoneyAgrees
  <2>1. \A l \in Money!ListRefunds :
          l.status = "processed" => l.amount = Money!ToPayment(l.paymentId).amount
    <3> SUFFICES ASSUME NEW l \in Money!ListRefunds, l.status = "processed"
                 PROVE  l.amount = Money!ToPayment(l.paymentId).amount
      OBVIOUS
    <3>1. PICK p \in Payments :
            /\ l.paymentId = p /\ l.amount = Money!ToPaise(payments[p].refunded)
            /\ l.status = IF payments[p].status = "refunded" THEN "processed" ELSE "processing"
      BY DEF Money!ListRefunds
    <3>2. payments[p].refunded = payments[p].amount
      BY <3>1 DEF MInv
    <3>3. QED
      BY <3>1, <3>2 DEF Money!ToPayment
  <2>2. ASSUME NEW owner \in Payees
        PROVE  Money!Earnings(owner) = Money!Net(Money!Shown("paid", {owner}))
    <3> DEFINE paid == {p \in DOMAIN Money!ListPayouts :
                          payouts[p].owner = owner /\ payouts[p].status = "completed"}
               amounts == [p \in paid |-> Money!ToPaise(payouts[p].amount)]
               nets == [p \in paid |-> Money!ListPayouts[p].netPayable]
    <3>1. Money!Shown("paid", {owner}) = paid
      BY PayoutsShown DEF Money!Shown
    <3>2. \A p \in paid : amounts[p] = nets[p]
      BY PayoutsShown
    <3>3. Money!Earnings(owner) = Money!SumOf(amounts, paid)
      BY DEF Money!Earnings
    <3>4. Money!Net(paid) = Money!SumOf(nets, paid)
      BY DEF Money!Net
    <3> HIDE DEF paid, amounts, nets
    <3>5. QED
      BY <3>1, <3>2, <3>3, <3>4, EqualSums
  <2>3. LET shown == Money!Shown("processing", Payees)
        IN Money!Agree(Money!Backlog, Money!Net(shown), Money!Cardinality(shown))
    <3> DEFINE due == {p \in DOMAIN Money!ListPayouts : payouts[p].status = "processing"}
               amounts == [p \in due |-> payouts[p].amount]
               nets == [p \in due |-> Money!ListPayouts[p].netPayable]
    <3>1. Money!Shown("processing", Payees) = due
      BY PayoutsShown DEF Money!Shown, PayoutRow
    <3>2. \A p \in due : nets[p] = Money!ToPaise(amounts[p])
      BY PayoutsShown
    <3>3. amounts \in [due -> Nat]
      BY PayoutsShown, BoundsAssumption DEF PayoutRow
    <3>4. IsFiniteSet(due)
      BY PayoutsShown, BoundsAssumption, FS_Subset
    <3>5. /\ Money!Backlog = Money!ToPaise(Money!SumOf(amounts, due))
          /\ Money!Net(due) = Money!SumOf(nets, due)
      BY DEF Money!Backlog, Money!Net
    <3> HIDE DEF due, amounts, nets
    <3>6. QED
      BY <3>1, <3>2, <3>3, <3>4, <3>5, RoundedSums, MoneyCardinality DEF Money!Agree
  <2>4. LET shown == {p \in Payments : Money!ToPayment(p).status = "captured"}
        IN Money!Agree(Money!Gmv, Money!SumOf([p \in shown |-> Money!ToPayment(p).amount], shown),
                       Money!Cardinality(shown))
    <3> DEFINE captured == {p \in Payments : payments[p].status = "captured"}
               shown == {p \in Payments : Money!ToPayment(p).status = "captured"}
               amounts == [p \in captured |-> payments[p].amount]
               rounded == [p \in captured |-> Money!ToPayment(p).amount]
    <3>1. shown = captured
      BY DEF Money!ToPayment
    <3>2. \A p \in captured : rounded[p] = Money!ToPaise(amounts[p])
      BY DEF Money!ToPayment
    <3>3. amounts \in [captured -> Nat]
      BY BoundsAssumption DEF MInv, PaymentRow
    <3>4. IsFiniteSet(captured)
      BY BoundsAssumption, FS_Subset
    <3>5. Money!Gmv = Money!ToPaise(Money!SumOf(amounts, captured))
      BY DEF Money!Gmv
    <3>6. [p \in shown |-> Money!ToPayment(p).amount] = rounded
      BY <3>1
    <3> HIDE DEF captured, shown, amounts, rounded
    <3>7. Money!Agree(Money!Gmv, Money!SumOf(rounded, captured), Money!Cardinality(captured))
      BY <3>2, <3>3, <3>4, <3>5, RoundedSums, MoneyCardinality DEF Money!Agree
    <3>8. QED
      BY <3>1, <3>6, <3>7 DEF shown
  <2>5. QED
    BY RefundsAreListed, <2>1, <2>2, <2>3, <2>4 DEF Money!MoneyAgrees
<1>2. QED
  BY <1>1, MoneyInvHolds, PTL
-----------------------------------------------------------------------------
(* The days of the time series (MetricsSeries).                            *)

\* Every number lies in one interval of a length.
LEMMA InOneInterval ==
  ASSUME NEW d \in Nat \ {0}, NEW x \in Int, NEW q \in Int, d * q <= x, x < d * (q + 1)
  PROVE  x \div d = q
<1>1. /\ x \div d \in Int /\ d * (x \div d) <= x /\ x < d * ((x \div d) + 1)
  OBVIOUS
<1> DEFINE p == x \div d
<1> HIDE DEF p
<1>2. p \in Int /\ d * p <= x /\ x < d * (p + 1)
  BY <1>1 DEF p
<1>3. ~(p < q)
  <2>1. SUFFICES ASSUME p + 1 <= q PROVE FALSE
    BY <1>2
  <2>2. d * (p + 1) <= d * q
    BY <1>2, <2>1
  <2>3. QED
    BY <1>2, <2>2
<1>4. ~(q < p)
  <2>1. SUFFICES ASSUME q + 1 <= p PROVE FALSE
    BY <1>2
  <2>2. d * (q + 1) <= d * p
    BY <1>2, <2>1
  <2>3. QED
    BY <1>2, <2>2
<1>5. QED
  BY <1>2, <1>3, <1>4 DEF p

\* Whole days later the date is as many days later, and the time of day the same.
LEMMA DaysLater ==
  ASSUME NEW d \in Nat \ {0}, NEW x \in Int, NEW k \in Int
  PROVE  /\ (x + k * d) \div d = (x \div d) + k
         /\ (x + k * d) % d = x % d
<1> DEFINE q == x \div d
           r == x % d
<1>1. q \in Int /\ r \in 0..(d - 1) /\ x = d * q + r
  OBVIOUS
<1> HIDE DEF q, r
<1>2. x + k * d = d * (q + k) + r
  BY <1>1
<1>3. d * ((q + k) + 1) = d * (q + k) + d
  BY <1>1
<1>4. (x + k * d) \div d = q + k
  BY <1>1, <1>2, <1>3, InOneInterval
<1>5. x + k * d = d * ((x + k * d) \div d) + ((x + k * d) % d)
  OBVIOUS
<1>6. (x + k * d) % d = r
  BY <1>1, <1>2, <1>4, <1>5
<1>7. QED
  BY <1>4, <1>6 DEF q, r

LEMMA DatesAreOrdered ==
  ASSUME NEW d \in Nat \ {0}, NEW x \in Int, NEW y \in Int, x <= y
  PROVE  x \div d <= y \div d
<1> DEFINE p == x \div d
           q == y \div d
<1>1. /\ p \in Int /\ d * p <= x /\ x < d * (p + 1)
      /\ q \in Int /\ d * q <= y /\ y < d * (q + 1)
  OBVIOUS
<1> HIDE DEF p, q
<1>2. SUFFICES ASSUME q + 1 <= p PROVE FALSE
  BY <1>1 DEF p, q
<1>3. d * (q + 1) <= d * p
  BY <1>1, <1>2
<1>4. QED
  BY <1>1, <1>3

\* The elements are as many as those of each value together.
LEMMA CountsAddUp ==
  ASSUME NEW S, IsFiniteSet(S), NEW M, IsFiniteSet(M), NEW g,
         NEW f, \A v \in S : f[v] = Cardinality({b \in M : g[b] = v})
  PROVE  Sums(f, S)[S] = Cardinality({b \in M : g[b] \in S})
<1> DEFINE F == Sums(f, S)
           With(s) == {b \in M : g[b] \in s}
           I == {n \in Nat : \A s \in SUBSET S :
                   Cardinality(s) = n => F[s] = Cardinality(With(s))}
<1>1. F[{}] = 0
  BY SumOfNone
<1>2. ASSUME NEW s \in SUBSET S, s # {}
      PROVE  /\ Pick(s) \in s /\ Pick(s) \in S /\ s \ {Pick(s)} \in SUBSET S
             /\ Cardinality(s) \in Nat
             /\ Cardinality(s \ {Pick(s)}) = Cardinality(s) - 1
             /\ F[s] = f[Pick(s)] + F[s \ {Pick(s)}]
  BY <1>2, SumOfMore DEF Pick
<1> HIDE DEF F
<1>3. 0 \in I
  <2>1. \A s \in SUBSET S : Cardinality(s) = 0 => s = {}
    BY FS_Subset, FS_EmptySet
  <2>2. Cardinality(With({})) = 0
    BY FS_EmptySet
  <2>3. QED
    BY <1>1, <2>1, <2>2
<1>4. ASSUME NEW n \in Nat, n \in I PROVE n + 1 \in I
  <2> SUFFICES ASSUME NEW s \in SUBSET S, Cardinality(s) = n + 1
               PROVE  F[s] = Cardinality(With(s))
    OBVIOUS
  <2> DEFINE x == Pick(s)
             t == s \ {Pick(s)}
             here == {b \in M : g[b] = x}
  <2>1. s # {}
    BY FS_EmptySet
  <2>2. /\ x \in s /\ x \in S /\ t \in SUBSET S /\ t = s \ {x}
        /\ Cardinality(t) = Cardinality(s) - 1 /\ F[s] = f[x] + F[t]
    BY <1>2, <2>1
  <2>3. F[t] = Cardinality(With(t))
    BY <1>4, <2>2
  <2> HIDE DEF x, t
  <2>4. With(s) = here \cup With(t) /\ here \cap With(t) = {}
    BY <2>2
  <2>5. IsFiniteSet(here) /\ IsFiniteSet(With(t))
    BY FS_Subset
  <2>6. Cardinality(here) \in Nat /\ Cardinality(With(t)) \in Nat
    BY <2>5, FS_CardinalityType
  <2>7. Cardinality(here \cap With(t)) = 0
    BY <2>4, FS_EmptySet
  <2>8. Cardinality(With(s)) = Cardinality(here) + Cardinality(With(t))
    <3> DEFINE W == With(t)
    <3> HIDE DEF here, W
    <3>1. /\ IsFiniteSet(here) /\ IsFiniteSet(W)
          /\ Cardinality(here) \in Nat /\ Cardinality(W) \in Nat /\ Cardinality(here \cap W) = 0
      BY <2>5, <2>6, <2>7 DEF W
    <3>2. Cardinality(here \cup W) = Cardinality(here) + Cardinality(W) - Cardinality(here \cap W)
      BY <3>1, FS_Union
    <3>3. Cardinality(here \cup W) = Cardinality(here) + Cardinality(W)
      BY <3>1, <3>2
    <3>4. QED
      BY <2>4, <3>3 DEF W
  <2>9. QED
    BY <2>2, <2>3, <2>8
<1>5. Cardinality(S) \in I
  <2> HIDE DEF I
  <2>1. Nat \subseteq I
    BY <1>3, <1>4, AllNaturals
  <2>2. QED
    BY <2>1, FS_CardinalityType
<1>6. QED
  BY <1>5 DEF F
-----------------------------------------------------------------------------
\* The inductive invariant of the part: bookings are made at moments.
DInv == now \in Int /\ made \subseteq Int /\ IsFiniteSet(made)
DaysInv == part = "metrics" => DInv

LEMMA DaysInvHolds == FairSpec => []DaysInv
<1>1. Init => DaysInv
  <2> SUFFICES ASSUME Metrics!Init PROVE DInv
    BY DEF Init, DaysInv
  <2>1. QED
    BY BoundsAssumption, FS_EmptySet DEF DInv, Metrics!Init
<1>2. DaysInv /\ [Next]_vars => DaysInv'
  <2> SUFFICES ASSUME DaysInv, [Next]_vars, part' = "metrics" PROVE DInv'
    BY DEF DaysInv
  <2>1. part = "metrics" /\ (Metrics!Next \/ UNCHANGED <<now, made>>)
    BY DEF Next, vars, metricsVars
  <2>2. DInv
    BY <2>1 DEF DaysInv
  <2>3. CASE Metrics!Tick
    BY <2>2, <2>3 DEF Metrics!Tick, DInv
  <2>4. CASE Metrics!Book
    BY <2>2, <2>4, FS_AddElement DEF Metrics!Book, DInv
  <2>5. CASE UNCHANGED <<now, made>>
    BY <2>2, <2>5 DEF DInv
  <2>6. QED
    BY <2>1, <2>3, <2>4, <2>5 DEF Metrics!Next
<1>3. QED
  BY <1>1, <1>2, PTL DEF FairSpec

LEMMA DaysCardinality == \A S : Metrics!Cardinality(S) = Cardinality(S)
BY DEF Metrics!Cardinality, Cardinality

\* The series begins with a day in local time and has one date for each.
LEMMA DaysOfTheSeries ==
  ASSUME DInv
  PROVE  LET today == Metrics!Midnight(now + Offset) - Offset
             since == Metrics!Since(now)
             first == since \div Day
         IN /\ today \in Int /\ since \in Int /\ first \in Int
            /\ since = today - (Days - 1) * Day
            /\ today \div Day = first + (Days - 1)
            /\ Metrics!Buckets(now) = first..(first + (Days - 1))
<1> DEFINE today == Metrics!Midnight(now + Offset) - Offset
           since == Metrics!Since(now)
           first == since \div Day
<1>1. Day \in Nat \ {0} /\ Days \in Nat \ {0} /\ Offset \in Int /\ now \in Int
  BY BoundsAssumption DEF DInv
<1> DEFINE t == now + Offset
           k == Days - 1
<1>2. t \in Int /\ k \in Nat /\ -k \in Int
  BY <1>1
<1>3. now - (Days - 1) * Day + Offset = t + (-k) * Day
  BY <1>1
<1> HIDE DEF t, k
<1>4. (t + (-k) * Day) % Day = t % Day
  BY <1>1, <1>2, DaysLater
<1>5. today = t - (t % Day) - Offset
  BY <1>1 DEF Metrics!Midnight, t
<1>6. since = (t + (-k) * Day) - (t % Day) - Offset
  BY <1>3, <1>4 DEF Metrics!Since, Metrics!Midnight
<1>7. t % Day \in Int /\ k * Day \in Int /\ (-k) * Day = -(k * Day)
  BY <1>1, <1>2
<1>8. today \in Int /\ since \in Int /\ since = today - k * Day /\ today = since + k * Day
  BY <1>1, <1>2, <1>5, <1>6, <1>7
<1> HIDE DEF today, since
<1>9. first \in Int
  BY <1>1, <1>8
<1>10. \A i \in 0..k : (since + i * Day) \div Day = first + i
  BY <1>1, <1>8, DaysLater
<1>11. today \div Day = first + k
  BY <1>2, <1>8, <1>10
<1>12. Metrics!Buckets(now) = {(since + i * Day) \div Day : i \in 0..k}
  BY DEF Metrics!Buckets, Metrics!UtcDate, since, k
<1> HIDE DEF first
<1>13. {first + i : i \in 0..k} = first..(first + k)
  <2>1. \A v \in first..(first + k) : v - first \in 0..k /\ v = first + (v - first)
    BY <1>2, <1>9
  <2>2. \A i \in 0..k : first + i \in first..(first + k)
    BY <1>2, <1>9
  <2>3. QED
    BY <2>1, <2>2
<1>14. Metrics!Buckets(now) = first..(first + k)
  BY <1>10, <1>12, <1>13
<1>15. QED
  BY <1>8, <1>9, <1>11, <1>14 DEF today, since, first, k

LEMMA TotalIs ==
  Metrics!Total(now) = Sums(Metrics!Series(now), Metrics!Buckets(now))[Metrics!Buckets(now)]
BY DEF Metrics!Total, Metrics!MapThenSumSet, Metrics!MapThenFoldSet, Sums, IsFold, Pick

\* Every whole local day is in the series once (dashboard.service.ts:167-200).
THEOREM WholeDaysAreInTheSeries == FairSpec => []WholeDaysAreCounted
<1>1. DaysInv => WholeDaysAreCounted
  <2> SUFFICES ASSUME DInv PROVE Metrics!WholeDaysAreCounted
    BY DEF DaysInv, WholeDaysAreCounted
  <2> DEFINE today == Metrics!Midnight(now + Offset) - Offset
             first == Metrics!Since(now) \div Day
             S == Metrics!Buckets(now)
             M == {b \in made : b >= Metrics!Since(now)}
             g == [b \in made |-> Metrics!UtcDate(b)]
             counted == {b \in M : g[b] \in S}
  <2>1. /\ today \in Int /\ Metrics!Since(now) \in Int /\ first \in Int
        /\ Metrics!Since(now) = today - (Days - 1) * Day
        /\ today \div Day = first + (Days - 1)
        /\ S = first..(first + (Days - 1))
    BY DaysOfTheSeries
  <2>2. Day \in Nat \ {0} /\ Days \in Nat \ {0} /\ made \subseteq Int /\ IsFiniteSet(made)
    BY BoundsAssumption DEF DInv
  <2> HIDE DEF today, first, S
  <2>3. IsFiniteSet(S) /\ Cardinality(S) = Days
    <3>1. first + (Days - 1) \in Int /\ first <= first + (Days - 1)
      BY <2>1, <2>2
    <3>2. QED
      BY <2>1, <2>2, <3>1, FS_Interval
  <2>4. IsFiniteSet(M)
    BY <2>2, FS_Subset
  <2>5. \A v \in S : Metrics!Series(now)[v] = Cardinality({b \in M : g[b] = v})
    <3> SUFFICES ASSUME NEW v \in S
                 PROVE  Metrics!Series(now)[v] = Cardinality({b \in M : g[b] = v})
      OBVIOUS
    <3>1. {b \in M : g[b] = v}
          = {b \in made : b >= Metrics!Since(now) /\ Metrics!UtcDate(b) = v}
      OBVIOUS
    <3>2. Metrics!Series(now)[v]
          = Metrics!Cardinality({b \in made : b >= Metrics!Since(now) /\ Metrics!UtcDate(b) = v})
      BY DEF Metrics!Series, S
    <3>3. QED
      BY <3>1, <3>2, DaysCardinality
  <2>6. Metrics!Total(now) = Cardinality(counted)
    <3> HIDE DEF M, g
    <3>1. Sums(Metrics!Series(now), S)[S] = Cardinality({b \in M : g[b] \in S})
      BY <2>3, <2>4, <2>5, CountsAddUp
    <3>2. QED
      BY <3>1, TotalIs DEF S
  <2> DEFINE whole == {b \in M : b < today}
  <2>7. counted \subseteq M
    OBVIOUS
  <2>8. whole \subseteq counted
    <3> SUFFICES ASSUME NEW b \in made, b >= Metrics!Since(now), b < today
                 PROVE  b \div Day \in S
      BY DEF Metrics!UtcDate
    <3>1. first <= b \div Day
      BY <2>1, <2>2, DatesAreOrdered DEF first
    <3>2. b \div Day <= first + (Days - 1)
      BY <2>1, <2>2, DatesAreOrdered
    <3>3. b \div Day \in Int
      BY <2>2
    <3>4. QED
      BY <2>1, <2>2, <3>1, <3>2, <3>3
  <2> HIDE DEF counted, M
  <2>9. /\ IsFiniteSet(counted)
        /\ Cardinality(whole) <= Cardinality(counted) /\ Cardinality(counted) <= Cardinality(M)
        /\ Cardinality(whole) \in Nat /\ Cardinality(counted) \in Nat /\ Cardinality(M) \in Nat
    BY <2>4, <2>7, <2>8, FS_Subset, FS_CardinalityType
  <2>10. /\ {b \in made : b >= today - (Days - 1) * Day} = M
         /\ {b \in {b \in made : b >= today - (Days - 1) * Day} : b < today} = whole
    BY <2>1 DEF M
  <2>11. /\ Metrics!Cardinality(S) = Days
         /\ Metrics!Total(now) \in Metrics!Cardinality(whole)..Metrics!Cardinality(M)
    BY <2>3, <2>6, <2>9, DaysCardinality
  <2> HIDE DEF whole
  <2>12. QED
    BY <2>10, <2>11 DEF Metrics!WholeDaysAreCounted, today, S
<1>2. QED
  BY <1>1, DaysInvHolds, PTL
=============================================================================
