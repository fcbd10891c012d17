-------------------------- MODULE PageReadsProofs --------------------------
(* What holds of the rows a console reads page by page: a list misses and  *)
(* repeats few while it changes, and none when it does not (PagedList);    *)
(* the rows of the audit log are earned, tell of their operations, and are *)
(* shown to whoever asks for the history of an object (AuditTrail).        *)
EXTENDS MCReads, FiniteSetTheorems, FunctionTheorems, SequenceTheorems,
        WellFoundedInduction, TLAPS
-----------------------------------------------------------------------------

(* Places.  In a finite set in a strict total order every element has a    *)
(* place, one after the elements before it, and every place an element.    *)

Rank(S, R) == [a \in S |-> Cardinality({b \in S : <<b, a>> \in R}) + 1]

LEMMA Ranked ==
  ASSUME NEW S, IsFiniteSet(S), NEW R,
         \A a \in S : <<a, a>> \notin R,
         \A a, b, c \in S : <<a, b>> \in R /\ <<b, c>> \in R => <<a, c>> \in R,
         \A a, b \in S : a # b => <<a, b>> \in R \/ <<b, a>> \in R
  PROVE  /\ \A a \in S : Rank(S, R)[a] \in 1..Cardinality(S)
         /\ \A a, b \in S : <<a, b>> \in R <=> Rank(S, R)[a] < Rank(S, R)[b]
         /\ \A a, b \in S : Rank(S, R)[a] = Rank(S, R)[b] => a = b
         /\ \A p \in 1..Cardinality(S) : \E a \in S : Rank(S, R)[a] = p
<1> DEFINE below(a) == {b \in S : <<b, a>> \in R}
           f == Rank(S, R)
           N == Cardinality(S)
<1>1. \A a \in S : f[a] = Cardinality(below(a)) + 1
  BY DEF Rank
<1>2. N \in Nat /\ \A a \in S : IsFiniteSet(below(a)) /\ Cardinality(below(a)) \in Nat
  BY FS_Subset, FS_CardinalityType
<1> HIDE DEF f
<1>3. ASSUME NEW a \in S PROVE f[a] \in 1..N
  <2>1. a \notin below(a) /\ below(a) \subseteq S
    OBVIOUS
  <2>2. Cardinality(below(a)) <= N /\ Cardinality(below(a)) # N
    <3> HIDE DEF below
    <3>1. QED
      BY <2>1, FS_Subset
  <2>3. QED
    BY <1>1, <1>2, <2>2
<1>4. ASSUME NEW a \in S, NEW b \in S, <<a, b>> \in R PROVE f[a] < f[b]
  <2>1. below(a) \subseteq below(b) /\ a \in below(b) /\ a \notin below(a)
    BY <1>4
  <2>2. /\ Cardinality(below(a)) <= Cardinality(below(b))
        /\ Cardinality(below(a)) # Cardinality(below(b))
    <3> DEFINE A == below(a)
               B == below(b)
    <3>1. IsFiniteSet(B) /\ A \subseteq B /\ A # B
      BY <1>2, <2>1
    <3> HIDE DEF A, B
    <3>2. Cardinality(A) <= Cardinality(B) /\ Cardinality(A) # Cardinality(B)
      BY <3>1, FS_Subset
    <3>3. QED
      BY <3>2 DEF A, B
  <2> HIDE DEF below
  <2>3. QED
    BY <1>1, <1>2, <2>2
<1> HIDE DEF N
<1>5. \A a \in S : f[a] \in Nat
  BY <1>2, <1>3
<1>6. ASSUME NEW a \in S, NEW b \in S PROVE <<a, b>> \in R <=> f[a] < f[b]
  <2>1. f[a] \in Nat /\ f[b] \in Nat
    BY <1>5
  <2>2. a # b => <<a, b>> \in R \/ <<b, a>> \in R
    OBVIOUS
  <2>3. <<b, a>> \in R => f[b] < f[a]
    BY <1>4
  <2>4. QED
    BY <1>4, <2>1, <2>2, <2>3
<1>7. \A a, b \in S : f[a] = f[b] => a = b
  BY <1>5, <1>6
<1>8. \A p \in 1..N : \E a \in S : f[a] = p
  <2>1. f \in [S -> 1..N]
    BY <1>3 DEF f, Rank
  <2>2. f \in Injection(S, 1..N)
    BY <1>7, <2>1, Fun_IsInj
  <2>3. IsFiniteSet(1..N) /\ Cardinality(1..N) = N
    <3>1. 1 \in Int /\ N \in Int /\ (N >= 1 => N - 1 + 1 = N) /\ (1 > N => N = 0)
      BY <1>2
    <3>2. QED
      BY <3>1, FS_Interval
  <2>4. f \in Surjection(S, 1..N)
    BY <2>2, <2>3, FS_Injection DEF N
  <2>5. QED
    BY <2>4 DEF Surjection
<1>9. QED
  BY <1>3, <1>6, <1>7, <1>8 DEF f, N
-----------------------------------------------------------------------------
(* The lists a console walks (PagedList).                                  *)

LEMMA ListCardinality == \A S : List!Cardinality(S) = Cardinality(S)
BY DEF List!Cardinality, Cardinality

TableRow == [id: Nat, wanted: BOOLEAN, stamp: Stamps \cup {None}]
Queries == [sort: BOOLEAN, desc: BOOLEAN]

\* Rows of a table: an identity each.
Rows(T) ==
  /\ T \subseteq TableRow /\ IsFiniteSet(T)
  /\ \A a, b \in T : a.id = b.id => a = b

\* The comparator is a strict total order.
LEMMA BeforeIsAnOrder ==
  ASSUME NEW T, Rows(T), NEW q
  PROVE  /\ \A a \in T : ~List!Before(q, a, a)
         /\ \A a, b, c \in T : List!Before(q, a, b) /\ List!Before(q, b, c) => List!Before(q, a, c)
         /\ \A a, b \in T : a # b => List!Before(q, a, b) \/ List!Before(q, b, a)
<1>1. \A r \in T : r.id \in Nat /\ (r.stamp = None \/ r.stamp \in Int)
  BY BoundsAssumption DEF Rows, TableRow
<1>2. \A a, b \in T : a.id = b.id => a = b
  BY DEF Rows
<1>3. \A a \in T : ~List!Before(q, a, a)
  BY <1>1 DEF List!Before, List!Precedes
<1>4. ASSUME NEW a \in T, NEW b \in T, NEW c \in T, List!Before(q, a, b), List!Before(q, b, c)
      PROVE  List!Before(q, a, c)
  BY <1>1, <1>4 DEF List!Before, List!Precedes
<1>5. ASSUME NEW a \in T, NEW b \in T, a # b PROVE List!Before(q, a, b) \/ List!Before(q, b, a)
  BY <1>1, <1>2, <1>5 DEF List!Before, List!Precedes
<1>6. QED
  BY <1>3, <1>4, <1>5

\* The list is the kept rows in their places.
LEMMA Placed ==
  ASSUME NEW T, Rows(T), NEW q
  PROVE  LET K == List!Kept(T)
             N == Cardinality(K)
             L == List!Listed(T, q)
         IN /\ IsFiniteSet(K) /\ N \in Nat
            /\ \A r \in K : List!Place(T, q, r) \in 1..N
            /\ \A r, s \in K : List!Before(q, r, s) <=> List!Place(T, q, r) < List!Place(T, q, s)
            /\ \A r, s \in K : List!Place(T, q, r) = List!Place(T, q, s) => r = s
            /\ DOMAIN L = 1..N
            /\ \A p \in 1..N : L[p] \in K /\ List!Place(T, q, L[p]) = p
            /\ \A r \in K : L[List!Place(T, q, r)] = r
            /\ L \in Seq(K) /\ Len(L) = N
<1> DEFINE K == List!Kept(T)
           N == Cardinality(K)
           L == List!Listed(T, q)
           R == {x \in K \X K : List!Before(q, x[1], x[2])}
           place(r) == List!Place(T, q, r)
<1>1. K \subseteq T /\ IsFiniteSet(K) /\ N \in Nat
  BY FS_Subset, FS_CardinalityType DEF List!Kept, Rows
<1>2. \A a, b \in K : <<a, b>> \in R <=> List!Before(q, a, b)
  OBVIOUS
<1>3. /\ \A a \in K : <<a, a>> \notin R
      /\ \A a, b, c \in K : <<a, b>> \in R /\ <<b, c>> \in R => <<a, c>> \in R
      /\ \A a, b \in K : a # b => <<a, b>> \in R \/ <<b, a>> \in R
  <2> HIDE DEF K, R
  <2>1. QED
    BY <1>1, <1>2, BeforeIsAnOrder
<1>4. ASSUME NEW r \in K PROVE place(r) = Rank(K, R)[r]
  <2>1. {s \in K : List!Before(q, s, r)} = {s \in K : <<s, r>> \in R}
    BY <1>2
  <2>2. Rank(K, R)[r] = Cardinality({s \in K : <<s, r>> \in R}) + 1
    BY DEF Rank
  <2>3. QED
    BY <2>1, <2>2, ListCardinality DEF List!Place
<1>5. L = [p \in 1..N |-> CHOOSE r \in K : place(r) = p]
  BY ListCardinality DEF List!Listed
<1> HIDE DEF K, N, L, R, place
<1>6. /\ \A a \in K : place(a) \in 1..N
      /\ \A a, b \in K : List!Before(q, a, b) <=> place(a) < place(b)
      /\ \A a, b \in K : place(a) = place(b) => a = b
      /\ \A p \in 1..N : \E a \in K : place(a) = p
  <2>1. /\ \A a \in K : Rank(K, R)[a] \in 1..N
        /\ \A a, b \in K : <<a, b>> \in R <=> Rank(K, R)[a] < Rank(K, R)[b]
        /\ \A a, b \in K : Rank(K, R)[a] = Rank(K, R)[b] => a = b
        /\ \A p \in 1..N : \E a \in K : Rank(K, R)[a] = p
    BY <1>1, <1>3, Ranked DEF N
  <2>2. \A a \in K : place(a) = Rank(K, R)[a]
    BY <1>4
  <2> HIDE DEF R
  <2>3. \A a, b \in K : List!Before(q, a, b) <=> place(a) < place(b)
    BY <1>2, <2>1, <2>2
  <2>4. \A p \in 1..N : \E a \in K : place(a) = p
    BY <2>1, <2>2
  <2>5. QED
    BY <2>1, <2>2, <2>3, <2>4
<1>7. \A p \in 1..N : L[p] \in K /\ place(L[p]) = p
  BY <1>5, <1>6
<1>8. \A r \in K : L[place(r)] = r
  BY <1>6, <1>7
<1>9. DOMAIN L = 1..N /\ L \in Seq(K) /\ Len(L) = N
  <2>1. L \in [1..N -> K]
    BY <1>5, <1>7
  <2>2. QED
    BY <1>1, <2>1
<1>10. QED
  BY <1>1, <1>6, <1>7, <1>8, <1>9 DEF K, N, L, place

\* A set with at most one element more is at most one larger.
LEMMA OneMore ==
  ASSUME NEW A, NEW B, IsFiniteSet(B), NEW x, A \subseteq B \cup {x}
  PROVE  /\ IsFiniteSet(A) /\ Cardinality(A) \in Nat /\ Cardinality(B) \in Nat
         /\ Cardinality(A) <= Cardinality(B) + 1
<1>1. IsFiniteSet(B \cup {x}) /\ Cardinality(B \cup {x}) <= Cardinality(B) + 1
  <2>1. /\ IsFiniteSet(B \cup {x})
        /\ Cardinality(B \cup {x}) = IF x \in B THEN Cardinality(B) ELSE Cardinality(B) + 1
    BY FS_AddElement
  <2>2. Cardinality(B) \in Nat
    BY FS_CardinalityType
  <2>3. QED
    BY <2>1, <2>2
<1>2. IsFiniteSet(A) /\ Cardinality(A) <= Cardinality(B \cup {x})
  BY <1>1, FS_Subset
<1>3. Cardinality(A) \in Nat /\ Cardinality(B) \in Nat /\ Cardinality(B \cup {x}) \in Nat
  BY <1>1, <1>2, FS_CardinalityType
<1>4. QED
  BY <1>1, <1>2, <1>3

LEMMA Disjoint ==
  ASSUME NEW A, NEW B, IsFiniteSet(A), IsFiniteSet(B), A \cap B = {}
  PROVE  IsFiniteSet(A \cup B) /\ Cardinality(A \cup B) = Cardinality(A) + Cardinality(B)
<1>1. /\ IsFiniteSet(A \cup B)
      /\ Cardinality(A \cup B) = Cardinality(A) + Cardinality(B) - Cardinality(A \cap B)
  BY FS_Union
<1>2. Cardinality(A) \in Nat /\ Cardinality(B) \in Nat /\ Cardinality(A \cap B) = 0
  BY FS_CardinalityType, FS_EmptySet
<1>3. QED
  BY <1>1, <1>2

\* How places change with the list: up by a row that goes, down by one that
\* comes before.
LEMMA PlacesShift ==
  ASSUME NEW T, Rows(T), NEW U, Rows(U), NEW q,
         NEW x, List!Kept(T) \ List!Kept(U) \subseteq {x},
         NEW y, List!Kept(U) \ List!Kept(T) \subseteq {y},
         NEW r \in List!Kept(T) \cap List!Kept(U)
  PROVE  /\ List!Place(T, q, r) <= List!Place(U, q, r) + 1
         /\ List!Kept(T) \subseteq List!Kept(U) => List!Place(T, q, r) <= List!Place(U, q, r)
         /\ List!Place(U, q, r) <= List!Place(T, q, r) + 1
         /\ List!Kept(U) \subseteq List!Kept(T) \/ ~List!Before(q, y, r)
              => List!Place(U, q, r) <= List!Place(T, q, r)
<1> DEFINE A == {s \in List!Kept(T) : List!Before(q, s, r)}
           B == {s \in List!Kept(U) : List!Before(q, s, r)}
<1>1. List!Place(T, q, r) = Cardinality(A) + 1 /\ List!Place(U, q, r) = Cardinality(B) + 1
  BY ListCardinality DEF List!Place
<1>2. IsFiniteSet(List!Kept(T)) /\ IsFiniteSet(List!Kept(U))
  BY Placed
<1>3. IsFiniteSet(A) /\ IsFiniteSet(B)
  BY <1>2, FS_Subset
<1>4. A \subseteq B \cup {x} /\ B \subseteq A \cup {y}
  OBVIOUS
<1>5. /\ List!Kept(T) \subseteq List!Kept(U) => A \subseteq B
      /\ List!Kept(U) \subseteq List!Kept(T) \/ ~List!Before(q, y, r) => B \subseteq A
  OBVIOUS
<1> HIDE DEF A, B
<1>6. /\ Cardinality(A) \in Nat /\ Cardinality(B) \in Nat
      /\ Cardinality(A) <= Cardinality(B) + 1 /\ Cardinality(B) <= Cardinality(A) + 1
  BY <1>3, <1>4, OneMore
<1>7. /\ A \subseteq B => Cardinality(A) <= Cardinality(B)
      /\ B \subseteq A => Cardinality(B) <= Cardinality(A)
  BY <1>3, FS_Subset
<1>8. QED
  BY <1>1, <1>5, <1>6, <1>7
-----------------------------------------------------------------------------
Listed == List!Kept(table)
At(r) == List!Place(table, query, r)
Received == List!Received
Passed == (page - 1) * Limit

\* Rows of the list that were in it all the time and are not received, though
\* the pages got so far reached their places.
Overlooked == {i \in stayed \ Received : \A r \in Listed : r.id = i => At(r) <= Passed}

\* Rows that are received and come once more.
Again == {r \in Listed : r.id \in Received /\ At(r) > Passed}

ListTyped ==
  /\ Rows(table) /\ \A r \in table : r.id <= Cardinality(table)
  /\ query \in Queries
  /\ page \in {None} \cup (Nat \ {0})
  /\ got \in Seq(Nat)
  /\ entered \in Nat /\ left \in Nat
  /\ stayed \subseteq List!Ids(Listed)

\* The row that leaves shifts one other row out of the pages to come.
MissedFew == Cardinality(IF page = None THEN stayed \ Received ELSE Overlooked) <= left

\* The row that enters comes itself, or shifts one other row into them.
RepeatedFew ==
  Len(got) - Cardinality(Received) + (IF page = None THEN 0 ELSE Cardinality(Again)) <= entered

\* The pages got so far are the first rows of the list.
FirstPages ==
  entered = 0 /\ left = 0 =>
    /\ Len(got) = IF page = None THEN Cardinality(Listed) ELSE Passed
    /\ Len(got) <= Cardinality(Listed)
    /\ \A p \in 1..Len(got) : got[p] = List!Listed(table, query)[p].id

\* The inductive invariant of the part.
LInv == ListTyped /\ MissedFew /\ RepeatedFew /\ FirstPages
ListInv == part = "list" => LInv

-----------------------------------------------------------------------------
LEMMA NoneIsNoNumber == None \notin Nat
BY NoCountAssumption

LEMMA ReceivedIs ==
  ASSUME got \in Seq(Nat)
  PROVE  /\ Received = {got[i] : i \in 1..Len(got)}
         /\ IsFiniteSet(Received) /\ Cardinality(Received) \in Nat /\ Len(got) \in Nat
<1>1. Received = {got[i] : i \in 1..Len(got)} /\ Len(got) \in Nat
  BY DEF Received, List!Received
<1> DEFINE n == Len(got)
           f == [i \in 1..n |-> got[i]]
<1>2. f \in Surjection(1..n, Received)
  BY <1>1 DEF Surjection
<1>3. IsFiniteSet(1..n)
  BY <1>1, FS_Interval
<1>4. IsFiniteSet(Received)
  BY <1>2, <1>3, FS_Surjection
<1>5. QED
  BY <1>1, <1>4, FS_CardinalityType

\* Rows with an identity each are as many as their identities.
LEMMA IdsCounted ==
  ASSUME NEW T, Rows(T), NEW S, S \subseteq T
  PROVE  /\ IsFiniteSet(S) /\ IsFiniteSet(List!Ids(S))
         /\ Cardinality(List!Ids(S)) = Cardinality(S) /\ Cardinality(S) \in Nat
<1> DEFINE f == [r \in S |-> r.id]
<1>1. IsFiniteSet(S)
  BY FS_Subset DEF Rows
<1>2. f \in Bijection(S, List!Ids(S))
  <2>1. \A a, b \in S : f[a] = f[b] => a = b
    BY DEF Rows
  <2>2. f \in [S -> List!Ids(S)] /\ \A i \in List!Ids(S) : \E r \in S : f[r] = i
    BY DEF List!Ids
  <2> HIDE DEF f
  <2>3. QED
    BY <2>1, <2>2, Fun_IsBij
<1>3. ExistsBijection(S, List!Ids(S))
  BY <1>2 DEF ExistsBijection
<1>4. QED
  BY <1>1, <1>3, FS_Bijection, FS_CardinalityType

\* The rows with a place after a, up to b.
Between(T, q, a, b) ==
  {r \in List!Kept(T) : a < List!Place(T, q, r) /\ List!Place(T, q, r) <= b}

\* As many rows have a place in an interval as it is long.
LEMMA PlacesCounted ==
  ASSUME NEW T, Rows(T), NEW q, NEW a \in Nat, NEW b \in Nat,
         a <= b, b <= Cardinality(List!Kept(T))
  PROVE  Cardinality(Between(T, q, a, b)) = b - a
<1> DEFINE K == List!Kept(T)
           N == Cardinality(K)
           L == List!Listed(T, q)
           place(r) == List!Place(T, q, r)
           S == {r \in K : a < place(r) /\ place(r) <= b}
           f == [p \in (a + 1)..b |-> L[p]]
<1>1. /\ N \in Nat /\ \A r \in K : place(r) \in 1..N
      /\ \A p \in 1..N : L[p] \in K /\ place(L[p]) = p
      /\ \A r \in K : L[place(r)] = r
  BY Placed
<1> HIDE DEF K, N, L, place
<1>2. \A p \in (a + 1)..b : p \in 1..N
  BY <1>1 DEF N, K
<1>3. f \in [(a + 1)..b -> S]
  BY <1>1, <1>2
<1>4. \A x, y \in (a + 1)..b : f[x] = f[y] => x = y
  BY <1>1, <1>2
<1>5. \A r \in S : \E p \in (a + 1)..b : f[p] = r
  BY <1>1
<1>6. f \in Bijection((a + 1)..b, S)
  <2> HIDE DEF f, S
  <2>1. QED
    BY <1>3, <1>4, <1>5, Fun_IsBij
<1>7. IsFiniteSet((a + 1)..b) /\ Cardinality((a + 1)..b) = b - a
  <2>1. a + 1 \in Int /\ b \in Int /\ (a + 1 > b => b - a = 0) /\ b - (a + 1) + 1 = b - a
    OBVIOUS
  <2>2. QED
    BY <2>1, FS_Interval
<1>8. ExistsBijection((a + 1)..b, S)
  BY <1>6 DEF ExistsBijection
<1>9. Cardinality(S) = b - a
  <2> HIDE DEF S
  <2>1. QED
    BY <1>7, <1>8, FS_Bijection
<1>10. QED
  BY <1>9 DEF K, place, Between

\* What a page brings: the rows whose places it reaches.
LEMMA Fetched ==
  ASSUME ListTyped, List!Fetch
  PROVE  LET N == Cardinality(Listed)
             S == {r \in Listed : Passed < At(r) /\ At(r) <= Passed + Limit}
         IN /\ page \in Nat \ {0} /\ Passed \in Nat
            /\ page' = IF Passed + Limit < N THEN page + 1 ELSE None
            /\ got' \in Seq(Nat) /\ Len(got') = Len(got) + Cardinality(S)
            /\ Received' = Received \cup List!Ids(S)
            /\ Cardinality(S) = IF Passed + Limit <= N THEN Limit
                                ELSE IF Passed <= N THEN N - Passed ELSE 0
            /\ \A p \in 1..Len(got) : got'[p] = got[p]
            /\ \A i \in 1..Cardinality(S) :
                 got'[Len(got) + i] = List!Listed(table, query)[Passed + i].id
<1> DEFINE N == Cardinality(Listed)
           S == {r \in Listed : Passed < At(r) /\ At(r) <= Passed + Limit}
           L == List!Listed(table, query)
           end == IF Passed + Limit <= N THEN Passed + Limit ELSE N
           size == IF Passed <= end THEN end - Passed ELSE 0
           slice == List!Slice(L, page)
           ids == [i \in DOMAIN slice |-> slice[i].id]
<1>1. Rows(table) /\ Limit \in Nat \ {0} /\ page \in Nat \ {0} /\ got \in Seq(Nat)
  BY BoundsAssumption DEF ListTyped, List!Fetch
<1>2. Passed \in Nat /\ page * Limit = Passed + Limit
  <2>1. page - 1 \in Nat /\ (page - 1) * Limit \in Nat
    BY <1>1
  <2>2. page * Limit = (page - 1) * Limit + Limit
    BY <1>1
  <2>3. QED
    BY <2>1, <2>2 DEF Passed
<1>3. /\ N \in Nat /\ DOMAIN L = 1..N /\ L \in Seq(Listed) /\ Len(L) = N
      /\ \A r \in Listed : At(r) \in 1..N /\ L[At(r)] = r
      /\ \A p \in 1..N : L[p] \in Listed /\ At(L[p]) = p
  BY <1>1, Placed DEF Listed, At
<1>4. \A r \in Listed : r.id \in Nat
  BY <1>1 DEF Rows, Listed, List!Kept, TableRow
<1> HIDE DEF L, N
<1>5. slice = SubSeq(L, Passed + 1, end)
  <2>1. List!Min({Passed + Limit, N}) = end
    BY <1>1, <1>2, <1>3 DEF List!Min
  <2>2. slice = SubSeq(L, Passed + 1, List!Min({Passed + Limit, N}))
    BY <1>2, <1>3 DEF List!Slice, List!Part, Passed
  <2>3. QED
    BY <2>1, <2>2
<1>6. end \in Nat /\ end <= N /\ size \in Nat /\ Passed + 1 \in Int /\ end \in Int
  BY <1>1, <1>2, <1>3
<1>7. /\ slice \in Seq(Listed) /\ Len(slice) = size
      /\ \A i \in 1..size : slice[i] = L[Passed + i] /\ Passed + i \in 1..N
  <2> HIDE DEF slice, end
  <2>1. \A i \in (Passed + 1)..end : L[i] \in Listed
    BY <1>2, <1>3, <1>6
  <2>2. /\ slice \in Seq(Listed)
        /\ Len(slice) = IF Passed + 1 <= end THEN end - (Passed + 1) + 1 ELSE 0
        /\ \A i \in 1..(end - (Passed + 1) + 1) : slice[i] = L[(Passed + 1) + i - 1]
    BY <1>5, <1>6, <2>1, SubSeqProperties
  <2>3. Len(slice) = size
    BY <1>2, <1>6, <2>2
  <2>4. \A i \in 1..size : /\ i \in 1..(end - (Passed + 1) + 1)
                           /\ (Passed + 1) + i - 1 = Passed + i /\ Passed + i \in 1..N
    BY <1>2, <1>3, <1>6
  <2> HIDE DEF size
  <2>5. QED
    BY <2>2, <2>3, <2>4
<1> HIDE DEF slice
<1>8. ids \in Seq(Nat) /\ Len(ids) = size /\ \A i \in 1..size : ids[i] = L[Passed + i].id
  <2>1. DOMAIN slice = 1..size /\ \A i \in 1..size : slice[i].id \in Nat
    BY <1>3, <1>4, <1>6, <1>7
  <2> HIDE DEF size
  <2>2. ids \in [1..size -> Nat] /\ \A i \in 1..size : ids[i] = slice[i].id
    BY <2>1
  <2>3. QED
    BY <1>6, <1>7, <2>2
<1>9. /\ got' = got \o ids
      /\ page' = IF Passed + Limit < N THEN page + 1 ELSE None
  BY <1>2, <1>3 DEF List!Fetch, slice, L
<1> HIDE DEF ids, size
<1>10. /\ got' \in Seq(Nat) /\ Len(got') = Len(got) + size
       /\ \A p \in 1..Len(got) : got'[p] = got[p]
       /\ \A i \in 1..size : got'[Len(got) + i] = ids[i]
  <2>1. size \in Nat /\ Len(ids) = size /\ ids \in Seq(Nat) /\ got \in Seq(Nat) /\ got' = got \o ids
    BY <1>1, <1>6, <1>8, <1>9 DEF size
  <2> DEFINE both == got \o ids
  <2>2. /\ both \in Seq(Nat) /\ Len(both) = Len(got) + size /\ Len(got) \in Nat
        /\ \A p \in 1..Len(both) : both[p] = IF p <= Len(got) THEN got[p] ELSE ids[p - Len(got)]
    <3>1. /\ both \in Seq(Nat) /\ Len(both) = Len(got) + Len(ids)
          /\ \A p \in 1..(Len(got) + Len(ids)) :
               both[p] = IF p <= Len(got) THEN got[p] ELSE ids[p - Len(got)]
      BY <2>1, ConcatProperties
    <3> HIDE DEF both
    <3>2. Len(ids) = size /\ Len(got) \in Nat /\ size \in Nat
      BY <2>1
    <3>3. Len(both) = Len(got) + size
      BY <3>1, <3>2
    <3>4. \A p \in 1..Len(both) : both[p] = IF p <= Len(got) THEN got[p] ELSE ids[p - Len(got)]
      BY <3>1, <3>2, <3>3
    <3>5. QED
      BY <3>1, <3>2, <3>3, <3>4
  <2> HIDE DEF both
  <2>3. /\ got' \in Seq(Nat) /\ Len(got') = Len(got) + size
        /\ \A p \in 1..Len(got') : got'[p] = IF p <= Len(got) THEN got[p] ELSE ids[p - Len(got)]
    BY <2>1, <2>2 DEF both
  <2>4. ASSUME NEW p \in 1..Len(got) PROVE got'[p] = got[p]
    BY <2>1, <2>2, <2>3
  <2>5. ASSUME NEW i \in 1..size PROVE got'[Len(got) + i] = ids[i]
    <3>1. /\ Len(got) + i \in 1..Len(got') /\ ~(Len(got) + i <= Len(got))
          /\ (Len(got) + i) - Len(got) = i
      BY <2>1, <2>2
    <3>2. QED
      BY <2>3, <3>1
  <2>6. QED
    BY <2>3, <2>4, <2>5
<1>11. Cardinality(S) = size
  <2>1. CASE Passed <= end
    <3>1. {r \in Listed : Passed < At(r) /\ At(r) <= end} = S
      BY <1>2, <1>3, <1>1
    <3>2. Cardinality({r \in Listed : Passed < At(r) /\ At(r) <= end}) = end - Passed
      <4>1. end <= Cardinality(List!Kept(table))
        BY <1>6 DEF N, Listed
      <4> HIDE DEF end
      <4>2. Cardinality(Between(table, query, Passed, end)) = end - Passed
        BY <1>1, <1>2, <1>6, <2>1, <4>1, PlacesCounted
      <4>3. QED
        BY <4>2 DEF Between, Listed, At
    <3>3. QED
      BY <2>1, <3>1, <3>2 DEF size
  <2>2. CASE ~(Passed <= end)
    <3>1. S = {}
      BY <1>1, <1>2, <1>3, <2>2
    <3>2. QED
      BY <2>2, <3>1, FS_EmptySet DEF size
  <2>3. QED
    BY <2>1, <2>2
<1>12. size = IF Passed + Limit <= N THEN Limit ELSE IF Passed <= N THEN N - Passed ELSE 0
  BY <1>1, <1>2, <1>3 DEF size
<1>13. {ids[i] : i \in 1..size} = List!Ids(S)
  <2>1. ASSUME NEW i \in 1..size PROVE ids[i] \in List!Ids(S)
    <3>1. Passed + i \in 1..N /\ L[Passed + i] \in Listed /\ At(L[Passed + i]) = Passed + i
      BY <1>3, <1>7
    <3>2. Passed + i <= Passed + Limit /\ Passed < Passed + i
      BY <1>1, <1>2, <1>3, <1>12
    <3>3. L[Passed + i] \in S
      BY <3>1, <3>2
    <3>4. QED
      BY <1>8, <3>3 DEF List!Ids
  <2>2. ASSUME NEW r \in S PROVE r.id \in {ids[i] : i \in 1..size}
    <3>1. /\ r \in Listed
          /\ At(r) \in 1..N
          /\ L[At(r)] = r
          /\ Passed < At(r)
          /\ At(r) <= Passed + Limit
      BY <1>3
    <3>2. At(r) - Passed \in 1..size /\ Passed + (At(r) - Passed) = At(r)
      BY <1>1, <1>2, <1>3, <1>12, <3>1
    <3>3. ids[At(r) - Passed] = r.id
      BY <1>8, <3>1, <3>2
    <3>4. QED
      BY <3>2, <3>3
  <2>3. QED
    BY <2>1, <2>2 DEF List!Ids
<1>14. Received' = Received \cup List!Ids(S)
  <2>1. Received = {got[i] : i \in 1..Len(got)} /\ Received' = {got'[i] : i \in 1..Len(got')}
    <3>1. DOMAIN got = 1..Len(got) /\ DOMAIN got' = 1..Len(got')
      BY <1>1, <1>10
    <3>2. Received = {got[i] : i \in DOMAIN got} /\ Received' = {got'[i] : i \in DOMAIN got'}
      BY DEF Received, List!Received
    <3>3. QED
      BY <3>1, <3>2
  <2>2. Len(got) \in Nat /\ size \in Nat
    BY <1>1, <1>6 DEF size
  <2>3. ASSUME NEW p \in 1..Len(got') PROVE got'[p] \in Received \cup {ids[i] : i \in 1..size}
    <3>1. CASE p \in 1..Len(got)
      BY <1>10, <2>1, <3>1
    <3>2. CASE p \notin 1..Len(got)
      <4>1. p - Len(got) \in 1..size /\ Len(got) + (p - Len(got)) = p
        BY <1>10, <2>2, <3>2
      <4>2. QED
        BY <1>10, <4>1
    <3>3. QED
      BY <3>1, <3>2
  <2>4. \A p \in 1..Len(got) : p \in 1..Len(got') /\ got[p] = got'[p]
    BY <1>10, <2>2
  <2>5. \A i \in 1..size : Len(got) + i \in 1..Len(got') /\ ids[i] = got'[Len(got) + i]
    BY <1>10, <2>2
  <2>6. QED
    BY <1>13, <2>1, <2>3, <2>4, <2>5
<1>15. QED
  BY <1>1, <1>2, <1>8, <1>9, <1>10, <1>11, <1>12, <1>14 DEF N, L
-----------------------------------------------------------------------------
LEMMA ListInvInit == Init => ListInv
<1> SUFFICES ASSUME List!Init PROVE LInv
  BY DEF Init, ListInv
<1>1. PICK n \in 0..MaxRows :
        \E columns \in [1..n -> [wanted: BOOLEAN, stamp: Stamps \cup {None}]] :
          table = {[id |-> i, wanted |-> columns[i].wanted, stamp |-> columns[i].stamp]
                   : i \in 1..n}
  BY DEF List!Init
<1>2. PICK columns \in [1..n -> [wanted: BOOLEAN, stamp: Stamps \cup {None}]] :
        table = {[id |-> i, wanted |-> columns[i].wanted, stamp |-> columns[i].stamp] : i \in 1..n}
  BY <1>1
<1>3. n \in Nat
  BY BoundsAssumption
<1> DEFINE f == [i \in 1..n |->
              [id |-> i, wanted |-> columns[i].wanted, stamp |-> columns[i].stamp]]
<1>4. \A i \in 1..n : /\ f[i] = [id |-> i, wanted |-> columns[i].wanted, stamp |-> columns[i].stamp]
                      /\ f[i] \in TableRow /\ f[i].id = i
  BY <1>3 DEF TableRow
<1>5. table = {f[i] : i \in 1..n}
  BY <1>2
<1>6. f \in Bijection(1..n, table)
  <2>1. f \in [1..n -> table] /\ \A r \in table : \E i \in 1..n : f[i] = r
    BY <1>5
  <2>2. \A a, b \in 1..n : f[a] = f[b] => a = b
    BY <1>4
  <2> HIDE DEF f
  <2>3. QED
    BY <2>1, <2>2, Fun_IsBij
<1>7. IsFiniteSet(table) /\ Cardinality(table) = n
  <2>1. IsFiniteSet(1..n) /\ Cardinality(1..n) = n
    <3>1. 1 \in Int /\ n \in Int /\ (1 > n => n = 0) /\ n - 1 + 1 = n
      BY <1>3
    <3>2. QED
      BY <3>1, FS_Interval
  <2>2. ExistsBijection(1..n, table)
    BY <1>6 DEF ExistsBijection
  <2>3. QED
    BY <2>1, <2>2, FS_Bijection
<1> HIDE DEF f
<1>8. Rows(table) /\ \A r \in table : r.id <= Cardinality(table)
  <2>1. ASSUME NEW r \in table PROVE \E i \in 1..n : r = f[i] /\ r \in TableRow /\ r.id = i
    <3>1. PICK i \in 1..n : r = f[i]
      BY <1>5
    <3>2. f[i] \in TableRow /\ f[i].id = i
      BY <1>4
    <3>3. QED
      BY <3>1, <3>2
  <2>2. \A a, b \in table : a.id = b.id => a = b
    BY <2>1
  <2>3. table \subseteq TableRow /\ \A r \in table : r.id <= n
    BY <1>3, <2>1
  <2>4. QED
    BY <1>7, <2>2, <2>3 DEF Rows
<1>9. /\ query \in Queries /\ page = 1 /\ got = <<>> /\ entered = 0 /\ left = 0
      /\ stayed = List!Ids(Listed)
  BY DEF List!Init, Queries, Listed
<1>10. ListTyped
  BY <1>8, <1>9 DEF ListTyped
<1>11. Passed = 0 /\ page # None /\ Received = {}
  BY <1>9, BoundsAssumption, NoneIsNoNumber DEF Passed, Received, List!Received
<1>12. /\ IsFiniteSet(Listed) /\ Cardinality(Listed) \in Nat
       /\ \A r \in Listed : At(r) \in 1..Cardinality(Listed)
  BY <1>8, Placed DEF Listed, At
<1>13. Overlooked = {} /\ Again = {}
  <2>1. \A i \in stayed : \E r \in Listed : r.id = i
    BY <1>9 DEF List!Ids
  <2>2. \A r \in Listed : ~(At(r) <= 0)
    BY <1>12
  <2>3. QED
    BY <1>11, <2>1, <2>2 DEF Overlooked, Again
<1>14. MissedFew /\ RepeatedFew
  BY <1>9, <1>11, <1>13, FS_EmptySet DEF MissedFew, RepeatedFew
<1>15. FirstPages
  BY <1>9, <1>11, <1>12 DEF FirstPages
<1>16. QED
  BY <1>10, <1>14, <1>15 DEF LInv

LEMMA ListInvFetch == ASSUME LInv, List!Fetch PROVE LInv'
<1> DEFINE N == Cardinality(Listed)
           S == {r \in Listed : Passed < At(r) /\ At(r) <= Passed + Limit}
           R == List!Ids(S)
           L == List!Listed(table, query)
<1>1. ListTyped /\ MissedFew /\ RepeatedFew /\ FirstPages
  BY DEF LInv
<1>2. /\ page \in Nat \ {0} /\ Passed \in Nat
      /\ page' = IF Passed + Limit < N THEN page + 1 ELSE None
      /\ got' \in Seq(Nat) /\ Len(got') = Len(got) + Cardinality(S)
      /\ Received' = Received \cup R
      /\ Cardinality(S) = IF Passed + Limit <= N THEN Limit
                          ELSE IF Passed <= N THEN N - Passed ELSE 0
      /\ \A p \in 1..Len(got) : got'[p] = got[p]
      /\ \A i \in 1..Cardinality(S) : got'[Len(got) + i] = L[Passed + i].id
  BY <1>1, Fetched
<1>3. UNCHANGED <<table, query, entered, left, stayed>> /\ Listed' = Listed
  BY DEF List!Fetch, Listed
<1>4. \A r : At(r)' = At(r)
  BY <1>3 DEF At
<1>5. /\ Rows(table) /\ IsFiniteSet(Listed) /\ N \in Nat /\ Limit \in Nat \ {0} /\ got \in Seq(Nat)
      /\ Listed \subseteq table /\ entered \in Nat /\ left \in Nat
      /\ \A r \in Listed : At(r) \in 1..N
  BY <1>1, BoundsAssumption, Placed DEF ListTyped, Listed, At, List!Kept
<1>6. page # None
  BY <1>2, NoneIsNoNumber
<1>7. page' = None \/ (page' = page + 1 /\ page' # None)
  BY <1>2, NoneIsNoNumber
<1>8. page' # None => Passed' = Passed + Limit /\ Passed' <= N
  <2>1. page' # None => page' = page + 1 /\ Passed + Limit < N
    BY <1>2, <1>7
  <2>2. ((page + 1) - 1) * Limit = (page - 1) * Limit + Limit
    BY <1>2, <1>5
  <2>3. QED
    BY <1>2, <1>5, <2>1, <2>2 DEF Passed
<1>9. page' = None => N <= Passed + Limit
  <2>1. page + 1 # None
    BY <1>2, NoneIsNoNumber
  <2>2. QED
    BY <1>2, <1>5, <2>1
<1> HIDE DEF N, S, R, L
<1>10. ListTyped'
  <2>1. page' \in {None} \cup (Nat \ {0})
    BY <1>2
  <2>2. QED
    BY <1>1, <1>2, <1>3, <2>1 DEF ListTyped
<1>11. stayed \subseteq List!Ids(Listed) /\ IsFiniteSet(stayed)
  <2>1. IsFiniteSet(List!Ids(Listed))
    BY <1>5, IdsCounted
  <2>2. stayed \subseteq List!Ids(Listed)
    BY <1>1 DEF ListTyped
  <2>3. QED
    BY <2>1, <2>2, FS_Subset
\* Whatever the pages reach now and is not received was overlooked before.
<1>12. MissedFew'
  <2> DEFINE new == IF page' = None THEN stayed \ Received' ELSE Overlooked'
  <2>1. new \subseteq Overlooked
    <3> SUFFICES ASSUME NEW i \in new, NEW r \in Listed, r.id = i
                 PROVE  i \in stayed \ Received /\ At(r) <= Passed
      <4>1. \A i \in new : i \in stayed
        BY <1>3 DEF Overlooked
      <4>2. \A i \in stayed : \E r \in Listed : r.id = i
        BY <1>11 DEF List!Ids
      <4> HIDE DEF new
      <4>3. QED
        BY <4>1, <4>2 DEF Overlooked
    <3>1. i \in stayed /\ i \notin Received /\ i \notin R
      BY <1>2, <1>3 DEF Overlooked
    <3>2. At(r) <= Passed + Limit
      <4>1. CASE page' = None
        BY <1>2, <1>5, <1>9, <4>1
      <4>2. CASE page' # None
        BY <1>3, <1>4, <1>8, <4>2 DEF Overlooked
      <4>3. QED
        BY <4>1, <4>2
    <3>3. r \notin S
      BY <3>1 DEF R, List!Ids
    <3>4. QED
      BY <1>2, <1>5, <3>1, <3>2, <3>3 DEF S
  <2>2. IsFiniteSet(Overlooked) /\ Cardinality(Overlooked) <= left
    <3>1. Overlooked \subseteq stayed
      BY DEF Overlooked
    <3>2. QED
      BY <1>1, <1>6, <1>11, <3>1, FS_Subset DEF MissedFew
  <2> HIDE DEF new
  <2>3. /\ Cardinality(new) <= Cardinality(Overlooked)
        /\ Cardinality(new) \in Nat
        /\ Cardinality(Overlooked) \in Nat
    BY <2>1, <2>2, FS_Subset, FS_CardinalityType
  <2>4. Cardinality(new) <= left'
    BY <1>3, <1>5, <2>2, <2>3
  <2>5. QED
    BY <1>3, <2>4 DEF MissedFew, new
\* A row of the page is new or was to come again; the others come again later.
<1>13. RepeatedFew'
  <2> DEFINE repeated == S \cap Again
             fresh == S \ Again
             later == {r \in Listed : r.id \in Received' /\ At(r) > Passed + Limit}
  <2>1. S \subseteq Listed /\ Again \subseteq Listed
    BY DEF S, Again
  <2>2. /\ IsFiniteSet(S) /\ IsFiniteSet(Again) /\ IsFiniteSet(repeated) /\ IsFiniteSet(fresh)
        /\ IsFiniteSet(later)
    BY <1>5, <2>1, FS_Subset
  <2>3. /\ Cardinality(S) \in Nat /\ Cardinality(Again) \in Nat /\ Cardinality(repeated) \in Nat
        /\ Cardinality(fresh) \in Nat /\ Cardinality(later) \in Nat
    BY <2>2, FS_CardinalityType
  <2>4. Cardinality(S) = Cardinality(repeated) + Cardinality(fresh)
    <3>1. S = repeated \cup fresh /\ repeated \cap fresh = {}
      OBVIOUS
    <3> HIDE DEF repeated, fresh
    <3>2. QED
      BY <2>2, <3>1, Disjoint
  <2>5. Cardinality(Again) = Cardinality(repeated) + Cardinality(later)
    <3>1. later \subseteq Again
      <4> SUFFICES ASSUME NEW r \in Listed, r.id \in Received', At(r) > Passed + Limit
                   PROVE  r.id \in Received /\ At(r) > Passed
        BY DEF Again
      <4>1. At(r) \in Nat /\ At(r) > Passed
        BY <1>2, <1>5
      <4>2. r.id \notin R
        <5> SUFFICES ASSUME NEW s \in S, s.id = r.id PROVE FALSE
          BY DEF R, List!Ids
        <5>1. s = r
          BY <1>5, <2>1 DEF Rows
        <5>2. QED
          BY <1>2, <1>5, <4>1, <5>1 DEF S
      <4>3. QED
        BY <1>2, <4>1, <4>2
    <3>2. Again \ later \subseteq S
      BY <1>2, <1>5 DEF Again, S
    <3>3. S \cap later = {}
      BY <1>2, <1>5 DEF S
    <3>4. Again = repeated \cup later /\ repeated \cap later = {}
      BY <3>1, <3>2, <3>3
    <3> HIDE DEF repeated, later
    <3>5. QED
      BY <2>2, <3>4, Disjoint
  <2>6. Cardinality(Received') = Cardinality(Received) + Cardinality(fresh)
    <3>1. Received' = Received \cup List!Ids(fresh)
      BY <1>2, <2>1 DEF R, List!Ids, Again, S
    <3>2. Received \cap List!Ids(fresh) = {}
      <4> SUFFICES ASSUME NEW r \in S, r \notin Again, r.id \in Received PROVE FALSE
        BY DEF List!Ids
      <4>1. r \in Listed /\ At(r) > Passed
        BY <1>2, <1>5 DEF S
      <4>2. QED
        BY <4>1 DEF Again
    <3>3. IsFiniteSet(List!Ids(fresh)) /\ Cardinality(List!Ids(fresh)) = Cardinality(fresh)
      <4>1. fresh \subseteq table
        BY <1>5, <2>1
      <4> HIDE DEF fresh
      <4>2. QED
        BY <1>5, <4>1, IdsCounted
    <3>4. IsFiniteSet(Received) /\ Cardinality(Received) \in Nat
      BY <1>5, ReceivedIs
    <3> HIDE DEF fresh
    <3>5. QED
      BY <3>1, <3>2, <3>3, <3>4, Disjoint
  <2>7. Len(got) - Cardinality(Received) + Cardinality(Again) <= entered
    BY <1>1, <1>6 DEF RepeatedFew
  <2>8. page' # None => Again' = later
    BY <1>3, <1>4, <1>8 DEF Again
  <2>9. Len(got) \in Nat /\ Cardinality(Received) \in Nat
    BY <1>5, ReceivedIs
  <2> HIDE DEF repeated, fresh, later
  <2>10. /\ Len(got') = Len(got) + Cardinality(S) /\ entered \in Nat
         /\ Len(got') \in Nat /\ Cardinality(Received') \in Nat
    BY <1>2, <1>5, <2>3, <2>6, <2>9
  <2>11. /\ Len(got') - Cardinality(Received') + Cardinality(later) <= entered
         /\ Len(got') - Cardinality(Received') + 0 <= entered
    <3> DEFINE g == Len(got)
               h == Len(got')
               c == Cardinality(Received)
               d == Cardinality(Received')
               s == Cardinality(S)
               m == Cardinality(repeated)
               n == Cardinality(fresh)
               k == Cardinality(later)
    <3>1. /\ g \in Nat /\ h \in Nat /\ c \in Nat /\ d \in Nat /\ s \in Nat /\ m \in Nat /\ n \in Nat
          /\ k \in Nat /\ entered \in Nat /\ h = g + s /\ s = m + n /\ d = c + n
      BY <2>3, <2>4, <2>6, <2>9, <2>10
    <3>2. g - c + (m + k) <= entered
      BY <2>5, <2>7
    <3> HIDE DEF g, h, c, d, s, m, n, k
    <3>3. h - d + k <= entered /\ h - d + 0 <= entered
      BY <3>1, <3>2
    <3>4. QED
      BY <3>3 DEF h, d, k
  <2>12. CASE page' = None
    BY <1>3, <2>11, <2>12 DEF RepeatedFew
  <2>13. CASE page' # None
    BY <1>3, <2>8, <2>11, <2>13 DEF RepeatedFew
  <2>14. QED
    BY <2>12, <2>13
<1>14. FirstPages'
  <2> SUFFICES ASSUME entered = 0, left = 0
               PROVE  /\ Len(got') = IF page' = None THEN N ELSE Passed'
                      /\ Len(got') <= N
                      /\ \A p \in 1..Len(got') : got'[p] = L[p].id
    BY <1>3 DEF FirstPages, N, L
  <2>1. /\ Len(got) = Passed /\ Passed <= N
        /\ \A p \in 1..Passed : got[p] = L[p].id
    BY <1>1, <1>6 DEF FirstPages, N, L
  <2>2. Len(got') = IF Passed + Limit <= N THEN Passed + Limit ELSE N
    BY <1>2, <1>5, <2>1
  <2>3. Len(got') = IF page' = None THEN N ELSE Passed'
    BY <1>2, <1>5, <1>7, <1>8, <1>9, <2>2
  <2>4. Len(got') <= N
    BY <1>2, <1>5, <2>2
  <2>5. ASSUME NEW p \in 1..Len(got') PROVE got'[p] = L[p].id
    <3>1. CASE p <= Passed
      BY <1>2, <2>1, <3>1
    <3>2. CASE ~(p <= Passed)
      <4>1. p - Passed \in 1..Cardinality(S) /\ Passed + (p - Passed) = p
        BY <1>2, <1>5, <2>1, <2>2, <3>2
      <4>2. got'[Len(got) + (p - Passed)] = L[Passed + (p - Passed)].id
        BY <1>2, <4>1
      <4>3. QED
        BY <2>1, <4>1, <4>2
    <3>3. QED
      BY <3>1, <3>2
  <2>6. QED
    BY <2>3, <2>4, <2>5
<1>15. QED
  BY <1>10, <1>12, <1>13, <1>14 DEF LInv

\* What changes in the list when at most the row x leaves it and y enters.
LEMMA ListInvChanged ==
  ASSUME LInv, NEW new, Rows(new), \A r \in new : r.id <= Cardinality(new), List!Changed(new),
         NEW x, Listed \ List!Kept(new) \subseteq {x},
         NEW y, List!Kept(new) \ Listed \subseteq {y}
  PROVE  LInv'
<1> DEFINE K == Listed
           U == List!Kept(new)
           at(r) == At(r)
           then(r) == List!Place(new, query, r)
           gone == K \ U
           come == U \ K
<1>1. ListTyped /\ MissedFew /\ RepeatedFew /\ FirstPages
  BY DEF LInv
<1>2. /\ page # None /\ page' = page /\ query' = query /\ got' = got /\ table' = new
      /\ entered' = entered + Cardinality(come) /\ left' = left + Cardinality(gone)
      /\ stayed' = stayed \ List!Ids(gone)
      /\ Listed' = U /\ Received' = Received /\ Passed' = Passed
  BY ListCardinality DEF List!Changed, Listed, Received, List!Received, Passed
<1>3. \A r : At(r)' = then(r)
  BY <1>2 DEF At
<1>4. /\ Rows(table) /\ K \subseteq table /\ U \subseteq new
      /\ query \in Queries /\ page \in Nat \ {0} /\ got \in Seq(Nat)
      /\ entered \in Nat /\ left \in Nat /\ stayed \subseteq List!Ids(K)
  BY <1>1, <1>2 DEF ListTyped, Listed, List!Kept
<1>5. /\ IsFiniteSet(K) /\ Cardinality(K) \in Nat
      /\ \A r \in K : at(r) \in 1..Cardinality(K)
      /\ \A r, s \in K : at(r) = at(s) => r = s
  BY <1>4, Placed DEF Listed, At
<1>6. /\ IsFiniteSet(U) /\ Cardinality(U) \in Nat
      /\ \A r \in U : then(r) \in 1..Cardinality(U)
      /\ \A r, s \in U : then(r) = then(s) => r = s
      /\ \A r, s \in U : List!Before(query, r, s) <=> then(r) < then(s)
  BY Placed
<1>7. \A r \in K \cap U :
        /\ at(r) <= then(r) + 1
        /\ gone = {} => at(r) <= then(r)
        /\ then(r) <= at(r) + 1
        /\ come = {} \/ ~List!Before(query, y, r) => then(r) <= at(r)
  <2> SUFFICES ASSUME NEW r \in K \cap U
               PROVE  /\ at(r) <= then(r) + 1
                      /\ gone = {} => at(r) <= then(r)
                      /\ then(r) <= at(r) + 1
                      /\ come = {} \/ ~List!Before(query, y, r) => then(r) <= at(r)
    OBVIOUS
  <2>1. /\ List!Kept(table) \ List!Kept(new) \subseteq {x}
        /\ List!Kept(new) \ List!Kept(table) \subseteq {y}
        /\ r \in List!Kept(table) \cap List!Kept(new)
    BY DEF Listed
  <2>2. /\ List!Place(table, query, r) <= then(r) + 1
        /\ List!Kept(table) \subseteq U => List!Place(table, query, r) <= then(r)
        /\ then(r) <= List!Place(table, query, r) + 1
        /\ U \subseteq List!Kept(table) \/ ~List!Before(query, y, r)
             => then(r) <= List!Place(table, query, r)
    BY <1>4, <2>1, PlacesShift
  <2>3. QED
    BY <2>2 DEF Listed, At
<1>8. /\ IsFiniteSet(gone) /\ IsFiniteSet(come)
      /\ Cardinality(gone) \in Nat /\ Cardinality(come) \in Nat
      /\ gone = {} \/ (gone = {x} /\ Cardinality(gone) = 1)
      /\ come = {} \/ (come = {y} /\ Cardinality(come) = 1)
      /\ Cardinality(gone) = 0 => gone = {}
      /\ Cardinality(come) = 0 => come = {}
  <2>1. IsFiniteSet(gone) /\ IsFiniteSet(come)
    BY <1>5, <1>6, FS_Subset
  <2>2. (gone = {} \/ gone = {x}) /\ (come = {} \/ come = {y})
    OBVIOUS
  <2> HIDE DEF gone, come
  <2>3. Cardinality({x}) = 1 /\ Cardinality({y}) = 1
    BY FS_Singleton
  <2>4. QED
    BY <2>1, <2>2, <2>3, FS_CardinalityType, FS_EmptySet
<1>9. /\ IsFiniteSet(stayed)
      /\ IsFiniteSet(Received)
      /\ Cardinality(Received) \in Nat
      /\ Len(got) \in Nat
  <2>1. IsFiniteSet(List!Ids(K))
    BY <1>4, IdsCounted
  <2>2. QED
    BY <1>4, <2>1, FS_Subset, ReceivedIs
<1>10. Passed \in Nat
  BY <1>4, BoundsAssumption DEF Passed
\* Who stayed is in both lists.
<1>11. \A i \in stayed' : \E r \in K \cap U : r.id = i
  <2> SUFFICES ASSUME NEW i \in stayed, i \notin List!Ids(gone)
               PROVE  \E r \in K \cap U : r.id = i
    BY <1>2
  <2>1. PICK r \in K : r.id = i
    BY <1>4 DEF List!Ids
  <2>2. r \notin gone
    BY <2>1 DEF List!Ids
  <2>3. QED
    BY <2>1, <2>2
<1> HIDE DEF K, U, at, then
<1>12. ListTyped'
  <2>1. stayed' \subseteq List!Ids(U)
    BY <1>11 DEF List!Ids
  <2>2. entered' \in Nat /\ left' \in Nat
    BY <1>2, <1>4, <1>8
  <2>3. QED
    BY <1>1, <1>2, <2>1, <2>2 DEF ListTyped
<1>13. MissedFew'
  <2> DEFINE A == Overlooked'
  <2>1. A = {i \in stayed' \ Received : \A r \in U : r.id = i => then(r) <= Passed}
    BY <1>2, <1>3 DEF Overlooked
  <2>2. Overlooked = {i \in stayed \ Received : \A r \in K : r.id = i => at(r) <= Passed}
    BY DEF Overlooked, K, at
  <2>3. Cardinality(Overlooked) <= left
    BY <1>1, <1>2 DEF MissedFew
  <2>4. IsFiniteSet(Overlooked)
    BY <1>9, <2>2, FS_Subset
  \* Whoever is overlooked now has a row with a place up to the next one.
  <2>5. ASSUME NEW i \in A
        PROVE  /\ i \in stayed \ Received
               /\ \E r \in K : /\ r.id = i /\ at(r) <= Passed + 1
                               /\ gone = {} => at(r) <= Passed
    <3>1. i \in stayed' /\ i \in stayed \ Received
      BY <1>2, <2>1
    <3>2. PICK r \in K \cap U : r.id = i
      BY <1>11, <3>1
    <3>3. then(r) <= Passed
      BY <2>1, <3>2
    <3>4. /\ at(r) \in Nat /\ then(r) \in Nat /\ at(r) <= then(r) + 1
          /\ gone = {} => at(r) <= then(r)
      BY <1>5, <1>6, <1>7, <3>2
    <3>5. QED
      BY <1>10, <3>1, <3>2, <3>3, <3>4
  <2>6. \A r, s \in K : r.id = s.id => r = s
    BY <1>4 DEF Rows
  <2>7. \A r \in K : at(r) \in Nat
    BY <1>5
  <2> HIDE DEF A
  <2>8. CASE gone = {}
    <3>1. A \subseteq Overlooked
      BY <2>2, <2>5, <2>6, <2>8
    <3>2. IsFiniteSet(A) /\ Cardinality(A) <= Cardinality(Overlooked)
      BY <2>4, <3>1, FS_Subset
    <3>3. Cardinality(A) \in Nat /\ Cardinality(Overlooked) \in Nat
      BY <2>4, <3>2, FS_CardinalityType
    <3>4. Cardinality(A) <= left'
      BY <1>2, <1>4, <1>8, <2>3, <3>2, <3>3
    <3>5. QED
      BY <1>2, <3>4 DEF MissedFew, A
  <2>9. CASE gone # {}
    <3> DEFINE next == CHOOSE r \in K : at(r) = Passed + 1
    <3>1. \A r \in K : at(r) = Passed + 1 => r = next
      BY <1>5
    <3> HIDE DEF next
    <3>2. A \subseteq Overlooked \cup {next.id}
      <4> SUFFICES ASSUME NEW i \in A, i # next.id PROVE i \in Overlooked
        OBVIOUS
      <4>1. PICK r \in K : r.id = i /\ at(r) <= Passed + 1
        BY <2>5
      <4>2. at(r) # Passed + 1
        BY <3>1, <4>1
      <4>3. at(r) <= Passed
        BY <1>10, <2>7, <4>1, <4>2
      <4>4. QED
        BY <2>2, <2>5, <2>6, <4>1, <4>3
    <3>3. /\ Cardinality(A) \in Nat /\ Cardinality(Overlooked) \in Nat
          /\ Cardinality(A) <= Cardinality(Overlooked) + 1
      BY <2>4, <3>2, OneMore
    <3>4. Cardinality(A) <= left'
      BY <1>2, <1>4, <1>8, <2>3, <2>9, <3>3
    <3>5. QED
      BY <1>2, <3>4 DEF MissedFew, A
  <2>10. QED
    BY <2>8, <2>9
<1>14. RepeatedFew'
  <2> DEFINE A == Again'
  <2>1. A = {r \in U : r.id \in Received /\ then(r) > Passed}
    BY <1>2, <1>3 DEF Again
  <2>2. Again = {r \in K : r.id \in Received /\ at(r) > Passed}
    BY DEF Again, K, at
  <2>3. Len(got) - Cardinality(Received) + Cardinality(Again) <= entered
    BY <1>1, <1>2 DEF RepeatedFew
  <2>4. IsFiniteSet(Again)
    BY <1>5, <2>2, FS_Subset
  <2>5. \A r \in K : at(r) \in Nat
    BY <1>5
  <2>6. \A r \in U : then(r) \in Nat
    BY <1>6
  <2> HIDE DEF A
  <2>7. CASE come = {}
    <3>1. A \subseteq Again
      <4> SUFFICES ASSUME NEW r \in U, r.id \in Received, then(r) > Passed
                   PROVE  r \in K /\ at(r) > Passed
        BY <2>1, <2>2
      <4>1. r \in K \cap U
        BY <2>7
      <4>2. then(r) <= at(r)
        BY <1>7, <2>7, <4>1
      <4>3. QED
        BY <1>10, <2>5, <2>6, <4>1, <4>2
    <3>2. IsFiniteSet(A) /\ Cardinality(A) <= Cardinality(Again)
      BY <2>4, <3>1, FS_Subset
    <3>3. Cardinality(A) \in Nat /\ Cardinality(Again) \in Nat
      BY <2>4, <3>2, FS_CardinalityType
    <3>4. Len(got) - Cardinality(Received) + Cardinality(A) <= entered'
      BY <1>2, <1>4, <1>8, <1>9, <2>3, <3>2, <3>3
    <3>5. QED
      BY <1>2, <3>4 DEF RepeatedFew, A
  <2>8. CASE come # {}
    <3> DEFINE next == IF then(y) > Passed THEN y ELSE CHOOSE r \in U : then(r) = Passed + 1
    <3>1. y \in U /\ y \notin K
      BY <1>8, <2>8
    \* Only the row at the first place to come can be shifted there, and only
    \* when the new row is before it.
    <3>2. ASSUME NEW r \in A, r \notin Again PROVE r = next
      <4>1. r \in U /\ then(r) > Passed /\ r.id \in Received
        BY <2>1
      <4>2. CASE r \in K
        <5>1. at(r) <= Passed
          BY <1>10, <2>2, <2>5, <3>2, <4>1, <4>2
        <5>2. then(r) <= at(r) + 1 /\ at(r) \in Nat /\ then(r) \in Nat
          BY <1>7, <2>5, <2>6, <4>1, <4>2
        <5>3. then(r) = Passed + 1 /\ ~(then(r) <= at(r))
          BY <1>10, <4>1, <5>1, <5>2
        <5>4. List!Before(query, y, r)
          BY <1>7, <4>1, <4>2, <5>3
        <5>5. then(y) < then(r)
          BY <1>6, <3>1, <4>1, <5>4
        <5>6. ~(then(y) > Passed)
          BY <1>10, <2>6, <3>1, <5>2, <5>3, <5>5
        <5>7. next = CHOOSE s \in U : then(s) = Passed + 1
          BY <5>6
        <5>8. QED
          BY <1>6, <4>1, <5>3, <5>7
      <4>3. CASE r \notin K
        <5>1. r = y
          BY <1>8, <4>1, <4>3
        <5>2. QED
          BY <4>1, <5>1
      <4>4. QED
        BY <4>2, <4>3
    <3> HIDE DEF next
    <3>3. A \subseteq Again \cup {next}
      BY <3>2
    <3>4. /\ Cardinality(A) \in Nat /\ Cardinality(Again) \in Nat
          /\ Cardinality(A) <= Cardinality(Again) + 1
      BY <2>4, <3>3, OneMore
    <3>5. Len(got) - Cardinality(Received) + Cardinality(A) <= entered'
      BY <1>2, <1>4, <1>8, <1>9, <2>3, <2>8, <3>4
    <3>6. QED
      BY <1>2, <3>5 DEF RepeatedFew, A
  <2>9. QED
    BY <2>7, <2>8
\* A list from which nothing goes and into which nothing comes is the same.
<1>15. FirstPages'
  <2> SUFFICES ASSUME entered' = 0, left' = 0
               PROVE  /\ Len(got) = Passed /\ Len(got) <= Cardinality(U)
                      /\ \A p \in 1..Len(got) : got[p] = List!Listed(new, query)[p].id
    BY <1>2 DEF FirstPages
  <2>1. entered = 0 /\ left = 0 /\ gone = {} /\ come = {}
    BY <1>2, <1>4, <1>8
  <2>2. K = U
    BY <2>1
  <2>3. List!Kept(table) = List!Kept(new)
    BY <2>2 DEF K, U, Listed
  <2>4. List!Listed(new, query) = List!Listed(table, query)
    BY <2>3 DEF List!Listed, List!Place
  <2>5. /\ Len(got) = Passed /\ Len(got) <= Cardinality(K)
        /\ \A p \in 1..Len(got) : got[p] = List!Listed(table, query)[p].id
    BY <1>1, <1>2, <2>1 DEF FirstPages, K
  <2>6. QED
    BY <2>2, <2>4, <2>5
<1>16. QED
  BY <1>12, <1>13, <1>14, <1>15 DEF LInv

LEMMA ListInvArrive == ASSUME LInv, List!Arrive PROVE LInv'
<1>1. PICK r \in List!Row : r.id = List!Cardinality(table) + 1 /\ List!Changed(table \cup {r})
  BY DEF List!Arrive
<1> DEFINE new == table \cup {r}
<1>2. /\ Rows(table) /\ \A s \in table : s.id <= Cardinality(table) /\ s.id \in Nat
      /\ Cardinality(table) \in Nat /\ r.id = Cardinality(table) + 1
  BY <1>1, ListCardinality, FS_CardinalityType DEF LInv, ListTyped, Rows, TableRow
<1>3. r \in TableRow
  BY BoundsAssumption DEF List!Row, TableRow
<1>4. r \notin table
  BY <1>2
<1>5. IsFiniteSet(new) /\ Cardinality(new) = Cardinality(table) + 1
  BY <1>2, <1>4, FS_AddElement DEF Rows
<1>6. Rows(new)
  <2>1. \A a, b \in new : a.id = b.id => a = b
    BY <1>2 DEF Rows
  <2>2. new \subseteq TableRow
    BY <1>2, <1>3 DEF Rows
  <2>3. QED
    BY <1>5, <2>1, <2>2 DEF Rows
<1>7. \A s \in new : s.id <= Cardinality(new)
  BY <1>2, <1>5
<1>8. Listed \ List!Kept(new) \subseteq {r} /\ List!Kept(new) \ Listed \subseteq {r}
  BY DEF Listed, List!Kept
<1> HIDE DEF new
<1>9. QED
  BY <1>1, <1>6, <1>7, <1>8, ListInvChanged DEF new

LEMMA ListInvUpdate == ASSUME LInv, List!Update PROVE LInv'
<1>1. PICK old \in table, wanted \in BOOLEAN, stamp \in Stamps \cup {None} :
        List!Changed((table \ {old}) \cup {[old EXCEPT !.wanted = wanted, !.stamp = stamp]})
  BY DEF List!Update
<1> DEFINE r == [old EXCEPT !.wanted = wanted, !.stamp = stamp]
           new == (table \ {old}) \cup {r}
<1>2. /\ Rows(table) /\ \A s \in table : s.id <= Cardinality(table)
      /\ Cardinality(table) \in Nat /\ old \in TableRow
  BY FS_CardinalityType DEF LInv, ListTyped, Rows
<1>3. r \in TableRow /\ r.id = old.id
  BY <1>2 DEF TableRow
<1> HIDE DEF r
<1>4. r \notin table \ {old}
  BY <1>2, <1>3 DEF Rows
<1>5. IsFiniteSet(new) /\ Cardinality(new) = Cardinality(table)
  <2>1. IsFiniteSet(table \ {old}) /\ Cardinality(table \ {old}) = Cardinality(table) - 1
    BY <1>2, FS_RemoveElement DEF Rows
  <2>2. IsFiniteSet(new) /\ Cardinality(new) = Cardinality(table \ {old}) + 1
    BY <1>4, <2>1, FS_AddElement
  <2>3. QED
    BY <1>2, <2>1, <2>2
<1>6. Rows(new)
  <2>1. \A a, b \in new : a.id = b.id => a = b
    BY <1>2, <1>3 DEF Rows
  <2>2. new \subseteq TableRow
    BY <1>2, <1>3 DEF Rows
  <2>3. QED
    BY <1>5, <2>1, <2>2 DEF Rows
<1>7. \A s \in new : s.id <= Cardinality(new)
  BY <1>2, <1>3, <1>5
<1>8. Listed \ List!Kept(new) \subseteq {old} /\ List!Kept(new) \ Listed \subseteq {r}
  BY DEF Listed, List!Kept
<1>9. List!Changed(new)
  BY <1>1 DEF r
<1> HIDE DEF new
<1>10. QED
  BY <1>6, <1>7, <1>8, <1>9, ListInvChanged

LEMMA ListInvNext == ListInv /\ [Next]_vars => ListInv'
<1> SUFFICES ASSUME ListInv, [Next]_vars, part' = "list" PROVE LInv'
  BY DEF ListInv
<1>1. part = "list" /\ (List!Next \/ UNCHANGED <<table, query, page, got, entered, left, stayed>>)
  BY DEF Next, vars, walkVars
<1>2. LInv
  BY <1>1 DEF ListInv
<1>3. CASE UNCHANGED <<table, query, page, got, entered, left, stayed>>
  BY <1>2, <1>3
     DEF LInv, ListTyped, MissedFew, RepeatedFew, FirstPages, Overlooked, Again,
         Listed, At, Received, List!Received, Passed
<1>4. CASE List!Next
  BY <1>2, <1>4, ListInvFetch, ListInvArrive, ListInvUpdate DEF List!Next
<1>5. QED
  BY <1>1, <1>3, <1>4

LEMMA ListInvHolds == FairSpec => []ListInv
BY ListInvInit, ListInvNext, PTL DEF FairSpec
-----------------------------------------------------------------------------
\* A walk misses a row at most for each departure (paginate.ts:66-68).
THEOREM WalksMissFew == FairSpec => []MissedOnlyByDepartures
<1>1. ListInv => MissedOnlyByDepartures
  BY ListCardinality
     DEF ListInv, LInv, MissedFew, Received, MissedOnlyByDepartures, List!MissedOnlyByDepartures
<1>2. QED
  BY <1>1, ListInvHolds, PTL

\* A walk repeats a row at most for each arrival (paginate.ts:66-68).
THEOREM WalksRepeatFew == FairSpec => []RepeatedOnlyByArrivals
<1>1. ListInv => RepeatedOnlyByArrivals
  <2> SUFFICES ASSUME LInv PROVE List!RepeatedOnlyByArrivals
    BY DEF ListInv, RepeatedOnlyByArrivals
  <2>1. /\ Len(got) \in Nat /\ Cardinality(Received) \in Nat /\ entered \in Nat
        /\ Rows(table)
    BY ReceivedIs DEF LInv, ListTyped
  <2>2. Again \subseteq Listed /\ IsFiniteSet(Listed)
    BY <2>1, Placed DEF Again, Listed
  <2>3. Cardinality(Again) \in Nat
    BY <2>2, FS_Subset, FS_CardinalityType
  <2>4. Len(got) - Cardinality(Received)
         + (IF page = None THEN 0 ELSE Cardinality(Again)) <= entered
    BY DEF LInv, RepeatedFew
  <2>5. Len(got) - Cardinality(Received) <= entered
    BY <2>1, <2>3, <2>4
  <2>6. QED
    BY <2>5, ListCardinality DEF List!RepeatedOnlyByArrivals, Received
<1>2. QED
  BY <1>1, ListInvHolds, PTL

\* The pages of a settled list are that list in order (paginate.ts:49-63).
THEOREM SettledWalksAreLists == FairSpec => []SettledWalkIsTheList
<1>1. ListInv => SettledWalkIsTheList
  <2> SUFFICES ASSUME LInv, page = None, entered = 0, left = 0
               PROVE  /\ List!Received = List!Ids(List!Kept(table))
                      /\ \A i, j \in DOMAIN got : got[i] = got[j] => i = j
                      /\ query.sort =>
                           LET stamp(i) == (CHOOSE r \in table : r.id = got[i]).stamp
                           IN \A i, j \in DOMAIN got : i < j /\ stamp(j) # None =>
                                /\ stamp(i) # None
                                /\ IF query.desc THEN stamp(i) >= stamp(j) ELSE stamp(i) <= stamp(j)
    BY DEF ListInv, SettledWalkIsTheList, List!SettledWalkIsTheList
  <2> DEFINE L == List!Listed(table, query)
             N == Cardinality(Listed)
             stamp(i) == (CHOOSE r \in table : r.id = got[i]).stamp
  <2>1. /\ Rows(table) /\ query \in Queries /\ got \in Seq(Nat) /\ Listed \subseteq table
        /\ Len(got) = N /\ \A p \in 1..N : got[p] = L[p].id
    BY DEF LInv, ListTyped, FirstPages, Listed, List!Kept
  <2>2. /\ N \in Nat
        /\ \A r \in Listed : At(r) \in 1..N /\ L[At(r)] = r
        /\ \A r, s \in Listed : List!Before(query, r, s) <=> At(r) < At(s)
        /\ \A p \in 1..N : L[p] \in Listed /\ At(L[p]) = p
    BY <2>1, Placed DEF Listed, At
  <2>3. DOMAIN got = 1..N
    BY <2>1
  <2>4. \A a, b \in table : a.id = b.id => a = b
    BY <2>1 DEF Rows
  <2> HIDE DEF L, N
  <2>5. Received = List!Ids(Listed)
    <3>1. \A i \in 1..N : got[i] \in List!Ids(Listed)
      BY <2>1, <2>2 DEF List!Ids
    <3>2. \A r \in Listed : r.id = got[At(r)] /\ At(r) \in 1..N
      BY <2>1, <2>2
    <3>3. QED
      BY <2>3, <3>1, <3>2 DEF Received, List!Received, List!Ids
  <2>6. \A i, j \in 1..N : got[i] = got[j] => i = j
    <3> SUFFICES ASSUME NEW i \in 1..N, NEW j \in 1..N, got[i] = got[j] PROVE i = j
      OBVIOUS
    <3>1. L[i].id = L[j].id /\ L[i] \in table /\ L[j] \in table
      BY <2>1, <2>2
    <3>2. L[i] = L[j]
      BY <2>4, <3>1
    <3>3. QED
      BY <2>2, <3>2
  <2>7. \A i \in 1..N : stamp(i) = L[i].stamp
    <3> SUFFICES ASSUME NEW i \in 1..N PROVE stamp(i) = L[i].stamp
      OBVIOUS
    <3>1. L[i] \in table /\ got[i] = L[i].id
      BY <2>1, <2>2
    <3>2. (CHOOSE r \in table : r.id = got[i]) = L[i]
      BY <2>4, <3>1
    <3>3. QED
      BY <3>2
  <2>8. ASSUME NEW i \in 1..N, NEW j \in 1..N, query.sort, i < j, L[j].stamp # None
        PROVE  /\ L[i].stamp # None
               /\ IF query.desc THEN L[i].stamp >= L[j].stamp ELSE L[i].stamp <= L[j].stamp
    <3>1. L[i] \in Listed /\ L[j] \in Listed /\ At(L[i]) = i /\ At(L[j]) = j
      BY <2>2
    <3>2. List!Before(query, L[i], L[j])
      BY <2>2, <2>8, <3>1
    <3>3. List!Precedes(query.desc, L[i], L[j])
      BY <2>8, <3>2 DEF List!Before
    <3>4. L[i].stamp \in Int \cup {None} /\ L[j].stamp \in Int
      BY <2>1, <2>8, <3>1, BoundsAssumption DEF Rows, TableRow
    <3>5. QED
      BY <2>8, <3>3, <3>4 DEF List!Precedes
  <2> HIDE DEF stamp
  <2>9. query.sort => \A i, j \in 1..N : i < j /\ stamp(j) # None =>
          /\ stamp(i) # None
          /\ IF query.desc THEN stamp(i) >= stamp(j) ELSE stamp(i) <= stamp(j)
    BY <2>7, <2>8
  <2>10. QED
    BY <2>3, <2>5, <2>6, <2>9 DEF Received, Listed, stamp
<1>2. QED
  BY <1>1, ListInvHolds, PTL
-----------------------------------------------------------------------------
(* The rows of the audit log (AuditTrail).                                 *)

\* What tells the mutating routes that look their row up from the others.
Third(path) == IF Len(path) = 3 THEN path[3] ELSE "-"

FindingKeys ==
  {<<"PATCH", "admins", "-">>, <<"PATCH", "listings", "-">>,
   <<"POST", "users", "wallet-adjust">>, <<"PATCH", "users", "status">>,
   <<"PATCH", "hosts", "status">>, <<"POST", "hosts", "flag">>,
   <<"POST", "bookings", "cancel">>, <<"POST", "bookings", "owner-decision">>,
   <<"POST", "bookings", "extend-deadline">>, <<"POST", "bookings", "resolve-dispute">>}

\* A permission that lets its holder change something.
Changing(p) == p \notin Trail!ReadPermissions /\ p # "wallet.adjust:capped"

\* A mutating route begins with a name, and only support threads have their
\* parameter third; one that is not public wants a permission to change.
Sound(r) ==
  r.method # "GET" =>
    /\ Len(r.path) \in Nat \ {0} /\ DOMAIN r.path = 1..Len(r.path)
    /\ r.path[1] \notin Trail!Parameters
    /\ Len(r.path) = 3 /\ r.path[3] \in Trail!Parameters => r.path[1] = "support"
    /\ r.finds <=> <<r.method, r.path[1], Third(r.path)>> \in FindingKeys
    /\ ~r.public => r.needs # {} /\ \A p \in r.needs : Changing(p)

IsSeq(list) == list \in Seq({list[i] : i \in DOMAIN list})

SoundList(list) ==
  /\ IsSeq(list)
  /\ \A i \in DOMAIN list : Sound(list[i])
-----------------------------------------------------------------------------
\* Every set of natural numbers has a least one.
LEMMA LeastNatural ==
  ASSUME NEW S, S \subseteq Nat, S # {}
  PROVE  \E n \in S : \A m \in S : n <= m
<1>1. PICK n \in S : \A m \in S : ~(<<m, n>> \in OpToRel(<, Nat))
  BY NatLessThanWellFounded, WFMin
<1>2. ASSUME NEW m \in S PROVE n <= m
  <2>1. m \in Nat /\ n \in Nat
    OBVIOUS
  <2>2. ~(m < n)
    BY <1>1, <2>1 DEF OpToRel
  <2>3. QED
    BY <2>1, <2>2
<1>3. QED
  BY <1>2
-----------------------------------------------------------------------------
(* The routes, controller by controller.                                   *)

LEMMA Gets == ASSUME NEW path, NEW needs PROVE Sound(Trail!Get(path, needs))
BY DEF Trail!Get, Trail!Route, Sound

LEMMA Publics ==
  ASSUME NEW b
  PROVE  Sound(Trail!Public(<<"auth", b>>))
<1> DEFINE path == <<"auth", b>>
<1>1. /\ Len(path) = 2 /\ DOMAIN path = 1..2 /\ path[1] = "auth"
      /\ <<"POST", path[1], Third(path)>> \notin FindingKeys
  BY DEF FindingKeys, Third
<1> HIDE DEF path
<1>2. Sound(Trail!Route("POST", path, {}, TRUE, FALSE))
  BY <1>1 DEF Sound, Trail!Route, Trail!Parameters
<1>3. QED
  BY <1>2 DEF Trail!Public, path

LEMMA ShortChanges ==
  ASSUME NEW method, method # "GET", NEW needs, needs # {}, \A p \in needs : Changing(p),
         NEW a, a \notin Trail!Parameters, NEW b
  PROVE  /\ <<method, a, "-">> \notin FindingKeys =>
              /\ Sound(Trail!Change(method, <<a>>, needs))
              /\ Sound(Trail!Change(method, <<a, b>>, needs))
         /\ <<method, a, "-">> \in FindingKeys => Sound(Trail!Finding(method, <<a, b>>, needs))
<1>1. /\ Len(<<a>>) = 1 /\ DOMAIN <<a>> = 1..1 /\ <<a>>[1] = a
      /\ Len(<<a, b>>) = 2 /\ DOMAIN <<a, b>> = 1..2 /\ <<a, b>>[1] = a
  OBVIOUS
<1>2. ASSUME NEW path, path \in {<<a>>, <<a, b>>}, NEW finds \in BOOLEAN,
             finds <=> <<method, a, "-">> \in FindingKeys
      PROVE  Sound(Trail!Route(method, path, needs, FALSE, finds))
  <2>1. Len(path) \in {1, 2} /\ DOMAIN path = 1..Len(path) /\ path[1] = a
    BY <1>1, <1>2
  <2>2. Third(path) = "-"
    BY <2>1 DEF Third
  <2>3. QED
    BY <1>2, <2>1, <2>2 DEF Trail!Route, Sound
<1>3. QED
  BY <1>2 DEF Trail!Finding, Trail!Change

LEMMA LongChanges ==
  ASSUME NEW method, method # "GET", NEW needs, needs # {}, \A p \in needs : Changing(p),
         NEW a, a \notin Trail!Parameters, NEW b, NEW c,
         c \in Trail!Parameters => a = "support", NEW d
  PROVE  /\ <<method, a, c>> \notin FindingKeys =>
              Sound(Trail!Change(method, <<a, b, c>>, needs))
         /\ <<method, a, "-">> \notin FindingKeys =>
              Sound(Trail!Change(method, <<a, b, c, d>>, needs))
         /\ <<method, a, c>> \in FindingKeys => Sound(Trail!Finding(method, <<a, b, c>>, needs))
<1>1. /\ Len(<<a, b, c>>) = 3 /\ DOMAIN <<a, b, c>> = 1..3 /\ <<a, b, c>>[1] = a
      /\ <<a, b, c>>[3] = c
      /\ Len(<<a, b, c, d>>) = 4 /\ DOMAIN <<a, b, c, d>> = 1..4 /\ <<a, b, c, d>>[1] = a
  OBVIOUS
<1>2. ASSUME NEW path, path \in {<<a, b, c>>, <<a, b, c, d>>}, NEW finds \in BOOLEAN,
             finds <=> <<method, a, IF path = <<a, b, c>> THEN c ELSE "-">> \in FindingKeys
      PROVE  Sound(Trail!Route(method, path, needs, FALSE, finds))
  <2>1. /\ Len(path) \in {3, 4} /\ DOMAIN path = 1..Len(path) /\ path[1] = a
        /\ Len(path) = 3 => path[3] = c
        /\ Third(path) = IF path = <<a, b, c>> THEN c ELSE "-"
    BY <1>1, <1>2 DEF Third
  <2>2. QED
    BY <1>2, <2>1 DEF Trail!Route, Sound
<1>3. <<a, b, c>> # <<a, b, c, d>>
  BY <1>1
<1>4. QED
  BY <1>2, <1>3 DEF Trail!Finding, Trail!Change

\* The entries of a sequence are those of two others.
DrawnFrom(u, s, t) ==
  \A i \in DOMAIN u : (\E j \in DOMAIN s : u[i] = s[j]) \/ \E j \in DOMAIN t : u[i] = t[j]

LEMMA Joined ==
  ASSUME NEW s, IsSeq(s), NEW t, IsSeq(t) PROVE IsSeq(s \o t) /\ DrawnFrom(s \o t, s, t)
<1> DEFINE S == {s[i] : i \in DOMAIN s}
           T == {t[i] : i \in DOMAIN t}
           u == s \o t
<1>1. s \in Seq(S \cup T) /\ t \in Seq(S \cup T)
  BY DEF IsSeq
<1>2. /\ u \in Seq(S \cup T) /\ Len(u) = Len(s) + Len(t)
      /\ \A i \in 1..Len(u) : u[i] = IF i <= Len(s) THEN s[i] ELSE t[i - Len(s)]
  BY <1>1
<1>3. DrawnFrom(u, s, t)
  BY <1>1, <1>2 DEF DrawnFrom
<1>4. u \in Seq({u[i] : i \in DOMAIN u})
  <2> HIDE DEF u
  <2>1. u = [i \in 1..Len(u) |-> u[i]] /\ Len(u) \in Nat
    BY <1>2
  <2>2. QED
    BY <2>1
<1>5. QED
  BY <1>3, <1>4 DEF IsSeq

LEMMA Together ==
  ASSUME NEW s, SoundList(s), NEW t, SoundList(t) PROVE SoundList(s \o t)
<1>1. PICK u : u = s \o t
  OBVIOUS
<1>2. IsSeq(s) /\ IsSeq(t)
  BY DEF SoundList
<1>3. IsSeq(u) /\ DrawnFrom(u, s, t)
  BY <1>1, <1>2, Joined
<1>4. SoundList(u)
  BY <1>3 DEF SoundList, DrawnFrom
<1>5. QED
  BY <1>1, <1>4

LEMMA AuthSound == SoundList(Trail!AuthRoutes)
BY Publics DEF SoundList, IsSeq, Trail!AuthRoutes

LEMMA MeSound == SoundList(Trail!MeRoutes)
BY Gets DEF SoundList, IsSeq, Trail!MeRoutes

LEMMA AuditSound == SoundList(Trail!AuditRoutes)
BY Gets DEF SoundList, IsSeq, Trail!AuditRoutes

LEMMA ConfigSound == SoundList(Trail!ConfigRoutes)
<1>1. Sound(Trail!Change("PUT", <<"config">>, {"config.write"}))
  BY ShortChanges DEF FindingKeys, Changing, Trail!Parameters, Trail!ReadPermissions
<1>2. Sound(Trail!Change("PATCH", <<"flags", ":key">>, {"config.write"}))
  BY ShortChanges DEF FindingKeys, Changing, Trail!Parameters, Trail!ReadPermissions
<1>3. QED
  BY <1>1, <1>2, Gets DEF SoundList, IsSeq, Trail!ConfigRoutes

LEMMA AdminsSound == SoundList(Trail!AdminsRoutes)
<1>1. Sound(Trail!Change("POST", <<"admins", "invite">>, {"admin.manage"}))
  BY ShortChanges DEF FindingKeys, Changing, Trail!Parameters, Trail!ReadPermissions
<1>2. Sound(Trail!Finding("PATCH", <<"admins", ":id">>, {"admin.manage"}))
  BY ShortChanges DEF FindingKeys, Changing, Trail!Parameters, Trail!ReadPermissions
<1>3. Sound(Trail!Change("POST", <<"roles">>, {"admin.manage"}))
  BY ShortChanges DEF FindingKeys, Changing, Trail!Parameters, Trail!ReadPermissions
<1>4. Sound(Trail!Change("PATCH", <<"roles">>, {"admin.manage"}))
  BY ShortChanges DEF FindingKeys, Changing, Trail!Parameters, Trail!ReadPermissions
<1>5. QED
  BY <1>1, <1>2, <1>3, <1>4, Gets DEF SoundList, IsSeq, Trail!AdminsRoutes

LEMMA DashboardSound == SoundList(Trail!DashboardRoutes)
BY Gets DEF SoundList, IsSeq, Trail!DashboardRoutes

LEMMA UsersSound == SoundList(Trail!UsersRoutes)
<1>1. Sound(Trail!Finding("POST", <<"users", ":id", "wallet-adjust">>, {"wallet.adjust"}))
  BY LongChanges DEF FindingKeys, Changing, Trail!Parameters, Trail!ReadPermissions
<1>2. Sound(Trail!Finding("PATCH", <<"users", ":id", "status">>, {"user.suspend"}))
  BY LongChanges DEF FindingKeys, Changing, Trail!Parameters, Trail!ReadPermissions
<1>3. QED
  BY <1>1, <1>2, Gets DEF SoundList, IsSeq, Trail!UsersRoutes

LEMMA HostsSound == SoundList(Trail!HostsRoutes)
<1>1. Sound(Trail!Change("POST", <<"hosts", ":id", "kyc", "decision">>, {"host.verify"}))
  BY LongChanges DEF FindingKeys, Changing, Trail!Parameters, Trail!ReadPermissions
<1>2. Sound(Trail!Finding("PATCH", <<"hosts", ":id", "status">>, {"host.suspend"}))
  BY LongChanges DEF FindingKeys, Changing, Trail!Parameters, Trail!ReadPermissions
<1>3. Sound(Trail!Finding("POST", <<"hosts", ":id", "flag">>, {"host.suspend"}))
  BY LongChanges DEF FindingKeys, Changing, Trail!Parameters, Trail!ReadPermissions
<1>4. QED
  BY <1>1, <1>2, <1>3, Gets DEF SoundList, IsSeq, Trail!HostsRoutes

LEMMA ListingsSound == SoundList(Trail!ListingsRoutes)
<1>1. Sound(Trail!Change("POST", <<"listings", ":id", "moderate">>,
                         {"listing.approve", "listing.takedown"}))
  BY LongChanges DEF FindingKeys, Changing, Trail!Parameters, Trail!ReadPermissions
<1>2. Sound(Trail!Finding("PATCH", <<"listings", ":id">>, {"listing.edit"}))
  BY ShortChanges DEF FindingKeys, Changing, Trail!Parameters, Trail!ReadPermissions
<1>3. QED
  BY <1>1, <1>2, Gets DEF SoundList, IsSeq, Trail!ListingsRoutes

LEMMA BookingsSound == SoundList(Trail!BookingsRoutes)
<1>1. Sound(Trail!Finding("POST", <<"bookings", ":id", "cancel">>, {"booking.cancel"}))
  BY LongChanges DEF FindingKeys, Changing, Trail!Parameters, Trail!ReadPermissions
<1>2. Sound(Trail!Finding("POST", <<"bookings", ":id", "owner-decision">>, {"booking.override"}))
  BY LongChanges DEF FindingKeys, Changing, Trail!Parameters, Trail!ReadPermissions
<1>3. Sound(Trail!Finding("POST", <<"bookings", ":id", "extend-deadline">>, {"booking.override"}))
  BY LongChanges DEF FindingKeys, Changing, Trail!Parameters, Trail!ReadPermissions
<1>4. Sound(Trail!Finding("POST", <<"bookings", ":id", "resolve-dispute">>, {"booking.cancel"}))
  BY LongChanges DEF FindingKeys, Changing, Trail!Parameters, Trail!ReadPermissions
<1>5. QED
  BY <1>1, <1>2, <1>3, <1>4, Gets DEF SoundList, IsSeq, Trail!BookingsRoutes

LEMMA PaymentsSound == SoundList(Trail!PaymentsRoutes)
<1>1. Sound(Trail!Change("POST", <<"payments", ":id", "refund">>, {"payment.refund"}))
  BY LongChanges DEF FindingKeys, Changing, Trail!Parameters, Trail!ReadPermissions
<1>2. QED
  BY <1>1, Gets DEF SoundList, IsSeq, Trail!PaymentsRoutes

LEMMA PayoutsSound == SoundList(Trail!PayoutsRoutes)
<1>1. Sound(Trail!Change("POST", <<"payouts", "run">>, {"payout.trigger"}))
  BY ShortChanges DEF FindingKeys, Changing, Trail!Parameters, Trail!ReadPermissions
<1>2. Sound(Trail!Change("POST", <<"payouts", ":id", "trigger">>, {"payout.trigger"}))
  BY LongChanges DEF FindingKeys, Changing, Trail!Parameters, Trail!ReadPermissions
<1>3. Sound(Trail!Change("POST", <<"payouts", ":id", "hold">>, {"payout.hold"}))
  BY LongChanges DEF FindingKeys, Changing, Trail!Parameters, Trail!ReadPermissions
<1>4. QED
  BY <1>1, <1>2, <1>3, Gets DEF SoundList, IsSeq, Trail!PayoutsRoutes

LEMMA WalletSound == SoundList(Trail!WalletRoutes)
<1>1. Sound(Trail!Change("POST", <<"wallet", "bulk-credit">>, {"wallet.adjust"}))
  BY ShortChanges DEF FindingKeys, Changing, Trail!Parameters, Trail!ReadPermissions
<1>2. QED
  BY <1>1 DEF SoundList, IsSeq, Trail!WalletRoutes

LEMMA ReviewsSound == SoundList(Trail!ReviewsRoutes)
<1>1. Sound(Trail!Change("POST", <<"reviews", ":id", "moderate">>, {"review.moderate"}))
  BY LongChanges DEF FindingKeys, Changing, Trail!Parameters, Trail!ReadPermissions
<1>2. QED
  BY <1>1, Gets DEF SoundList, IsSeq, Trail!ReviewsRoutes

LEMMA SupportSound == SoundList(Trail!SupportRoutes)
<1>1. Sound(Trail!Change("POST", <<"support", "threads", ":id", "reply">>, {"support.reply"}))
  BY LongChanges DEF FindingKeys, Changing, Trail!Parameters, Trail!ReadPermissions
<1>2. Sound(Trail!Change("PATCH", <<"support", "threads", ":id">>, {"support.reply"}))
  BY LongChanges DEF FindingKeys, Changing, Trail!Parameters, Trail!ReadPermissions
<1>3. QED
  BY <1>1, <1>2, Gets DEF SoundList, IsSeq, Trail!SupportRoutes

LEMMA NotificationsSound == SoundList(Trail!NotificationsRoutes)
<1>1. Sound(Trail!Change("POST", <<"notifications">>, {"notification.send"}))
  BY ShortChanges DEF FindingKeys, Changing, Trail!Parameters, Trail!ReadPermissions
<1>2. Sound(Trail!Change("POST", <<"notifications", "test">>, {"notification.send"}))
  BY ShortChanges DEF FindingKeys, Changing, Trail!Parameters, Trail!ReadPermissions
<1>3. Sound(Trail!Change("POST", <<"notifications", ":id", "send">>, {"notification.send"}))
  BY LongChanges DEF FindingKeys, Changing, Trail!Parameters, Trail!ReadPermissions
<1>4. QED
  BY <1>1, <1>2, <1>3, Gets DEF SoundList, IsSeq, Trail!NotificationsRoutes

LEMMA RoutesAreSound == SoundList(Trail!Routes)
<1>1. SoundList(Trail!AuthRoutes \o Trail!MeRoutes \o Trail!AuditRoutes \o Trail!ConfigRoutes
                \o Trail!AdminsRoutes \o Trail!DashboardRoutes \o Trail!UsersRoutes
                \o Trail!HostsRoutes)
  BY Together, AuthSound, MeSound, AuditSound, ConfigSound, AdminsSound, DashboardSound,
     UsersSound, HostsSound
<1>2. QED
  BY <1>1, Together, ListingsSound, BookingsSound, PaymentsSound, PayoutsSound, WalletSound,
     ReviewsSound, SupportSound, NotificationsSound
  DEF Trail!Routes
-----------------------------------------------------------------------------
(* What a row tells of its operation.                                      *)

\* The route that the action of a row tells of, ...
ToldByAction(type, verb) ==
  IF type = "config" THEN Trail!Change("PUT", <<"config">>, {"config.write"})
  ELSE IF type = "flag" THEN Trail!Change("PATCH", <<"flags", ":key">>, {"config.write"})
  ELSE IF type = "admin" THEN
    IF verb = "post" THEN Trail!Change("POST", <<"admins", "invite">>, {"admin.manage"})
    ELSE Trail!Finding("PATCH", <<"admins", ":id">>, {"admin.manage"})
  ELSE IF type = "role" THEN
    IF verb = "post" THEN Trail!Change("POST", <<"roles">>, {"admin.manage"})
    ELSE Trail!Change("PATCH", <<"roles">>, {"admin.manage"})
  ELSE IF type = "user" THEN
    IF verb = "status" THEN Trail!Finding("PATCH", <<"users", ":id", "status">>, {"user.suspend"})
    ELSE Trail!Finding("POST", <<"users", ":id", "wallet-adjust">>, {"wallet.adjust"})
  ELSE IF type = "host" THEN
    IF verb = "decision"
    THEN Trail!Change("POST", <<"hosts", ":id", "kyc", "decision">>, {"host.verify"})
    ELSE IF verb = "status"
    THEN Trail!Finding("PATCH", <<"hosts", ":id", "status">>, {"host.suspend"})
    ELSE Trail!Finding("POST", <<"hosts", ":id", "flag">>, {"host.suspend"})
  ELSE IF type = "listing" THEN
    IF verb = "moderate"
    THEN Trail!Change("POST", <<"listings", ":id", "moderate">>,
                      {"listing.approve", "listing.takedown"})
    ELSE Trail!Finding("PATCH", <<"listings", ":id">>, {"listing.edit"})
  ELSE IF type = "booking" THEN
    IF verb = "cancel"
    THEN Trail!Finding("POST", <<"bookings", ":id", "cancel">>, {"booking.cancel"})
    ELSE IF verb = "owner-decision"
    THEN Trail!Finding("POST", <<"bookings", ":id", "owner-decision">>, {"booking.override"})
    ELSE IF verb = "extend-deadline"
    THEN Trail!Finding("POST", <<"bookings", ":id", "extend-deadline">>, {"booking.override"})
    ELSE Trail!Finding("POST", <<"bookings", ":id", "resolve-dispute">>, {"booking.cancel"})
  ELSE IF type = "payment" THEN
    Trail!Change("POST", <<"payments", ":id", "refund">>, {"payment.refund"})
  ELSE IF type = "payout" THEN
    IF verb = "post" THEN Trail!Change("POST", <<"payouts", "run">>, {"payout.trigger"})
    ELSE IF verb = "trigger"
    THEN Trail!Change("POST", <<"payouts", ":id", "trigger">>, {"payout.trigger"})
    ELSE Trail!Change("POST", <<"payouts", ":id", "hold">>, {"payout.hold"})
  ELSE IF type = "wallet" THEN
    Trail!Change("POST", <<"wallet", "bulk-credit">>, {"wallet.adjust"})
  ELSE IF type = "review" THEN
    Trail!Change("POST", <<"reviews", ":id", "moderate">>, {"review.moderate"})
  ELSE IF verb = "reply"
  THEN Trail!Change("POST", <<"support", "threads", ":id", "reply">>, {"support.reply"})
  ELSE Trail!Change("PATCH", <<"support", "threads", ":id">>, {"support.reply"})

\* ... or, for notifications, the target.
Told(type, verb, target) ==
  IF type # "notification" THEN ToldByAction(type, verb)
  ELSE IF verb = "send" THEN
    Trail!Change("POST", <<"notifications", ":id", "send">>, {"notification.send"})
  ELSE IF target = "test" THEN
    Trail!Change("POST", <<"notifications", "test">>, {"notification.send"})
  ELSE Trail!Change("POST", <<"notifications">>, {"notification.send"})

\* What the path of a route says in the place of verb and target.
VerbOf(m, p) == IF Len(p) > 2 THEN p[Len(p)] ELSE Trail!Lowercase[m]
TargetOf(p) == IF Len(p) > 1 THEN p[2] ELSE None

\* The parameter of a support thread is its third segment.
OfThread(r) ==
  /\ Len(r.path) \in {3, 4} /\ r.path[2] \notin Trail!Parameters /\ r.path[3] = ":id"
  /\ Len(r.path) = 4 => r.path[4] = "reply"
  /\ \A verb, target : (verb = "reply" <=> Len(r.path) = 4) => r = Told("support", verb, target)

\* The parameter of everything else is its second.
OfOther(r) ==
  /\ \A i \in DOMAIN r.path : r.path[i] \in Trail!Parameters => i = 2
  /\ Len(r.path) > 1 /\ r.path[2] \in Trail!Parameters =>
       r.path[2] = IF r.path[1] = "flags" THEN ":key" ELSE ":id"
  /\ r.public \/ r = Told(Trail!Singular[r.path[1]], VerbOf(r.method, r.path), TargetOf(r.path))

\* The words of a mutating route say which it is.
Telling(r) ==
  r.method # "GET" =>
    /\ Len(r.path) \in Nat \ {0} /\ DOMAIN r.path = 1..Len(r.path)
    /\ r.path[1] \notin Trail!Parameters
    /\ r.public <=> r.path[1] = "auth"
    /\ IF r.path[1] = "support" THEN OfThread(r) ELSE OfOther(r)

TellingList(list) ==
  /\ IsSeq(list)
  /\ \A i \in DOMAIN list : Telling(list[i])

LEMMA GetsTell == ASSUME NEW path, NEW needs PROVE Telling(Trail!Get(path, needs))
BY DEF Trail!Get, Trail!Route, Telling

LEMMA PublicsTell ==
  ASSUME NEW b, b \notin Trail!Parameters
  PROVE  Telling(Trail!Public(<<"auth", b>>))
<1>1. PICK path : path = <<"auth", b>>
  OBVIOUS
<1>2. PICK r : r = Trail!Route("POST", path, {}, TRUE, FALSE)
  OBVIOUS
<1>3. /\ Len(path) = 2 /\ Len(path) \in Nat \ {0} /\ DOMAIN path = 1..Len(path)
      /\ path[1] = "auth" /\ path[2] = b
  BY <1>1
<1>4. r.path = path /\ r.public = TRUE
  BY <1>2 DEF Trail!Route
<1>5. path[1] \notin Trail!Parameters /\ \A i \in DOMAIN path : path[i] \notin Trail!Parameters
  BY <1>3 DEF Trail!Parameters
<1>6. Telling(r)
  BY <1>3, <1>4, <1>5 DEF Telling, OfOther
<1>7. QED
  BY <1>1, <1>2, <1>6 DEF Trail!Public

\* A path of up to four segments that is not of support threads.
Plain(path) ==
  /\ Len(path) \in {1, 2, 3, 4} /\ DOMAIN path = 1..Len(path)
  /\ path[1] \notin Trail!Parameters \cup {"auth", "support"}
  /\ Len(path) > 1 /\ path[2] \in Trail!Parameters =>
       path[2] = IF path[1] = "flags" THEN ":key" ELSE ":id"
  /\ Len(path) > 2 => path[3] \notin Trail!Parameters
  /\ Len(path) > 3 => path[4] \notin Trail!Parameters

LEMMA ChangesTell ==
  ASSUME NEW method, NEW needs, NEW finds, NEW path, Plain(path),
         Trail!Route(method, path, needs, FALSE, finds)
           = Told(Trail!Singular[path[1]], VerbOf(method, path), TargetOf(path))
  PROVE  Telling(Trail!Route(method, path, needs, FALSE, finds))
<1> DEFINE r == Trail!Route(method, path, needs, FALSE, finds)
<1>1. r.method = method /\ r.path = path /\ r.public = FALSE
  BY DEF Trail!Route
<1>2. r = Told(Trail!Singular[r.path[1]], VerbOf(r.method, r.path), TargetOf(r.path))
  BY <1>1
<1> HIDE DEF r
<1>3. \A i \in DOMAIN r.path : r.path[i] \in Trail!Parameters => i = 2
  BY <1>1 DEF Plain
<1>4. r.path[1] # "auth" /\ r.path[1] # "support" /\ r.path[1] \notin Trail!Parameters
  BY <1>1 DEF Plain
<1>5. Len(r.path) > 1 /\ r.path[2] \in Trail!Parameters =>
        r.path[2] = IF r.path[1] = "flags" THEN ":key" ELSE ":id"
  BY <1>1 DEF Plain
<1>6. Len(r.path) \in Nat \ {0} /\ DOMAIN r.path = 1..Len(r.path)
  BY <1>1 DEF Plain
<1>7. QED
  BY <1>1, <1>2, <1>3, <1>4, <1>5, <1>6 DEF Telling, OfOther, r

LEMMA OneSegment ==
  ASSUME NEW method, NEW needs, NEW finds,
         NEW a, a \notin Trail!Parameters \cup {"auth", "support"},
         Told(Trail!Singular[a], Trail!Lowercase[method], None)
           = Trail!Route(method, <<a>>, needs, FALSE, finds)
  PROVE  Telling(Trail!Route(method, <<a>>, needs, FALSE, finds))
<1>1. PICK path : path = <<a>>
  OBVIOUS
<1>2. Len(path) = 1 /\ DOMAIN path = 1..Len(path)
  BY <1>1
<1>3. path[1] = a
  BY <1>1
<1>4. VerbOf(method, path) = Trail!Lowercase[method] /\ TargetOf(path) = None
  BY <1>2, <1>3 DEF VerbOf, TargetOf
<1>5. Trail!Route(method, path, needs, FALSE, finds)
        = Told(Trail!Singular[path[1]], VerbOf(method, path), TargetOf(path))
  BY <1>1, <1>3, <1>4
<1>6. Plain(path)
  BY <1>2, <1>3 DEF Plain
<1>7. QED
  BY <1>1, <1>5, <1>6, ChangesTell

LEMMA TwoSegments ==
  ASSUME NEW method, NEW needs, NEW finds,
         NEW a, a \notin Trail!Parameters \cup {"auth", "support"},
         NEW b, b \in Trail!Parameters => b = IF a = "flags" THEN ":key" ELSE ":id",
         Told(Trail!Singular[a], Trail!Lowercase[method], b)
           = Trail!Route(method, <<a, b>>, needs, FALSE, finds)
  PROVE  Telling(Trail!Route(method, <<a, b>>, needs, FALSE, finds))
<1>1. PICK path : path = <<a, b>>
  OBVIOUS
<1>2. Len(path) = 2 /\ DOMAIN path = 1..Len(path)
  BY <1>1
<1>3. path[1] = a /\ path[2] = b
  BY <1>1
<1>4. VerbOf(method, path) = Trail!Lowercase[method] /\ TargetOf(path) = b
  BY <1>2, <1>3 DEF VerbOf, TargetOf
<1>5. Trail!Route(method, path, needs, FALSE, finds)
        = Told(Trail!Singular[path[1]], VerbOf(method, path), TargetOf(path))
  BY <1>1, <1>3, <1>4
<1>6. Plain(path)
  BY <1>2, <1>3 DEF Plain
<1>7. QED
  BY <1>1, <1>5, <1>6, ChangesTell

LEMMA ThreeSegments ==
  ASSUME NEW method, NEW needs, NEW finds,
         NEW a, a \notin Trail!Parameters \cup {"auth", "support"},
         NEW b, b \in Trail!Parameters => b = IF a = "flags" THEN ":key" ELSE ":id",
         NEW c, c \notin Trail!Parameters,
         Told(Trail!Singular[a], c, b)
           = Trail!Route(method, <<a, b, c>>, needs, FALSE, finds)
  PROVE  Telling(Trail!Route(method, <<a, b, c>>, needs, FALSE, finds))
<1>1. PICK path : path = <<a, b, c>>
  OBVIOUS
<1>2. Len(path) = 3 /\ DOMAIN path = 1..Len(path)
  BY <1>1
<1>3. path[1] = a /\ path[2] = b /\ path[3] = c
  BY <1>1
<1>4. VerbOf(method, path) = c /\ TargetOf(path) = b
  BY <1>2, <1>3 DEF VerbOf, TargetOf
<1>5. Trail!Route(method, path, needs, FALSE, finds)
        = Told(Trail!Singular[path[1]], VerbOf(method, path), TargetOf(path))
  BY <1>1, <1>3, <1>4
<1>6. Plain(path)
  BY <1>2, <1>3 DEF Plain
<1>7. QED
  BY <1>1, <1>5, <1>6, ChangesTell

LEMMA FourSegments ==
  ASSUME NEW method, NEW needs, NEW finds,
         NEW a, a \notin Trail!Parameters \cup {"auth", "support"},
         NEW b, b \in Trail!Parameters => b = IF a = "flags" THEN ":key" ELSE ":id",
         NEW c, c \notin Trail!Parameters, NEW d, d \notin Trail!Parameters,
         Told(Trail!Singular[a], d, b)
           = Trail!Route(method, <<a, b, c, d>>, needs, FALSE, finds)
  PROVE  Telling(Trail!Route(method, <<a, b, c, d>>, needs, FALSE, finds))
<1>1. PICK path : path = <<a, b, c, d>>
  OBVIOUS
<1>2. Len(path) = 4 /\ DOMAIN path = 1..Len(path)
  BY <1>1
<1>3. path[1] = a /\ path[2] = b /\ path[3] = c /\ path[4] = d
  BY <1>1
<1>4. VerbOf(method, path) = d /\ TargetOf(path) = b
  BY <1>2, <1>3 DEF VerbOf, TargetOf
<1>5. Trail!Route(method, path, needs, FALSE, finds)
        = Told(Trail!Singular[path[1]], VerbOf(method, path), TargetOf(path))
  BY <1>1, <1>3, <1>4
<1>6. Plain(path)
  BY <1>2, <1>3 DEF Plain
<1>7. QED
  BY <1>1, <1>5, <1>6, ChangesTell

LEMMA Singulars ==
  /\ Trail!Singular["users"] = "user" /\ Trail!Singular["hosts"] = "host"
  /\ Trail!Singular["listings"] = "listing" /\ Trail!Singular["bookings"] = "booking"
  /\ Trail!Singular["payments"] = "payment" /\ Trail!Singular["payouts"] = "payout"
  /\ Trail!Singular["wallet"] = "wallet" /\ Trail!Singular["reviews"] = "review"
  /\ Trail!Singular["support"] = "support" /\ Trail!Singular["notifications"] = "notification"
  /\ Trail!Singular["config"] = "config" /\ Trail!Singular["flags"] = "flag"
  /\ Trail!Singular["admins"] = "admin" /\ Trail!Singular["roles"] = "role"
BY DEF Trail!Singular

LEMMA Lowercases ==
  /\ Trail!Lowercase["POST"] = "post" /\ Trail!Lowercase["PUT"] = "put"
  /\ Trail!Lowercase["PATCH"] = "patch"
BY DEF Trail!Lowercase

LEMMA AuthTell == TellingList(Trail!AuthRoutes)
BY PublicsTell DEF TellingList, IsSeq, Trail!AuthRoutes, Trail!Parameters

LEMMA MeTell == TellingList(Trail!MeRoutes)
BY GetsTell DEF TellingList, IsSeq, Trail!MeRoutes, Trail!Parameters

LEMMA AuditTell == TellingList(Trail!AuditRoutes)
BY GetsTell DEF TellingList, IsSeq, Trail!AuditRoutes, Trail!Parameters

LEMMA ConfigTell == TellingList(Trail!ConfigRoutes)
<1>1. Telling(Trail!Change("PUT", <<"config">>, {"config.write"}))
  BY OneSegment, Singulars, Lowercases
  DEF Trail!Change, Trail!Finding, Trail!Parameters, Told, ToldByAction
<1>2. Telling(Trail!Change("PATCH", <<"flags", ":key">>, {"config.write"}))
  BY TwoSegments, Singulars, Lowercases
  DEF Trail!Change, Trail!Finding, Trail!Parameters, Told, ToldByAction
<1>3. QED
  BY <1>1, <1>2, GetsTell DEF TellingList, IsSeq, Trail!ConfigRoutes

LEMMA AdminsTell == TellingList(Trail!AdminsRoutes)
<1>1. Telling(Trail!Change("POST", <<"admins", "invite">>, {"admin.manage"}))
  BY TwoSegments, Singulars, Lowercases
  DEF Trail!Change, Trail!Finding, Trail!Parameters, Told, ToldByAction
<1>2. Telling(Trail!Finding("PATCH", <<"admins", ":id">>, {"admin.manage"}))
  BY TwoSegments, Singulars, Lowercases
  DEF Trail!Change, Trail!Finding, Trail!Parameters, Told, ToldByAction
<1>3. Telling(Trail!Change("POST", <<"roles">>, {"admin.manage"}))
  BY OneSegment, Singulars, Lowercases
  DEF Trail!Change, Trail!Finding, Trail!Parameters, Told, ToldByAction
<1>4. Telling(Trail!Change("PATCH", <<"roles">>, {"admin.manage"}))
  BY OneSegment, Singulars, Lowercases
  DEF Trail!Change, Trail!Finding, Trail!Parameters, Told, ToldByAction
<1>5. QED
  BY <1>1, <1>2, <1>3, <1>4, GetsTell DEF TellingList, IsSeq, Trail!AdminsRoutes

LEMMA DashboardTell == TellingList(Trail!DashboardRoutes)
BY GetsTell DEF TellingList, IsSeq, Trail!DashboardRoutes, Trail!Parameters

LEMMA UsersTell == TellingList(Trail!UsersRoutes)
<1>1. Telling(Trail!Finding("POST", <<"users", ":id", "wallet-adjust">>, {"wallet.adjust"}))
  BY ThreeSegments, Singulars, Lowercases
  DEF Trail!Change, Trail!Finding, Trail!Parameters, Told, ToldByAction
<1>2. Telling(Trail!Finding("PATCH", <<"users", ":id", "status">>, {"user.suspend"}))
  BY ThreeSegments, Singulars, Lowercases
  DEF Trail!Change, Trail!Finding, Trail!Parameters, Told, ToldByAction
<1>3. QED
  BY <1>1, <1>2, GetsTell DEF TellingList, IsSeq, Trail!UsersRoutes

LEMMA HostsTell == TellingList(Trail!HostsRoutes)
<1>1. Telling(Trail!Change("POST", <<"hosts", ":id", "kyc", "decision">>, {"host.verify"}))
  BY FourSegments, Singulars, Lowercases
  DEF Trail!Change, Trail!Finding, Trail!Parameters, Told, ToldByAction
<1>2. Telling(Trail!Finding("PATCH", <<"hosts", ":id", "status">>, {"host.suspend"}))
  BY ThreeSegments, Singulars, Lowercases
  DEF Trail!Change, Trail!Finding, Trail!Parameters, Told, ToldByAction
<1>3. Telling(Trail!Finding("POST", <<"hosts", ":id", "flag">>, {"host.suspend"}))
  BY ThreeSegments, Singulars, Lowercases
  DEF Trail!Change, Trail!Finding, Trail!Parameters, Told, ToldByAction
<1>4. QED
  BY <1>1, <1>2, <1>3, GetsTell DEF TellingList, IsSeq, Trail!HostsRoutes

LEMMA ListingsTell == TellingList(Trail!ListingsRoutes)
<1>1. Telling(Trail!Change("POST", <<"listings", ":id", "moderate">>,
                           {"listing.approve", "listing.takedown"}))
  BY ThreeSegments, Singulars, Lowercases
  DEF Trail!Change, Trail!Finding, Trail!Parameters, Told, ToldByAction
<1>2. Telling(Trail!Finding("PATCH", <<"listings", ":id">>, {"listing.edit"}))
  BY TwoSegments, Singulars, Lowercases
  DEF Trail!Change, Trail!Finding, Trail!Parameters, Told, ToldByAction
<1>3. QED
  BY <1>1, <1>2, GetsTell DEF TellingList, IsSeq, Trail!ListingsRoutes

LEMMA BookingsTell == TellingList(Trail!BookingsRoutes)
<1>1. Telling(Trail!Finding("POST", <<"bookings", ":id", "cancel">>, {"booking.cancel"}))
  BY ThreeSegments, Singulars, Lowercases
  DEF Trail!Change, Trail!Finding, Trail!Parameters, Told, ToldByAction
<1>2. Telling(Trail!Finding("POST", <<"bookings", ":id", "owner-decision">>, {"booking.override"}))
  BY ThreeSegments, Singulars, Lowercases
  DEF Trail!Change, Trail!Finding, Trail!Parameters, Told, ToldByAction
<1>3. Telling(Trail!Finding("POST", <<"bookings", ":id", "extend-deadline">>, {"booking.override"}))
  BY ThreeSegments, Singulars, Lowercases
  DEF Trail!Change, Trail!Finding, Trail!Parameters, Told, ToldByAction
<1>4. Telling(Trail!Finding("POST", <<"bookings", ":id", "resolve-dispute">>, {"booking.cancel"}))
  BY ThreeSegments, Singulars, Lowercases
  DEF Trail!Change, Trail!Finding, Trail!Parameters, Told, ToldByAction
<1>5. QED
  BY <1>1, <1>2, <1>3, <1>4, GetsTell DEF TellingList, IsSeq, Trail!BookingsRoutes

LEMMA PaymentsTell == TellingList(Trail!PaymentsRoutes)
<1>1. Telling(Trail!Change("POST", <<"payments", ":id", "refund">>, {"payment.refund"}))
  BY ThreeSegments, Singulars, Lowercases
  DEF Trail!Change, Trail!Finding, Trail!Parameters, Told, ToldByAction
<1>2. QED
  BY <1>1, GetsTell DEF TellingList, IsSeq, Trail!PaymentsRoutes

LEMMA PayoutsTell == TellingList(Trail!PayoutsRoutes)
<1>1. Telling(Trail!Change("POST", <<"payouts", "run">>, {"payout.trigger"}))
  BY TwoSegments, Singulars, Lowercases
  DEF Trail!Change, Trail!Finding, Trail!Parameters, Told, ToldByAction
<1>2. Telling(Trail!Change("POST", <<"payouts", ":id", "trigger">>, {"payout.trigger"}))
  BY ThreeSegments, Singulars, Lowercases
  DEF Trail!Change, Trail!Finding, Trail!Parameters, Told, ToldByAction
<1>3. Telling(Trail!Change("POST", <<"payouts", ":id", "hold">>, {"payout.hold"}))
  BY ThreeSegments, Singulars, Lowercases
  DEF Trail!Change, Trail!Finding, Trail!Parameters, Told, ToldByAction
<1>4. QED
  BY <1>1, <1>2, <1>3, GetsTell DEF TellingList, IsSeq, Trail!PayoutsRoutes

LEMMA WalletTell == TellingList(Trail!WalletRoutes)
<1>1. Telling(Trail!Change("POST", <<"wallet", "bulk-credit">>, {"wallet.adjust"}))
  BY TwoSegments, Singulars, Lowercases
  DEF Trail!Change, Trail!Finding, Trail!Parameters, Told, ToldByAction
<1>2. QED
  BY <1>1, GetsTell DEF TellingList, IsSeq, Trail!WalletRoutes

LEMMA ReviewsTell == TellingList(Trail!ReviewsRoutes)
<1>1. Telling(Trail!Change("POST", <<"reviews", ":id", "moderate">>, {"review.moderate"}))
  BY ThreeSegments, Singulars, Lowercases
  DEF Trail!Change, Trail!Finding, Trail!Parameters, Told, ToldByAction
<1>2. QED
  BY <1>1, GetsTell DEF TellingList, IsSeq, Trail!ReviewsRoutes

LEMMA SupportTell == TellingList(Trail!SupportRoutes)
<1>1. Telling(Trail!Change("POST", <<"support", "threads", ":id", "reply">>, {"support.reply"}))
  <2>1. PICK path : path = <<"support", "threads", ":id", "reply">>
    OBVIOUS
  <2>2. /\ Len(path) = 4 /\ Len(path) \in Nat \ {0} /\ DOMAIN path = 1..Len(path)
        /\ path[1] = "support" /\ path[2] = "threads" /\ path[3] = ":id" /\ path[4] = "reply"
    BY <2>1
  <2>3. PICK r : r = Trail!Change("POST", path, {"support.reply"})
    OBVIOUS
  <2>4. r.path = path /\ r.public = FALSE
    BY <2>3 DEF Trail!Change, Trail!Route
  <2>5. \A verb, target : verb = "reply" => r = Told("support", verb, target)
    BY <2>1, <2>3 DEF Told, ToldByAction
  <2>6. OfThread(r)
    BY <2>2, <2>4, <2>5 DEF OfThread, Trail!Parameters
  <2>7. path[1] \notin Trail!Parameters /\ path[1] # "auth"
    BY <2>2 DEF Trail!Parameters
  <2>8. Telling(r)
    BY <2>2, <2>4, <2>6, <2>7 DEF Telling
  <2>9. QED
    BY <2>1, <2>3, <2>8
<1>2. Telling(Trail!Change("PATCH", <<"support", "threads", ":id">>, {"support.reply"}))
  <2>1. PICK path : path = <<"support", "threads", ":id">>
    OBVIOUS
  <2>2. /\ Len(path) = 3 /\ Len(path) \in Nat \ {0} /\ DOMAIN path = 1..Len(path)
        /\ path[1] = "support" /\ path[2] = "threads" /\ path[3] = ":id"
    BY <2>1
  <2>3. PICK r : r = Trail!Change("PATCH", path, {"support.reply"})
    OBVIOUS
  <2>4. r.path = path /\ r.public = FALSE
    BY <2>3 DEF Trail!Change, Trail!Route
  <2>5. \A verb, target : verb # "reply" => r = Told("support", verb, target)
    BY <2>1, <2>3 DEF Told, ToldByAction
  <2>6. OfThread(r)
    BY <2>2, <2>4, <2>5 DEF OfThread, Trail!Parameters
  <2>7. path[1] \notin Trail!Parameters /\ path[1] # "auth"
    BY <2>2 DEF Trail!Parameters
  <2>8. Telling(r)
    BY <2>2, <2>4, <2>6, <2>7 DEF Telling
  <2>9. QED
    BY <2>1, <2>3, <2>8
<1>3. QED
  BY <1>1, <1>2, GetsTell DEF TellingList, IsSeq, Trail!SupportRoutes

LEMMA NotificationsTell == TellingList(Trail!NotificationsRoutes)
<1>1. Telling(Trail!Change("POST", <<"notifications">>, {"notification.send"}))
  BY NoneAssumption, OneSegment, Singulars, Lowercases
  DEF Trail!Change, Trail!Finding, Trail!Parameters, Told, ToldByAction
<1>2. Telling(Trail!Change("POST", <<"notifications", "test">>, {"notification.send"}))
  BY TwoSegments, Singulars, Lowercases
  DEF Trail!Change, Trail!Finding, Trail!Parameters, Told, ToldByAction
<1>3. Telling(Trail!Change("POST", <<"notifications", ":id", "send">>, {"notification.send"}))
  BY ThreeSegments, Singulars, Lowercases
  DEF Trail!Change, Trail!Finding, Trail!Parameters, Told, ToldByAction
<1>4. QED
  BY <1>1, <1>2, <1>3, GetsTell DEF TellingList, IsSeq, Trail!NotificationsRoutes

LEMMA TellTogether ==
  ASSUME NEW s, TellingList(s), NEW t, TellingList(t) PROVE TellingList(s \o t)
<1>1. PICK u : u = s \o t
  OBVIOUS
<1>2. IsSeq(s) /\ IsSeq(t)
  BY DEF TellingList
<1>3. IsSeq(u) /\ DrawnFrom(u, s, t)
  BY <1>1, <1>2, Joined
<1>4. TellingList(u)
  BY <1>3 DEF TellingList, DrawnFrom
<1>5. QED
  BY <1>1, <1>4

LEMMA RoutesTell == TellingList(Trail!Routes)
<1>1. TellingList(Trail!AuthRoutes \o Trail!MeRoutes \o Trail!AuditRoutes \o Trail!ConfigRoutes
                  \o Trail!AdminsRoutes \o Trail!DashboardRoutes \o Trail!UsersRoutes
                  \o Trail!HostsRoutes)
  BY TellTogether, AuthTell, MeTell, AuditTell, ConfigTell, AdminsTell, DashboardTell,
     UsersTell, HostsTell
<1>2. QED
  BY <1>1, TellTogether, ListingsTell, BookingsTell, PaymentsTell, PayoutsTell, WalletTell,
     ReviewsTell, SupportTell, NotificationsTell
  DEF Trail!Routes

\* A declared route has no name with a colon in its path.
LEMMA NoColons ==
  ASSUME NEW k \in DOMAIN Trail!Routes, NEW i \in DOMAIN Trail!Routes[k].path,
         Trail!Routes[k].path[i] \in Colons
  PROVE  Trail!Routes[k].path[i] \in Trail!Parameters
BY NameAssumption DEF Trail!ToSet
-----------------------------------------------------------------------------
(* Dispatch.                                                               *)

LEMMA MutatingRoute ==
  ASSUME NEW r \in Trail!MutatingRoutes
  PROVE  r.method # "GET" /\ Sound(r) /\ \E i \in DOMAIN Trail!Routes : Trail!Routes[i] = r
BY RoutesAreSound DEF Trail!MutatingRoutes, Trail!ToSet, SoundList

\* The request of an operation reaches a route of its method that has its words,
\* or parameters for them.
LEMMA Dispatched ==
  ASSUME NEW op \in Trail!Operations
  PROVE  LET r == op.route
             path == Trail!Filled(r, op.name)
             h == Trail!Handler(r.method, path)
         IN /\ r.method # "GET" /\ \E k \in DOMAIN Trail!Routes : r = Trail!Routes[k]
            /\ DOMAIN path = 1..Len(r.path) /\ Len(path) = Len(r.path)
            /\ \A i \in DOMAIN path :
                 path[i] = IF r.path[i] \in Trail!Parameters THEN op.name ELSE r.path[i]
            /\ \E k \in DOMAIN Trail!Routes : h = Trail!Routes[k]
            /\ h.method = r.method /\ Len(h.path) = Len(r.path)
            /\ \A i \in 1..Len(r.path) : h.path[i] \in Trail!Parameters \cup {path[i]}
<1> DEFINE r == op.route
           path == Trail!Filled(r, op.name)
           matching == {i \in DOMAIN Trail!Routes : Trail!Matches(Trail!Routes[i], r.method, path)}
           k == Trail!Min(matching)
           h == Trail!Routes[k]
<1>1. r \in Trail!MutatingRoutes
  BY DEF Trail!Operations
<1>2. /\ r.method # "GET" /\ Sound(r)
      /\ Len(r.path) \in Nat \ {0} /\ DOMAIN r.path = 1..Len(r.path)
  BY <1>1, MutatingRoute DEF Sound
<1>3. /\ DOMAIN path = 1..Len(r.path) /\ Len(path) = Len(r.path)
      /\ \A i \in DOMAIN path :
           path[i] = IF r.path[i] \in Trail!Parameters THEN op.name ELSE r.path[i]
  BY <1>2 DEF Trail!Filled
<1> HIDE DEF path
<1>4. Trail!Matches(r, r.method, path)
  BY <1>3 DEF Trail!Matches
<1>5. matching # {} /\ matching \subseteq Nat
  <2>1. \E i \in DOMAIN Trail!Routes : Trail!Routes[i] = r
    BY <1>1, MutatingRoute
  <2>2. DOMAIN Trail!Routes \subseteq Nat
    BY RoutesAreSound DEF SoundList, IsSeq
  <2>3. QED
    BY <1>4, <2>1, <2>2
<1>6. k \in matching
  <2> HIDE DEF matching
  <2>1. \E i \in matching : \A j \in matching : i =< j
    BY <1>5, LeastNatural
  <2>2. QED
    BY <2>1 DEF Trail!Min
<1>7. Trail!Handler(r.method, path) = h
  BY DEF Trail!Handler
<1>8. k \in DOMAIN Trail!Routes /\ Trail!Matches(h, r.method, path)
  BY <1>6
<1>9. \E i \in DOMAIN Trail!Routes : r = Trail!Routes[i]
  BY <1>1, MutatingRoute
<1>10. \E i \in DOMAIN Trail!Routes : h = Trail!Routes[i]
  BY <1>8
<1> HIDE DEF k, h, r
<1>11. /\ h.method = r.method /\ Len(h.path) = Len(r.path)
       /\ \A i \in 1..Len(r.path) : h.path[i] \in Trail!Parameters \cup {path[i]}
  BY <1>3, <1>8 DEF Trail!Matches
<1>12. QED
  BY <1>2, <1>3, <1>7, <1>9, <1>10, <1>11 DEF r, path

\* That route looks its row up if the operation's does, and wants a permission
\* to change something.
LEMMA Reached ==
  ASSUME NEW op \in Trail!Operations
  PROVE  LET handler == Trail!Handler(op.route.method, Trail!Filled(op.route, op.name))
         IN ~handler.public =>
              /\ handler.needs # {} /\ \A p \in handler.needs : Changing(p)
              /\ op.route.finds => handler.finds
<1>1. PICK r : r = op.route
  OBVIOUS
<1>2. PICK path : path = Trail!Filled(r, op.name)
  OBVIOUS
<1>3. PICK h : h = Trail!Handler(r.method, path)
  OBVIOUS
<1>4. /\ r.method # "GET" /\ DOMAIN path = 1..Len(r.path) /\ Len(path) = Len(r.path)
      /\ \A i \in DOMAIN path :
           path[i] = IF r.path[i] \in Trail!Parameters THEN op.name ELSE r.path[i]
      /\ h.method = r.method /\ Len(h.path) = Len(r.path)
      /\ \A i \in 1..Len(r.path) : h.path[i] \in Trail!Parameters \cup {path[i]}
  BY <1>1, <1>2, <1>3, Dispatched
<1>5. PICK k \in DOMAIN Trail!Routes : r = Trail!Routes[k]
  BY <1>1, Dispatched
<1>6. PICK l \in DOMAIN Trail!Routes : h = Trail!Routes[l]
  BY <1>1, <1>2, <1>3, Dispatched
<1>7. Sound(r) /\ Sound(h)
  BY <1>5, <1>6, RoutesAreSound DEF SoundList
<1>8. Len(r.path) \in Nat \ {0} /\ DOMAIN r.path = 1..Len(r.path)
  BY <1>4, <1>7 DEF Sound
<1>9. h.path[1] = r.path[1]
  BY <1>4, <1>7, <1>8 DEF Sound
<1>10. ASSUME r.finds PROVE h.finds
  <2>1. <<r.method, r.path[1], Third(r.path)>> \in FindingKeys
    BY <1>4, <1>7, <1>10 DEF Sound
  <2>2. r.path[1] # "support"
    BY <2>1 DEF FindingKeys
  <2>3. Third(h.path) = Third(r.path)
    BY <1>4, <1>7, <1>8, <1>9, <2>2 DEF Sound, Third
  <2>4. QED
    BY <1>4, <1>7, <1>9, <2>1, <2>3 DEF Sound
<1>11. ~h.public => h.needs # {} /\ \A p \in h.needs : Changing(p)
  BY <1>4, <1>7 DEF Sound
<1>12. QED
  BY <1>1, <1>2, <1>3, <1>10, <1>11
-----------------------------------------------------------------------------
(* The rows.                                                               *)

\* The row of an operation tells which it was, of what, and to whom it was done,
\* unless it was a flag with a colon in its key.
Tells(row) ==
  /\ row.targetType = row.action[1]
  /\ row.targetType = Trail!Singular[row.op.route.path[1]]
  /\ row.op.name # None /\ ~(":key" \in Trail!ToSet(row.op.route.path) /\ row.op.name \in Colons)
       => row.targetId = row.op.name
  /\ row.op.route = Told(row.action[1], row.action[2], row.targetId)

\* An operation has a name if its path has a parameter.
LEMMA NamesOf ==
  ASSUME NEW op \in Trail!Operations
  PROVE  /\ op.name = None \/ op.name \in Names
         /\ op.name # None <=> \E i \in DOMAIN op.route.path : op.route.path[i] \in Trail!Parameters
<1>1. PICK r \in Trail!MutatingRoutes :
        op \in [route: {r},
                name: IF Trail!ToSet(r.path) \cap Trail!Parameters = {} THEN {None} ELSE Names]
  BY DEF Trail!Operations
<1>2. op.route = r
  BY <1>1
<1>3. None \notin Names
  BY BoundsAssumption
<1>4. Trail!ToSet(r.path) \cap Trail!Parameters = {} <=>
        ~\E i \in DOMAIN r.path : r.path[i] \in Trail!Parameters
  BY DEF Trail!ToSet
<1>5. op.name \in IF Trail!ToSet(r.path) \cap Trail!Parameters = {} THEN {None} ELSE Names
  BY <1>1
<1>6. QED
  BY <1>2, <1>3, <1>4, <1>5

\* Mutations leave rows that tell of them.
LEMMA RowTells ==
  ASSUME NEW op \in Trail!Operations, NEW admin,
         ~Trail!Handler(op.route.method, Trail!Filled(op.route, op.name)).public
  PROVE  Tells(Trail!Row(admin, op, Trail!Filled(op.route, op.name)))
<1>1. PICK r : r = op.route
  OBVIOUS
<1>2. PICK path : path = Trail!Filled(r, op.name)
  OBVIOUS
<1>3. PICK h : h = Trail!Handler(r.method, path)
  OBVIOUS
<1>4. PICK n : n = Len(r.path)
  OBVIOUS
<1>5. /\ r.method # "GET" /\ DOMAIN path = 1..n /\ Len(path) = n
      /\ \A i \in DOMAIN path :
           path[i] = IF r.path[i] \in Trail!Parameters THEN op.name ELSE r.path[i]
      /\ h.method = r.method /\ Len(h.path) = n
      /\ \A i \in 1..n : h.path[i] \in Trail!Parameters \cup {path[i]}
  BY <1>1, <1>2, <1>3, <1>4, Dispatched
<1>6. PICK k \in DOMAIN Trail!Routes : r = Trail!Routes[k]
  BY <1>1, Dispatched
<1>7. PICK l \in DOMAIN Trail!Routes : h = Trail!Routes[l]
  BY <1>1, <1>2, <1>3, Dispatched
<1>8. Telling(r) /\ Telling(h)
  BY <1>6, <1>7, RoutesTell DEF TellingList
<1>9. /\ n \in Nat \ {0} /\ DOMAIN r.path = 1..n /\ DOMAIN h.path = 1..n
      /\ r.path[1] \notin Trail!Parameters /\ h.path[1] \notin Trail!Parameters
      /\ r.public <=> r.path[1] = "auth"
      /\ h.public <=> h.path[1] = "auth"
  BY <1>4, <1>5, <1>8 DEF Telling
<1>10. path[1] = r.path[1] /\ h.path[1] = r.path[1]
  BY <1>5, <1>9
<1>11. ~r.public
  BY <1>1, <1>2, <1>3, <1>9, <1>10
<1>12. /\ op.name = None \/ op.name \in Names
       /\ op.name # None <=> \E i \in 1..n : r.path[i] \in Trail!Parameters
  BY <1>1, <1>9, NamesOf
<1>13. PICK target : target = IF \E i \in DOMAIN path : h.path[i] = ":id"
                              THEN path[CHOOSE i \in DOMAIN path : h.path[i] = ":id"]
                              ELSE Trail!SecondSegment(path)
  OBVIOUS
<1>14. PICK verb : verb = Trail!Verb(r.method, path)
  OBVIOUS
<1>15. PICK row : row = Trail!Row(admin, op, path)
  OBVIOUS
<1>16. /\ row.op = op /\ row.action = <<Trail!Singular[r.path[1]], verb>>
       /\ row.targetType = Trail!Singular[r.path[1]] /\ row.targetId = target
  BY <1>1, <1>3, <1>5, <1>10, <1>13, <1>14, <1>15 DEF Trail!Row, Trail!DeriveTarget
<1>17. verb = IF n > 2 THEN path[n] ELSE Trail!Lowercase[r.method]
  BY <1>5, <1>14 DEF Trail!Verb, Trail!Last
<1>18. \A i \in 1..n : h.path[i] = ":id" /\ (\A j \in 1..n : h.path[j] = ":id" => j = i) =>
         target = path[i]
  BY <1>5, <1>13
<1>19. (\A i \in 1..n : h.path[i] # ":id") =>
         target = IF n > 1 /\ path[2] \notin Colons THEN path[2] ELSE None
  BY <1>5, <1>13 DEF Trail!SecondSegment
<1>20. ":id" \in Trail!Parameters
  BY DEF Trail!Parameters
<1> SUFFICES /\ op.name # None /\ ~(":key" \in Trail!ToSet(r.path) /\ op.name \in Colons) =>
                  target = op.name
             /\ r = Told(Trail!Singular[r.path[1]], verb, target)
  <2>1. Tells(row)
    BY <1>1, <1>16 DEF Tells
  <2>2. QED
    BY <1>1, <1>2, <1>15, <2>1
<1>21. CASE r.path[1] = "support"
  <2>1. OfThread(r) /\ OfThread(h)
    BY <1>5, <1>8, <1>10, <1>21 DEF Telling
  <2>2. /\ n \in {3, 4} /\ r.path[3] = ":id" /\ h.path[3] = ":id"
        /\ h.path[2] \notin Trail!Parameters
        /\ n = 4 => r.path[4] = "reply" /\ h.path[4] = "reply"
    BY <1>4, <1>5, <2>1 DEF OfThread
  <2>3. \A j \in 1..n : h.path[j] = ":id" => j = 3
    BY <1>9, <1>20, <2>2
  <2>4. target = path[3] /\ path[3] = op.name
    BY <1>5, <1>18, <1>20, <2>2, <2>3
  <2>5. op.name \in Names /\ op.name # "reply"
    BY <1>12, <1>20, <2>2, NameAssumption
  <2>6. "reply" \notin Trail!Parameters
    BY DEF Trail!Parameters
  <2>7. verb = "reply" <=> n = 4
    BY <1>5, <1>17, <2>2, <2>4, <2>5, <2>6
  <2>8. r = Told("support", verb, target)
    BY <1>4, <2>1, <2>7 DEF OfThread
  <2>9. QED
    BY <1>21, <2>4, <2>8, Singulars
<1>22. CASE r.path[1] # "support"
  <2>1. OfOther(r) /\ OfOther(h)
    BY <1>5, <1>8, <1>10, <1>22 DEF Telling
  <2>2. /\ \A i \in 1..n : r.path[i] \in Trail!Parameters => i = 2
        /\ \A i \in 1..n : h.path[i] \in Trail!Parameters => i = 2
        /\ n > 1 /\ r.path[2] \in Trail!Parameters =>
             r.path[2] = IF r.path[1] = "flags" THEN ":key" ELSE ":id"
        /\ n > 1 /\ h.path[2] \in Trail!Parameters =>
             h.path[2] = IF r.path[1] = "flags" THEN ":key" ELSE ":id"
    BY <1>4, <1>5, <1>9, <1>10, <2>1 DEF OfOther
  <2>3. r = Told(Trail!Singular[r.path[1]], VerbOf(r.method, r.path), TargetOf(r.path))
    BY <1>11, <2>1 DEF OfOther
  <2>4. verb = VerbOf(r.method, r.path)
    BY <1>4, <1>5, <1>9, <1>17, <2>2 DEF VerbOf
  <2>5. TargetOf(r.path) = IF n > 1 THEN r.path[2] ELSE None
    BY <1>4 DEF TargetOf
  <2>6. CASE n = 1
    <3>1. target = None
      BY <1>9, <1>19, <1>20, <2>2, <2>6
    <3>2. op.name = None
      BY <1>12, <2>2, <2>6
    <3>3. QED
      BY <2>3, <2>4, <2>5, <2>6, <3>1, <3>2
  <2>7. CASE n > 1 /\ r.path[2] \notin Trail!Parameters
    <3>1. 2 \in 1..n /\ path[2] = r.path[2]
      BY <1>5, <1>9, <2>7
    <3>2. r.path[2] \notin Colons
      BY <1>6, <1>9, <2>7, <3>1, NoColons
    <3>3. target = r.path[2]
      BY <1>18, <1>19, <1>20, <2>2, <2>7, <3>1, <3>2
    <3>4. op.name = None
      BY <1>12, <2>2, <2>7
    <3>5. QED
      BY <2>3, <2>4, <2>5, <2>7, <3>3, <3>4
  <2>8. CASE n > 1 /\ r.path[2] \in Trail!Parameters
    <3>1. 2 \in 1..n /\ path[2] = op.name /\ op.name \in Names
      BY <1>5, <1>9, <1>12, <2>8
    <3>2. h.path[2] = op.name /\ op.name \in Colons => h.path[2] \in Trail!Parameters
      BY <1>7, <1>9, <3>1, NoColons
    <3>3. target # op.name => op.name \in Colons /\ h.path[2] # ":id"
      BY <1>18, <1>19, <1>20, <2>2, <2>8, <3>1
    <3>4. target # op.name => h.path[2] \in Trail!Parameters
      BY <1>5, <3>1, <3>2, <3>3
    <3>5. target # op.name => r.path[2] = ":key" /\ op.name \in Colons
      BY <2>2, <2>8, <3>3, <3>4
    <3>6. ":key" = r.path[2] => ":key" \in Trail!ToSet(r.path)
      BY <1>9, <3>1 DEF Trail!ToSet
    <3>7. r.path[2] # "test"
      BY <2>8 DEF Trail!Parameters
    <3>8. Trail!Singular[r.path[1]] = "notification" => verb = "send"
      <4>1. SUFFICES ASSUME Trail!Singular[r.path[1]] = "notification", verb # "send" PROVE FALSE
        OBVIOUS
      <4>2. r = Trail!Change("POST", <<"notifications">>, {"notification.send"})
        BY <2>3, <2>4, <2>5, <2>8, <3>7, <4>1 DEF Told
      <4>3. r.path = <<"notifications">>
        BY <4>2 DEF Trail!Change, Trail!Route
      <4>4. QED
        BY <1>4, <2>8, <4>3
    <3>9. Told(Trail!Singular[r.path[1]], verb, r.path[2])
            = Told(Trail!Singular[r.path[1]], verb, target)
      BY <3>8 DEF Told
    <3>10. QED
      BY <2>3, <2>4, <2>5, <2>8, <3>5, <3>6, <3>9
  <2>9. QED
    BY <1>9, <2>6, <2>7, <2>8
<1>23. QED
  BY <1>21, <1>22
-----------------------------------------------------------------------------
(* Walks through them.                                                     *)

Earned(row) ==
  /\ ~(Granted[row.actor] \subseteq Trail!ReadPermissions)
  /\ row.op.route.finds => row.op.name \in Existing

Shown == Trail!ToSet(walk.got)
Place(row) == Trail!Place(walk.query, row)

\* The pages that are fetched.
PagesSeen == IF walk.pc = "rows" THEN walk.page - 1 ELSE walk.page

\* A row that was there when the walk began is shown, or comes after the pages
\* that are fetched; it is asked for until the last page is.
WalkSound ==
  /\ walk \in [query: {walk.query}, pc: {"rows", "total", "done"}, page: Nat \ {0},
               got: Seq(log), due: SUBSET log]
  /\ \A row \in walk.due : Trail!Wanted(row.op, walk.query)
  /\ \A row \in walk.due \ Shown : Place(row) > PagesSeen * Limit
  /\ walk.pc = "done" => walk.due \subseteq Shown

\* Rows with a time each.
Ticked(R) ==
  /\ IsFiniteSet(R) /\ \A row \in R : row.at \in Nat
  /\ \A a, b \in R : a.at = b.at => a = b

\* The inductive invariant of the part: rows are earned and tell of their
\* operations from the start, and a walk passes over no row.
TInv ==
  /\ clock \in Nat /\ Ticked(pending \cup log)
  /\ \A row \in pending \cup log : Earned(row) /\ Tells(row) /\ row.at < clock
  /\ walk # None => WalkSound
TrailInv == part = "trail" => TInv

LEMMA TrailCardinality == \A S : Trail!Cardinality(S) = Cardinality(S)
BY DEF Trail!Cardinality, Cardinality

\* The rows a query selects, in its order.
LEMMA RowsPlaced ==
  ASSUME Ticked(log), NEW query_
  PROVE  LET K == Trail!Selected(query_)
             N == Cardinality(K)
             L == Trail!Sorted(query_)
         IN /\ K \subseteq log /\ N \in Nat
            /\ \A row \in K : Trail!Place(query_, row) \in 1..N
            /\ \A row \in K : L[Trail!Place(query_, row)] = row
            /\ L \in Seq(K) /\ Len(L) = N
<1> DEFINE K == Trail!Selected(query_)
           N == Cardinality(K)
           L == Trail!Sorted(query_)
           R == {x \in K \X K : Trail!Before(query_, x[1], x[2])}
           place(r) == Trail!Place(query_, r)
<1>1. K \subseteq log /\ IsFiniteSet(K) /\ N \in Nat
  BY FS_Subset, FS_CardinalityType DEF Trail!Selected, Ticked
<1>2. \A a, b \in K : <<a, b>> \in R <=> Trail!Before(query_, a, b)
  OBVIOUS
<1>3. \A a, b \in K : a.at \in Nat /\ b.at \in Nat /\ (a.at = b.at => a = b)
  BY <1>1 DEF Ticked
<1>4. /\ \A a \in K : <<a, a>> \notin R
      /\ \A a, b, c \in K : <<a, b>> \in R /\ <<b, c>> \in R => <<a, c>> \in R
      /\ \A a, b \in K : a # b => <<a, b>> \in R \/ <<b, a>> \in R
  <2> HIDE DEF K, R
  <2>1. \A a \in K : <<a, a>> \notin R
    BY <1>2, <1>3 DEF Trail!Before
  <2>2. \A a, b, c \in K : <<a, b>> \in R /\ <<b, c>> \in R => <<a, c>> \in R
    BY <1>2, <1>3 DEF Trail!Before
  <2>3. \A a, b \in K : a # b => <<a, b>> \in R \/ <<b, a>> \in R
    BY <1>2, <1>3 DEF Trail!Before
  <2>4. QED
    BY <2>1, <2>2, <2>3
<1>5. ASSUME NEW r \in K PROVE place(r) = Rank(K, R)[r]
  <2>1. {s \in K : Trail!Before(query_, s, r)} = {s \in K : <<s, r>> \in R}
    BY <1>2
  <2>2. Rank(K, R)[r] = Cardinality({s \in K : <<s, r>> \in R}) + 1
    BY DEF Rank
  <2>3. QED
    BY <2>1, <2>2, TrailCardinality DEF Trail!Place
<1>6. L = [p \in 1..N |-> CHOOSE r \in K : place(r) = p]
  BY TrailCardinality DEF Trail!Sorted
<1> HIDE DEF K, N, L, R, place
<1>7. /\ \A a \in K : place(a) \in 1..N
      /\ \A a, b \in K : place(a) = place(b) => a = b
      /\ \A p \in 1..N : \E a \in K : place(a) = p
  <2>1. /\ \A a \in K : Rank(K, R)[a] \in 1..Cardinality(K)
        /\ \A a, b \in K : Rank(K, R)[a] = Rank(K, R)[b] => a = b
        /\ \A p \in 1..Cardinality(K) : \E a \in K : Rank(K, R)[a] = p
    BY <1>1, <1>4, Ranked
  <2>2. QED
    BY <1>5, <2>1 DEF N
<1>8. \A p \in 1..N : L[p] \in K /\ place(L[p]) = p
  BY <1>6, <1>7
<1>9. \A r \in K : L[place(r)] = r
  BY <1>7, <1>8
<1>10. L \in Seq(K) /\ Len(L) = N
  <2>1. L \in [1..N -> K]
    BY <1>6, <1>8
  <2>2. QED
    BY <1>1, <2>1
<1>11. QED
  BY <1>1, <1>7, <1>9, <1>10 DEF K, N, L, place

\* What is wanted is selected.
LEMMA WantedIsSelected ==
  ASSUME NEW row \in log, Tells(row), NEW query_, Trail!Wanted(row.op, query_)
  PROVE  row \in Trail!Selected(query_)
<1>1. query_.targetType \in {row.targetType, None}
  BY DEF Tells, Trail!Wanted
<1>2. query_.q = None \/ query_.q = row.targetId
  BY DEF Tells, Trail!Wanted
<1>3. QED
  BY <1>1, <1>2 DEF Trail!Selected

\* Rows that come in take no row to an earlier place.
LEMMA PlacesGrow ==
  ASSUME Ticked(log), Ticked(log)', log \subseteq log', NEW query_, NEW row
  PROVE  /\ Trail!Place(query_, row) \in Nat /\ Trail!Place(query_, row)' \in Nat
         /\ Trail!Place(query_, row) <= Trail!Place(query_, row)'
<1>1. PICK A : A = {r \in Trail!Selected(query_) : Trail!Before(query_, r, row)}
  OBVIOUS
<1>2. PICK B : B = {r \in Trail!Selected(query_)' : Trail!Before(query_, r, row)}
  OBVIOUS
<1>3. A \subseteq log /\ B \subseteq log' /\ A \subseteq B
  BY <1>1, <1>2 DEF Trail!Selected
<1>4. IsFiniteSet(A) /\ IsFiniteSet(B)
  BY <1>3, FS_Subset DEF Ticked
<1>5. Cardinality(A) \in Nat /\ Cardinality(B) \in Nat /\ Cardinality(A) <= Cardinality(B)
  BY <1>3, <1>4, FS_Subset, FS_CardinalityType
<1>6. Trail!Place(query_, row) = Cardinality(A) + 1
  BY <1>1, TrailCardinality DEF Trail!Place
<1>7. Trail!Place(query_, row)' = Cardinality(B) + 1
  BY <1>2, TrailCardinality DEF Trail!Place, Trail!Before
<1>8. QED
  BY <1>5, <1>6, <1>7
-----------------------------------------------------------------------------
LEMMA TrailInvInit == Init => TrailInv
<1> SUFFICES ASSUME Trail!Init PROVE TInv
  BY DEF Init, TrailInv
<1>1. pending \cup log = {} /\ clock = 0 /\ walk = None
  BY DEF Trail!Init
<1>2. Ticked(pending \cup log)
  BY <1>1, FS_EmptySet DEF Ticked
<1>3. QED
  BY <1>1, <1>2 DEF TInv

LEMMA WalkFields ==
  ASSUME WalkSound
  PROVE  /\ walk.page \in Nat \ {0} /\ walk.pc \in {"rows", "total", "done"}
         /\ walk.got \in Seq(log) /\ walk.due \subseteq log
         /\ Limit \in Nat \ {0} /\ PagesSeen \in Nat
<1>1. walk \in [query: {walk.query}, pc: {"rows", "total", "done"}, page: Nat \ {0},
                got: Seq(log), due: SUBSET log]
  BY DEF WalkSound
<1>2. /\ walk.page \in Nat \ {0} /\ walk.pc \in {"rows", "total", "done"}
      /\ walk.got \in Seq(log) /\ walk.due \subseteq log
  BY <1>1
<1>3. PagesSeen \in Nat
  BY <1>2 DEF PagesSeen
<1>4. QED
  BY <1>2, <1>3, BoundsAssumption

LEMMA PlacesStay ==
  ASSUME log' = log, walk'.query = walk.query, NEW row
  PROVE  Place(row)' = Place(row)
<1>1. Trail!Selected(walk.query)' = Trail!Selected(walk.query)
  BY DEF Trail!Selected
<1>2. QED
  BY <1>1 DEF Place, Trail!Place, Trail!Before

LEMMA WalkStays == ASSUME WalkSound, UNCHANGED <<log, walk>> PROVE WalkSound'
<1>1. ASSUME NEW row PROVE Place(row)' = Place(row)
  BY PlacesStay
<1>2. Shown' = Shown /\ PagesSeen' = PagesSeen
  BY DEF Shown, PagesSeen
<1>3. QED
  BY <1>1, <1>2 DEF WalkSound

LEMMA TrailInvMutate == ASSUME TInv, NEW admin \in Admins, Trail!Mutate(admin) PROVE TInv'
<1>1. PICK op \in Trail!Operations :
        LET path == Trail!Filled(op.route, op.name)
            handler == Trail!Handler(op.route.method, path)
        IN /\ ~handler.public
           /\ Trail!Authorized(Granted[admin], handler)
           /\ handler.finds => op.name \in Existing
           /\ pending' = pending \cup {Trail!Row(admin, op, path)}
  BY DEF Trail!Mutate
<1> DEFINE handler == Trail!Handler(op.route.method, Trail!Filled(op.route, op.name))
           row == Trail!Row(admin, op, Trail!Filled(op.route, op.name))
           R == pending \cup log
<1>2. /\ handler.needs # {} /\ \A p \in handler.needs : Changing(p)
      /\ op.route.finds => handler.finds
  BY <1>1, Reached
<1>3. Trail!Authorized(Granted[admin], handler)
  BY <1>1
<1>4. ~(Granted[admin] \subseteq Trail!ReadPermissions)
  <2> HIDE DEF handler
  <2>1. PICK p \in handler.needs : Trail!HasPermission(Granted[admin], p)
    BY <1>2, <1>3 DEF Trail!Authorized
  <2>2. p \notin Trail!ReadPermissions /\ p # "wallet.adjust:capped"
    BY <1>2 DEF Changing
  <2>3. p \in Granted[admin]
    BY <2>1, <2>2 DEF Trail!HasPermission
  <2>4. QED
    BY <2>2, <2>3
<1>5. row.actor = admin /\ row.op = op /\ row.at = clock
  BY DEF Trail!Row
<1>6. Earned(row)
  BY <1>1, <1>2, <1>4, <1>5 DEF Earned
<1>7. Tells(row)
  BY <1>1, RowTells
<1>8. pending' = pending \cup {row} /\ log' = log /\ clock' = clock + 1 /\ walk' = walk
  BY <1>1 DEF Trail!Mutate
<1>9. /\ clock \in Nat /\ Ticked(R)
      /\ \A r \in R : Earned(r) /\ Tells(r) /\ r.at < clock
  BY DEF TInv
<1> HIDE DEF handler, row
<1>10. (pending \cup log)' = R \cup {row}
  BY <1>8
<1> HIDE DEF R
<1>11. Ticked(R \cup {row})
  <2>1. IsFiniteSet(R \cup {row})
    BY <1>9, FS_AddElement DEF Ticked
  <2>2. \A r \in R \cup {row} : r.at \in Nat
    BY <1>5, <1>9 DEF Ticked
  <2>3. \A a, b \in R \cup {row} : a.at = b.at => a = b
    BY <1>5, <1>9 DEF Ticked
  <2>4. QED
    BY <2>1, <2>2, <2>3 DEF Ticked
<1>12. \A r \in R \cup {row} : Earned(r) /\ Tells(r)
  BY <1>6, <1>7, <1>9
<1>13. \A r \in R \cup {row} : r.at < clock + 1
  BY <1>5, <1>9 DEF Ticked
<1>14. walk' # None => WalkSound'
  <2>1. walk # None => WalkSound
    BY DEF TInv
  <2>2. QED
    BY <1>8, <2>1, WalkStays
<1>15. \A r \in (pending \cup log)' : Earned(r)' /\ Tells(r)' /\ r.at < clock'
  BY <1>8, <1>10, <1>12, <1>13 DEF Earned, Tells
<1>16. clock' \in Nat /\ Ticked(pending \cup log)'
  <2>1. clock' \in Nat
    BY <1>8, <1>9
  <2>2. Ticked((pending \cup log)')
    BY <1>10, <1>11
  <2>3. QED
    BY <2>1, <2>2 DEF Ticked
<1>17. QED
  BY <1>14, <1>15, <1>16 DEF TInv

\* A part of rows with a time each.
LEMMA TickedPart == ASSUME NEW R, Ticked(R), NEW S, S \subseteq R PROVE Ticked(S)
<1>1. IsFiniteSet(S)
  BY FS_Subset DEF Ticked
<1>2. QED
  BY <1>1 DEF Ticked

LEMMA TrailInvStored ==
  ASSUME TInv, NEW row \in pending, Trail!Stored(row) \/ Trail!Lost(row) PROVE TInv'
<1>1. /\ (pending \cup log)' \subseteq pending \cup log /\ log \subseteq log'
      /\ clock' = clock /\ walk' = walk /\ (walk # None => walk.pc # "done")
  BY DEF Trail!Stored, Trail!Lost, Trail!Done
<1>2. Ticked(pending \cup log) /\ clock \in Nat
  BY DEF TInv
<1>3. Ticked(log) /\ Ticked((pending \cup log)') /\ Ticked(log')
  BY <1>1, <1>2, TickedPart
<1>4. Ticked(log)' /\ Ticked(pending \cup log)'
  BY <1>3 DEF Ticked
<1>5. ASSUME walk # None PROVE WalkSound'
  <2>1. WalkSound
    BY <1>5 DEF TInv
  <2>2. /\ walk \in [query: {walk.query}, pc: {"rows", "total", "done"}, page: Nat \ {0},
                     got: Seq(log), due: SUBSET log]
        /\ walk.page \in Nat \ {0} /\ walk.pc \in {"rows", "total", "done"}
        /\ walk.got \in Seq(log) /\ walk.due \subseteq log
        /\ \A r \in walk.due : Trail!Wanted(r.op, walk.query)
        /\ \A r \in walk.due \ Shown : Place(r) > PagesSeen * Limit
    BY <2>1 DEF WalkSound
  <2>3. walk.got \in Seq(log')
    BY <1>1, <2>2
  <2>4. walk \in [query: {walk.query}, pc: {"rows", "total", "done"}, page: Nat \ {0},
                  got: Seq(log'), due: SUBSET log']
    BY <1>1, <2>2, <2>3
  <2>5. PagesSeen' = PagesSeen /\ PagesSeen * Limit \in Nat /\ Shown' = Shown
    <3>1. PagesSeen \in Nat /\ Limit \in Nat
      BY <2>1, WalkFields
    <3>2. QED
      BY <1>1, <3>1 DEF PagesSeen, Shown
  <2>6. ASSUME NEW r \in walk.due \ Shown PROVE Place(r)' > PagesSeen * Limit
    <3>1. /\ Place(r) \in Nat /\ Trail!Place(walk.query, r)' \in Nat
          /\ Place(r) <= Trail!Place(walk.query, r)'
      BY <1>1, <1>3, <1>4, PlacesGrow DEF Place
    <3>2. Place(r)' = Trail!Place(walk.query, r)'
      BY <1>1 DEF Place
    <3>3. Place(r) > PagesSeen * Limit
      BY <2>2
    <3>4. QED
      BY <2>5, <3>1, <3>2, <3>3
  <2>7. QED
    BY <1>1, <1>5, <2>2, <2>3, <2>4, <2>5, <2>6 DEF WalkSound
<1>6. \A r \in (pending \cup log)' : Earned(r) /\ Tells(r) /\ r.at < clock
  BY <1>1 DEF TInv
<1>7. QED
  BY <1>1, <1>2, <1>4, <1>5, <1>6 DEF TInv, Earned, Tells

\* Steps of a walk leave the rows alone.
LEMMA RowsStay ==
  ASSUME TInv, UNCHANGED <<pending, log, clock>>, walk' # None => WalkSound'
  PROVE  TInv'
BY DEF TInv, Ticked, Earned, Tells

LEMMA TrailInvStart == ASSUME TInv, Trail!StartWalk PROVE TInv'
<1>1. PICK q : walk' = [query |-> q, pc |-> "rows", page |-> 1, got |-> <<>>,
                        due |-> {row \in log : Trail!Wanted(row.op, q)}]
  BY DEF Trail!StartWalk
<1>2. log' = log /\ pending' = pending /\ clock' = clock
  BY DEF Trail!StartWalk
<1>3. /\ walk'.page = 1 /\ walk'.pc = "rows" /\ walk'.got = <<>> /\ walk'.query = q
      /\ walk'.due \subseteq log /\ \A r \in walk'.due : Trail!Wanted(r.op, q)
  BY <1>1
<1>4. PagesSeen' * Limit = 0
  BY <1>3, BoundsAssumption DEF PagesSeen
<1>5. ASSUME NEW r \in walk'.due PROVE Place(r)' > 0
  <2>1. Ticked(log)
    BY TickedPart DEF TInv
  <2>2. Tells(r) /\ r \in log
    BY <1>3 DEF TInv
  <2>3. r \in Trail!Selected(q)
    BY <1>3, <2>2, WantedIsSelected
  <2>4. Trail!Place(q, r) > 0
    BY <2>1, <2>3, RowsPlaced
  <2>5. Place(r)' = Trail!Place(q, r)
    BY <1>2, <1>3 DEF Place, Trail!Place, Trail!Selected
  <2>6. QED
    BY <2>4, <2>5
<1>6. walk' \in [query: {walk'.query}, pc: {"rows", "total", "done"}, page: Nat \ {0},
                 got: Seq(log), due: SUBSET log]
  <2>1. <<>> \in Seq(log)
    OBVIOUS
  <2>2. QED
    BY <1>1, <1>3, <2>1
<1>7. WalkSound'
  BY <1>2, <1>3, <1>4, <1>5, <1>6 DEF WalkSound
<1>8. QED
  BY <1>2, <1>7, RowsStay

LEMMA TrailInvTotal == ASSUME TInv, Trail!FetchTotal PROVE TInv'
<1> DEFINE N == Cardinality(Trail!Selected(walk.query))
<1>1. /\ walk # None /\ walk.pc = "total" /\ log' = log /\ pending' = pending /\ clock' = clock
      /\ walk' = IF walk.page * Limit < N
                 THEN [walk EXCEPT !.pc = "rows", !.page = @ + 1]
                 ELSE [walk EXCEPT !.pc = "done"]
  BY TrailCardinality DEF Trail!FetchTotal
<1>2. WalkSound /\ Ticked(log)
  BY <1>1, TickedPart DEF TInv
<1>3. PagesSeen = walk.page /\ N \in Nat /\ Limit \in Nat \ {0}
  BY <1>1, <1>2, RowsPlaced, BoundsAssumption DEF PagesSeen
<1>4. walk \in [query: {walk.query}, pc: {"rows", "total", "done"}, page: Nat \ {0},
                got: Seq(log), due: SUBSET log]
  BY <1>2 DEF WalkSound
<1> HIDE DEF N
<1>5. /\ walk'.query = walk.query /\ walk'.got = walk.got /\ walk'.due = walk.due
      /\ walk' \in [query: {walk'.query}, pc: {"rows", "total", "done"}, page: Nat \ {0},
                    got: Seq(log), due: SUBSET log]
  <2>1. CASE walk.page * Limit < N
    <3>1. walk' = [walk EXCEPT !.pc = "rows", !.page = @ + 1]
      BY <1>1, <2>1
    <3>2. walk.page + 1 \in Nat \ {0}
      BY <1>2, WalkFields
    <3>3. QED
      BY <1>4, <3>1, <3>2
  <2>2. CASE ~(walk.page * Limit < N)
    <3>1. walk' = [walk EXCEPT !.pc = "done"]
      BY <1>1, <2>2
    <3>2. QED
      BY <1>4, <3>1
  <2>3. QED
    BY <2>1, <2>2
<1>6. PagesSeen' = walk.page
  <2>1. CASE walk.page * Limit < N
    <3>1. walk'.pc = "rows" /\ walk'.page = walk.page + 1
      BY <1>1, <1>4, <2>1
    <3>2. QED
      BY <1>4, <3>1 DEF PagesSeen
  <2>2. CASE ~(walk.page * Limit < N)
    BY <1>1, <1>4, <2>2 DEF PagesSeen
  <2>3. QED
    BY <2>1, <2>2
<1>7. Shown' = Shown
  BY <1>5 DEF Shown
<1>8. \A r \in walk.due : Trail!Wanted(r.op, walk.query)
  BY <1>2 DEF WalkSound
<1>9. ASSUME NEW r \in walk.due \ Shown PROVE Place(r) > walk.page * Limit
  BY <1>2, <1>3 DEF WalkSound
<1>10. ASSUME NEW r \in walk.due PROVE Place(r) \in Nat /\ Place(r) <= N
  <2>1. r \in log /\ Tells(r)
    BY <1>4 DEF TInv
  <2>2. r \in Trail!Selected(walk.query)
    BY <1>8, <2>1, WantedIsSelected
  <2>3. Trail!Place(walk.query, r) \in 1..N
    BY <1>2, <2>2, RowsPlaced DEF N
  <2>4. QED
    BY <1>3, <2>3 DEF Place
<1>11. ASSUME walk'.pc = "done" PROVE walk.due \subseteq Shown
  <2>1. ~(walk.page * Limit < N)
    BY <1>1, <1>4, <1>11
  <2>2. walk.page * Limit \in Nat
    BY <1>3, <1>4
  <2>3. ASSUME NEW r \in walk.due \ Shown PROVE FALSE
    BY <1>3, <1>9, <1>10, <2>1, <2>2
  <2>4. QED
    BY <2>3
<1>12. ASSUME NEW r PROVE Place(r)' = Place(r)
  BY <1>1, <1>5, PlacesStay
<1>13. WalkSound'
  BY <1>1, <1>5, <1>6, <1>7, <1>8, <1>9, <1>11, <1>12 DEF WalkSound
<1>14. QED
  BY <1>1, <1>13, RowsStay

LEMMA TrailInvRows == ASSUME TInv, Trail!FetchRows PROVE TInv'
<1> DEFINE K == Trail!Selected(walk.query)
           N == Cardinality(K)
           L == Trail!Sorted(walk.query)
           skip == (walk.page - 1) * Limit
           end == IF skip + Limit <= N THEN skip + Limit ELSE N
           slice == SubSeq(L, skip + 1, end)
<1>1. /\ walk # None /\ walk.pc = "rows" /\ log' = log /\ pending' = pending /\ clock' = clock
      /\ walk' = [walk EXCEPT !.pc = "total",
                    !.got = @ \o SubSeq(L, skip + 1, Trail!Min({skip + Limit, Len(L)}))]
  BY DEF Trail!FetchRows
<1>2. WalkSound /\ Ticked(log)
  BY <1>1, TickedPart DEF TInv
<1>3. walk \in [query: {walk.query}, pc: {"rows", "total", "done"}, page: Nat \ {0},
                got: Seq(log), due: SUBSET log]
  BY <1>2 DEF WalkSound
<1>4. /\ K \subseteq log /\ N \in Nat /\ L \in Seq(K) /\ Len(L) = N
      /\ \A r \in K : Trail!Place(walk.query, r) \in 1..N
      /\ \A r \in K : L[Trail!Place(walk.query, r)] = r
  BY <1>2, RowsPlaced
<1> HIDE DEF K, N, L
<1>5. /\ Limit \in Nat \ {0} /\ skip \in Nat /\ PagesSeen * Limit = skip
      /\ walk.page * Limit = skip + Limit /\ end \in Nat /\ end <= N
  <2>1. Limit \in Nat \ {0} /\ walk.page - 1 \in Nat
    BY <1>2, WalkFields
  <2>2. skip \in Nat /\ walk.page * Limit = skip + Limit
    BY <1>3, <2>1
  <2>3. PagesSeen = walk.page - 1
    BY <1>1 DEF PagesSeen
  <2> HIDE DEF skip
  <2>4. end \in Nat /\ end <= N
    BY <1>4, <2>1, <2>2
  <2>5. QED
    BY <2>1, <2>2, <2>3, <2>4 DEF skip
<1> HIDE DEF skip
<1>6. Trail!Min({skip + Limit, Len(L)}) = end
  BY <1>4, <1>5 DEF Trail!Min
<1>7. /\ slice \in Seq(K)
      /\ \A p \in 1..N : skip < p /\ p <= skip + Limit => \E i \in DOMAIN slice : slice[i] = L[p]
  <2>1. \A i \in (skip + 1)..end : L[i] \in K
    BY <1>4, <1>5
  <2> HIDE DEF slice, end
  <2>2. /\ slice \in Seq(K)
        /\ Len(slice) = IF skip + 1 <= end THEN end - (skip + 1) + 1 ELSE 0
        /\ \A i \in 1..(end - (skip + 1) + 1) : slice[i] = L[(skip + 1) + i - 1]
    <3>1. skip + 1 \in Int /\ end \in Int /\ slice = SubSeq(L, skip + 1, end)
      BY <1>5 DEF slice
    <3>2. QED
      BY <2>1, <3>1, SubSeqProperties
  <2>3. ASSUME NEW p \in 1..N, skip < p, p <= skip + Limit
        PROVE  \E i \in DOMAIN slice : slice[i] = L[p]
    <3>1. p <= end /\ p \in Nat
      BY <1>4, <1>5, <2>3 DEF end
    <3>2. /\ p - skip \in 1..(end - (skip + 1) + 1) /\ (skip + 1) + (p - skip) - 1 = p
          /\ skip + 1 <= end /\ end - (skip + 1) + 1 \in Nat
      BY <1>5, <2>3, <3>1
    <3>3. slice[p - skip] = L[p]
      BY <2>2, <3>2
    <3>4. DOMAIN slice = 1..(end - (skip + 1) + 1)
      BY <2>2, <3>2
    <3>5. QED
      BY <3>2, <3>3, <3>4
  <2>4. QED
    BY <2>2, <2>3
<1> HIDE DEF end, slice
<1>8. walk' = [walk EXCEPT !.pc = "total", !.got = @ \o slice]
  BY <1>1, <1>6 DEF slice
<1>9. slice \in Seq(log)
  BY <1>4, <1>7
<1>10. PICK both : both = walk.got \o slice
  OBVIOUS
<1>11. /\ both \in Seq(log)
       /\ \A i \in DOMAIN walk.got : \E j \in DOMAIN both : both[j] = walk.got[i]
       /\ \A i \in DOMAIN slice : \E j \in DOMAIN both : both[j] = slice[i]
  <2>1. walk.got \in Seq(log)
    BY <1>3
  <2>2. PICK g \in Seq(log) : g = walk.got
    BY <2>1
  <2>3. /\ both \in Seq(log) /\ Len(both) = Len(g) + Len(slice)
        /\ \A p \in 1..(Len(g) + Len(slice)) :
             both[p] = IF p <= Len(g) THEN g[p] ELSE slice[p - Len(g)]
    BY <1>9, <1>10, <2>2, ConcatProperties
  <2>4. /\ Len(g) \in Nat /\ Len(slice) \in Nat /\ DOMAIN g = 1..Len(g)
        /\ DOMAIN slice = 1..Len(slice) /\ DOMAIN both = 1..(Len(g) + Len(slice))
    BY <1>9, <2>3
  <2>5. ASSUME NEW i \in DOMAIN g PROVE \E j \in DOMAIN both : both[j] = g[i]
    BY <2>3, <2>4
  <2>6. ASSUME NEW i \in DOMAIN slice PROVE \E j \in DOMAIN both : both[j] = slice[i]
    <3>1. /\ Len(g) + i \in DOMAIN both /\ ~(Len(g) + i <= Len(g)) /\ (Len(g) + i) - Len(g) = i
      BY <2>4
    <3>2. QED
      BY <2>3, <2>4, <3>1
  <2>7. QED
    BY <2>2, <2>3, <2>5, <2>6
<1>12. /\ walk'.query = walk.query /\ walk'.got = both /\ walk'.due = walk.due
       /\ walk'.pc = "total" /\ walk'.page = walk.page
       /\ walk' \in [query: {walk'.query}, pc: {"rows", "total", "done"}, page: Nat \ {0},
                     got: Seq(log), due: SUBSET log]
  BY <1>3, <1>8, <1>10, <1>11
<1>13. PagesSeen' * Limit = skip + Limit
  BY <1>5, <1>12 DEF PagesSeen
<1>14. Shown \subseteq Shown' /\ \A i \in DOMAIN slice : slice[i] \in Shown'
  BY <1>11, <1>12 DEF Shown, Trail!ToSet
<1>15. \A r \in walk.due : Trail!Wanted(r.op, walk.query)
  BY <1>2 DEF WalkSound
<1>16. ASSUME NEW r \in walk.due \ Shown' PROVE Place(r) > skip + Limit
  <2>1. r \in log /\ Tells(r)
    BY <1>3 DEF TInv
  <2>2. r \in K
    BY <1>15, <2>1, WantedIsSelected DEF K
  <2>3. Place(r) \in 1..N /\ L[Place(r)] = r
    BY <1>4, <2>2 DEF Place
  <2>4. Place(r) > skip
    BY <1>2, <1>5, <1>14, <1>16 DEF WalkSound
  <2>5. ~(skip < Place(r) /\ Place(r) <= skip + Limit)
    BY <1>7, <1>14, <2>3
  <2>6. QED
    BY <1>4, <1>5, <2>3, <2>4, <2>5
<1>17. ASSUME NEW r PROVE Place(r)' = Place(r)
  BY <1>1, <1>12, PlacesStay
<1>18. WalkSound'
  BY <1>1, <1>12, <1>13, <1>15, <1>16, <1>17 DEF WalkSound
<1>19. QED
  BY <1>1, <1>18, RowsStay

LEMMA TrailInvNext == TrailInv /\ [Next]_vars => TrailInv'
<1> SUFFICES ASSUME TrailInv, [Next]_vars, part' = "trail"
             PROVE  TInv'
  BY DEF TrailInv
<1>1. part = "trail" /\ (Trail!Next \/ UNCHANGED <<pending, log, clock, walk>>)
  BY DEF Next, vars, trailVars
<1>2. TInv
  BY <1>1 DEF TrailInv
<1>3. CASE \E admin \in Admins : Trail!Mutate(admin)
  BY <1>2, <1>3, TrailInvMutate
<1>4. CASE \E row \in pending : Trail!Stored(row) \/ Trail!Lost(row)
  BY <1>2, <1>4, TrailInvStored
<1>5. CASE Trail!StartWalk
  BY <1>2, <1>5, TrailInvStart
<1>6. CASE Trail!FetchRows
  BY <1>2, <1>6, TrailInvRows
<1>7. CASE Trail!FetchTotal
  BY <1>2, <1>7, TrailInvTotal
<1>8. CASE UNCHANGED <<pending, log, clock, walk>>
  <2>1. walk # None => WalkSound
    BY <1>2 DEF TInv
  <2>2. QED
    BY <1>2, <1>8, <2>1, WalkStays, RowsStay
<1>9. QED
  BY <1>1, <1>3, <1>4, <1>5, <1>6, <1>7, <1>8 DEF Trail!Next

LEMMA TrailInvHolds == FairSpec => []TrailInv
BY TrailInvInit, TrailInvNext, PTL DEF FairSpec

\* A row of the audit log is of an admin who may change something, and of an
\* object there is where the handler looks (permissions.guard.ts:16-32).
THEOREM AuditRowsAreEarned == FairSpec => []RowsAreEarned
<1>1. TrailInv => RowsAreEarned
  BY DEF TrailInv, TInv, Earned, RowsAreEarned, Trail!RowsAreEarned
<1>2. QED
  BY <1>1, TrailInvHolds, PTL

\* A walk through the history of an object shows what was done to it, and a row
\* shown tells which operation it was (audit.interceptor.ts:50-64,
\* audit.service.ts:41-65).
THEOREM HistoriesAreTold == FairSpec => []ObjectHistoryIsTold
<1>1. ASSUME TInv, Trail!Done PROVE Trail!ObjectHistoryIsTold
  <2>1. WalkSound /\ walk.pc = "done"
    BY <1>1 DEF TInv, Trail!Done
  <2>2. walk.due \subseteq Trail!ToSet(walk.got)
    BY <2>1 DEF WalkSound, Shown
  <2>3. \A row \in Trail!ToSet(walk.got) : row \in log
    <3>1. walk.got \in Seq(log)
      BY <2>1 DEF WalkSound
    <3>2. QED
      BY <3>1 DEF Trail!ToSet
  <2>4. \A row \in Trail!ToSet(walk.got) :
          row.op.route = Told(row.action[1], row.action[2], row.targetId)
    BY <1>1, <2>3 DEF TInv, Tells
  <2>5. \A a, b \in Trail!ToSet(walk.got) :
          a.action = b.action /\ a.targetId = b.targetId => a.op.route = b.op.route
    BY <2>4
  <2>6. QED
    BY <2>2, <2>5 DEF Trail!ObjectHistoryIsTold
<1>2. TrailInv => ObjectHistoryIsTold
  BY <1>1 DEF TrailInv, ObjectHistoryIsTold, Trail!ObjectHistoryIsTold
<1>3. QED
  BY <1>2, TrailInvHolds, PTL
=============================================================================
