--------------------------- MODULE RowReadsProofs ---------------------------
(* Theorems of the read side that are about rows: hosts with their KYC     *)
(* statuses, bookings, and rows with names from another table; for every   *)
(* set of owners, bookings, users and listings.                            *)
EXTENDS MCReads, FiniteSetTheorems, SequenceTheorems, TLAPS

-----------------------------------------------------------------------------
(* HostsService.list and getOne (HostDirectory).                           *)

HostsTyped ==
  /\ kyc \in [Owners -> Hosts!Records \cup {None}]
  /\ request \in Hosts!Request
  /\ held \in [Owners -> SUBSET (Hosts!Records \cup {None})]
  /\ failed \subseteq Owners

\* The history knows the present, and the map holds what was true once.
HeldIsHistory ==
  \A o \in Owners :
    /\ kyc[o] \in held[o]
    /\ request.found[o] # None => request.found[o] \in held[o]

\* What came of the identities asked for so far.
AskedFor ==
  \A i \in 1..Len(request.ids) : i <= request.done =>
    \/ request.found[request.ids[i]] # None
    \/ None \in held[request.ids[i]]
    \/ request.ids[i] \in failed

AnswerFollows ==
  request.pc = "answered" =>
    /\ Len(request.ids) <= request.done
    /\ request.answer = Hosts!Answer(request)

Fresh ==
  request.pc = "users" =>
    request.ids = <<>> /\ request.done = 0 /\ request.answer = [o \in Owners |-> None]

\* The inductive invariant of the part.
HInv == HostsTyped /\ HeldIsHistory /\ AskedFor /\ AnswerFollows /\ Fresh
HostsInv == part = "hosts" => HInv
-----------------------------------------------------------------------------
LEMMA SmallerOfTwo ==
  ASSUME NEW a \in Int, NEW b \in Int
  PROVE  Hosts!Min({a, b}) = IF a <= b THEN a ELSE b
<1>1. PICK m \in {a, b} : \A y \in {a, b} : m <= y
  OBVIOUS
<1>2. QED
  BY <1>1 DEF Hosts!Min

LEMMA HostsCardinality == \A S : Hosts!Cardinality(S) = Cardinality(S)
BY DEF Hosts!Cardinality, Cardinality

\* SetToSeq lists a finite set.
LEMMA OwnersListed ==
  /\ Cardinality(Owners) \in Nat
  /\ Hosts!SetToSeq(Owners) \in [1..Cardinality(Owners) -> Owners]
<1>1. Cardinality(Owners) \in Nat /\ ExistsBijection(1..Cardinality(Owners), Owners)
  BY BoundsAssumption, FS_CardinalityType
<1>2. \E f \in [1..Cardinality(Owners) -> Owners] : Hosts!IsInjective(f)
  BY <1>1 DEF ExistsBijection, Bijection, Injection, IsInjective, Hosts!IsInjective
<1>3. Hosts!SetToSeq(Owners) \in [1..Cardinality(Owners) -> Owners]
  BY <1>2, HostsCardinality DEF Hosts!SetToSeq
<1>4. QED
  BY <1>1, <1>3

\* What users.find may bring.
LEMMA OwnersRead ==
  ASSUME NEW n \in Nat, n <= Cardinality(Owners)
  PROVE  /\ SubSeq(Hosts!SetToSeq(Owners), 1, n) \in Seq(Owners)
         /\ Len(SubSeq(Hosts!SetToSeq(Owners), 1, n)) = n
<1>1. \A i \in 1..n : Hosts!SetToSeq(Owners)[i] \in Owners
  BY OwnersListed
<1>2. QED
  BY <1>1, SubSeqProperties

\* A slice of a sequence.
LEMMA SliceIs ==
  ASSUME NEW s \in Seq(Owners), NEW a \in Nat, NEW b \in Nat, b <= Len(s)
  PROVE  /\ Hosts!Identities(SubSeq(s, a + 1, b)) \subseteq Owners
         /\ \A i \in 1..Len(s) :
              a < i /\ i <= b => s[i] \in Hosts!Identities(SubSeq(s, a + 1, b))
<1> DEFINE t == SubSeq(s, a + 1, b)
<1>1. \A i \in (a + 1)..b : s[i] \in Owners
  OBVIOUS
<1>2. /\ t \in Seq(Owners)
      /\ Len(t) = IF a + 1 <= b THEN b - (a + 1) + 1 ELSE 0
      /\ \A i \in 1..(b - (a + 1) + 1) : t[i] = s[(a + 1) + i - 1]
  BY <1>1, SubSeqProperties
<1> HIDE DEF t
<1>3. ASSUME NEW i \in 1..Len(s), a < i, i <= b
      PROVE  i - a \in 1..Len(t) /\ t[i - a] = s[i]
  <2> DEFINE j == i - a
  <2>1. /\ j \in 1..(b - (a + 1) + 1) /\ (a + 1) + j - 1 = i
        /\ a + 1 <= b
    BY <1>3
  <2> HIDE DEF j
  <2>2. j \in 1..Len(t)
    BY <2>1, <1>2
  <2>3. t[j] = s[i]
    BY <2>1, <1>2
  <2>4. QED
    BY <2>2, <2>3 DEF j
<1>4. DOMAIN t = 1..Len(t)
  BY <1>2
<1>5. Hosts!Identities(t) \subseteq Owners
  BY <1>2 DEF Hosts!Identities
<1>6. \A i \in 1..Len(s) : a < i /\ i <= b => s[i] \in Hosts!Identities(t)
  BY <1>3, <1>4 DEF Hosts!Identities
<1>7. QED
  BY <1>5, <1>6 DEF t

\* A chunk is the identities from `done` on, ChunkSize of them or fewer.
LEMMA ChunkIs ==
  ASSUME NEW r \in Hosts!Request
  PROVE  /\ Hosts!Chunk(r) \subseteq Owners
         /\ \A i \in 1..Len(r.ids) :
              r.done < i /\ i <= r.done + ChunkSize => r.ids[i] \in Hosts!Chunk(r)
<1> DEFINE last == Hosts!Min({r.done + ChunkSize, Len(r.ids)})
<1>1. r.ids \in Seq(Owners) /\ r.done \in Nat /\ ChunkSize \in Nat /\ Len(r.ids) \in Nat
  BY BoundsAssumption DEF Hosts!Request
<1>2. last = IF r.done + ChunkSize <= Len(r.ids) THEN r.done + ChunkSize ELSE Len(r.ids)
  BY <1>1, SmallerOfTwo
<1>3. Hosts!Chunk(r) = Hosts!Identities(SubSeq(r.ids, r.done + 1, last))
  BY DEF Hosts!Chunk
<1> HIDE DEF last
<1>4. last \in Nat /\ last <= Len(r.ids)
  BY <1>1, <1>2
<1>5. QED
  BY <1>1, <1>2, <1>3, <1>4, SliceIs

\* Merging a reply into the map, and asking for the next chunk.
LEMMA AdvanceIs ==
  ASSUME NEW r \in Hosts!Request, r.pc = "kyc"
  PROVE  /\ Hosts!Advance(r) \in Hosts!Request
         /\ Hosts!Advance(r).ids = r.ids /\ Hosts!Advance(r).found = r.found
         /\ Hosts!Advance(r).done = r.done + ChunkSize
         /\ Hosts!Advance(r).pc = "answered" =>
              /\ Len(r.ids) <= r.done + ChunkSize
              /\ Hosts!Advance(r).answer = Hosts!Answer(Hosts!Advance(r))
<1> DEFINE next == [r EXCEPT !.done = @ + ChunkSize]
           end == [next EXCEPT !.pc = "answered", !.answer = Hosts!Answer(r)]
<1>1. Hosts!Advance(r) = IF next.done < Len(r.ids) THEN next ELSE end
  BY DEF Hosts!Advance
<1>2. r.done \in Nat /\ r.done + ChunkSize \in Nat /\ Len(r.ids) \in Nat
  <2>1. r.done \in Nat /\ r.ids \in Seq(Owners)
    BY DEF Hosts!Request
  <2>2. ChunkSize \in Nat
    BY BoundsAssumption
  <2> HIDE DEF next, end
  <2>3. QED
    BY <2>1, <2>2
<1>3. /\ next \in Hosts!Request /\ next.ids = r.ids /\ next.found = r.found
      /\ next.done = r.done + ChunkSize /\ next.pc = "kyc"
  BY <1>2 DEF Hosts!Request
<1>4. Hosts!Answer(r) \in [Owners -> Hosts!Shown \cup {None}]
  BY DEF Hosts!Answer, Hosts!MapKycStatus, Hosts!Shown
<1>5. /\ end \in Hosts!Request /\ end.ids = r.ids /\ end.found = r.found
      /\ end.done = r.done + ChunkSize /\ end.answer = Hosts!Answer(r)
      /\ end.wanted = r.wanted
  <2> DEFINE answer == Hosts!Answer(r)
  <2>1. answer \in [Owners -> Hosts!Shown \cup {None}] /\ "answered" \in Hosts!Ended
    BY <1>4 DEF Hosts!Ended
  <2> HIDE DEF answer
  <2>2. /\ [next EXCEPT !.pc = "answered", !.answer = answer] \in Hosts!Request
        /\ [next EXCEPT !.pc = "answered", !.answer = answer].answer = answer
    BY <1>3, <2>1 DEF Hosts!Request
  <2>3. /\ end.ids = next.ids /\ end.found = next.found /\ end.done = next.done
        /\ end.wanted = next.wanted /\ next.wanted = r.wanted
    BY DEF Hosts!Request
  <2>4. QED
    BY <1>3, <2>2, <2>3 DEF answer
<1>6. Hosts!Answer(end) = Hosts!Answer(r)
  BY <1>5 DEF Hosts!Answer
<1> HIDE DEF next, end
<1>7. QED
  BY <1>1, <1>2, <1>3, <1>5, <1>6

LEMMA HostsInvInit == Init => HostsInv
<1> SUFFICES ASSUME Init, part = "hosts"
             PROVE  HInv
  BY DEF HostsInv
<1>1. Hosts!Init
  BY DEF Init
<1>2. PICK one \in BOOLEAN, wanted \in {None, "verified", "unverified"} :
        request = [pc |-> "users", one |-> one, wanted |-> wanted, ids |-> <<>>, done |-> 0,
                   found |-> [o \in Owners |-> None], answer |-> [o \in Owners |-> None]]
  BY <1>1 DEF Hosts!Init
<1>3. request \in Hosts!Request
  BY <1>2 DEF Hosts!Request, Hosts!Shown
<1>4. HostsTyped /\ HeldIsHistory
  BY <1>1, <1>2, <1>3 DEF Hosts!Init, HostsTyped, HeldIsHistory
<1>5. AskedFor /\ AnswerFollows /\ Fresh
  BY <1>2 DEF AskedFor, AnswerFollows, Fresh
<1>6. QED
  BY <1>4, <1>5 DEF HInv

\* A KYC decision: the history grows with it.
LEMMA HostsInvKycMoves ==
  ASSUME HInv, NEW o \in Owners, Hosts!KycMoves(o) PROVE HInv'
<1> USE DEF HInv
<1>1. PICK status \in Hosts!Moves(kyc[o]) :
        /\ kyc' = [kyc EXCEPT ![o] = status]
        /\ held' = [held EXCEPT ![o] = @ \cup {status}]
        /\ UNCHANGED <<request, failed>>
  BY DEF Hosts!KycMoves
<1>2. status \in Hosts!Records
  BY DEF Hosts!Moves, Hosts!Records
<1>3. \A p \in Owners : held[p] \subseteq held'[p]
  BY <1>1 DEF HostsTyped
<1>4. HostsTyped'
  BY <1>1, <1>2 DEF HostsTyped
<1>5. HeldIsHistory'
  BY <1>1, <1>3 DEF HostsTyped, HeldIsHistory
<1>6. AskedFor'
  <2>1. request \in Hosts!Request /\ \A i \in 1..Len(request.ids) : request.ids[i] \in Owners
    BY DEF HostsTyped, Hosts!Request
  <2>2. QED
    BY <1>1, <1>3, <2>1 DEF AskedFor
<1>7. AnswerFollows' /\ Fresh'
  BY <1>1 DEF AnswerFollows, Hosts!Answer, Fresh
<1>8. QED
  BY <1>4, <1>5, <1>6, <1>7

\* The user table answers.
LEMMA HostsInvUsersRead ==
  ASSUME HInv, Hosts!UsersRead PROVE HInv'
<1> USE DEF HInv
<1>1. PICK n \in 0..(IF request.one THEN 1 ELSE Hosts!Cardinality(Owners)) :
        request' = IF n = 0
                   THEN [request EXCEPT !.pc = IF request.one THEN "notFound" ELSE "answered"]
                   ELSE [request EXCEPT !.ids = SubSeq(Hosts!SetToSeq(Owners), 1, n),
                                        !.pc = "earnings"]
  BY DEF Hosts!UsersRead
<1>2. request.pc = "users" /\ UNCHANGED <<kyc, held, failed>>
  BY DEF Hosts!UsersRead
<1>3. n \in Nat /\ n <= Cardinality(Owners)
  <2>1. Cardinality(Owners) \in Nat /\ Cardinality(Owners) # 0
    BY BoundsAssumption, OwnersListed, FS_EmptySet
  <2>2. QED
    BY <2>1, HostsCardinality
<1>4. CASE n = 0
  <2>1. request' \in Hosts!Request
    BY <1>1, <1>4 DEF HostsTyped, Hosts!Request, Hosts!Ended
  <2>2. /\ request'.ids = <<>> /\ request'.done = 0 /\ request'.pc # "users"
        /\ request'.found = request.found /\ request'.answer = [o \in Owners |-> None]
    BY <1>1, <1>2, <1>4 DEF HostsTyped, Hosts!Request, Fresh
  <2>3. Hosts!Answer(request') = [o \in Owners |-> None]
    BY <2>2 DEF Hosts!Answer, Hosts!Identities
  <2>4. QED
    BY <1>2, <2>1, <2>2, <2>3
    DEF HostsTyped, HeldIsHistory, AskedFor, AnswerFollows, Fresh
<1>5. CASE n # 0
  <2> DEFINE ids == SubSeq(Hosts!SetToSeq(Owners), 1, n)
  <2>1. ids \in Seq(Owners)
    BY <1>3, OwnersRead
  <2> HIDE DEF ids
  <2>2. request' = [request EXCEPT !.ids = ids, !.pc = "earnings"]
    BY <1>1, <1>5 DEF ids
  <2>3. request' \in Hosts!Request
    BY <2>1, <2>2 DEF HostsTyped, Hosts!Request
  <2>4. /\ request'.done = 0 /\ request'.pc = "earnings" /\ request'.found = request.found
        /\ request'.ids = ids
    BY <1>2, <2>2 DEF HostsTyped, Hosts!Request, Fresh
  <2>5. AskedFor'
    BY <2>1, <2>4 DEF AskedFor
  <2>6. QED
    BY <1>2, <2>3, <2>4, <2>5 DEF HostsTyped, HeldIsHistory, AnswerFollows, Fresh
<1>6. QED
  BY <1>4, <1>5

\* The payouts are there, or a query failed.
LEMMA HostsInvQueries ==
  ASSUME HInv, Hosts!EarningsRead \/ Hosts!QueryFails PROVE HInv'
<1> USE DEF HInv
<1>1. PICK pc \in {"kyc", "error"} :
        request' = [request EXCEPT !.pc = pc] /\ UNCHANGED <<kyc, held, failed>>
  BY DEF Hosts!EarningsRead, Hosts!QueryFails
<1>2. request' \in Hosts!Request
  BY <1>1 DEF HostsTyped, Hosts!Request, Hosts!Ended
<1>3. /\ request'.ids = request.ids /\ request'.done = request.done
      /\ request'.found = request.found /\ request'.pc = pc
  BY <1>1 DEF HostsTyped, Hosts!Request
<1>4. QED
  BY <1>1, <1>2, <1>3
  DEF HostsTyped, HeldIsHistory, AskedFor, AnswerFollows, Fresh

\* A chunk has been asked for: the map has what kyc-service said, if it said
\* anything, and who is left without is without a record or failed.
LEMMA HostsInvChunk ==
  ASSUME HInv, request.pc = "kyc", UNCHANGED <<kyc, held>>,
         NEW found \in [Owners -> Hosts!Records \cup {None}],
         request' = Hosts!Advance([request EXCEPT !.found = found]),
         \A o \in Owners : found[o] # None => found[o] \in held[o],
         \A o \in Owners : request.found[o] # None => found[o] # None,
         failed \subseteq failed', failed' \subseteq Owners,
         \A o \in Hosts!Chunk(request) :
           found[o] # None \/ None \in held[o] \/ o \in failed'
  PROVE  HInv'
<1> USE DEF HInv
<1> DEFINE r == [request EXCEPT !.found = found]
<1>1. r \in Hosts!Request /\ r.pc = "kyc"
  BY DEF HostsTyped, Hosts!Request
<1>2. r.ids = request.ids /\ r.found = found /\ r.done = request.done
  BY DEF HostsTyped, Hosts!Request
<1>3. request \in Hosts!Request /\ request.ids \in Seq(Owners) /\ request.done \in Nat
  BY DEF HostsTyped, Hosts!Request
<1> HIDE DEF r
<1>4. request' = Hosts!Advance(r)
  BY DEF r
<1>5. /\ request' \in Hosts!Request /\ request'.ids = request.ids /\ request'.found = found
      /\ request'.done = request.done + ChunkSize
      /\ request'.pc = "answered" =>
           /\ Len(request.ids) <= request.done + ChunkSize
           /\ request'.answer = Hosts!Answer(request')
  BY <1>1, <1>2, <1>4, AdvanceIs
<1>6. request'.pc # "users"
  BY <1>1, <1>4 DEF Hosts!Advance, Hosts!Request
<1>7. AskedFor'
  <2>1. SUFFICES ASSUME NEW i \in 1..Len(request.ids), i <= request.done + ChunkSize
                 PROVE  \/ found[request.ids[i]] # None
                        \/ None \in held[request.ids[i]]
                        \/ request.ids[i] \in failed'
    BY <1>5 DEF AskedFor
  <2>2. request.ids[i] \in Owners
    BY <1>3
  <2>3. CASE i <= request.done
    BY <2>2, <2>3 DEF AskedFor
  <2>4. CASE ~(i <= request.done)
    <3>1. request.ids[i] \in Hosts!Chunk(request)
      BY <1>3, <2>1, <2>4, ChunkIs
    <3>2. QED
      BY <3>1
  <2>5. QED
    BY <2>3, <2>4
<1>8. HostsTyped' /\ HeldIsHistory' /\ AnswerFollows' /\ Fresh'
  BY <1>5, <1>6 DEF HostsTyped, HeldIsHistory, AnswerFollows, Fresh
<1>9. QED
  BY <1>7, <1>8

LEMMA HostsInvKyc ==
  ASSUME HInv, Hosts!KycAnswers \/ Hosts!KycFails PROVE HInv'
<1> USE DEF HInv
<1> DEFINE known == {o \in Hosts!Chunk(request) : kyc[o] # None}
           reply == [o \in known |-> kyc[o]]
           merged == Hosts!Merged(request.found, reply)
<1>1. request \in Hosts!Request /\ request.found \in [Owners -> Hosts!Records \cup {None}]
  BY DEF HostsTyped, Hosts!Request
<1>2. request.pc = "kyc" /\ UNCHANGED <<kyc, held>>
  BY DEF Hosts!KycAnswers, Hosts!KycFails
<1>3. Hosts!Chunk(request) \subseteq Owners
  BY <1>1, ChunkIs
<1>4. CASE /\ request' = Hosts!Advance([request EXCEPT !.found = Hosts!Merged(@, reply)])
           /\ UNCHANGED failed
  <2>1. /\ merged \in [Owners -> Hosts!Records \cup {None}]
        /\ \A o \in Owners : merged[o] = IF o \in known THEN kyc[o] ELSE request.found[o]
    BY <1>1 DEF Hosts!Merged, HostsTyped
  <2>2. request' = Hosts!Advance([request EXCEPT !.found = merged])
    BY <1>4
  <2> HIDE DEF merged
  <2>3. \A o \in Owners : /\ merged[o] # None => merged[o] \in held[o]
                          /\ request.found[o] # None => merged[o] # None
    BY <2>1 DEF HeldIsHistory
  <2>4. \A o \in Hosts!Chunk(request) : merged[o] # None \/ None \in held[o]
    BY <1>3, <2>1 DEF HeldIsHistory
  <2>5. failed \subseteq failed' /\ failed' \subseteq Owners
    BY <1>4 DEF HostsTyped
  <2>6. QED
    BY <1>2, <2>1, <2>2, <2>3, <2>4, <2>5, HostsInvChunk
<1>5. CASE request' = Hosts!Advance(request) /\ failed' = failed \cup Hosts!Chunk(request)
  <2>1. request = [request EXCEPT !.found = request.found]
    BY <1>1 DEF Hosts!Request
  <2>2. request' = Hosts!Advance([request EXCEPT !.found = request.found])
    BY <1>5, <2>1
  <2>3. failed \subseteq failed' /\ failed' \subseteq Owners /\ Hosts!Chunk(request) \subseteq failed'
    BY <1>3, <1>5 DEF HostsTyped
  <2>4. \A o \in Owners : request.found[o] # None => request.found[o] \in held[o]
    BY DEF HeldIsHistory
  <2>5. QED
    BY <1>1, <1>2, <2>2, <2>3, <2>4, HostsInvChunk
<1>6. QED
  BY <1>4, <1>5 DEF Hosts!KycAnswers, Hosts!KycFails

LEMMA HostsInvNext == HostsInv /\ [Next]_vars => HostsInv'
<1> SUFFICES ASSUME HostsInv, [Next]_vars, part' = "hosts"
             PROVE  HInv'
  BY DEF HostsInv
<1>1. part = "hosts" /\ (Hosts!Next \/ UNCHANGED Hosts!vars)
  BY DEF Next, vars, hostsVars, Hosts!vars
<1>2. HInv
  BY <1>1 DEF HostsInv
<1>3. CASE UNCHANGED Hosts!vars
  BY <1>2, <1>3
  DEF Hosts!vars, HInv, HostsTyped, HeldIsHistory, AskedFor, AnswerFollows, Fresh, Hosts!Answer
<1>4. CASE Hosts!Next
  BY <1>2, <1>4, HostsInvKycMoves, HostsInvUsersRead, HostsInvQueries, HostsInvKyc
  DEF Hosts!Next, Hosts!Handler
<1>5. QED
  BY <1>1, <1>3, <1>4

LEMMA HostsInvHolds == FairSpec => []HostsInv
BY HostsInvInit, HostsInvNext, PTL DEF FairSpec

\* Nobody is shown with a KYC status it did not have while the answer was
\* being made, except as unverified (hosts.service.ts:57-63).
THEOREM HostsAreShownTruly == FairSpec => []NeverFalselyVerified
<1>1. HostsInv => NeverFalselyVerified
  <2> SUFFICES ASSUME HInv, request.pc = "answered", NEW o \in Owners,
                      request.answer[o] \notin {None, "unverified"}
               PROVE  \E status \in held[o] : Hosts!MapKycStatus(status) = request.answer[o]
    BY DEF HostsInv, NeverFalselyVerified, Hosts!NeverFalselyVerified
  <2>1. request.answer[o] = Hosts!MapKycStatus(request.found[o])
    BY DEF HInv, AnswerFollows, Hosts!Answer
  <2>2. request.found[o] # None
    BY <2>1, NoneAssumption DEF Hosts!MapKycStatus, Hosts!Records
  <2>3. QED
    BY <2>1, <2>2 DEF HInv, HeldIsHistory
<1>2. QED
  BY <1>1, HostsInvHolds, PTL

\* A failed lookup costs the owners of its own chunk only
\* (hosts.service.ts:134-154).
THEOREM FailuresAreContained == FairSpec => []FailuresStayInTheirChunk
<1>1. HostsInv => FailuresStayInTheirChunk
  <2> SUFFICES ASSUME HInv, request.pc = "answered", NEW o \in Owners,
                      request.answer[o] = "unverified", None \notin held[o]
               PROVE  o \in failed
    BY DEF HostsInv, FailuresStayInTheirChunk, Hosts!FailuresStayInTheirChunk
  <2>1. /\ o \in Hosts!Identities(request.ids)
        /\ Hosts!MapKycStatus(request.found[o]) = "unverified"
    BY NoneAssumption DEF HInv, AnswerFollows, Hosts!Answer, Hosts!Shown
  <2>2. request.ids \in Seq(Owners) /\ request.done \in Nat /\ Len(request.ids) <= request.done
    BY DEF HInv, HostsTyped, Hosts!Request, AnswerFollows
  <2>3. PICK i \in 1..Len(request.ids) : request.ids[i] = o
    BY <2>1, <2>2 DEF Hosts!Identities
  <2>4. request.found[o] \in Hosts!Records \cup {None}
    BY DEF HInv, HostsTyped, Hosts!Request
  <2>5. request.found[o] = None
    BY <2>1, <2>4 DEF Hosts!MapKycStatus, Hosts!Records
  <2>6. QED
    BY <2>2, <2>3, <2>5 DEF HInv, AskedFor
<1>2. QED
  BY <1>1, HostsInvHolds, PTL
-----------------------------------------------------------------------------
(* What is shown of bookings (BookingProjection).                          *)

BookingRows ==
  [status: Projection!Statuses, instant: BOOLEAN, deadline: BOOLEAN,
   timeline: Seq(Projection!Statuses), touched: BOOLEAN,
   cause: {None, "owner", "payment"}, full: BOOLEAN]

\* A log ends with the status, and nothing follows a terminal one.
LogIsInOrder(r) ==
  /\ Len(r.timeline) > 0 => r.timeline[Len(r.timeline)] = r.status
  /\ \A i \in 1..Len(r.timeline) :
       i < Len(r.timeline) => r.timeline[i] \notin Projection!Terminal

\* A full log lacks nothing but the first status.
FullLogs(r) ==
  r.full /\ Len(r.timeline) = 0 =>
    r.status = IF r.instant THEN "pending_payment" ELSE "pending"

\* Why a booking expired, and what its log has to say about it.
CausesAreTold(r) ==
  /\ r.status = "expired" <=> r.cause # None
  /\ r.status = "pending" \/ r.cause = "owner" => ~r.instant
  /\ r.status = "expired" /\ Len(r.timeline) > 1 =>
       (r.cause = "owner" <=> r.timeline[Len(r.timeline) - 1] = "pending")

BInv ==
  /\ bookings \in [Bookings -> BookingRows]
  /\ \A b \in Bookings :
       LogIsInOrder(bookings[b]) /\ FullLogs(bookings[b]) /\ CausesAreTold(bookings[b])

\* The inductive invariant of the part.
BookingsInv == part = "bookings" => BInv
-----------------------------------------------------------------------------
LEMMA BookingsInvInit == Init => BookingsInv
<1> SUFFICES ASSUME Projection!Init PROVE BInv
  BY DEF Init, BookingsInv
<1>1. PICK instant \in [Bookings -> BOOLEAN], deadline \in [Bookings -> BOOLEAN],
           logged \in [Bookings -> BOOLEAN] :
        bookings = [b \in Bookings |-> Projection!Row(instant[b], deadline[b], logged[b])]
  BY DEF Projection!Init
<1>2. ASSUME NEW b \in Bookings
      PROVE  /\ bookings[b] \in BookingRows
             /\ LogIsInOrder(bookings[b]) /\ FullLogs(bookings[b]) /\ CausesAreTold(bookings[b])
  <2> DEFINE status == IF instant[b] THEN "pending_payment" ELSE "pending"
             told == IF logged[b] THEN <<status>> ELSE <<>>
  <2>1. bookings[b] = [status |-> status, instant |-> instant[b], deadline |-> deadline[b],
                       timeline |-> told, touched |-> FALSE, cause |-> None, full |-> TRUE]
    BY <1>1 DEF Projection!Row
  <2>2. /\ status \in Projection!Statuses /\ instant[b] \in BOOLEAN
        /\ deadline[b] \in BOOLEAN
        /\ status # "expired" /\ (status = "pending" => ~instant[b])
    BY DEF Projection!Statuses
  <2>3. /\ told \in Seq(Projection!Statuses) /\ Len(told) \in {0, 1}
        /\ Len(told) > 0 => told[Len(told)] = status
        /\ \A i \in 1..Len(told) : ~(i < Len(told))
    BY <2>2
  <2> HIDE DEF status, told
  <2>4. bookings[b] \in BookingRows
    BY <2>1, <2>2, <2>3 DEF BookingRows
  <2>5. QED
    BY <2>1, <2>2, <2>3, <2>4, NoneAssumption DEF LogIsInOrder, FullLogs, CausesAreTold, status
<1>3. QED
  BY <1>1, <1>2 DEF BInv

\* A transition.
LEMMA BookingsInvMove ==
  ASSUME BInv, NEW b \in Bookings, NEW status \in Projection!Statuses, NEW logged \in BOOLEAN,
         Projection!Move(b, status, logged)
  PROVE  BInv'
<1> DEFINE r == bookings[b]
           told == IF logged THEN Append(r.timeline, status) ELSE r.timeline
           cause == IF status = "expired"
                    THEN IF r.status = "pending" THEN "owner" ELSE "payment"
                    ELSE r.cause
           new == [r EXCEPT !.status = status, !.timeline = told, !.full = @ /\ logged,
                            !.touched = FALSE, !.cause = cause]
<1>1. /\ r \in BookingRows /\ LogIsInOrder(r) /\ FullLogs(r) /\ CausesAreTold(r)
      /\ status \in Projection!Moves(r.status) /\ (r.timeline # <<>> => logged)
  BY DEF BInv, Projection!Move
<1>2. bookings' = [bookings EXCEPT ![b] = new]
  BY DEF BInv, BookingRows, Projection!Move
<1> HIDE DEF r
<1>3. r.status \notin Projection!Terminal
  BY <1>1 DEF Projection!Moves, Projection!Terminal, BookingRows
<1>4. /\ told \in Seq(Projection!Statuses)
      /\ logged => /\ Len(told) = Len(r.timeline) + 1 /\ told[Len(told)] = status
                   /\ \A i \in 1..Len(r.timeline) : told[i] = r.timeline[i]
      /\ ~logged => Len(told) = 0 /\ Len(r.timeline) = 0
  BY <1>1 DEF BookingRows
<1>5. cause \in {None, "owner", "payment"} /\ (cause # None <=> status = "expired")
  BY <1>1, <1>3, NoneAssumption DEF CausesAreTold, BookingRows, Projection!Terminal
<1>6. /\ status # "pending"
      /\ status = "expired" => r.status \in {"pending", "pending_payment"}
  BY <1>1 DEF Projection!Moves, BookingRows, Projection!Statuses
<1> HIDE DEF told, cause
<1>7. /\ new \in BookingRows /\ new.status = status /\ new.timeline = told /\ new.cause = cause
      /\ new.instant = r.instant /\ new.full = (r.full /\ logged)
  BY <1>1, <1>4, <1>5 DEF BookingRows
<1> HIDE DEF new
<1>8. LogIsInOrder(new)
  <2>1. \A i \in 1..Len(r.timeline) : r.timeline[i] \notin Projection!Terminal
    BY <1>1, <1>3 DEF LogIsInOrder, BookingRows
  <2>2. QED
    BY <1>1, <1>4, <1>7, <2>1 DEF LogIsInOrder, BookingRows
<1>9. FullLogs(new)
  <2>1. new.full => Len(told) > 0
    BY <1>1, <1>4, <1>7 DEF BookingRows
  <2>2. QED
    BY <1>4, <1>7, <2>1 DEF FullLogs
<1>10. CausesAreTold(new)
  <2>1. new.cause = "owner" => ~r.instant
    BY <1>1, <1>7 DEF CausesAreTold, cause
  <2>2. ASSUME status = "expired", Len(told) > 1
        PROVE  cause = "owner" <=> told[Len(told) - 1] = "pending"
    <3>1. told[Len(told) - 1] = r.status
      BY <1>1, <1>4, <2>2 DEF LogIsInOrder, BookingRows
    <3>2. QED
      BY <2>2, <3>1 DEF cause
  <2>3. QED
    BY <1>5, <1>6, <1>7, <2>1, <2>2 DEF CausesAreTold
<1>11. QED
  BY <1>2, <1>7, <1>8, <1>9, <1>10 DEF BInv

LEMMA BookingsInvTouch ==
  ASSUME BInv, NEW b \in Bookings, NEW deadline \in BOOLEAN, Projection!Touch(b, deadline)
  PROVE  BInv'
<1>1. bookings' = [bookings EXCEPT ![b].touched = TRUE, ![b].deadline = deadline]
  BY DEF Projection!Touch
<1>2. \A c \in Bookings :
        /\ bookings'[c] \in BookingRows
        /\ bookings'[c].status = bookings[c].status /\ bookings'[c].cause = bookings[c].cause
        /\ bookings'[c].timeline = bookings[c].timeline /\ bookings'[c].full = bookings[c].full
        /\ bookings'[c].instant = bookings[c].instant
  BY <1>1 DEF BInv, BookingRows
<1>3. \A c \in Bookings : LogIsInOrder(bookings[c])'
  BY <1>2 DEF BInv, LogIsInOrder
<1>4. \A c \in Bookings : FullLogs(bookings[c])'
  BY <1>2 DEF BInv, FullLogs
<1>5. \A c \in Bookings : CausesAreTold(bookings[c])'
  BY <1>2 DEF BInv, CausesAreTold
<1>6. bookings' \in [Bookings -> BookingRows]
  BY <1>1, <1>2 DEF BInv
<1>7. QED
  BY <1>3, <1>4, <1>5, <1>6 DEF BInv

LEMMA BookingsInvNext == BookingsInv /\ [Next]_vars => BookingsInv'
<1> SUFFICES ASSUME BookingsInv, [Next]_vars, part' = "bookings"
             PROVE  BInv'
  BY DEF BookingsInv
<1>1. part = "bookings" /\ (Projection!Next \/ UNCHANGED bookings)
  BY DEF Next, vars
<1>2. BInv
  BY <1>1 DEF BookingsInv
<1>3. CASE UNCHANGED bookings
  BY <1>2, <1>3 DEF BInv
<1>4. CASE Projection!Next
  BY <1>2, <1>4, BookingsInvMove, BookingsInvTouch DEF Projection!Next
<1>5. QED
  BY <1>1, <1>3, <1>4

LEMMA BookingsInvHolds == FairSpec => []BookingsInv
BY BookingsInvInit, BookingsInvNext, PTL DEF FairSpec

\* What the log of an expired booking says: its last entry but one, if it has
\* two.
LEMMA NonResponseIs ==
  ASSUME BInv, NEW b \in Bookings, bookings[b].status = "expired"
  PROVE  Projection!IsOwnerNonResponse(b) <=>
           IF Len(bookings[b].timeline) > 1
           THEN bookings[b].timeline[Len(bookings[b].timeline) - 1] = "pending"
           ELSE ~bookings[b].instant /\ bookings[b].deadline
<1> DEFINE told == bookings[b].timeline
           expiries == {i \in DOMAIN told : told[i] = "expired"}
           first == CHOOSE i \in expiries : \A j \in expiries : i <= j
<1>1. told \in Seq(Projection!Statuses) /\ LogIsInOrder(bookings[b])
  BY DEF BInv, BookingRows
<1>2. Projection!IsOwnerNonResponse(b) <=>
        IF expiries # {} /\ first > 1 THEN told[first - 1] = "pending"
        ELSE ~bookings[b].instant /\ bookings[b].deadline
  BY DEF Projection!IsOwnerNonResponse, Projection!HasDeadline
<1>3. expiries = IF Len(told) > 0 THEN {Len(told)} ELSE {}
  BY <1>1 DEF LogIsInOrder, Projection!Terminal
<1>4. Len(told) > 0 => first = Len(told)
  <2> HIDE DEF told
  <2>1. Len(told) \in Nat
    BY <1>1
  <2>2. QED
    BY <1>3, <2>1
<1>5. Len(told) \in Nat
  BY <1>1
<1> HIDE DEF told, expiries, first
<1>6. QED
  BY <1>2, <1>3, <1>4, <1>5 DEF told

LEMMA NonResponseIsKnown ==
  ASSUME BInv, NEW b \in Bookings,
         ~(Projection!IsOwnerNonResponse(b) <=> bookings[b].cause = "owner")
  PROVE  /\ ~bookings[b].instant /\ Len(bookings[b].timeline) < 2
         /\ bookings[b].cause = IF bookings[b].deadline THEN "payment" ELSE "owner"
<1>1. bookings[b] \in BookingRows /\ CausesAreTold(bookings[b])
  BY DEF BInv
<1>2. bookings[b].status = "expired"
  BY <1>1, NoneAssumption DEF CausesAreTold, Projection!IsOwnerNonResponse
<1>3. Len(bookings[b].timeline) < 2
  BY <1>1, <1>2, NonResponseIs DEF CausesAreTold, BookingRows
<1>4. Projection!IsOwnerNonResponse(b) <=> ~bookings[b].instant /\ bookings[b].deadline
  BY <1>1, <1>2, <1>3, NonResponseIs DEF BookingRows
<1>5. /\ ~bookings[b].instant
      /\ bookings[b].cause = IF bookings[b].deadline THEN "payment" ELSE "owner"
  BY <1>1, <1>2, <1>4 DEF CausesAreTold, BookingRows
<1>6. QED
  BY <1>3, <1>5

\* A booking is shown as auto-rejected when, and only when, its owner never
\* answered, but for two kinds of request whose log began too late: one with a
\* deadline whose payment lapsed and one without that got no answer
\* (bookings.service.ts:64-83).
THEOREM AutoRejectionsAreTrue == FairSpec => []AutoRejectedMeansNoAnswer
<1>1. BookingsInv => AutoRejectedMeansNoAnswer
  <2> SUFFICES ASSUME BInv, NEW b \in Bookings,
                      (Projection!AdminStatus(b) = "auto_rejected") # (bookings[b].cause = "owner")
               PROVE  /\ ~bookings[b].instant /\ Len(bookings[b].timeline) < 2
                      /\ bookings[b].cause =
                           IF bookings[b].deadline THEN "payment" ELSE "owner"
    BY DEF BookingsInv, AutoRejectedMeansNoAnswer, Projection!AutoRejectedMeansNoAnswer,
           Projection!Unlogged
  <2>1. bookings[b].status \in Projection!Statuses
    BY DEF BInv, BookingRows
  <2>2. (Projection!AdminStatus(b) = "auto_rejected") <=> Projection!IsOwnerNonResponse(b)
    BY <2>1 DEF Projection!AdminStatus, Projection!IsOwnerNonResponse, Projection!Statuses,
                Projection!Terminal
  <2>3. QED
    BY <2>2, NonResponseIsKnown
<1>2. QED
  BY <1>1, BookingsInvHolds, PTL

\* A decision that was logged keeps its time (bookings.service.ts:85-94).
THEOREM DecisionTimesStay == FairSpec => []LoggedDecisionsKeepTheirTime
<1>1. BookingsInv => LoggedDecisionsKeepTheirTime
  <2> SUFFICES ASSUME BInv, NEW b \in Bookings, bookings[b].full
               PROVE  Projection!DecidedAt(b) # "later"
    BY DEF BookingsInv, LoggedDecisionsKeepTheirTime, Projection!LoggedDecisionsKeepTheirTime
  <2>1. /\ bookings[b] \in BookingRows /\ LogIsInOrder(bookings[b]) /\ FullLogs(bookings[b])
    BY DEF BInv
  <2>2. CASE bookings[b].status \notin Projection!Terminal
    BY <2>2, NoneAssumption DEF Projection!DecidedAt
  <2>3. CASE bookings[b].status \in Projection!Terminal
    <3>1. Len(bookings[b].timeline) > 0
      BY <2>1, <2>3 DEF FullLogs, BookingRows, Projection!Terminal
    <3>2. /\ Len(bookings[b].timeline) \in DOMAIN bookings[b].timeline
          /\ bookings[b].timeline[Len(bookings[b].timeline)] = bookings[b].status
      BY <2>1, <3>1 DEF LogIsInOrder, BookingRows
    <3>3. QED
      BY <2>3, <3>2 DEF Projection!DecidedAt
  <2>4. QED
    BY <2>2, <2>3
<1>2. QED
  BY <1>1, BookingsInvHolds, PTL

\* The two statistics endpoints agree on every owner without instant bookings,
\* lapsed payments and unanswered requests that have neither log nor deadline
\* (hosts.service.ts:227-249).
THEOREM StatisticsAgree == FairSpec => []StatsAgree
<1>1. BookingsInv => StatsAgree
  <2> SUFFICES ASSUME BInv,
                      \A b \in Bookings :
                        /\ ~bookings[b].instant /\ bookings[b].cause # "payment"
                        /\ bookings[b].cause = "owner" =>
                             ~(Len(bookings[b].timeline) < 2) \/ bookings[b].deadline
               PROVE  Projection!OwnerApprovalStats = Projection!HostApprovalStats
    BY DEF BookingsInv, StatsAgree, Projection!StatsAgree, Projection!Unlogged
  <2> DEFINE asked == {b \in Bookings : ~bookings[b].instant}
             auto == {b \in asked : Projection!IsOwnerNonResponse(b)}
             expired == {b \in Bookings : bookings[b].status = "expired"}
  <2>1. asked = Bookings
    OBVIOUS
  <2>2. ASSUME NEW b \in Bookings
        PROVE  Projection!IsOwnerNonResponse(b) <=> bookings[b].status = "expired"
    <3>1. Projection!IsOwnerNonResponse(b) <=> bookings[b].cause = "owner"
      BY NonResponseIsKnown
    <3>2. bookings[b].cause = "owner" <=> bookings[b].status = "expired"
      BY NoneAssumption DEF BInv, CausesAreTold, BookingRows
    <3>3. QED
      BY <3>1, <3>2
  <2>3. auto = expired
    BY <2>1, <2>2
  <2>4. /\ Projection!OwnerApprovalStats = Projection!Stats(asked, auto)
        /\ Projection!HostApprovalStats = Projection!Stats(Bookings, expired)
    BY DEF Projection!OwnerApprovalStats, Projection!HostApprovalStats
  <2>5. QED
    BY <2>1, <2>3, <2>4
<1>2. QED
  BY <1>1, BookingsInvHolds, PTL
-----------------------------------------------------------------------------
(* Rows with names from another table (JoinedRows).                        *)

Tables == {"users", "listings"}
NameTables == [Users \cup Listings -> Nat \cup {None}]
Lookups == UNION {[S -> Nat] : S \in SUBSET (Users \cup Listings)}

\* What a lookup of some ids brings from a table of names.
Lookup(ids, moment) == [x \in {y \in ids : moment[y] # None} |-> moment[x]]

JoinsTyped ==
  /\ names \in NameTables /\ seen \subseteq NameTables /\ IsFiniteSet(seen)
  /\ names \in seen
  /\ request \in [service: Joins!Services, form: {"list", "one", "stub"},
                  pc: {"rows", "names", "answered", "notFound", "error"},
                  raw: SUBSET Joins!Rows, found: [Tables -> Lookups \cup {None}]]

\* Every lookup is of one moment, and is of the rows that were read.
LookupsHeld ==
  \A t \in Tables : request.found[t] # None =>
    /\ request.pc # "rows"
    /\ \E moment \in seen : request.found[t] = Lookup(Joins!Wanted(request, t), moment)

AnswersAreComplete == request.pc = "answered" => Joins!Due(request) = {}

\* The inductive invariant of the part.
JInv == JoinsTyped /\ LookupsHeld /\ AnswersAreComplete
JoinsInv == part = "joins" => JInv
-----------------------------------------------------------------------------
LEMMA ReferencesAre ==
  /\ DOMAIN Joins!References = Tables
  /\ \A t \in Tables : Joins!References[t] \subseteq {"seeker", "owner", "listing"}
BY DEF Joins!References, Tables

\* What is shown by name has been looked up.
LEMMA ShownIsJoined ==
  ASSUME NEW s \in Joins!Services
  PROVE  s.shown \subseteq s.joined /\ s.forms \subseteq {"list", "one", "stub"}
BY DEF Joins!Services, Joins!Service, Joins!UserRows, Joins!UserChanges, Joins!WalletRows,
       Joins!PaymentRows, Joins!UserBookingRows, Joins!BookingRows, Joins!ListingRows,
       Joins!PayoutRows, Joins!ReviewRows

LEMMA ColumnsHoldIds ==
  ASSUME NEW row \in Joins!Rows, NEW c \in {"seeker", "owner", "listing"}
  PROVE  row[c] \in Users \cup Listings
BY DEF Joins!Rows

LEMMA WantedAreIds ==
  ASSUME JoinsTyped, NEW t \in Tables
  PROVE  Joins!Wanted(request, t) \subseteq Users \cup Listings
<1>1. \A row \in request.raw, c \in Joins!References[t] : row[c] \in Users \cup Listings
  BY ReferencesAre, ColumnsHoldIds DEF JoinsTyped
<1>2. QED
  BY <1>1 DEF Joins!Wanted

LEMMA LookupIsTyped ==
  ASSUME NEW ids \in SUBSET (Users \cup Listings), NEW moment \in NameTables
  PROVE  Lookup(ids, moment) \in Lookups
<1> DEFINE S == {y \in ids : moment[y] # None}
<1>1. Lookup(ids, moment) \in [S -> Nat]
  BY DEF Lookup, NameTables
<1>2. S \in SUBSET (Users \cup Listings)
  OBVIOUS
<1>3. QED
  BY <1>1, <1>2 DEF Lookups

\* Whether a request is complete is for Advance to say.
LEMMA JoinsAdvance ==
  ASSUME NEW r
  PROVE  /\ Joins!Advance(r) = [r EXCEPT !.pc = IF Joins!Due(r) = {} THEN "answered" ELSE "names"]
BY DEF Joins!Advance

LEMMA JoinsInvInit == Init => JoinsInv
<1> SUFFICES ASSUME Joins!Init PROVE JInv
  BY DEF Init, JoinsInv
<1>1. PICK service \in Joins!Services : \E form \in service.forms :
        request = [service |-> service, form |-> form, pc |-> "rows", raw |-> {},
                   found |-> [t \in Tables |-> None]]
  BY ReferencesAre DEF Joins!Init
<1>2. PICK form \in service.forms :
        request = [service |-> service, form |-> form, pc |-> "rows", raw |-> {},
                   found |-> [t \in Tables |-> None]]
  BY <1>1
<1>3. form \in {"list", "one", "stub"}
  BY ShownIsJoined
<1>4. names \in NameTables
  BY DEF Joins!Init, NameTables
<1>5. names \in NameTables /\ seen = {names} /\ IsFiniteSet(seen)
  BY <1>4, FS_Singleton DEF Joins!Init
<1>6. request.found \in [Tables -> Lookups \cup {None}]
  BY <1>2
<1>7. JoinsTyped
  BY <1>2, <1>3, <1>5, <1>6 DEF JoinsTyped
<1>8. LookupsHeld /\ AnswersAreComplete
  BY <1>2 DEF LookupsHeld, AnswersAreComplete
<1>9. QED
  BY <1>7, <1>8 DEF JInv

LEMMA JoinsInvNamesChange == ASSUME JInv, Joins!NamesChange PROVE JInv'
<1>1. PICK x \in Users \cup Listings, name \in {None, Joins!Cardinality(seen)} :
        names' = [names EXCEPT ![x] = name]
  BY DEF Joins!NamesChange
<1>2. seen' = seen \cup {names'} /\ request' = request
  BY DEF Joins!NamesChange
<1>3. name \in Nat \cup {None}
  <2>1. IsFiniteSet(seen)
    BY DEF JInv, JoinsTyped
  <2>2. Cardinality(seen) \in Nat
    BY <2>1, FS_CardinalityType
  <2>3. Joins!Cardinality(seen) = Cardinality(seen)
    BY DEF Joins!Cardinality, Cardinality
  <2>4. QED
    BY <2>2, <2>3
<1>4. names' \in NameTables
  BY <1>1, <1>3 DEF JInv, JoinsTyped, NameTables
<1>5. JoinsTyped'
  <2>1. JoinsTyped
    BY DEF JInv
  <2>2. seen' \subseteq NameTables /\ names' \in seen'
    BY <1>2, <1>4, <2>1 DEF JoinsTyped
  <2>3. IsFiniteSet(seen')
    BY <1>2, <2>1, FS_AddElement DEF JoinsTyped
  <2>4. QED
    BY <1>2, <1>4, <2>1, <2>2, <2>3 DEF JoinsTyped
<1>6. QED
  BY <1>2, <1>5 DEF JInv, LookupsHeld, AnswersAreComplete

LEMMA JoinsInvRowsRead == ASSUME JInv, Joins!RowsRead PROVE JInv'
<1>1. PICK raw \in SUBSET Joins!Rows :
        request' = IF raw = {} /\ request.form # "list" THEN [request EXCEPT !.pc = "notFound"]
                   ELSE Joins!Advance([request EXCEPT !.raw = raw])
  BY DEF Joins!RowsRead
<1>2. request.pc = "rows" /\ UNCHANGED <<names, seen>>
  BY DEF Joins!RowsRead
<1>3. \A t \in Tables : request.found[t] = None
  BY <1>2 DEF JInv, LookupsHeld
<1>4. CASE request' = [request EXCEPT !.pc = "notFound"]
  BY <1>2, <1>3, <1>4 DEF JInv, JoinsTyped, LookupsHeld, AnswersAreComplete
<1>5. CASE request' = Joins!Advance([request EXCEPT !.raw = raw])
  <2> DEFINE r == [request EXCEPT !.raw = raw]
  <2>1. request' = [r EXCEPT !.pc = IF Joins!Due(r) = {} THEN "answered" ELSE "names"]
    BY <1>5, JoinsAdvance
  <2>2. /\ JoinsTyped' /\ request'.raw = r.raw /\ request'.service = r.service
        /\ request'.found = request.found /\ request'.found = r.found
        /\ request'.pc = IF Joins!Due(r) = {} THEN "answered" ELSE "names"
    BY <1>2, <2>1 DEF JInv, JoinsTyped
  <2>3. Joins!Due(request') = Joins!Due(r)
    BY <2>2 DEF Joins!Due, Joins!Wanted
  <2>4. QED
    BY <1>3, <2>2, <2>3 DEF JInv, LookupsHeld, AnswersAreComplete
<1>6. QED
  BY <1>1, <1>4, <1>5

LEMMA JoinsInvNamesRead ==
  ASSUME JInv, NEW t \in Tables, Joins!NamesRead(t) PROVE JInv'
<1> DEFINE found == [x \in {y \in Joins!Wanted(request, t) : names[y] # None} |-> names[x]]
           r == [request EXCEPT !.found[t] = found]
<1>1. /\ request.pc = "names" /\ UNCHANGED <<names, seen>>
      /\ request' = [r EXCEPT !.pc = IF Joins!Due(r) = {} THEN "answered" ELSE "names"]
  BY JoinsAdvance DEF Joins!NamesRead
<1>2. found = Lookup(Joins!Wanted(request, t), names) /\ found \in Lookups
  BY WantedAreIds, LookupIsTyped DEF JInv, JoinsTyped, Lookup
<1> HIDE DEF found
<1>3. /\ JoinsTyped' /\ request'.raw = r.raw /\ request'.service = r.service
      /\ request'.found = r.found
      /\ request'.pc = IF Joins!Due(r) = {} THEN "answered" ELSE "names"
  BY <1>1, <1>2 DEF JInv, JoinsTyped
<1>4. /\ request'.raw = request.raw /\ request'.service = request.service
      /\ request'.found[t] = found
      /\ \A u \in Tables : u # t => request'.found[u] = request.found[u]
  BY <1>3 DEF JInv, JoinsTyped
<1>5. Joins!Due(request') = Joins!Due(r)
  BY <1>3 DEF Joins!Due, Joins!Wanted
<1>6. \A u \in Tables : Joins!Wanted(request', u) = Joins!Wanted(request, u)
  BY <1>4 DEF Joins!Wanted
<1>7. LookupsHeld'
  <2> SUFFICES ASSUME NEW u \in Tables, request'.found[u] # None
               PROVE  /\ request'.pc # "rows"
                      /\ \E moment \in seen :
                           request'.found[u] = Lookup(Joins!Wanted(request, u), moment)
    BY <1>1, <1>6 DEF LookupsHeld
  <2>1. request'.pc # "rows"
    BY <1>3
  <2>2. CASE u = t
    BY <1>2, <1>4, <2>1, <2>2 DEF JInv, JoinsTyped
  <2>3. CASE u # t
    BY <1>4, <2>1, <2>3 DEF JInv, LookupsHeld
  <2>4. QED
    BY <2>2, <2>3
<1>8. QED
  BY <1>3, <1>5, <1>7 DEF JInv, AnswersAreComplete

LEMMA JoinsInvFails == ASSUME JInv, Joins!QueryFails PROVE JInv'
<1>1. request' = [request EXCEPT !.pc = "error"] /\ UNCHANGED <<names, seen>>
  BY DEF Joins!QueryFails
<1>2. /\ JoinsTyped' /\ request'.raw = request.raw /\ request'.service = request.service
      /\ request'.found = request.found /\ request'.pc = "error"
  BY <1>1 DEF JInv, JoinsTyped
<1>3. \A t \in Tables : Joins!Wanted(request', t) = Joins!Wanted(request, t)
  BY <1>2 DEF Joins!Wanted
<1>4. QED
  BY <1>1, <1>2, <1>3 DEF JInv, LookupsHeld, AnswersAreComplete

LEMMA JoinsInvNext == JoinsInv /\ [Next]_vars => JoinsInv'
<1> SUFFICES ASSUME JoinsInv, [Next]_vars, part' = "joins"
             PROVE  JInv'
  BY DEF JoinsInv
<1>1. part = "joins" /\ (Joins!Next \/ UNCHANGED <<names, seen, request>>)
  BY DEF Next, vars, joinVars
<1>2. JInv
  BY <1>1 DEF JoinsInv
<1>3. CASE UNCHANGED <<names, seen, request>>
  BY <1>2, <1>3 DEF JInv, JoinsTyped, LookupsHeld, AnswersAreComplete
<1>4. CASE Joins!Next
  BY <1>2, <1>4, ReferencesAre, JoinsInvNamesChange, JoinsInvRowsRead, JoinsInvNamesRead,
     JoinsInvFails
  DEF Joins!Next
<1>5. QED
  BY <1>1, <1>3, <1>4

LEMMA JoinsInvHolds == FairSpec => []JoinsInv
BY JoinsInvInit, JoinsInvNext, PTL DEF FairSpec

\* The names in an answer held together at one moment after its rows were
\* read (bookings.service.ts:136-151 and its like in four other services).
THEOREM NamesAreOfOneMoment == FairSpec => []NamesHeldTogether
<1>1. JoinsInv => NamesHeldTogether
  <2> SUFFICES ASSUME JInv, request.pc = "answered", NEW t \in Tables
               PROVE  \E moment \in seen :
                        \A c \in request.service.shown \cap Joins!References[t],
                           row \in request.raw :
                          Joins!Shown(request, t, row[c]) =
                            IF moment[row[c]] # None THEN moment[row[c]]
                            ELSE IF request.service.byId THEN row[c] ELSE None
    BY ReferencesAre DEF JoinsInv, NamesHeldTogether, Joins!NamesHeldTogether
  <2>1. \A c \in request.service.shown \cap Joins!References[t], row \in request.raw :
          row[c] \in Joins!Wanted(request, t)
    BY ShownIsJoined DEF JInv, JoinsTyped, Joins!Wanted
  <2>2. CASE Joins!Wanted(request, t) = {}
    BY <2>1, <2>2 DEF JInv, JoinsTyped
  <2>3. CASE Joins!Wanted(request, t) # {}
    <3>1. request.found[t] # None
      BY <2>3, ReferencesAre DEF JInv, AnswersAreComplete, Joins!Due
    <3>2. PICK moment \in seen : request.found[t] = Lookup(Joins!Wanted(request, t), moment)
      BY <3>1 DEF JInv, LookupsHeld
    <3>3. \A x \in Joins!Wanted(request, t) :
            Joins!Shown(request, t, x) = IF moment[x] # None THEN moment[x]
                                         ELSE IF request.service.byId THEN x ELSE None
      BY <3>1, <3>2 DEF Joins!Shown, Lookup
    <3>4. QED
      BY <2>1, <3>3
  <2>4. QED
    BY <2>2, <2>3
<1>2. QED
  BY <1>1, JoinsInvHolds, PTL
=============================================================================
