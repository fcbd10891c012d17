--------------------------- MODULE HostDirectory ---------------------------
(* HostsService.list and getOne: owners of the user table, their completed *)
(* payouts and their KYC statuses, which belong to kyc-service and are     *)
(* asked for in chunks while KYC decisions are made.  Nothing of an answer *)
(* is kept for the next one, so one request says it all.  updateStatus and *)
(* flag are getOne with another answer, and change nothing.                *)
(* A chunk whose lookup fails is skipped and its owners fall through to    *)
(* `unverified`.                                                           *)
EXTENDS Integers, Sequences, SequencesExt, FiniteSets, FiniteSetsExt

CONSTANTS
  Owners,    \* owners in the user table, and others
  ChunkSize, \* identities the batch endpoint takes (200)
  MaxHeld,   \* bound: KYC statuses an owner has during one list
  None       \* no value, no KYC record

VARIABLES
  kyc,     \* kyc-service: the status of each owner's record
  request, \* the list request: see Request
  held,    \* KYC statuses an owner has had since the request began (history)
  failed   \* owners whose lookup brought nothing (history)

vars == <<kyc, request, held, failed>>

Records == {"in_progress", "pending_review", "approved", "rejected"}
Shown == {"unverified", "pending", "verified", "rejected"}

Ended == {"answered", "notFound", "error"}

\* A request, for all owners or for `one`, waits at `pc` for the user table,
\* the payouts, kyc-service's answer to the chunk after `done` identities;
\* `found` maps owners to statuses, `wanted` is the kycStatus filter, `answer`
\* what the console gets.
Request ==
  [pc: {"users", "earnings", "kyc"} \cup Ended, one: BOOLEAN, wanted: Shown \cup {None},
   ids: Seq(Owners), done: Nat, found: [Owners -> Records \cup {None}],
   answer: [Owners -> Shown \cup {None}]]

\* Fault: whatever is not refused or waiting is verified.
LenientKycStatus(status) ==
  CASE status = "rejected" -> "rejected"
    [] status \in {"in_progress", "pending_review"} -> "pending"
    [] OTHER -> "verified"

\* mapKycStatus.
MapKycStatus(status) ==
  CASE status = "approved" -> "verified"
    [] status = "rejected" -> "rejected"
    [] status \in {"in_progress", "pending_review"} -> "pending"
    [] OTHER -> "unverified"

Identities(seq) == {seq[i] : i \in DOMAIN seq}

\* Fault: the chunk ends one identity early.
ShortChunk(r) ==
  Identities(SubSeq(r.ids, r.done + 1, Min({r.done + ChunkSize - 1, Len(r.ids)})))

\* ids.slice(i, i + CHUNK).
Chunk(r) ==
  Identities(SubSeq(r.ids, r.done + 1, Min({r.done + ChunkSize, Len(r.ids)})))

\* The map after a reply: Object.entries(result ?? {}).
Merged(found, reply) ==
  [o \in Owners |-> IF o \in DOMAIN reply THEN reply[o] ELSE found[o]]

\* toHost for each row, then paginate()'s filter on kycStatus.
Answer(r) ==
  [o \in Owners |->
    LET shown == MapKycStatus(r.found[o])
    IN IF o \in Identities(r.ids) /\ r.wanted \in {shown, None} THEN shown ELSE None]

\* Fault: the loop goes on after as many identities as were found.
AdvanceByFound(r) ==
  LET next == [r EXCEPT !.done = @ + Cardinality({o \in Chunk(r) : r.found[o] # None})]
  IN IF next.done < Len(r.ids) THEN next
     ELSE [next EXCEPT !.pc = "answered", !.answer = Answer(r)]

\* The loop over the chunks goes on after the one just asked for, or is over.
Advance(r) ==
  LET next == [r EXCEPT !.done = @ + ChunkSize]
  IN IF next.done < Len(r.ids) THEN next
     ELSE [next EXCEPT !.pc = "answered", !.answer = Answer(r)]
-----------------------------------------------------------------------------
Init ==
  /\ kyc \in [Owners -> Records \cup {None}]
  /\ \E one \in BOOLEAN, wanted \in {None, "verified", "unverified"} :
       /\ one => wanted = None
       /\ request = [pc |-> "users", one |-> one, wanted |-> wanted, ids |-> <<>>, done |-> 0,
                     found |-> [o \in Owners |-> None], answer |-> [o \in Owners |-> None]]
  /\ held = [o \in Owners |-> {kyc[o]}]
  /\ failed = {}

\* Moves of a record: submitted, decided, and back to work after a refusal or
\* when an approval is withdrawn.
Moves(status) ==
  CASE status = None             -> {"in_progress"}
    [] status = "in_progress"    -> {"pending_review"}
    [] status = "pending_review" -> {"approved", "rejected"}
    [] OTHER                     -> {"in_progress"}

KycMoves(o) ==
  \E status \in Moves(kyc[o]) :
    /\ Cardinality(held[o] \cup {status}) <= MaxHeld
    /\ request.pc \notin Ended
    /\ kyc' = [kyc EXCEPT ![o] = status]
    /\ held' = [held EXCEPT ![o] = @ \cup {status}]
    /\ UNCHANGED <<request, failed>>

\* users.find, newest first, or findOne: whoever the n owners are, Init lets
\* each have any record.  Without owners neither payouts nor KYC are asked for.
UsersRead ==
  /\ request.pc = "users"
  /\ \E n \in 0..(IF request.one THEN 1 ELSE Cardinality(Owners)) :
       request' = IF n = 0
                  THEN [request EXCEPT !.pc = IF request.one THEN "notFound" ELSE "answered"]
                  ELSE [request EXCEPT !.ids = SubSeq(SetToSeq(Owners), 1, n), !.pc = "earnings"]
  /\ UNCHANGED <<kyc, held, failed>>

\* earningsMap: one query for all owners, whose amounts are left out.
EarningsRead ==
  /\ request.pc = "earnings"
  /\ request' = [request EXCEPT !.pc = "kyc"]
  /\ UNCHANGED <<kyc, held, failed>>

\* Either query may fail, and the request with it.
QueryFails ==
  /\ request.pc \in {"users", "earnings"}
  /\ request' = [request EXCEPT !.pc = "error"]
  /\ UNCHANGED <<kyc, held, failed>>

\* kyc-service answers with the records there are, or with an empty body.
KycAnswers ==
  /\ request.pc = "kyc"
  /\ LET known == {o \in Chunk(request) : kyc[o] # None}
     IN \/ /\ request' = Advance([request EXCEPT !.found = Merged(@, [o \in known |-> kyc[o]])])
           /\ UNCHANGED failed
        \/ /\ request' = Advance(request)
           /\ failed' = failed \cup Chunk(request)
  /\ UNCHANGED <<kyc, held>>

\* The lookup fails or times out: a warning, and the next chunk.
KycFails ==
  /\ request.pc = "kyc"
  /\ request' = Advance(request)
  /\ failed' = failed \cup Chunk(request)
  /\ UNCHANGED <<kyc, held>>

Handler == UsersRead \/ EarningsRead \/ QueryFails \/ KycAnswers \/ KycFails

Next ==
  \/ \E o \in Owners : KycMoves(o)
  \/ Handler

\* Queries end, and so does a lookup (InternalServiceClient's timer).
FairSpec == Init /\ [][Next]_vars /\ WF_vars(Handler)
-----------------------------------------------------------------------------
\* No owner is ever shown with a status it did not have while the list was
\* being made, except as unverified: above all, nobody is shown as verified
\* who was not (hosts.service.ts:57-63).
NeverFalselyVerified ==
  request.pc = "answered" =>
    \A o \in Owners : request.answer[o] \notin {None, "unverified"} =>
      \E status \in held[o] : MapKycStatus(status) = request.answer[o]

\* An owner with a record all the time is shown as unverified only when the
\* lookup of its own chunk failed: a failure stays with its chunk
\* (hosts.service.ts:134-154).
FailuresStayInTheirChunk ==
  request.pc = "answered" =>
    \A o \in Owners : request.answer[o] = "unverified" /\ None \notin held[o] => o \in failed

\* A request ends, whatever kyc-service does.
EveryListEnds == <>(request.pc \in Ended)
=============================================================================
