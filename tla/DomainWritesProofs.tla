------------------------- MODULE DomainWritesProofs -------------------------
(* Theorems of DomainWrites, for every set of calls and targets, whichever *)
(* of them are listings, guarded by their service, or configured.          *)
EXTENDS DomainWrites, TLAPS

\* A request that may still arrive belongs to a call, is the first of it to
\* arrive, and nothing has come back for it.
OnTheWire == \A c \in wire : call[c] # None /\ reply[c] = None /\ c \notin applied

\* Replies, answers and effects belong to calls; who has an answer waits no more.
OfACall ==
  \A c \in Calls :
    /\ reply[c] # None \/ c \in applied => call[c] # None
    /\ answer[c] # None => call[c] # None /\ call[c].pc = "ended"

\* What a reply says of the decision.
RepliesTellTheTruth ==
  \A c \in Calls : reply[c] # None =>
    /\ reply[c].code = "ok" => c \in applied /\ reply[c].status \in {call[c].decision, None}
    /\ reply[c].code \in {"404", "4xx"} => c \notin applied

\* A guarded target keeps the decision that was carried out.
GuardedStand ==
  \A c \in applied : call[c].target \in Guarded =>
    status[call[c].target] = call[c].decision

\* The inductive invariant.
DInv ==
  /\ TypeOK
  /\ OnTheWire /\ OfACall /\ RepliesTellTheTruth /\ GuardedStand
  /\ SuccessMeansCarriedOut /\ RefusalIsFinal
-----------------------------------------------------------------------------
\* Every action on a call keeps the state well typed.
LEMMA DecisionType ==
  \A target \in Targets, action \in Actions : Decision(target, action) \in Decisions
BY DEF Decision, Decisions

LEMMA TranslatedCodes ==
  ASSUME NEW r \in Reply
  PROVE  /\ Translated(r.code) \in {200, 404, 500, 502, 503}
         /\ Translated(r.code) = 200 => r.code = "ok"
         /\ Translated(r.code) \in {404, 502} => r.code \in {"404", "4xx"}
BY DEF Reply, Translated

LEMMA DInvInit == Init => DInv
BY TargetAssumption, NoneAssumption
DEF Init, DInv, TypeOK, States, OnTheWire, OfACall, RepliesTellTheTruth, GuardedStand,
    SuccessMeansCarriedOut, RefusalIsFinal, Told

\* The admin service's half: a call is submitted ...
LEMMA DInvSubmit ==
  ASSUME DInv, NEW c \in Calls, NEW target \in Targets, NEW action \in Actions,
         NEW reasoned \in BOOLEAN, Submit(c, target, action, reasoned)
  PROVE  DInv'
<1> DEFINE d == Decision(target, action)
           new(pc) == [pc |-> pc, target |-> target, decision |-> d]
<1>1. d \in Decisions
  BY DecisionType
<1>2. /\ call[c] = None /\ UNCHANGED <<reply, status, applied>>
      /\ \E pc \in {"waiting", "ended"} : call' = [call EXCEPT ![c] = new(pc)]
      /\ \/ wire' = wire \cup {c} /\ UNCHANGED answer /\ call'[c].pc = "waiting"
         \/ /\ UNCHANGED wire /\ call'[c].pc = "ended"
            /\ \E code \in {400, 500, 503} :
                 answer' = [answer EXCEPT ![c] = [code |-> code, status |-> None]]
  <2>1. call[c] = None /\ UNCHANGED <<reply, status, applied>>
    BY DEF Submit
  <2>2. CASE call' = [call EXCEPT ![c] = new("ended")] /\ Say(c, 400, None) /\ UNCHANGED wire
    BY <2>1, <2>2 DEF Say, DInv, TypeOK
  <2>3. CASE call' = [call EXCEPT ![c] = new("ended")] /\ Say(c, 503, None) /\ UNCHANGED wire
    BY <2>1, <2>3 DEF Say, DInv, TypeOK
  <2>4. CASE call' = [call EXCEPT ![c] = new("ended")] /\ Say(c, 500, None) /\ UNCHANGED wire
    BY <2>1, <2>4 DEF Say, DInv, TypeOK
  <2>5. CASE call' = [call EXCEPT ![c] = new("waiting")] /\ wire' = wire \cup {c}
              /\ UNCHANGED answer
    BY <2>1, <2>5 DEF DInv, TypeOK
  <2>6. QED
    BY <2>2, <2>3, <2>4, <2>5 DEF Submit
<1>3. /\ call' \in [Calls -> Call \cup {None}] /\ call'[c] \in Call
      /\ \A x \in Calls \ {c} : call'[x] = call[x]
  BY <1>1, <1>2 DEF DInv, TypeOK, Call
<1>4. /\ answer' \in [Calls -> Outcome \cup {None}]
      /\ \A x \in Calls \ {c} : answer'[x] = answer[x]
      /\ \/ answer'[c] = answer[c]
         \/ answer'[c] \in Outcome /\ answer'[c].code \in {400, 500, 503}
  <2>1. answer \in [Calls -> Outcome \cup {None}]
    BY DEF DInv, TypeOK
  <2>2. CASE UNCHANGED answer
    BY <2>1, <2>2
  <2>3. ASSUME NEW code \in {400, 500, 503},
               answer' = [answer EXCEPT ![c] = [code |-> code, status |-> None]]
        PROVE  <1>4!:
    <3>1. [code |-> code, status |-> None] \in Outcome
      BY DEF Outcome
    <3>2. QED
      BY <2>1, <2>3, <3>1
  <2>4. QED
    BY <1>2, <2>2, <2>3
<1>5. c \notin wire /\ c \notin applied /\ reply[c] = None /\ answer[c] = None
  BY <1>2 DEF DInv, OnTheWire, OfACall
<1>6. call'[c] # None
  BY <1>3, NoneAssumption
<1>7. TypeOK'
  BY <1>2, <1>3, <1>4 DEF DInv, TypeOK
<1>8. OnTheWire'
  BY <1>2, <1>3, <1>5, <1>6 DEF DInv, TypeOK, OnTheWire
<1>9. OfACall'
  BY <1>2, <1>3, <1>4, <1>5, <1>6 DEF DInv, TypeOK, OfACall
<1>10. RepliesTellTheTruth' /\ GuardedStand'
  BY <1>2, <1>3, <1>5 DEF DInv, TypeOK, RepliesTellTheTruth, GuardedStand
<1>11. SuccessMeansCarriedOut'
  BY <1>2, <1>3, <1>4, <1>5 DEF DInv, TypeOK, SuccessMeansCarriedOut, Told
<1>12. RefusalIsFinal'
  <2> SUFFICES ASSUME NEW x \in Calls, Told(x, {400, 404, 502})'
               PROVE  (x \notin applied /\ x \notin wire)'
    BY DEF RefusalIsFinal
  <2>1. CASE x = c
    <3>1. answer'[c] # None
      BY <2>1 DEF Told
    <3>2. UNCHANGED wire
      BY <1>2, <1>5, <3>1
    <3>3. QED
      BY <1>2, <1>5, <2>1, <3>2
  <2>2. CASE x # c
    BY <1>2, <1>4, <2>2 DEF DInv, TypeOK, RefusalIsFinal, Told
  <2>3. QED
    BY <2>1, <2>2
<1>13. QED
  BY <1>7, <1>8, <1>9, <1>10, <1>11, <1>12 DEF DInv

\* ... and ends with an answer, which may refuse only if nothing was, or can
\* be, carried out, and report success only of what was.
LEMMA DInvEnds ==
  ASSUME DInv, NEW c \in Calls, Waiting(c), NEW code, NEW state,
         [code |-> code, status |-> state] \in Outcome,
         code = 200 => c \in applied /\ state \in {call[c].decision, None},
         code \in {400, 404, 502} => c \notin applied /\ c \notin wire,
         Say(c, code, state), End(c), UNCHANGED <<wire, reply, status, applied>>
  PROVE  DInv'
<1>1. /\ call[c] \in Call
      /\ call' = [call EXCEPT ![c].pc = "ended"]
      /\ answer' = [answer EXCEPT ![c] = [code |-> code, status |-> state]]
  BY DEF DInv, TypeOK, Waiting, End, Say
<1>2. /\ call' \in [Calls -> Call \cup {None}] /\ call'[c] \in Call
      /\ call'[c].pc = "ended"
      /\ \A x \in Calls : /\ call'[x] = None <=> call[x] = None
                          /\ call[x] # None => /\ call'[x].target = call[x].target
                                               /\ call'[x].decision = call[x].decision
                                               /\ call[x].pc = "ended" => call'[x].pc = "ended"
  BY <1>1, NoneAssumption DEF DInv, TypeOK, Call
<1>3. /\ answer' \in [Calls -> Outcome \cup {None}]
      /\ \A x \in Calls \ {c} : answer'[x] = answer[x]
      /\ answer'[c].code = code /\ answer'[c].status = state
  BY <1>1 DEF DInv, TypeOK
<1>4. TypeOK'
  BY <1>2, <1>3 DEF DInv, TypeOK
<1>5. OnTheWire' /\ OfACall'
  BY <1>1, <1>2, <1>3, NoneAssumption DEF DInv, TypeOK, OnTheWire, OfACall
<1>6. RepliesTellTheTruth' /\ GuardedStand'
  BY <1>2 DEF DInv, TypeOK, OfACall, RepliesTellTheTruth, GuardedStand
<1>7. SuccessMeansCarriedOut' /\ RefusalIsFinal'
  BY <1>2, <1>3 DEF DInv, TypeOK, OfACall, SuccessMeansCarriedOut, RefusalIsFinal, Told
<1>8. QED
  BY <1>4, <1>5, <1>6, <1>7 DEF DInv

LEMMA DInvReceive == ASSUME DInv, NEW c \in Calls, Receive(c) PROVE DInv'
<1>1. reply[c] \in Reply /\ Waiting(c)
  BY DEF Receive, DInv, TypeOK
<1> DEFINE code == Translated(reply[c].code)
<1>2. [code |-> code, status |-> reply[c].status] \in Outcome
  BY <1>1, TranslatedCodes DEF Reply, Outcome
<1>3. code = 200 => c \in applied /\ reply[c].status \in {call[c].decision, None}
  BY <1>1, TranslatedCodes, NoneAssumption DEF DInv, RepliesTellTheTruth
<1>4. code \in {400, 404, 502} => c \notin applied /\ c \notin wire
  BY <1>1, TranslatedCodes, NoneAssumption DEF DInv, OnTheWire, RepliesTellTheTruth
<1>5. Say(c, code, reply[c].status) /\ End(c) /\ UNCHANGED <<wire, reply, status, applied>>
  BY DEF Receive
<1>6. QED
  BY <1>1, <1>2, <1>3, <1>4, <1>5, DInvEnds

LEMMA DInvGivesUp ==
  ASSUME DInv, NEW c \in Calls, Timeout(c) \/ NetworkError(c) PROVE DInv'
<1>1. \A code \in {503, 504} : [code |-> code, status |-> None] \in Outcome
  BY DEF Outcome
<1>2. CASE Timeout(c)
  BY <1>1, <1>2, DInvEnds DEF Timeout
<1>3. CASE NetworkError(c)
  BY <1>1, <1>3, DInvEnds DEF NetworkError
<1>4. QED
  BY <1>2, <1>3

LEMMA DInvCrash == DInv /\ Crash => DInv'
<1> SUFFICES ASSUME DInv, Crash PROVE DInv'
  OBVIOUS
<1>1. /\ call' \in [Calls -> Call \cup {None}]
      /\ \A x \in Calls : /\ call'[x] = None <=> call[x] = None
                          /\ call[x] # None => /\ call'[x].target = call[x].target
                                               /\ call'[x].decision = call[x].decision
                                               /\ call[x].pc = "ended" => call'[x].pc = "ended"
  BY NoneAssumption DEF Crash, Waiting, DInv, TypeOK, Call
<1>2. UNCHANGED <<wire, reply, answer, status, applied>>
  BY DEF Crash
<1>3. TypeOK' /\ OnTheWire' /\ OfACall'
  BY <1>1, <1>2 DEF DInv, TypeOK, OnTheWire, OfACall
<1>4. RepliesTellTheTruth' /\ GuardedStand'
  BY <1>1, <1>2 DEF DInv, TypeOK, OfACall, RepliesTellTheTruth, GuardedStand
<1>5. SuccessMeansCarriedOut' /\ RefusalIsFinal'
  BY <1>1, <1>2 DEF DInv, TypeOK, OfACall, SuccessMeansCarriedOut, RefusalIsFinal, Told
<1>6. QED
  BY <1>3, <1>4, <1>5 DEF DInv
-----------------------------------------------------------------------------
\* The other half: a request is lost ...
LEMMA DInvLost == ASSUME DInv, NEW c \in Calls, Lost(c) PROVE DInv'
<1>1. wire' = wire \ {c} /\ UNCHANGED <<call, reply, answer, status, applied>>
  BY DEF Lost
<1>2. TypeOK' /\ OnTheWire' /\ OfACall' /\ RepliesTellTheTruth' /\ GuardedStand'
  BY <1>1 DEF DInv, TypeOK, OnTheWire, OfACall, RepliesTellTheTruth, GuardedStand
<1>3. SuccessMeansCarriedOut' /\ RefusalIsFinal'
  BY <1>1 DEF DInv, SuccessMeansCarriedOut, RefusalIsFinal, Told
<1>4. QED
  BY <1>2, <1>3 DEF DInv

\* ... refused ...
LEMMA DInvRefused == ASSUME DInv, NEW c \in Calls, Refused(c) PROVE DInv'
<1>1. c \in wire /\ c \notin applied /\ call[c] # None
  BY DEF Refused, DInv, OnTheWire
<1>2. /\ wire' = wire \ {c} /\ UNCHANGED <<call, answer, status, applied>>
      /\ \E code \in {"404", "4xx", "5xx"} :
           reply' = [reply EXCEPT ![c] = [code |-> code, status |-> None]]
  BY DEF Refused, Replies
<1>3. /\ reply' \in [Calls -> Reply \cup {None}] /\ reply'[c].code # "ok"
      /\ \A x \in Calls \ {c} : reply'[x] = reply[x]
  BY <1>2 DEF DInv, TypeOK, Reply
<1>4. TypeOK' /\ OnTheWire' /\ OfACall'
  BY <1>1, <1>2, <1>3 DEF DInv, TypeOK, OnTheWire, OfACall
<1>5. RepliesTellTheTruth' /\ GuardedStand'
  BY <1>1, <1>2, <1>3 DEF DInv, TypeOK, RepliesTellTheTruth, GuardedStand
<1>6. SuccessMeansCarriedOut' /\ RefusalIsFinal'
  BY <1>2 DEF DInv, SuccessMeansCarriedOut, RefusalIsFinal, Told
<1>7. QED
  BY <1>4, <1>5, <1>6 DEF DInv

\* ... or carried out, which a guarded target allows only once.
LEMMA DInvCarriedOut == ASSUME DInv, NEW c \in Calls, CarriedOut(c) PROVE DInv'
<1> DEFINE target == call[c].target
<1>1. c \in wire /\ c \notin applied /\ call[c] \in Call /\ reply[c] = None
  BY DEF CarriedOut, DInv, TypeOK, OnTheWire
<1>2. /\ wire' = wire \ {c} /\ applied' = applied \cup {c}
      /\ status' = [status EXCEPT ![target] = call[c].decision]
      /\ UNCHANGED <<call, answer>>
      /\ \/ \E said \in {call[c].decision, None} :
              reply' = [reply EXCEPT ![c] = [code |-> "ok", status |-> said]]
         \/ \E code \in {"empty", "garbled", "5xx"} :
              reply' = [reply EXCEPT ![c] = [code |-> code, status |-> None]]
  BY DEF CarriedOut, Replies
<1>3. /\ reply' \in [Calls -> Reply \cup {None}]
      /\ \A x \in Calls \ {c} : reply'[x] = reply[x]
      /\ reply'[c].code = "ok" => reply'[c].status \in {call[c].decision, None}
      /\ reply'[c].code \notin {"404", "4xx"}
  BY <1>1, <1>2 DEF DInv, TypeOK, Reply, Call
<1>4. call[c] # None /\ target \in Targets /\ call[c].decision \in Decisions
  BY <1>1, NoneAssumption DEF Call
<1>5. TypeOK' /\ OnTheWire' /\ OfACall'
  BY <1>1, <1>2, <1>3, <1>4 DEF DInv, TypeOK, OnTheWire, OfACall, States, Decisions
<1>6. RepliesTellTheTruth'
  BY <1>1, <1>2, <1>3 DEF DInv, TypeOK, RepliesTellTheTruth
<1>7. GuardedStand'
  <2> SUFFICES ASSUME NEW x \in applied', call[x].target \in Guarded
               PROVE  status'[call[x].target] = call[x].decision
    BY <1>2 DEF GuardedStand
  <2>1. CASE x = c
    BY <1>2, <1>4, <2>1 DEF DInv, TypeOK
  <2>2. CASE x # c
    <3>1. x \in applied /\ x \in Calls /\ call[x] \in Call
      BY <1>2, <2>2 DEF DInv, TypeOK, OfACall
    <3>2. status[call[x].target] = call[x].decision /\ call[x].decision \in Decisions
      BY <3>1 DEF DInv, GuardedStand, Call
    <3>3. call[x].target # target
      BY <3>2 DEF CarriedOut, Decisions
    <3>4. QED
      BY <1>2, <1>4, <3>1, <3>2, <3>3 DEF DInv, TypeOK, Call
  <2>3. QED
    BY <2>1, <2>2
<1>8. SuccessMeansCarriedOut' /\ RefusalIsFinal'
  BY <1>1, <1>2 DEF DInv, SuccessMeansCarriedOut, RefusalIsFinal, Told
<1>9. QED
  BY <1>5, <1>6, <1>7, <1>8 DEF DInv
-----------------------------------------------------------------------------
LEMMA DInvNext == DInv /\ [Next]_vars => DInv'
<1> SUFFICES ASSUME DInv, [Next]_vars PROVE DInv'
  OBVIOUS
<1>1. CASE UNCHANGED vars
  BY <1>1 DEF vars, DInv, TypeOK, OnTheWire, OfACall, RepliesTellTheTruth, GuardedStand,
              SuccessMeansCarriedOut, RefusalIsFinal, Told
<1>2. ASSUME NEW c \in Calls, NEW target \in Targets, NEW action \in Actions,
             NEW reasoned \in BOOLEAN, Submit(c, target, action, reasoned)
      PROVE  DInv'
  BY <1>2, DInvSubmit
<1>3. ASSUME NEW c \in Calls,
             \/ Receive(c) \/ Timeout(c) \/ NetworkError(c)
             \/ Lost(c) \/ Refused(c) \/ CarriedOut(c)
      PROVE  DInv'
  BY <1>3, DInvReceive, DInvGivesUp, DInvLost, DInvRefused, DInvCarriedOut
<1>4. CASE Crash
  BY <1>4, DInvCrash
<1>5. QED
  BY <1>1, <1>2, <1>3, <1>4 DEF Next

LEMMA DInvHolds == Spec => []DInv
BY DInvInit, DInvNext, PTL DEF Spec

\* Every reachable state is well typed.
THEOREM TypeCorrect == Spec => []TypeOK
<1>1. DInv => TypeOK
  BY DEF DInv
<1>2. QED
  BY <1>1, DInvHolds, PTL

\* Success is only reported of a decision that was carried out, with no state
\* but the one it led to (internal-service.client.ts:77-105).
THEOREM SuccessIsReal == Spec => []SuccessMeansCarriedOut
<1>1. DInv => SuccessMeansCarriedOut
  BY DEF DInv
<1>2. QED
  BY <1>1, DInvHolds, PTL

\* After 400, 404 or 502 the decision was not and will not be carried out
\* (internal-service.client.ts:87-101).
THEOREM RefusalsAreFinal == Spec => []RefusalIsFinal
<1>1. DInv => RefusalIsFinal
  BY DEF DInv
<1>2. QED
  BY <1>1, DInvHolds, PTL

\* A success about a guarded target stands, whatever arrives later
\* (internal-service.client.ts:58-75).
THEOREM SuccessKeepsStanding == Spec => []SuccessStands
<1>1. DInv => SuccessStands
  BY DEF DInv, SuccessMeansCarriedOut, GuardedStand, SuccessStands, Told
<1>2. QED
  BY <1>1, DInvHolds, PTL
=============================================================================
