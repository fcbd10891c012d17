---------------------------- MODULE DomainWrites ----------------------------
(* The two decisions the admin service really carries out at another       *)
(* service: ListingsService.moderate and HostsService.decideKyc, through   *)
(* InternalServiceClient.request, with its abort timer and its translation *)
(* of every outcome into an HTTP answer.                                   *)
(*                                                                         *)
(* The service called is external.  A request to it can be lost, arrive    *)
(* after the caller has given up, be carried out and answered with an      *)
(* error, or answered into the void; fetch never sends it twice.           *)
EXTENDS Naturals

CONSTANTS
  Calls,       \* the decisions operators submit, retries among them
  Targets,     \* listings and owners
  Listings,    \* the targets that are listings; the others are owners' KYC
  Guarded,     \* targets whose service refuses to decide a second time
  Configured,  \* targets whose base URL, and the shared secret, are set
  Misspelt,    \* those of them whose base URL is no URL
  None

ASSUME TargetAssumption ==
  /\ Listings \subseteq Targets /\ Guarded \subseteq Targets
  /\ Configured \subseteq Targets /\ Misspelt \subseteq Configured

VARIABLES
  call,     \* per call: [pc, target, decision], or None before it is submitted
  wire,     \* requests sent and neither carried out nor lost
  reply,    \* what came back for each call: [code, status], or None
  answer,   \* what the operator was told: [code, status], or None
  status,   \* at the domain service: the state of each target
  applied   \* history: the calls whose decision was carried out

vars == <<call, wire, reply, answer, status, applied>>

Decisions == {"approve", "reject"}
Actions == {"approve", "approved", "reject", "other"}
States == {"awaiting", "approve", "reject", "absent"}

\* Fault: the action of the body is passed on as it is.
RawDecision(target, action) == action

\* What the two handlers make of the action in the body: anything that is not
\* an approval is a rejection.
Decision(target, action) ==
  IF action = "approve" \/ (target \notin Listings /\ action = "approved")
  THEN "approve" ELSE "reject"

\* What is kept of a call, what comes back for it, what the operator is told.
Call == [pc: {"waiting", "ended"}, target: Targets, decision: Decisions]
Reply == [code: {"ok", "empty", "garbled", "404", "4xx", "5xx"}, status: Decisions \cup {None}]
Outcome == [code: {200, 400, 404, 500, 502, 503, 504}, status: Decisions \cup {None}]

\* None is a value of its own.
ASSUME NoneAssumption == None \notin Call \cup Reply \cup Outcome

Say(c, code, state) == answer' = [answer EXCEPT ![c] = [code |-> code, status |-> state]]
Waiting(c) == call[c] # None /\ call[c].pc = "waiting"
End(c) == call' = [call EXCEPT ![c].pc = "ended"]
-----------------------------------------------------------------------------
\* The handler up to fetch(): 400 for a rejection without a reason, 503 when
\* the client is not configured, 500 when `new URL` throws, or the request is
\* on its way.
Submit(c, target, action, reasoned) ==
  LET decision == Decision(target, action)
      Enter(pc) == call' = [call EXCEPT ![c] =
                     [pc |-> pc, target |-> target, decision |-> decision]]
  IN /\ call[c] = None
     /\ \/ /\ decision = "reject" /\ ~reasoned
           /\ Enter("ended") /\ Say(c, 400, None) /\ UNCHANGED wire
        \/ /\ decision = "reject" => reasoned
           /\ target \notin Configured
           /\ Enter("ended") /\ Say(c, 503, None) /\ UNCHANGED wire
        \/ /\ decision = "reject" => reasoned
           /\ target \in Misspelt
           /\ Enter("ended") /\ Say(c, 500, None) /\ UNCHANGED wire
        \/ /\ decision = "reject" => reasoned
           /\ target \in Configured \ Misspelt
           /\ Enter("waiting") /\ wire' = wire \cup {c} /\ UNCHANGED answer
     /\ UNCHANGED <<reply, status, applied>>

\* Fault: a refused transition is taken for one that already happened.
Lenient(code) ==
  CASE code = "ok"      -> 200
    [] code = "empty"   -> 500
    [] code = "garbled" -> 503
    [] code = "404"     -> 404
    [] code = "4xx"     -> 200
    [] code = "5xx"     -> 503

\* Fault: every error of the other service is passed off as a refusal.
Flattened(code) ==
  CASE code = "ok"      -> 200
    [] code = "empty"   -> 500
    [] code = "garbled" -> 502
    [] code = "404"     -> 404
    [] code = "4xx"     -> 502
    [] code = "5xx"     -> 502

\* How request() and the handler translate a reply.  An empty body of a 2xx
\* becomes null, whose `.status` throws (500); one that is no JSON is reported
\* as an unreachable service (503).
Translated(code) ==
  CASE code = "ok"      -> 200
    [] code = "empty"   -> 500
    [] code = "garbled" -> 503
    [] code = "404"     -> 404
    [] code = "4xx"     -> 502
    [] code = "5xx"     -> 503

Receive(c) ==
  /\ Waiting(c) /\ reply[c] # None
  /\ Say(c, Translated(reply[c].code), reply[c].status)
  /\ End(c)
  /\ UNCHANGED <<wire, reply, status, applied>>

\* The abort timer fires; the request is not taken back.
Timeout(c) ==
  /\ Waiting(c)
  /\ Say(c, 504, None) /\ End(c)
  /\ UNCHANGED <<wire, reply, status, applied>>

\* fetch() or the reading of the body rejects for another reason.
NetworkError(c) ==
  /\ Waiting(c)
  /\ Say(c, 503, None) /\ End(c)
  /\ UNCHANGED <<wire, reply, status, applied>>

\* The admin service dies: its callers get no answer.
Crash ==
  /\ call' = [c \in Calls |-> IF Waiting(c) THEN [call[c] EXCEPT !.pc = "ended"] ELSE call[c]]
  /\ UNCHANGED <<wire, reply, answer, status, applied>>
-----------------------------------------------------------------------------
(* The domain service, as its callers must expect it to behave.            *)

Lost(c) ==
  /\ c \in wire
  /\ wire' = wire \ {c}
  /\ UNCHANGED <<call, reply, answer, status, applied>>

Replies(c, code, state) ==
  /\ wire' = wire \ {c}
  /\ reply' = [reply EXCEPT ![c] = [code |-> code, status |-> state]]

\* The decision cannot be carried out, or the service fails before it is.
Refused(c) ==
  LET target == call[c].target IN
  /\ c \in wire
  /\ \/ status[target] = "absent" /\ Replies(c, "404", None)
     \/ /\ target \in Guarded /\ status[target] \in Decisions
        /\ Replies(c, "4xx", None)
     \/ Replies(c, "5xx", None)
  /\ UNCHANGED <<call, answer, status, applied>>

\* The decision is carried out; the reply may say so, with the new state or
\* without a `status`, or fail to.
CarriedOut(c) ==
  LET target == call[c].target IN
  /\ c \in wire
  /\ \/ status[target] = "awaiting"
     \/ status[target] \in Decisions /\ target \notin Guarded
  /\ status' = [status EXCEPT ![target] = call[c].decision]
  /\ applied' = applied \cup {c}
  /\ \/ \E said \in {call[c].decision, None} : Replies(c, "ok", said)
     \/ \E code \in {"empty", "garbled", "5xx"} : Replies(c, code, None)
  /\ UNCHANGED <<call, answer>>
-----------------------------------------------------------------------------
Init ==
  /\ call = [c \in Calls |-> None]
  /\ wire = {}
  /\ reply = [c \in Calls |-> None]
  /\ answer = [c \in Calls |-> None]
  /\ status \in [Targets -> {"awaiting", "absent"}]
  /\ applied = {}

Next ==
  \/ \E c \in Calls :
       \/ \E target \in Targets, action \in Actions, reasoned \in BOOLEAN :
            Submit(c, target, action, reasoned)
       \/ Receive(c) \/ Timeout(c) \/ NetworkError(c)
       \/ Lost(c) \/ Refused(c) \/ CarriedOut(c)
  \/ Crash

Spec == Init /\ [][Next]_vars
-----------------------------------------------------------------------------
TypeOK ==
  /\ call \in [Calls -> Call \cup {None}]
  /\ wire \subseteq Calls /\ applied \subseteq Calls
  /\ reply \in [Calls -> Reply \cup {None}]
  /\ answer \in [Calls -> Outcome \cup {None}]
  /\ status \in [Targets -> States]

Told(c, codes) == answer[c] # None /\ answer[c].code \in codes

\* Success is only reported for a decision that was carried out, and with no
\* state but the one that decision led to: the stubs this client replaced "made the admin
\* console report success for actions that never happened"
\* (internal-service.client.ts:30-33).
SuccessMeansCarriedOut ==
  \A c \in Calls : Told(c, {200}) =>
    c \in applied /\ answer[c].status \in {call[c].decision, None}

\* An answer that refuses (400, 404, 502) is final: the decision was not
\* carried out and no request is left that still could be
\* (internal-service.client.ts:87-101).
RefusalIsFinal ==
  \A c \in Calls : Told(c, {400, 404, 502}) => c \notin applied /\ c \notin wire

\* Where the service guards its transitions, what an operator was told to have
\* decided stays decided, whatever requests that timed out arrive later and
\* however often they were retried.
SuccessStands ==
  \A c \in Calls : Told(c, {200}) /\ call[c].target \in Guarded =>
    status[call[c].target] = call[c].decision
=============================================================================
