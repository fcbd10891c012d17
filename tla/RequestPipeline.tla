-------------------------- MODULE RequestPipeline --------------------------
(* What happens to every HTTP request around its handler: the two global   *)
(* guards, the three global interceptors, the exception filter, and the    *)
(* audit row that AuditInterceptor starts to write once the handler has    *)
(* succeeded and does not wait for.                                        *)
(*                                                                         *)
(* NestJS runs the guards, then the interceptors from the outside in       *)
(* (AuditInterceptor, RequestIdInterceptor, TransformInterceptor), then    *)
(* the handler, and what a guard throws never meets an interceptor.        *)
EXTENDS Naturals, Sequences

CONSTANTS
  Requests,     \* the requests clients send, one identity each
  Routes,       \* [mutating, public, stub, export: BOOLEAN, needs: set]
  Credentials,  \* what a bearer token says: [sub, perms]
  HeaderIds,    \* inbound X-Request-Id values
  Permissions,
  Adjust, Capped,  \* 'wallet.adjust' and 'wallet.adjust:capped'
  None

Route == [mutating: BOOLEAN, public: BOOLEAN, stub: BOOLEAN, export: BOOLEAN,
          needs: SUBSET Permissions]

ASSUME RouteAssumption ==
  /\ Routes \subseteq Route
  /\ \A route \in Routes : route.export => ~route.mutating /\ ~route.public
  /\ \A cred \in Credentials : cred.perms \subseteq Permissions

VARIABLES
  phase,    \* where each request is
  sent,     \* what the client sent: [route, cred, header], or None
  user,     \* req.user
  reqId,    \* req.requestId
  applied,  \* requests whose handler has committed its change
  answer,   \* the response: [ok: BOOLEAN, requestId], or None
  writing,  \* audit rows whose INSERT is under way
  log,      \* audit_logs, in the order of created_at
  lost      \* history: requests whose audit row failed or died with the process

vars == <<phase, sent, user, reqId, applied, answer, writing, log, lost>>

\* The row for request r (action and target follow from the route).
Row(r) == [request |-> r, actor |-> user[r], requestId |-> reqId[r]]
-----------------------------------------------------------------------------
\* `wallet.adjust` implies the capped variant.
HasPermission(granted, required) ==
  required \in granted \/ (required = Capped /\ Adjust \in granted)

\* JwtAuthGuard: a public route needs no token, and gets no user.
Authenticated(s) == s.route.public \/ s.cred # None

\* PermissionsGuard: one of the listed permissions is enough.
Authorized(s) ==
  \/ s.route.needs = {}
  \/ s.cred # None /\ \E p \in s.route.needs : HasPermission(s.cred.perms, p)

\* Fault: no id is made up for a request that brings none.
HeaderId(r) == sent[r].header

\* RequestIdInterceptor: the inbound id, or a fresh one (here: the request).
AssignedId(r) == IF sent[r].header # None THEN sent[r].header ELSE r
-----------------------------------------------------------------------------
Send(r, s) ==
  /\ phase[r] = "unsent"
  /\ phase' = [phase EXCEPT ![r] = "guards"]
  /\ sent' = [sent EXCEPT ![r] = s]
  /\ UNCHANGED <<user, reqId, applied, answer, writing, log, lost>>

\* A guard throws 401 or 403; the filter answers with req.requestId, which no
\* interceptor has set yet.
Refuse(r) ==
  /\ phase[r] = "guards"
  /\ ~(Authenticated(sent[r]) /\ Authorized(sent[r]))
  /\ phase' = [phase EXCEPT ![r] = "done"]
  /\ answer' = [answer EXCEPT ![r] = [ok |-> FALSE, requestId |-> reqId[r]]]
  /\ UNCHANGED <<sent, user, reqId, applied, writing, log, lost>>

\* Both guards pass, the interceptors are entered and the handler starts.
Admit(r) ==
  /\ phase[r] = "guards"
  /\ Authenticated(sent[r]) /\ Authorized(sent[r])
  /\ phase' = [phase EXCEPT ![r] = "handler"]
  /\ user' = [user EXCEPT ![r] =
                IF sent[r].route.public THEN None ELSE sent[r].cred.sub]
  /\ reqId' = [reqId EXCEPT ![r] = AssignedId(r)]
  /\ UNCHANGED <<sent, applied, answer, writing, log, lost>>

\* The handler of a mutating route commits its change, in the admin database
\* or at a domain service.
Apply(r) ==
  /\ phase[r] = "handler" /\ r \notin applied
  /\ sent[r].route.mutating /\ ~sent[r].route.stub
  /\ applied' = applied \cup {r}
  /\ UNCHANGED <<phase, sent, user, reqId, answer, writing, log, lost>>

\* GET /admin/audit/export records itself and waits for the INSERT.
ExportRecord(r) ==
  /\ phase[r] = "handler" /\ sent[r].route.export
  /\ phase' = [phase EXCEPT ![r] = "exporting"]
  /\ writing' = writing \cup {Row(r)}
  /\ UNCHANGED <<sent, user, reqId, applied, answer, log, lost>>

\* Fault: record() lets the export fail with its INSERT.
CompletedWhenRecorded(r) ==
  \/ /\ phase[r] = "handler" /\ ~sent[r].route.export
     /\ sent[r].route.mutating /\ ~sent[r].route.stub => r \in applied
  \/ phase[r] = "exporting" /\ \E i \in 1..Len(log) : log[i].request = r

\* Fault: the export does not wait for its INSERT.
CompletedAtOnce(r) ==
  \/ /\ phase[r] = "handler" /\ ~sent[r].route.export
     /\ sent[r].route.mutating /\ ~sent[r].route.stub => r \in applied
  \/ phase[r] = "exporting"

\* The handler has returned what it had to do.
Completed(r) ==
  \/ /\ phase[r] = "handler" /\ ~sent[r].route.export
     /\ sent[r].route.mutating /\ ~sent[r].route.stub => r \in applied
  \/ phase[r] = "exporting" /\ \A w \in writing : w.request # r

\* AuditInterceptor audits mutations of an authenticated admin.
Audited(r) == sent[r].route.mutating /\ user[r] # None

\* Fault: a row is only started when no other INSERT is under way.
SucceedOneAtATime(r) ==
  /\ Completed(r)
  /\ phase' = [phase EXCEPT ![r] = "done"]
  /\ answer' = [answer EXCEPT ![r] = [ok |-> TRUE, requestId |-> reqId[r]]]
  /\ writing' = IF Audited(r) /\ writing = {} THEN {Row(r)} ELSE writing
  /\ UNCHANGED <<sent, user, reqId, applied, log, lost>>

\* The handler's value passes the interceptors on its way out: tap() starts
\* the audit INSERT without awaiting it, and the response is sent.
Succeed(r) ==
  /\ Completed(r)
  /\ phase' = [phase EXCEPT ![r] = "done"]
  /\ answer' = [answer EXCEPT ![r] = [ok |-> TRUE, requestId |-> reqId[r]]]
  /\ writing' = IF Audited(r) THEN writing \cup {Row(r)} ELSE writing
  /\ UNCHANGED <<sent, user, reqId, applied, log, lost>>

\* Fault: the row is written when the stream ends, in error too.
FailAudited(r) ==
  /\ phase[r] = "handler" /\ ~sent[r].route.export
  /\ phase' = [phase EXCEPT ![r] = "done"]
  /\ answer' = [answer EXCEPT ![r] = [ok |-> FALSE, requestId |-> reqId[r]]]
  /\ writing' = IF Audited(r) THEN writing \cup {Row(r)} ELSE writing
  /\ UNCHANGED <<sent, user, reqId, applied, log, lost>>

\* The handler throws, before or after its change was committed; tap() does
\* not run for an error and the filter answers.  (The export handler cannot
\* throw: record() swallows what its INSERT throws.)
Fail(r) ==
  /\ phase[r] = "handler" /\ ~sent[r].route.export
  /\ phase' = [phase EXCEPT ![r] = "done"]
  /\ answer' = [answer EXCEPT ![r] = [ok |-> FALSE, requestId |-> reqId[r]]]
  /\ UNCHANGED <<sent, user, reqId, applied, writing, log, lost>>

\* AuditService.record: the INSERT succeeds ...
AuditStored(w) ==
  /\ w \in writing
  /\ writing' = writing \ {w}
  /\ log' = Append(log, w)
  /\ UNCHANGED <<phase, sent, user, reqId, applied, answer, lost>>

\* ... or fails, and the error is swallowed.
AuditFails(w) ==
  /\ w \in writing
  /\ writing' = writing \ {w}
  /\ lost' = lost \cup {w.request}
  /\ UNCHANGED <<phase, sent, user, reqId, applied, answer, log>>

InFlight == {r \in Requests : phase[r] \in {"guards", "handler", "exporting"}}

\* The process dies: requests in flight are never answered and INSERTs not
\* yet sent are gone.
Crash ==
  /\ phase' = [r \in Requests |-> IF r \in InFlight THEN "dead" ELSE phase[r]]
  /\ writing' = {}
  /\ lost' = lost \cup {w.request : w \in writing}
  /\ UNCHANGED <<sent, user, reqId, applied, answer, log>>
-----------------------------------------------------------------------------
Init ==
  /\ phase = [r \in Requests |-> "unsent"]
  /\ sent = [r \in Requests |-> None]
  /\ user = [r \in Requests |-> None]
  /\ reqId = [r \in Requests |-> None]
  /\ applied = {}
  /\ answer = [r \in Requests |-> None]
  /\ writing = {}
  /\ log = <<>>
  /\ lost = {}

Sendings == [route: Routes, cred: Credentials \cup {None},
             header: HeaderIds \cup {None}]

Serve(r) == Refuse(r) \/ Admit(r) \/ Apply(r) \/ ExportRecord(r) \/ Succeed(r) \/ Fail(r)

Next ==
  \/ \E r \in Requests : Serve(r) \/ \E s \in Sendings : Send(r, s)
  \/ \E w \in writing : AuditStored(w) \/ AuditFails(w)
  \/ Crash

Spec == Init /\ [][Next]_vars

\* A request that reached the server is worked on to its answer ...
Service == \A r \in Requests : WF_vars(Serve(r))
\* ... and an INSERT ends, one way or the other, by the database's timeouts.
Storage == \A r \in Requests :
  WF_vars(\E w \in writing : w.request = r /\ (AuditStored(w) \/ AuditFails(w)))

FairSpec == Spec /\ Service /\ Storage
-----------------------------------------------------------------------------
Answers == [ok: BOOLEAN, requestId: Requests \cup HeaderIds \cup {None}]
Rows == [request: Requests, actor: {cred.sub : cred \in Credentials},
         requestId: Requests \cup HeaderIds]

\* None is a value of its own.
ASSUME NoneAssumption ==
  None \notin Requests \cup HeaderIds \cup Credentials \cup Sendings \cup Answers

TypeOK ==
  /\ phase \in [Requests -> {"unsent", "guards", "handler", "exporting", "done", "dead"}]
  /\ sent \in [Requests -> Sendings \cup {None}]
  /\ user \in [Requests -> {cred.sub : cred \in Credentials} \cup {None}]
  /\ reqId \in [Requests -> Requests \cup HeaderIds \cup {None}]
  /\ applied \subseteq Requests
  /\ answer \in [Requests -> Answers \cup {None}]
  /\ writing \subseteq Rows
  /\ log \in Seq(Rows)
  /\ lost \subseteq Requests

Recorded(r) == \E i \in 1..Len(log) : log[i].request = r
Answered(r) == answer[r] # None
Succeeded(r) == Answered(r) /\ answer[r].ok

\* An audit row only ever tells of a request whose actor held the permission,
\* under the id its client was answered with although AuditInterceptor wraps
\* RequestIdInterceptor, and, exports apart, of a mutation that succeeded.  No
\* request has two: the export, which audits itself, is not also audited by the
\* interceptor (audit.interceptor.ts:12-43).
RowsTellTheTruth ==
  \A i \in 1..Len(log) :
    LET w == log[i]
        r == w.request
    IN /\ sent[r].cred # None /\ w.actor = sent[r].cred.sub /\ Authorized(sent[r])
       /\ w.requestId # None
       /\ Answered(r) => answer[r].requestId = w.requestId
       /\ ~sent[r].route.export =>
            /\ sent[r].route.mutating /\ Succeeded(r)
            /\ r \in applied \/ sent[r].route.stub
       /\ \A j \in 1..Len(log) : log[j].request = r => i = j

\* Without a failed INSERT or a crash no audited success goes without a row
\* (audit.interceptor.ts:32).
LossNeedsAFault ==
  \A r \in Requests : Succeeded(r) /\ Audited(r) =>
    \/ Recorded(r)
    \/ \E w \in writing : w.request = r
    \/ r \in lost

\* An export is only answered when its row is stored, or its INSERT failed
\* (audit.controller.ts:41-51).
ExportWaitsForItsRow ==
  \A r \in Requests : Answered(r) /\ Succeeded(r) /\ sent[r].route.export =>
    Recorded(r) \/ r \in lost

\* Every request is answered unless the process dies, however the audit
\* writes end (audit.service.ts:36-38).
EveryRequestEnds ==
  \A r \in Requests : phase[r] = "guards" ~> phase[r] \in {"done", "dead"}

\* audit.interceptor.ts:11: "after any successful mutation by an authenticated
\* admin, write an AuditLog row".
SuccessIsAudited ==
  \A r \in Requests : Succeeded(r) /\ Audited(r) ~> Recorded(r)

\* domain-exception.filter.ts:13: the error envelope the console expects has
\* "code", "message" and "requestId".
ErrorsCarryRequestId ==
  \A r \in Requests : Answered(r) /\ ~Succeeded(r) => answer[r].requestId # None
=============================================================================
