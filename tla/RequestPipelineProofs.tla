----------------------- MODULE RequestPipelineProofs -----------------------
(* Theorems of RequestPipeline, for every set of requests, routes,         *)
(* credentials and inbound request ids.                                    *)
EXTENDS RequestPipeline, TLAPS

\* What the guards and interceptors have established when the handler runs.
Admitted(r) ==
  /\ Authorized(sent[r]) /\ reqId[r] # None
  /\ user[r] # None \/ ~sent[r].route.public =>
       sent[r].cred # None /\ user[r] = sent[r].cred.sub

\* How far a request is, and what is known of it by then.
Progress ==
  \A r \in Requests :
    /\ phase[r] # "unsent" => sent[r] # None
    /\ Answered(r) <=> phase[r] = "done"
    /\ Answered(r) => answer[r].requestId = reqId[r]
    /\ phase[r] \in {"handler", "exporting"} => Admitted(r)
    /\ phase[r] = "exporting" => sent[r].route.export

\* A row under way or stored.
Entry(w) == w \in writing \/ \E i \in 1..Len(log) : log[i] = w

\* What gave request r the right to a row; it stays true once it is.
Earned(r) ==
  /\ phase[r] \in {"exporting", "done", "dead"}
  /\ sent[r] # None /\ sent[r].cred # None /\ user[r] = sent[r].cred.sub
  /\ Authorized(sent[r]) /\ reqId[r] # None
  /\ ~sent[r].route.export =>
       /\ sent[r].route.mutating /\ Succeeded(r)
       /\ r \in applied \/ sent[r].route.stub

EntriesEarned ==
  \A w \in Rows : Entry(w) => w = Row(w.request) /\ Earned(w.request)

\* No request has two rows, stored or under way.
EntriesOnce ==
  /\ \A i, j \in 1..Len(log) : log[i].request = log[j].request => i = j
  /\ \A w \in writing, i \in 1..Len(log) : log[i].request # w.request

\* The row of an export is on its way from the moment the handler waits for it.
ExportsRecord ==
  \A r \in Requests : phase[r] = "exporting" =>
    Recorded(r) \/ r \in lost \/ \E w \in writing : w.request = r

\* The inductive invariant.
RInv ==
  /\ TypeOK
  /\ Progress /\ EntriesEarned /\ EntriesOnce /\ ExportsRecord
  /\ LossNeedsAFault /\ ExportWaitsForItsRow
-----------------------------------------------------------------------------
\* The rows of the log are rows.
LEMMA LogRows ==
  ASSUME TypeOK, NEW i \in 1..Len(log) PROVE log[i] \in Rows /\ log[i].request \in Requests
<1>1. log \in Seq(Rows)
  BY DEF TypeOK
<1>2. log[i] \in Rows
  BY <1>1
<1>3. QED
  BY <1>2 DEF Rows

LEMMA RInvInit == Init => RInv
<1> SUFFICES ASSUME Init PROVE RInv
  OBVIOUS
<1>1. TypeOK
  BY DEF Init, TypeOK
<1>2. Progress
  BY DEF Init, Progress, Answered
<1>3. writing = {} /\ Len(log) = 0
  BY DEF Init
<1>4. EntriesEarned /\ EntriesOnce
  BY <1>3 DEF EntriesEarned, Entry, EntriesOnce
<1>5. ExportsRecord /\ LossNeedsAFault /\ ExportWaitsForItsRow
  BY DEF Init, ExportsRecord, LossNeedsAFault, ExportWaitsForItsRow, Answered, Succeeded
<1>6. QED
  BY <1>1, <1>2, <1>4, <1>5 DEF RInv

\* A step of request r that leaves the rows alone, and does not take it past
\* what is known of its rows, preserves what is said of rows.
LEMMA RowsUndisturbed ==
  ASSUME RInv, NEW r \in Requests, UNCHANGED <<writing, log, lost>>,
         phase[r] \in {"unsent", "guards", "handler"},
         \A x \in Requests \ {r} :
           UNCHANGED <<phase[x], sent[x], user[x], reqId[x], answer[x]>>,
         applied \subseteq applied',
         phase'[r] # "exporting", ~Succeeded(r)'
  PROVE  /\ EntriesEarned' /\ EntriesOnce' /\ ExportsRecord'
         /\ LossNeedsAFault' /\ ExportWaitsForItsRow'
<1>1. ASSUME NEW w \in Rows, Entry(w)'
      PROVE  (w = Row(w.request) /\ Earned(w.request))'
  <2>1. w = Row(w.request) /\ Earned(w.request) /\ w.request \in Requests
    BY <1>1 DEF RInv, EntriesEarned, Entry, Rows
  <2>2. w.request # r
    BY <2>1 DEF Earned
  <2>3. QED
    BY <2>1, <2>2 DEF Earned, Row, Succeeded, Answered
<1>2. EntriesEarned' /\ EntriesOnce'
  BY <1>1 DEF RInv, EntriesEarned, EntriesOnce
<1>3. ExportsRecord'
  BY DEF RInv, ExportsRecord, Recorded
<1>4. LossNeedsAFault' /\ ExportWaitsForItsRow'
  BY DEF RInv, LossNeedsAFault, ExportWaitsForItsRow, Succeeded, Answered, Audited, Recorded
<1>5. QED
  BY <1>2, <1>3, <1>4

LEMMA RInvSend ==
  ASSUME RInv, NEW r \in Requests, NEW s \in Sendings, Send(r, s) PROVE RInv'
<1>1. s # None
  BY NoneAssumption
<1>2. TypeOK'
  BY DEF Send, RInv, TypeOK
<1>3. ~Answered(r)
  BY DEF Send, RInv, Progress
<1>4. Progress'
  BY <1>1, <1>3 DEF Send, RInv, TypeOK, Progress, Answered, Admitted
<1>5. /\ EntriesEarned' /\ EntriesOnce' /\ ExportsRecord'
      /\ LossNeedsAFault' /\ ExportWaitsForItsRow'
  BY <1>3, RowsUndisturbed DEF Send, RInv, TypeOK, Succeeded, Answered
<1>6. QED
  BY <1>2, <1>4, <1>5 DEF RInv

\* A request that is refused, or fails, is answered without a row.
LEMMA RInvErrs ==
  ASSUME RInv, NEW r \in Requests, Refuse(r) \/ Fail(r) PROVE RInv'
<1>1. /\ phase[r] \in {"guards", "handler"}
      /\ phase' = [phase EXCEPT ![r] = "done"]
      /\ answer' = [answer EXCEPT ![r] = [ok |-> FALSE, requestId |-> reqId[r]]]
      /\ UNCHANGED <<sent, user, reqId, applied, writing, log, lost>>
  BY DEF Refuse, Fail
<1>2. [ok |-> FALSE, requestId |-> reqId[r]] \in Answers
  BY DEF RInv, TypeOK, Answers
<1>3. TypeOK'
  BY <1>1, <1>2 DEF RInv, TypeOK
<1>4. Answered(r)' /\ ~Succeeded(r)'
  BY <1>1, <1>2, NoneAssumption DEF RInv, TypeOK, Answered, Succeeded
<1>5. Progress'
  BY <1>1, <1>4 DEF RInv, TypeOK, Progress, Answered, Admitted
<1>6. /\ EntriesEarned' /\ EntriesOnce' /\ ExportsRecord'
      /\ LossNeedsAFault' /\ ExportWaitsForItsRow'
  BY <1>1, <1>4, RowsUndisturbed DEF RInv, TypeOK
<1>7. QED
  BY <1>3, <1>5, <1>6 DEF RInv

LEMMA RInvAdmit ==
  ASSUME RInv, NEW r \in Requests, Admit(r) PROVE RInv'
<1>1. /\ phase[r] = "guards" /\ phase' = [phase EXCEPT ![r] = "handler"]
      /\ Authenticated(sent[r]) /\ Authorized(sent[r])
      /\ user' = [user EXCEPT ![r] =
                    IF sent[r].route.public THEN None ELSE sent[r].cred.sub]
      /\ reqId' = [reqId EXCEPT ![r] = AssignedId(r)]
      /\ UNCHANGED <<sent, applied, answer, writing, log, lost>>
  BY DEF Admit
<1>2. sent[r] \in Sendings /\ ~Answered(r)
  BY <1>1 DEF RInv, TypeOK, Progress
<1>3. AssignedId(r) \in Requests \cup HeaderIds /\ AssignedId(r) # None
  BY <1>2, NoneAssumption DEF AssignedId, Sendings
<1>4. sent[r].route.public \/ (sent[r].cred # None /\ sent[r].cred \in Credentials)
  BY <1>1, <1>2 DEF Authenticated, Sendings
<1>5. TypeOK'
  BY <1>1, <1>3, <1>4 DEF RInv, TypeOK
<1>6. Progress'
  <2>1. Admitted(r)'
    BY <1>1, <1>3, <1>4 DEF Admitted, Authorized, RInv, TypeOK
  <2>2. QED
    BY <1>1, <1>2, <2>1 DEF RInv, TypeOK, Progress, Answered, Admitted, Authorized
<1>7. /\ EntriesEarned' /\ EntriesOnce' /\ ExportsRecord'
      /\ LossNeedsAFault' /\ ExportWaitsForItsRow'
  BY <1>1, <1>2, RowsUndisturbed DEF RInv, TypeOK, Succeeded, Answered
<1>8. QED
  BY <1>5, <1>6, <1>7 DEF RInv

LEMMA RInvApply ==
  ASSUME RInv, NEW r \in Requests, Apply(r) PROVE RInv'
<1>1. /\ phase[r] = "handler" /\ applied' = applied \cup {r}
      /\ UNCHANGED <<phase, sent, user, reqId, answer, writing, log, lost>>
  BY DEF Apply
<1>2. ~Answered(r)
  BY <1>1 DEF RInv, Progress
<1>3. TypeOK' /\ Progress'
  BY <1>1 DEF RInv, TypeOK, Progress, Answered, Admitted, Authorized
<1>4. /\ EntriesEarned' /\ EntriesOnce' /\ ExportsRecord'
      /\ LossNeedsAFault' /\ ExportWaitsForItsRow'
  BY <1>1, <1>2, RowsUndisturbed DEF Succeeded, Answered
<1>5. QED
  BY <1>3, <1>4 DEF RInv
-----------------------------------------------------------------------------
\* The row of an admitted request with a user is a row.
LEMMA RowType ==
  ASSUME RInv, NEW r \in Requests, phase[r] \in {"handler", "exporting"},
         user[r] # None \/ ~sent[r].route.public
  PROVE  /\ Row(r) \in Rows /\ Row(r).request = r
         /\ sent[r] # None /\ sent[r].cred # None /\ user[r] = sent[r].cred.sub
         /\ Authorized(sent[r]) /\ reqId[r] # None
<1>1. Admitted(r) /\ sent[r] # None
  BY DEF RInv, Progress
<1>2. sent[r] \in Sendings /\ sent[r].cred \in Credentials
  BY <1>1 DEF Admitted, RInv, TypeOK, Sendings
<1>3. QED
  BY <1>1, <1>2 DEF Admitted, RInv, TypeOK, Row, Rows

\* A request has no row before its handler has returned or starts to export.
LEMMA NoRowYet ==
  ASSUME RInv, NEW r \in Requests,
         \/ phase[r] = "handler"
         \/ phase[r] = "exporting" /\ \A w \in writing : w.request # r
  PROVE  /\ \A w \in writing : w.request # r
         /\ phase[r] = "handler" => \A i \in 1..Len(log) : log[i].request # r
<1>1. CASE phase[r] = "handler"
  <2>1. ~Earned(r)
    BY <1>1 DEF Earned
  <2>2. writing \subseteq Rows
    BY DEF RInv, TypeOK
  <2>3. \A i \in 1..Len(log) : log[i] \in Rows
    BY LogRows DEF RInv
  <2>4. QED
    BY <2>1, <2>2, <2>3 DEF RInv, EntriesEarned, Entry
<1>2. CASE phase[r] = "exporting" /\ \A w \in writing : w.request # r
  BY <1>2
<1>3. QED
  BY <1>1, <1>2

LEMMA RInvExport ==
  ASSUME RInv, NEW r \in Requests, ExportRecord(r) PROVE RInv'
<1>1. /\ phase[r] = "handler" /\ sent[r].route.export
      /\ phase' = [phase EXCEPT ![r] = "exporting"]
      /\ writing' = writing \cup {Row(r)}
      /\ UNCHANGED <<sent, user, reqId, applied, answer, log, lost>>
  BY DEF ExportRecord
<1>2. ~sent[r].route.public /\ ~Answered(r)
  <2>1. sent[r] \in Sendings
    BY <1>1 DEF RInv, TypeOK, Progress
  <2>2. QED
    BY <1>1, <2>1, RouteAssumption DEF Sendings, RInv, Progress
<1>3. /\ Row(r) \in Rows /\ Row(r).request = r
      /\ sent[r] # None /\ sent[r].cred # None /\ user[r] = sent[r].cred.sub
      /\ Authorized(sent[r]) /\ reqId[r] # None
  BY <1>1, <1>2, RowType
<1>4. /\ \A w \in writing : w.request # r
      /\ \A i \in 1..Len(log) : log[i].request # r
  BY <1>1, NoRowYet
<1>5. TypeOK'
  BY <1>1, <1>3 DEF RInv, TypeOK
<1>6. Progress'
  BY <1>1, <1>2 DEF RInv, TypeOK, Progress, Answered, Admitted, Authorized
<1>7. EntriesEarned'
  <2> SUFFICES ASSUME NEW w \in Rows, Entry(w)'
               PROVE  (w = Row(w.request) /\ Earned(w.request))'
    BY DEF EntriesEarned
  <2>1. CASE w = Row(r)
    BY <1>1, <1>3, <2>1 DEF RInv, TypeOK, Earned, Row, Authorized
  <2>2. CASE w # Row(r)
    <3>1. w = Row(w.request) /\ Earned(w.request) /\ w.request \in Requests
      BY <1>1, <2>2 DEF RInv, EntriesEarned, Entry, Rows
    <3>2. QED
      BY <1>1, <3>1 DEF RInv, TypeOK, Earned, Row, Authorized, Succeeded, Answered
  <2>3. QED
    BY <2>1, <2>2
<1>8. EntriesOnce'
  BY <1>1, <1>3, <1>4 DEF RInv, EntriesOnce
<1>9. ExportsRecord'
  BY <1>1, <1>3 DEF RInv, TypeOK, ExportsRecord, Recorded
<1>10. LossNeedsAFault' /\ ExportWaitsForItsRow'
  BY <1>1 DEF RInv, LossNeedsAFault, ExportWaitsForItsRow, Succeeded, Answered, Audited, Recorded
<1>11. QED
  BY <1>5, <1>6, <1>7, <1>8, <1>9, <1>10 DEF RInv

\* The handler has returned: the answer goes out and the audit INSERT starts.
LEMMA RInvSucceed ==
  ASSUME RInv, NEW r \in Requests, Succeed(r) PROVE RInv'
<1>1. /\ phase' = [phase EXCEPT ![r] = "done"]
      /\ answer' = [answer EXCEPT ![r] = [ok |-> TRUE, requestId |-> reqId[r]]]
      /\ writing' = IF Audited(r) THEN writing \cup {Row(r)} ELSE writing
      /\ UNCHANGED <<sent, user, reqId, applied, log, lost>>
  BY DEF Succeed
<1>2. \/ /\ phase[r] = "handler" /\ ~sent[r].route.export
         /\ sent[r].route.mutating /\ ~sent[r].route.stub => r \in applied
      \/ /\ phase[r] = "exporting" /\ sent[r].route.export /\ ~sent[r].route.mutating
         /\ \A w \in writing : w.request # r
  <2>1. Completed(r)
    BY DEF Succeed
  <2>2. CASE phase[r] = "handler"
    BY <2>1, <2>2 DEF Completed
  <2>3. CASE phase[r] = "exporting"
    <3>1. sent[r] \in Sendings /\ sent[r].route.export
      BY <2>3 DEF RInv, TypeOK, Progress
    <3>2. QED
      BY <2>1, <2>3, <3>1, RouteAssumption DEF Completed, Sendings
  <2>4. QED
    BY <2>1, <2>2, <2>3 DEF Completed
<1>3. [ok |-> TRUE, requestId |-> reqId[r]] \in Answers
  BY DEF RInv, TypeOK, Answers
<1>4. /\ answer' \in [Requests -> Answers \cup {None}]
      /\ Answered(r)' /\ Succeeded(r)' /\ answer'[r].requestId = reqId[r]
      /\ \A x \in Requests \ {r} : answer'[x] = answer[x]
  BY <1>1, <1>3, NoneAssumption DEF RInv, TypeOK, Answered, Succeeded
<1>5. Audited(r) =>
        /\ phase[r] = "handler" /\ ~sent[r].route.export /\ sent[r].route.mutating
        /\ Row(r) \in Rows /\ Row(r).request = r
        /\ sent[r] # None /\ sent[r].cred # None /\ user[r] = sent[r].cred.sub
        /\ Authorized(sent[r]) /\ reqId[r] # None
  BY <1>2, RowType DEF Audited
<1>6. /\ \A w \in writing : w.request # r
      /\ phase[r] = "handler" => \A i \in 1..Len(log) : log[i].request # r
  BY <1>2, NoRowYet
<1>7. TypeOK'
  BY <1>1, <1>4, <1>5 DEF RInv, TypeOK
<1>8. Progress'
  BY <1>1, <1>2, <1>4 DEF RInv, TypeOK, Progress, Answered, Admitted, Authorized
<1>9. EntriesEarned'
  <2> SUFFICES ASSUME NEW w \in Rows, Entry(w)'
               PROVE  (w = Row(w.request) /\ Earned(w.request))'
    BY DEF EntriesEarned
  <2>1. CASE Audited(r) /\ w = Row(r)
    <3>1. sent[r].route.stub \/ r \in applied
      BY <1>2, <1>5, <2>1
    <3>2. QED
      BY <1>1, <1>4, <1>5, <2>1, <3>1 DEF RInv, TypeOK, Earned, Row, Authorized
  <2>2. CASE ~(Audited(r) /\ w = Row(r))
    <3>1. w = Row(w.request) /\ Earned(w.request) /\ w.request \in Requests
      BY <1>1, <2>2 DEF RInv, EntriesEarned, Entry, Rows
    <3>2. phase'[w.request] \in {"exporting", "done", "dead"}
      BY <1>1, <3>1 DEF RInv, TypeOK, Earned
    <3>3. Succeeded(w.request) => Succeeded(w.request)'
      BY <1>4, <3>1 DEF Succeeded, Answered
    <3>4. QED
      BY <1>1, <3>1, <3>2, <3>3 DEF Earned, Row, Authorized
  <2>3. QED
    BY <2>1, <2>2
<1>10. EntriesOnce'
  BY <1>1, <1>5, <1>6 DEF RInv, EntriesOnce
<1>11. ExportsRecord'
  BY <1>1 DEF RInv, TypeOK, ExportsRecord, Recorded
<1>12. LossNeedsAFault'
  <2> SUFFICES ASSUME NEW x \in Requests, Succeeded(x)', Audited(x)'
               PROVE  (Recorded(x) \/ x \in lost \/ \E w \in writing : w.request = x)'
    BY DEF LossNeedsAFault
  <2>1. Audited(x)
    BY <1>1 DEF Audited
  <2>2. CASE x = r
    BY <1>1, <1>5, <2>1, <2>2
  <2>3. CASE x # r
    BY <1>1, <1>4, <2>1, <2>3 DEF RInv, LossNeedsAFault, Succeeded, Answered, Recorded
  <2>4. QED
    BY <2>2, <2>3
<1>13. ExportWaitsForItsRow'
  <2> SUFFICES ASSUME NEW x \in Requests, Succeeded(x)', sent'[x].route.export
               PROVE  (Recorded(x) \/ x \in lost)'
    BY DEF ExportWaitsForItsRow
  <2>1. CASE x = r
    BY <1>1, <1>2, <2>1 DEF RInv, ExportsRecord, Recorded
  <2>2. CASE x # r
    BY <1>1, <1>4, <2>2 DEF RInv, ExportWaitsForItsRow, Succeeded, Answered, Recorded
  <2>3. QED
    BY <2>1, <2>2
<1>14. QED
  BY <1>7, <1>8, <1>9, <1>10, <1>11, <1>12, <1>13 DEF RInv
-----------------------------------------------------------------------------
\* An INSERT succeeds ...
LEMMA RInvStored ==
  ASSUME RInv, NEW w \in writing, AuditStored(w) PROVE RInv'
<1>1. /\ writing' = writing \ {w} /\ log' = Append(log, w)
      /\ UNCHANGED <<phase, sent, user, reqId, applied, answer, lost>>
  BY DEF AuditStored
<1>2. w \in Rows /\ w.request \in Requests /\ log \in Seq(Rows)
  BY DEF RInv, TypeOK, Rows
<1>3. /\ log' \in Seq(Rows) /\ Len(log') = Len(log) + 1 /\ log'[Len(log) + 1] = w
      /\ \A i \in 1..Len(log) : log'[i] = log[i]
  BY <1>1, <1>2
<1>4. TypeOK' /\ Progress'
  BY <1>1, <1>3 DEF RInv, TypeOK, Progress, Answered, Admitted, Authorized
<1>5. \A x \in Rows : Entry(x)' => Entry(x)
  BY <1>1, <1>2, <1>3 DEF Entry
<1>6. EntriesEarned'
  BY <1>1, <1>5 DEF RInv, EntriesEarned, Earned, Row, Authorized, Succeeded, Answered
<1>7. EntriesOnce'
  <2>1. \A i \in 1..Len(log) : log[i].request # w.request
    BY DEF RInv, EntriesOnce
  <2>2. \A i, j \in 1..Len(log') : log'[i].request = log'[j].request => i = j
    BY <1>2, <1>3, <2>1 DEF RInv, EntriesOnce
  <2>3. \A x \in writing' : x.request # w.request
    <3>1. \A x \in writing : x = Row(x.request)
      BY DEF RInv, TypeOK, EntriesEarned, Entry
    <3>2. QED
      BY <1>1, <3>1
  <2>4. \A x \in writing', i \in 1..Len(log') : log'[i].request # x.request
    BY <1>1, <1>2, <1>3, <2>3 DEF RInv, EntriesOnce
  <2>5. QED
    BY <2>2, <2>4 DEF EntriesOnce
<1>8. /\ \A r \in Requests : Recorded(r) => Recorded(r)'
      /\ Recorded(w.request)'
  BY <1>2, <1>3 DEF Recorded
<1>9. ExportsRecord' /\ LossNeedsAFault' /\ ExportWaitsForItsRow'
  BY <1>1, <1>8 DEF RInv, ExportsRecord, LossNeedsAFault, ExportWaitsForItsRow, Succeeded,
                    Answered, Audited
<1>10. QED
  BY <1>4, <1>6, <1>7, <1>9 DEF RInv

\* ... or rows are given up: one whose INSERT fails, or all under way when the
\* process dies, together with the requests in flight.
LEMMA RInvGivenUp ==
  ASSUME RInv, writing' \subseteq writing,
         lost' = lost \cup {w.request : w \in writing \ writing'},
         phase' \in [Requests -> {"unsent", "guards", "handler", "exporting", "done", "dead"}],
         \A r \in Requests : \/ phase'[r] = phase[r]
                             \/ phase'[r] = "dead" /\ r \in InFlight,
         UNCHANGED <<sent, user, reqId, applied, answer, log>>
  PROVE  RInv'
<1>1. TypeOK'
  BY DEF RInv, TypeOK, Rows
<1>2. Progress'
  BY DEF RInv, TypeOK, Progress, Answered, Admitted, Authorized, InFlight
<1>3. EntriesEarned'
  <2> SUFFICES ASSUME NEW w \in Rows, Entry(w)'
               PROVE  (w = Row(w.request) /\ Earned(w.request))'
    BY DEF EntriesEarned
  <2>1. w = Row(w.request) /\ Earned(w.request) /\ w.request \in Requests
    BY DEF RInv, EntriesEarned, Entry, Rows
  <2>2. QED
    BY <2>1 DEF Earned, Row, Authorized, Succeeded, Answered
<1>4. EntriesOnce'
  BY DEF RInv, EntriesOnce
<1>5. ExportsRecord' /\ LossNeedsAFault' /\ ExportWaitsForItsRow'
  BY DEF RInv, ExportsRecord, LossNeedsAFault, ExportWaitsForItsRow, Succeeded,
         Answered, Audited, Recorded
<1>6. QED
  BY <1>1, <1>2, <1>3, <1>4, <1>5 DEF RInv

LEMMA RInvFails ==
  ASSUME RInv, NEW w \in writing, AuditFails(w) PROVE RInv'
<1>1. /\ writing' \subseteq writing
      /\ lost' = lost \cup {x.request : x \in writing \ writing'}
  BY DEF AuditFails
<1>2. QED
  BY <1>1, RInvGivenUp DEF AuditFails, RInv, TypeOK

LEMMA RInvCrash == ASSUME RInv, Crash PROVE RInv'
<1>1. /\ writing' \subseteq writing
      /\ lost' = lost \cup {x.request : x \in writing \ writing'}
  BY DEF Crash
<1>2. /\ phase' \in [Requests -> {"unsent", "guards", "handler", "exporting", "done", "dead"}]
      /\ \A r \in Requests : phase'[r] = phase[r] \/ (phase'[r] = "dead" /\ r \in InFlight)
  BY DEF Crash, RInv, TypeOK
<1>3. QED
  BY <1>1, <1>2, RInvGivenUp DEF Crash
-----------------------------------------------------------------------------
LEMMA RInvNext == RInv /\ [Next]_vars => RInv'
<1> SUFFICES ASSUME RInv, [Next]_vars PROVE RInv'
  OBVIOUS
<1>1. CASE UNCHANGED vars
  <2>1. UNCHANGED <<phase, sent, user, reqId, applied, answer, log>> /\ writing' \subseteq writing
        /\ lost' = lost \cup {w.request : w \in writing \ writing'}
    BY <1>1 DEF vars
  <2>2. QED
    BY <2>1, RInvGivenUp DEF RInv, TypeOK
<1>2. ASSUME NEW r \in Requests, Serve(r) PROVE RInv'
  BY <1>2, RInvErrs, RInvAdmit, RInvApply, RInvExport, RInvSucceed DEF Serve
<1>3. ASSUME NEW r \in Requests, NEW s \in Sendings, Send(r, s) PROVE RInv'
  BY <1>3, RInvSend
<1>4. ASSUME NEW w \in writing, AuditStored(w) \/ AuditFails(w) PROVE RInv'
  BY <1>4, RInvStored, RInvFails
<1>5. CASE Crash
  BY <1>5, RInvCrash
<1>6. QED
  BY <1>1, <1>2, <1>3, <1>4, <1>5 DEF Next

LEMMA RInvHolds == Spec => []RInv
BY RInvInit, RInvNext, PTL DEF Spec

\* Every reachable state is well typed.
THEOREM TypeCorrect == Spec => []TypeOK
<1>1. RInv => TypeOK
  BY DEF RInv
<1>2. QED
  BY <1>1, RInvHolds, PTL

\* An audit row tells of an authorized request under the id its client was
\* answered with, exports apart of a mutation that succeeded, and there is one
\* per request at most, whatever fails or dies (audit.interceptor.ts:12-43).
THEOREM RowsAreTrue == Spec => []RowsTellTheTruth
<1>1. RInv => RowsTellTheTruth
  <2> SUFFICES ASSUME RInv, NEW i \in 1..Len(log)
               PROVE  LET w == log[i]
                          r == w.request
                      IN /\ sent[r].cred # None /\ w.actor = sent[r].cred.sub
                         /\ Authorized(sent[r])
                         /\ w.requestId # None
                         /\ Answered(r) => answer[r].requestId = w.requestId
                         /\ ~sent[r].route.export =>
                              /\ sent[r].route.mutating /\ Succeeded(r)
                              /\ r \in applied \/ sent[r].route.stub
                         /\ \A j \in 1..Len(log) : log[j].request = r => i = j
    BY DEF RowsTellTheTruth
  <2>1. log[i] \in Rows /\ log[i].request \in Requests
    BY LogRows DEF RInv
  <2>2. log[i] = Row(log[i].request) /\ Earned(log[i].request)
    BY <2>1 DEF RInv, EntriesEarned, Entry
  <2>3. log[i].actor = user[log[i].request] /\ log[i].requestId = reqId[log[i].request]
    BY <2>2 DEF Row
  <2>4. QED
    BY <2>1, <2>2, <2>3 DEF Earned, RInv, Progress, EntriesOnce
<1>2. QED
  BY <1>1, RInvHolds, PTL

\* A mutation that succeeded goes without a row only after a fault
\* (audit.interceptor.ts:32).
THEOREM LossIsAFault == Spec => []LossNeedsAFault
<1>1. RInv => LossNeedsAFault
  BY DEF RInv
<1>2. QED
  BY <1>1, RInvHolds, PTL

\* An export is answered only once its own row is stored or has failed
\* (audit.controller.ts:41-51).
THEOREM ExportsWait == Spec => []ExportWaitsForItsRow
<1>1. RInv => ExportWaitsForItsRow
  BY DEF RInv
<1>2. QED
  BY <1>1, RInvHolds, PTL
=============================================================================
