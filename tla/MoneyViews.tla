----------------------------- MODULE MoneyViews -----------------------------
(* The same money seen through several endpoints: a refund within its      *)
(* payment and in the list of refunds; payouts in their list, as a host's  *)
(* earnings and as the dashboard's backlog; payments in their list and as  *)
(* GMV.  The rows are the payment and payout services' (external), in      *)
(* thousandths of a rupee; what the admin service shows is in paise.       *)
EXTENDS Integers, FiniteSets, FiniteSetsExt

CONSTANTS
  Payments, Payouts, Payees, \* Payees: hosts that are paid
  Amounts,  \* amounts there are
  None      \* no value, no row

VARIABLES
  payments, \* per payment its [status, amount, refunded, refundId, refundedAt]
  payouts   \* per payout its [status, amount, owner], or None before it is made

vars == <<payments, payouts>>
-----------------------------------------------------------------------------
(* The payment and payout services.                                        *)
Init ==
  /\ payments \in [Payments -> [status: {"created"}, amount: Amounts, refunded: {0},
                                refundId: {None}, refundedAt: {None}]]
  /\ payouts = [p \in Payouts |-> None]

Capture(p) ==
  /\ payments[p].status = "created"
  /\ payments' = [payments EXCEPT ![p].status = "captured"]
  /\ UNCHANGED payouts

\* A refund of some amount is begun; the gateway has yet to name it.
BeginRefund(p) ==
  /\ payments[p].status = "captured" /\ payments[p].refunded = 0
  /\ \E amount \in {a \in Amounts : a <= payments[p].amount} :
       payments' = [payments EXCEPT ![p].refunded = amount]
  /\ UNCHANGED payouts

NameRefund(p) ==
  /\ payments[p].refunded > 0 /\ payments[p].refundId = None
  /\ payments' = [payments EXCEPT ![p].refundId = "gateway"]
  /\ UNCHANGED payouts

EndRefund(p) ==
  /\ payments[p].refundId # None /\ payments[p].refundedAt = None
  /\ payments' = [payments EXCEPT
       ![p].refundedAt = "refunded",
       ![p].status = IF payments[p].refunded = payments[p].amount
                     THEN "refunded" ELSE "partially_refunded"]
  /\ UNCHANGED payouts

MakePayout(p) ==
  /\ payouts[p] = None
  /\ \E owner \in Payees, amount \in Amounts :
       payouts' = [payouts EXCEPT
         ![p] = [status |-> "queued", amount |-> amount, owner |-> owner]]
  /\ UNCHANGED payments

MovePayout(p) ==
  /\ payouts[p] # None
  /\ \E status \in CASE payouts[p].status = "queued" -> {"processing"}
                     [] payouts[p].status = "processing" -> {"completed", "failed"}
                     [] payouts[p].status = "completed" -> {"reversed"}
                     [] payouts[p].status = "failed" -> {"queued"}
                     [] OTHER -> {} :
       payouts' = [payouts EXCEPT ![p].status = status]
  /\ UNCHANGED payments

Next ==
  \/ \E p \in Payments : Capture(p) \/ BeginRefund(p) \/ NameRefund(p) \/ EndRefund(p)
  \/ \E p \in Payouts : MakePayout(p) \/ MovePayout(p)

Spec == Init /\ [][Next]_vars
-----------------------------------------------------------------------------
(* The admin service.                                                      *)

\* Math.round(rupees * 100).
ToPaise(amount) == (amount + 5) \div 10

\* The sum of the amounts of some rows.
SumOf(amount, set) == MapThenSumSet(LAMBDA row : amount[row], set)

\* refundId ?? rfnd_<payment id>, refundedAt ?? createdAt.
RefundId(p) == IF payments[p].refundId # None THEN payments[p].refundId ELSE "rfnd"
RefundTime(p) == IF payments[p].refundedAt # None THEN payments[p].refundedAt ELSE "created"

\* toPayment: at most one refund.
ToPayment(p) ==
  [status |-> payments[p].status, amount |-> ToPaise(payments[p].amount),
   refunds |-> IF payments[p].refunded = 0 THEN {}
               ELSE {[id |-> RefundId(p), amount |-> ToPaise(payments[p].refunded),
                      at |-> RefundTime(p)]}]

\* Fault: refunds are listed once the gateway has confirmed them.
ListConfirmedRefunds ==
  {[id |-> RefundId(p), paymentId |-> p, amount |-> ToPaise(payments[p].refunded),
    status |-> IF payments[p].status = "refunded" THEN "processed" ELSE "processing",
    at |-> RefundTime(p)] : p \in {q \in Payments : payments[q].refundedAt # None}}

ListRefunds ==
  {[id |-> RefundId(p), paymentId |-> p, amount |-> ToPaise(payments[p].refunded),
    status |-> IF payments[p].status = "refunded" THEN "processed" ELSE "processing",
    at |-> RefundTime(p)] : p \in {q \in Payments : payments[q].refunded > 0}}

\* STATUS_MAP[p.status] ?? p.status.
ShownStatus(status) == IF status = "completed" THEN "paid" ELSE status

\* toPayout: gross and net are the transfer, the commission is 0.
ToPayout(p) ==
  [hostId |-> payouts[p].owner, netPayable |-> ToPaise(payouts[p].amount),
   status |-> ShownStatus(payouts[p].status)]

ListPayouts == [p \in {q \in Payouts : payouts[q] # None} |-> ToPayout(p)]

\* HostsService.earningsMap, for one owner.
Earnings(owner) ==
  LET paid == {p \in DOMAIN ListPayouts :
                payouts[p].owner = owner /\ payouts[p].status = "completed"}
  IN SumOf([p \in paid |-> ToPaise(payouts[p].amount)], paid)

\* DashboardService.sum: the database adds rupees, the sum is rounded.
Backlog ==
  LET due == {p \in DOMAIN ListPayouts : payouts[p].status = "processing"}
  IN ToPaise(SumOf([p \in due |-> payouts[p].amount], due))

Gmv ==
  LET captured == {p \in Payments : payments[p].status = "captured"}
  IN ToPaise(SumOf([p \in captured |-> payments[p].amount], captured))
-----------------------------------------------------------------------------
\* What the list of payouts shows of some status, per owner or in all.
Shown(status, owners) ==
  {p \in DOMAIN ListPayouts : ListPayouts[p].status = status /\ ListPayouts[p].hostId \in owners}

Net(set) == SumOf([p \in set |-> ListPayouts[p].netPayable], set)

\* Two figures that were rounded before and after adding n amounts.
Agree(a, b, n) == a - b \in -n..n

\* The endpoints agree on the money: the refunds within payments are the
\* refunds listed, processed ones those of fully refunded payments; a host's
\* earnings are its payouts shown as paid; the dashboard's backlog and GMV are
\* what the lists show as processing and captured, up to a paisa for each row
\* (payments.service.ts:41-126, payouts.service.ts:30-68,
\* hosts.service.ts:104-116, dashboard.service.ts:102-110).
MoneyAgrees ==
  /\ UNION {{[refund |-> r, of |-> p] : r \in ToPayment(p).refunds} : p \in Payments}
       = {[refund |-> [id |-> l.id, amount |-> l.amount, at |-> l.at], of |-> l.paymentId]
           : l \in ListRefunds}
  /\ \A l \in ListRefunds :
       l.status = "processed" => l.amount = ToPayment(l.paymentId).amount
  /\ \A owner \in Payees : Earnings(owner) = Net(Shown("paid", {owner}))
  /\ LET shown == Shown("processing", Payees)
     IN Agree(Backlog, Net(shown), Cardinality(shown))
  /\ LET shown == {p \in Payments : ToPayment(p).status = "captured"}
     IN Agree(Gmv, SumOf([p \in shown |-> ToPayment(p).amount], shown), Cardinality(shown))
=============================================================================
