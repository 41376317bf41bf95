------------------------------- MODULE Wallet -------------------------------
(***************************************************************************)
(* One organisation's wallet row, its billing ledger and the billing       *)
(* columns of its messages: services/billing_service.py, with the callers  *)
(* that can interleave around it (the SMS worker, delivery reports, the    *)
(* plan endpoints).                                                        *)
(*                                                                         *)
(* Every billing function takes the wallet row FOR UPDATE and keeps it to  *)
(* its commit, so its effect on the row is one step.  What is read before  *)
(* that lock (a message by a delivery report, a wallet by buy_plan) is a   *)
(* copy in the caller's session: the session is opened without autoflush   *)
(* and without expiry on commit, and the later locking SELECT returns the  *)
(* object already loaded.  Those copies are the state of report and        *)
(* request; a commit writes the columns whose value the copy changed.      *)
(***************************************************************************)
EXTENDS Integers

CONSTANTS
  Msg,            \* the organisation's messages
  Report,         \* delivery-report handlers that can be refunding at once
  Buyer,          \* buy_plan requests that can be running at once
  Admin,          \* assign-plan requests that can be running at once
  Plan, Payg,     \* the pricing catalogue and its default plan
  SmsRate, MonthlyPrice, MonthlyCredits,   \* the catalogue's columns
  Parts,          \* SMS parts of each message
  TopUps,         \* amounts a top-up or an adjustment may have
  SeedBalance,    \* balance of a new wallet: 0 when registration creates it
  MaxBooked       \* bound: no ledger category grows past this total

ASSUME WalletAssumption ==
  /\ Payg \in Plan
  /\ Buyer \cap Admin = {}
  /\ SmsRate \in [Plan -> Nat \ {0}]
  /\ MonthlyPrice \in [Plan -> Nat]
  /\ MonthlyCredits \in [Plan -> Nat]
  /\ Parts \in [Msg -> Nat \ {0}]
  /\ TopUps \subseteq Nat \ {0}
  /\ SeedBalance \in Nat
  /\ MaxBooked \in Nat

VARIABLES
  subscription,   \* wallets.subscription_credits
  payg,           \* wallets.payg_credits
  balance,        \* wallets.balance
  plan,           \* organizations.plan_id
  booked,         \* total of the ledger entries of each category
  bill,           \* the billing columns of each message row
  job,            \* the message the serial SMS worker holds
  report,         \* delivery reports waiting for the wallet lock
  request,        \* plan requests between two of their commits
  dropped,        \* history: what subscription buckets held when they were
                  \* replaced or wiped, for which there is no ledger entry
  drifted         \* history: a purchase overwrote a newer wallet row, or left
                  \* its grant unwritten because its old copy held as much

vars == <<subscription, payg, balance, plan, booked, bill, job, report,
          request, dropped, drifted>>
wallet == <<subscription, payg, balance>>
books == <<booked, dropped, drifted>>

Category == {"sms_charge", "refund", "topup", "subscription_renewal",
             "manual_deduction"}

\* "sent" stands for SUBMITTED and DELIVERED, "failed" for FAILED and
\* NOT_DELIVERED: billing tells no more apart.  acked: the gateway's message
\* id is stored, so a report can find the row.
Bill == [status : {"pending", "processing", "sent", "failed"}, cost : Nat,
         source : {"none", "subscription", "payg"}, refunded : BOOLEAN,
         acked : BOOLEAN]

NoJob == [pc |-> "idle"]
Job == {NoJob} \cup [pc : {"loaded", "sending", "sent"}, msg : Msg, cost : Nat,
                     refunded : BOOLEAN]

NoReport == [pc |-> "idle"]
Refunding == {NoReport} \cup [pc : {"refunding"}, msg : Msg, seen : Bill]

NoRequest == [pc |-> "idle"]
Request ==
  {NoRequest}
  \cup [pc : {"assigning", "cancelling"}]
  \cup [pc : {"checked", "charged", "assigned", "wiping"}, plan : Plan,
        was : Plan, subscription : Int, payg : Int, balance : Int]

Init ==
  /\ subscription = 0
  /\ payg = 0
  /\ balance = SeedBalance
  /\ plan = Payg
  /\ booked = [c \in Category |-> 0]
  /\ bill = [m \in Msg |-> [status |-> "pending", cost |-> 0,
                            source |-> "none", refunded |-> FALSE,
                            acked |-> FALSE]]
  /\ job = NoJob
  /\ report = [r \in Report |-> NoReport]
  /\ request = [q \in Buyer \cup Admin |-> NoRequest]
  /\ dropped = 0
  /\ drifted = FALSE

-----------------------------------------------------------------------------
\* A debit entered with its sign instead of its type.
BookSigned(category, amount) ==
  booked' = [booked EXCEPT ![category] =
    IF category \in {"sms_charge", "manual_deduction"} THEN @ - amount
                                                       ELSE @ + amount]

Book(category, amount) ==
  booked' = [booked EXCEPT ![category] = @ + amount]

Room(category, amount) == booked[category] + amount <= MaxBooked

\* The plan is the one loaded with the message, before the charge.
CalculateSmsCost(m) == SmsRate[plan] * Parts[m]

-----------------------------------------------------------------------------
(* The SMS worker: load, charge, hand to the gateway, settle.              *)

LoadJob(m) ==
  /\ job = NoJob
  /\ bill[m].status # "sent"
  /\ Room("sms_charge", CalculateSmsCost(m))
  /\ job' = [pc |-> "loaded", msg |-> m, cost |-> CalculateSmsCost(m),
             refunded |-> bill[m].refunded]
  /\ bill' = [bill EXCEPT ![m].status = "processing"]
  /\ UNCHANGED <<wallet, plan, books, report, request>>

\* Over the organisation's rate: back to PENDING, nothing charged.
Throttle ==
  /\ job.pc = "loaded"
  /\ bill' = [bill EXCEPT ![job.msg].status = "pending"]
  /\ job' = NoJob
  /\ UNCHANGED <<wallet, plan, books, report, request>>

\* An off-by-one in the balance check.
AffordableAnyway(cost, allowPayg) == subscription + payg + 1 >= cost

Affordable(cost, allowPayg) ==
  IF allowPayg THEN subscription + payg >= cost ELSE subscription >= cost

\* A mixed charge is booked as "payg": the source is computed after the
\* subscription bucket was set to zero, so "hybrid" is never stored.
DeductCreditsForSms(allowPayg) ==
  /\ job.pc = "loaded"
  /\ Affordable(job.cost, allowPayg)
  /\ IF subscription >= job.cost
     THEN /\ subscription' = subscription - job.cost
          /\ payg' = payg
     ELSE /\ subscription' = 0
          /\ payg' = payg - (job.cost - subscription)
  /\ balance' = payg'
  /\ Book("sms_charge", job.cost)
  /\ bill' = [bill EXCEPT
       ![job.msg].cost = job.cost,
       ![job.msg].source = IF subscription >= job.cost THEN "subscription"
                                                       ELSE "payg",
       ![job.msg].refunded = IF job.refunded THEN FALSE ELSE @]
  /\ job' = [job EXCEPT !.pc = "sending", !.refunded = FALSE]
  /\ UNCHANGED <<plan, report, request, dropped, drifted>>

DeductRefused(allowPayg) ==
  /\ job.pc = "loaded"
  /\ ~Affordable(job.cost, allowPayg)
  /\ bill' = [bill EXCEPT ![job.msg].status = "failed"]
  /\ job' = NoJob
  /\ UNCHANGED <<wallet, plan, books, report, request>>

GatewayAccepted ==
  /\ job.pc = "sending"
  /\ bill' = [bill EXCEPT ![job.msg].status = "sent", ![job.msg].acked = TRUE]
  /\ job' = [job EXCEPT !.pc = "sent"]
  /\ UNCHANGED <<wallet, plan, books, report, request>>

\* The mirror column forgotten when a PAYG charge comes back.
RefundForgetsBalance(source, amount) ==
  /\ IF source = "subscription"
     THEN subscription' = subscription + amount /\ payg' = payg
     ELSE payg' = payg + amount /\ subscription' = subscription
  /\ balance' = balance
  /\ Book("refund", amount)

\* A refund goes whole to the bucket the message row names.
RefundToSource(source, amount) ==
  /\ IF source = "subscription"
     THEN /\ subscription' = subscription + amount
          /\ UNCHANGED <<payg, balance>>
     ELSE /\ payg' = payg + amount
          /\ balance' = balance + amount
          /\ UNCHANGED subscription
  /\ Book("refund", amount)

\* FAILED and refunded in the worker's own session, whose copy of is_refunded
\* is the FALSE the charge left.
FailJob ==
  /\ RefundToSource(bill[job.msg].source, bill[job.msg].cost)
  /\ bill' = [bill EXCEPT ![job.msg].status = "failed",
                          ![job.msg].refunded = TRUE]
  /\ job' = NoJob
  /\ UNCHANGED <<plan, report, request, dropped, drifted>>

GatewayRejected == job.pc = "sending" /\ FailJob

\* An error in the refund rolls the session back, FAILED and all, and expires
\* the row the worker goes on to read: its job ends with nothing committed.
\* (After a broadcast the same error leaves the row as BroadcastDone does.)
JobUnrefunded ==
  /\ job.pc = "sending"
  /\ job' = NoJob
  /\ UNCHANGED <<wallet, plan, books, bill, report, request>>

\* The broadcast of the accepted message is inside the same try: a socket that
\* joins or leaves while it iterates makes the message FAILED after all.
BroadcastBreaks == job.pc = "sent" /\ FailJob

BroadcastDone ==
  /\ job.pc = "sent"
  /\ job' = NoJob
  /\ UNCHANGED <<wallet, plan, books, bill, report, request>>

-----------------------------------------------------------------------------
(* Statuses written from outside the worker.                               *)

\* DELIVERED or SUBMITTED: by a report, by the poller or by the force-deliver
\* endpoint, which checks nothing.
MarkSent(m) ==
  /\ bill' = [bill EXCEPT ![m].status = "sent"]
  /\ UNCHANGED <<wallet, plan, books, job, report, request>>

\* The poller writes NOT_DELIVERED and refunds nothing.  It chose the message
\* while SUBMITTED, any time before it commits.
PollNotDelivered(m) ==
  /\ bill[m].acked
  /\ bill' = [bill EXCEPT ![m].status = "failed"]
  /\ UNCHANGED <<wallet, plan, books, job, report, request>>

\* NOT_DELIVERED by a report: nothing to refund, as far as its copy knows.
ReportSettled(m) ==
  /\ bill[m].acked
  /\ bill[m].refunded \/ bill[m].cost = 0
  /\ bill' = [bill EXCEPT ![m].status = "failed"]
  /\ UNCHANGED <<wallet, plan, books, job, report, request>>

\* NOT_DELIVERED by a report: every check has passed on the copy of the row,
\* the wallet lock is still to come.
ReportChecks(r, m) ==
  /\ report[r] = NoReport
  /\ bill[m].acked
  /\ ~bill[m].refunded
  /\ bill[m].cost > 0
  /\ report' = [report EXCEPT ![r] = [pc |-> "refunding", msg |-> m,
                                      seen |-> bill[m]]]
  /\ UNCHANGED <<wallet, plan, books, bill, job, request>>

ReportRefunds(r) ==
  /\ report[r].pc = "refunding"
  /\ LET m == report[r].msg
         seen == report[r].seen
     IN  /\ RefundToSource(seen.source, seen.cost)
         /\ bill' = [bill EXCEPT
              ![m].status = IF seen.status = "failed" THEN @ ELSE "failed",
              ![m].refunded = TRUE]
  /\ report' = [report EXCEPT ![r] = NoReport]
  /\ UNCHANGED <<plan, job, request, dropped, drifted>>

\* An error in the refund takes the report's status with it.
ReportUnrefunded(r) ==
  /\ report[r].pc = "refunding"
  /\ report' = [report EXCEPT ![r] = NoReport]
  /\ UNCHANGED <<wallet, plan, books, bill, job, request>>

-----------------------------------------------------------------------------
(* Top-ups and adjustments: one transaction each.                          *)

AddPaygCredits(n) ==
  /\ Room("topup", n)
  /\ payg' = payg + n
  /\ balance' = balance + n
  /\ Book("topup", n)
  /\ UNCHANGED <<subscription, plan, bill, job, report, request, dropped,
                 drifted>>

\* PAYG first, then subscription.
PaygLeft(payg0, n) == IF payg0 >= n THEN payg0 - n ELSE 0
SubscriptionLeft(payg0, subscription0, n) ==
  IF payg0 >= n THEN subscription0 ELSE subscription0 - (n - payg0)

\* Deducting without a look at what is there.
UseUnchecked(n) ==
  /\ payg' = payg - n
  /\ balance' = payg'
  /\ Book("manual_deduction", n)
  /\ Room("manual_deduction", n)
  /\ UNCHANGED <<subscription, plan, bill, job, report, request, dropped,
                 drifted>>

UseCredits(n) ==
  /\ balance >= n
  /\ payg' = PaygLeft(payg, n)
  /\ subscription' = SubscriptionLeft(payg, subscription, n)
  /\ balance' = payg'
  /\ Book("manual_deduction", n)
  /\ UNCHANGED <<plan, bill, job, report, request, dropped, drifted>>

-----------------------------------------------------------------------------
(* buy_plan: check on an unlocked copy, charge, assign, grant; each of the *)
(* last three commits on its own.                                          *)

Written(new, copied, row) == IF new # copied THEN new ELSE row

BuyChecks(q, p) ==
  /\ request[q] = NoRequest
  /\ p # Payg
  /\ balance >= MonthlyPrice[p]
  /\ Room("subscription_renewal", MonthlyCredits[p])
  /\ request' = [request EXCEPT ![q] =
       [pc |-> "checked", plan |-> p, was |-> plan,
        subscription |-> subscription, payg |-> payg, balance |-> balance]]
  /\ UNCHANGED <<wallet, plan, books, bill, job, report>>

\* use_credits locks the row and then works on the copy of BuyChecks.
BuyCharges(q) ==
  /\ request[q].pc = "checked"
  /\ LET w == request[q]
         price == MonthlyPrice[w.plan]
         newPayg == PaygLeft(w.payg, price)
         newSubscription == SubscriptionLeft(w.payg, w.subscription, price)
     IN  /\ payg' = Written(newPayg, w.payg, payg)
         /\ subscription' =
              Written(newSubscription, w.subscription, subscription)
         /\ balance' = Written(newPayg, w.balance, balance)
         /\ Book("manual_deduction", price)
         /\ request' = [request EXCEPT ![q] =
              [w EXCEPT !.pc = "charged", !.payg = newPayg,
                        !.subscription = newSubscription, !.balance = newPayg]]
         /\ drifted' =
              (drifted \/ w.payg # payg \/ w.subscription # subscription)
  /\ UNCHANGED <<plan, bill, job, report, dropped>>

\* The organisation was loaded with the user, when the request came in: buying
\* the plan one had then writes nothing, whatever the row says by now.
BuyAssigns(q) ==
  /\ request[q].pc = "charged"
  /\ plan' = Written(request[q].plan, request[q].was, plan)
  /\ request' = [request EXCEPT ![q].pc = "assigned"]
  /\ UNCHANGED <<wallet, books, bill, job, report>>

\* A renewal that adds to the bucket and still calls the rest dropped.
RenewAddsUp(copied) ==
  LET granted == MonthlyCredits[plan]
  IN  /\ subscription' = subscription + granted
      /\ dropped' = dropped + subscription
      /\ Book("subscription_renewal", granted)
      /\ UNCHANGED <<payg, balance, plan, bill, job, report, drifted>>

\* The month's credits of the plan the organisation has by now replace the
\* subscription bucket: not a word about what was left of it in the ledger.  A
\* copy that held as much already writes nothing, whatever the row has now.
RenewSubscriptionCredits(copied) ==
  LET granted == MonthlyCredits[plan]
  IN  /\ subscription' = Written(granted, copied, subscription)
      /\ dropped' = dropped + subscription
      /\ drifted' = (drifted \/ (copied = granted /\ subscription # granted))
      /\ Book("subscription_renewal", granted)
      /\ UNCHANGED <<payg, balance, plan, bill, job, report>>

BuyGrants(q) ==
  /\ request[q].pc = "assigned"
  /\ RenewSubscriptionCredits(request[q].subscription)
  /\ request' = [request EXCEPT ![q] = NoRequest]

-----------------------------------------------------------------------------
(* assign-plan: the plan commits first, the wallet afterwards.             *)

AssignPlan(q, p) ==
  /\ request[q] = NoRequest
  /\ Room("subscription_renewal", MonthlyCredits[p])
  /\ plan' = p
  /\ request' = [request EXCEPT ![q] = [pc |-> "assigning"]]
  /\ UNCHANGED <<wallet, books, bill, job, report>>

\* No wallet was loaded before: the copy is the locked row.
AssignGrants(q) ==
  /\ request[q].pc = "assigning"
  /\ RenewSubscriptionCredits(subscription)
  /\ request' = [request EXCEPT ![q] = NoRequest]

\* An error in the renewal is rolled back: the plan stays, without its credits.
GrantFails(q) ==
  /\ request[q].pc \in {"assigned", "assigning"}
  /\ request' = [request EXCEPT ![q] = NoRequest]
  /\ UNCHANGED <<wallet, plan, books, bill, job, report>>

CancelPlan(q) ==
  /\ request[q] = NoRequest
  /\ plan' = Payg
  /\ request' = [request EXCEPT ![q] = [pc |-> "cancelling"]]
  /\ UNCHANGED <<wallet, books, bill, job, report>>

\* Read with no lock; nothing to wipe in an empty bucket.
CancelReads(q) ==
  /\ request[q].pc = "cancelling"
  /\ request' = [request EXCEPT ![q] =
       IF subscription > 0
       THEN [pc |-> "wiping", plan |-> Payg, was |-> plan,
             subscription |-> subscription, payg |-> payg, balance |-> balance]
       ELSE NoRequest]
  /\ UNCHANGED <<wallet, plan, books, bill, job, report>>

CancelWipes(q) ==
  /\ request[q].pc = "wiping"
  /\ subscription' = 0
  /\ balance' = Written(request[q].payg, request[q].balance, balance)
  /\ dropped' = dropped + subscription
  /\ request' = [request EXCEPT ![q] = NoRequest]
  /\ UNCHANGED <<payg, plan, booked, bill, job, report, drifted>>

-----------------------------------------------------------------------------
\* The process dies: rows stay, every session and the queue are gone.
Crash ==
  /\ job' = NoJob
  /\ report' = [r \in Report |-> NoReport]
  /\ request' = [q \in Buyer \cup Admin |-> NoRequest]
  /\ UNCHANGED <<wallet, plan, books, bill>>

Next ==
  \/ \E m \in Msg : LoadJob(m)
  \/ Throttle
  \/ \E allowPayg \in BOOLEAN : DeductCreditsForSms(allowPayg)
  \/ \E allowPayg \in BOOLEAN : DeductRefused(allowPayg)
  \/ GatewayAccepted
  \/ GatewayRejected
  \/ JobUnrefunded
  \/ BroadcastBreaks
  \/ BroadcastDone
  \/ \E m \in Msg : MarkSent(m)
  \/ \E m \in Msg : PollNotDelivered(m)
  \/ \E m \in Msg : ReportSettled(m)
  \/ \E r \in Report, m \in Msg : ReportChecks(r, m)
  \/ \E r \in Report : ReportRefunds(r)
  \/ \E r \in Report : ReportUnrefunded(r)
  \/ \E n \in TopUps : AddPaygCredits(n)
  \/ \E n \in TopUps : UseCredits(n)
  \/ \E q \in Buyer, p \in Plan : BuyChecks(q, p)
  \/ \E q \in Buyer : BuyCharges(q)
  \/ \E q \in Buyer : BuyAssigns(q)
  \/ \E q \in Buyer : BuyGrants(q)
  \/ \E q \in Admin, p \in Plan : AssignPlan(q, p)
  \/ \E q \in Admin : AssignGrants(q)
  \/ \E q \in Buyer \cup Admin : GrantFails(q)
  \/ \E q \in Admin : CancelPlan(q)
  \/ \E q \in Admin : CancelReads(q)
  \/ \E q \in Admin : CancelWipes(q)
  \/ Crash

Spec == Init /\ [][Next]_vars

-----------------------------------------------------------------------------
TypeOK ==
  /\ subscription \in Int
  /\ payg \in Int
  /\ balance \in Int
  /\ plan \in Plan
  /\ booked \in [Category -> Nat]
  /\ bill \in [Msg -> Bill]
  /\ job \in Job
  /\ report \in [Report -> Refunding]
  /\ request \in [Buyer \cup Admin -> Request]
  /\ dropped \in Int
  /\ drifted \in BOOLEAN

(* "Main balance only reflects PAYG" (billing_service.py:248): the two     *)
(* columns, written by different code in different transactions and from   *)
(* different copies, never part.                                           *)
BalanceMirrorsPayg == balance = payg

(* No bucket is ever overdrawn, whatever copy a purchase or a cancellation *)
(* works from and although use_credits tests one column and takes from     *)
(* two.                                                                    *)
NoOverdraft == subscription >= 0 /\ payg >= 0

CreditEntries ==
  booked["topup"] + booked["refund"] + booked["subscription_renewal"]
DebitEntries == booked["sms_charge"] + booked["manual_deduction"]

(* The wallet is what the ledger, "immutable audit trail of all financial  *)
(* movements" (models.py:335), says it is.                                 *)
Reconciled ==
  subscription + payg = CreditEntries - DebitEntries - dropped

(* The only thing that can part the wallet from the ledger is a purchase   *)
(* whose copy of the wallet is older than the row: its charge overwrites    *)
(* what others committed, or its grant is booked and never written.         *)
(* Charges, refunds (duplicated ones too), top-ups, the renewals of an      *)
(* assigned plan, cancellations, errors that roll back and crashes between  *)
(* two commits keep the two together; a renewal may take away what the      *)
(* bucket held, and nothing more.                                           *)
OnlyPurchasesDrift == drifted \/ Reconciled

(* Nobody can pay as they go with credits that were not bought: PAYG       *)
(* credits come from top-ups, a refund returns "to original credit source" *)
(* (billing_service.py:408).                                               *)
PaygBacked == payg <= booked["topup"]

(* A charge comes back once at most ("Check if already refunded",          *)
(* billing_service.py:374).                                                *)
RefundsWithinCharges == booked["refund"] <= booked["sms_charge"]

\* The credits, without their buckets, as Account promises them.
Credits == INSTANCE Account WITH
  funds <- subscription + payg,
  credited <- CreditEntries,
  debited <- DebitEntries

(* Without purchases every step is one movement of Account: each credit or *)
(* debit with its ledger entry, no overdraft, and nothing vanishes but     *)
(* subscription credits at a renewal or a cancellation.                    *)
KeepsAccount == Credits!AccountSpec

=============================================================================
