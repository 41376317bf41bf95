---------------------------- MODULE WalletProofs ----------------------------
(* Proofs about Wallet, for every catalogue, message set and number of      *)
(* concurrent requests.                                                     *)
EXTENDS Wallet, TLAPS

Requests == Buyer \cup Admin

(* What a request keeps of the wallet between two awaits: a copy is as     *)
(* consistent as the row it was read from, and a purchase that passed the  *)
(* check holds a copy that can pay the price.                              *)
CopyOK(c) ==
  /\ c.pc \in {"checked", "charged", "assigned", "wiping"} =>
       c.balance = c.payg /\ c.payg >= 0 /\ c.subscription >= 0
  /\ c.pc = "checked" => c.payg >= MonthlyPrice[c.plan]

CopiesOK == \A q \in Requests : CopyOK(request[q])

(* The strengthening: neither conjunct about the row is inductive without  *)
(* the other and CopiesOK, since use_credits tests balance, takes from payg *)
(* and writes both from a copy.                                             *)
RowOK == BalanceMirrorsPayg /\ NoOverdraft /\ CopiesOK

-----------------------------------------------------------------------------
(* Every step keeps the variables in their types.                           *)

(* The worker past its load, and a report past its checks, hold a message. *)
LEMMA JobHoldsMessage ==
  ASSUME TypeOK, job.pc \in {"loaded", "sending", "sent"}
  PROVE  job \in [pc : {"loaded", "sending", "sent"}, msg : Msg, cost : Nat,
                  refunded : BOOLEAN]
  BY DEF TypeOK, Job, NoJob

LEMMA ReportHoldsMessage ==
  ASSUME TypeOK, NEW r \in Report, report[r].pc = "refunding"
  PROVE  report[r] \in [pc : {"refunding"}, msg : Msg, seen : Bill]
  BY DEF TypeOK, Refunding, NoReport

(* A new status, and a refund, leave a bill a bill. *)
LEMMA StatusKeepsBill ==
  ASSUME TypeOK, NEW m \in Msg,
         NEW s \in {"pending", "processing", "sent", "failed"}
  PROVE  [bill EXCEPT ![m].status = s] \in [Msg -> Bill]
  BY DEF TypeOK, Bill


(* FAILED and refunded in one commit is well typed. *)
LEMMA FailJobTyped ==
  ASSUME TypeOK, job.pc \in {"sending", "sent"}, FailJob
  PROVE  TypeOK'
  <1>1. job.msg \in Msg
    BY JobHoldsMessage
  <1>2. bill' \in [Msg -> Bill]
    BY <1>1 DEF FailJob, TypeOK, Bill
  <1>3. bill[job.msg].cost \in Nat
    BY <1>1 DEF TypeOK, Bill
  <1>4. /\ booked' \in [Category -> Nat]
        /\ subscription' \in Int /\ payg' \in Int /\ balance' \in Int
    BY <1>3 DEF TypeOK, FailJob, RefundToSource, Book, Category
  <1> QED
    BY <1>2, <1>4 DEF TypeOK, FailJob, Job

(* Every step of the module is well typed. *)
LEMMA TypeStep == TypeOK /\ [Next]_vars => TypeOK'
  <1> SUFFICES ASSUME TypeOK, [Next]_vars PROVE TypeOK'
    OBVIOUS
  <1> USE DEF TypeOK, wallet, books
  <1>1. ASSUME NEW m \in Msg, LoadJob(m)
        PROVE  TypeOK'
    <2>1. SmsRate[plan] \in Nat /\ Parts[m] \in Nat
      BY WalletAssumption
    <2>2. CalculateSmsCost(m) \in Nat
      BY <2>1 DEF CalculateSmsCost
    <2>3. bill' \in [Msg -> Bill]
      BY <1>1, StatusKeepsBill DEF LoadJob
    <2>4. job' \in Job
      BY <1>1, <2>2 DEF LoadJob, Job, Bill
    <2> QED
      BY <1>1, <2>3, <2>4 DEF LoadJob
  <1>2. ASSUME Throttle
        PROVE  TypeOK'
    BY <1>2, JobHoldsMessage, StatusKeepsBill DEF Throttle, Job
  <1>3. ASSUME NEW allowPayg \in BOOLEAN, DeductCreditsForSms(allowPayg)
        PROVE  TypeOK'
    <2>1. job \in [pc : {"loaded"}, msg : Msg, cost : Nat, refunded : BOOLEAN]
      BY <1>3, JobHoldsMessage DEF DeductCreditsForSms
    <2>2. bill' \in [Msg -> Bill]
      BY <1>3, <2>1 DEF DeductCreditsForSms, Bill
    <2>3. job' \in Job
      BY <1>3, <2>1 DEF DeductCreditsForSms, Job
    <2>4. booked' \in [Category -> Nat]
      BY <1>3, <2>1 DEF DeductCreditsForSms, Book, Category
    <2>5. subscription' \in Int /\ payg' \in Int /\ balance' \in Int
      BY <1>3, <2>1 DEF DeductCreditsForSms
    <2> QED
      BY <1>3, <2>2, <2>3, <2>4, <2>5 DEF DeductCreditsForSms
  <1>4. ASSUME NEW allowPayg \in BOOLEAN, DeductRefused(allowPayg)
        PROVE  TypeOK'
    BY <1>4, JobHoldsMessage, StatusKeepsBill DEF DeductRefused, Job
  <1>5. ASSUME GatewayAccepted
        PROVE  TypeOK'
    <2>1. job \in [pc : {"sending"}, msg : Msg, cost : Nat, refunded : BOOLEAN]
      BY <1>5, JobHoldsMessage DEF GatewayAccepted
    <2>2. bill' \in [Msg -> Bill]
      BY <1>5, <2>1 DEF GatewayAccepted, Bill
    <2>3. job' \in Job
      BY <1>5, <2>1 DEF GatewayAccepted, Job
    <2> QED
      BY <1>5, <2>2, <2>3 DEF GatewayAccepted
  <1>6. ASSUME GatewayRejected
        PROVE  TypeOK'
    BY <1>6, FailJobTyped DEF GatewayRejected
  <1>7. ASSUME NEW m \in Msg, MarkSent(m)
        PROVE  TypeOK'
    BY <1>7, StatusKeepsBill DEF MarkSent
  <1>8. ASSUME NEW m \in Msg, PollNotDelivered(m)
        PROVE  TypeOK'
    BY <1>8, StatusKeepsBill DEF PollNotDelivered
  <1>9. ASSUME NEW m \in Msg, ReportSettled(m)
        PROVE  TypeOK'
    BY <1>9, StatusKeepsBill DEF ReportSettled
  <1>10. ASSUME NEW r \in Report, NEW m \in Msg, ReportChecks(r, m)
        PROVE  TypeOK'
    BY <1>10 DEF ReportChecks, Refunding, NoReport, Bill
  <1>11. ASSUME NEW r \in Report, ReportRefunds(r)
        PROVE  TypeOK'
    <2>1. report[r] \in [pc : {"refunding"}, msg : Msg, seen : Bill]
      BY <1>11, ReportHoldsMessage DEF ReportRefunds
    <2>2. bill' \in [Msg -> Bill]
      BY <1>11, <2>1 DEF ReportRefunds, Bill
    <2>3. report[r].seen.cost \in Nat
      BY <2>1 DEF Bill
    <2>4. /\ booked' \in [Category -> Nat]
          /\ subscription' \in Int /\ payg' \in Int /\ balance' \in Int
      BY <1>11, <2>3 DEF ReportRefunds, RefundToSource, Book, Category
    <2> QED
      BY <1>11, <2>2, <2>4 DEF ReportRefunds, Refunding
  <1>12. ASSUME NEW n \in TopUps, AddPaygCredits(n)
        PROVE  TypeOK'
    BY <1>12, WalletAssumption DEF AddPaygCredits, Book, Category
  <1>13. ASSUME NEW n \in TopUps, UseCredits(n)
        PROVE  TypeOK'
    BY <1>13, WalletAssumption DEF UseCredits, Book, Category, PaygLeft,
       SubscriptionLeft
  <1>14. ASSUME NEW q \in Buyer, NEW p \in Plan, BuyChecks(q, p)
        PROVE  TypeOK'
    BY <1>14 DEF BuyChecks, Request, NoRequest
  <1>15. ASSUME NEW q \in Buyer, BuyCharges(q)
        PROVE  TypeOK'
    <2> DEFINE w == request[q]
    <2>1. w \in [pc : {"checked"}, plan : Plan, was : Plan, subscription : Int,
                 payg : Int, balance : Int]
      BY <1>15 DEF BuyCharges, Request, NoRequest
    <2>2. MonthlyPrice[w.plan] \in Nat
      BY <2>1, WalletAssumption
    <2>3. /\ subscription' \in Int /\ payg' \in Int /\ balance' \in Int
          /\ drifted' \in BOOLEAN
      BY <1>15, <2>1, <2>2
      DEF BuyCharges, PaygLeft, SubscriptionLeft, Written
    <2>4. booked' \in [Category -> Nat]
      BY <1>15, <2>2 DEF BuyCharges, Book, Category
    <2>5. request' \in [Buyer \cup Admin -> Request]
      <3> DEFINE x0 == PaygLeft(w.payg, MonthlyPrice[w.plan])
                 y0 == SubscriptionLeft(w.payg, w.subscription,
                                        MonthlyPrice[w.plan])
      <3>1. request' = [request EXCEPT ![q] =
              [w EXCEPT !.pc = "charged", !.payg = x0, !.subscription = y0,
                        !.balance = x0]]
        BY <1>15 DEF BuyCharges
      <3>2. x0 \in Int /\ y0 \in Int
        BY <2>1, <2>2 DEF PaygLeft, SubscriptionLeft
      <3>3. ASSUME NEW x \in Int, NEW y \in Int
            PROVE  [w EXCEPT !.pc = "charged", !.payg = x,
                             !.subscription = y, !.balance = x] \in Request
        BY <2>1 DEF Request
      <3> HIDE DEF x0, y0
      <3> QED
        BY <3>1, <3>2, <3>3
    <2> QED
      BY <1>15, <2>3, <2>4, <2>5 DEF BuyCharges
  <1>16. ASSUME NEW q \in Buyer, BuyAssigns(q)
        PROVE  TypeOK'
    BY <1>16 DEF BuyAssigns, Written, Request, NoRequest
  <1>17. ASSUME NEW q \in Buyer, BuyGrants(q)
        PROVE  TypeOK'
    BY <1>17, WalletAssumption DEF BuyGrants, RenewSubscriptionCredits, Book,
       Category, Written, Request, NoRequest
  <1>18. ASSUME NEW q \in Admin, NEW p \in Plan, AssignPlan(q, p)
        PROVE  TypeOK'
    BY <1>18 DEF AssignPlan, Request, NoRequest
  <1>19. ASSUME NEW q \in Admin, AssignGrants(q)
        PROVE  TypeOK'
    BY <1>19, WalletAssumption DEF AssignGrants, RenewSubscriptionCredits,
       Book, Category, Written, Request, NoRequest
  <1>20. ASSUME NEW q \in Admin, CancelPlan(q)
        PROVE  TypeOK'
    BY <1>20, WalletAssumption DEF CancelPlan, Request, NoRequest
  <1>21. ASSUME NEW q \in Admin, CancelReads(q)
        PROVE  TypeOK'
    BY <1>21, WalletAssumption DEF CancelReads, Request, NoRequest
  <1>22. ASSUME NEW q \in Admin, CancelWipes(q)
        PROVE  TypeOK'
    BY <1>22 DEF CancelWipes, Written, Request, NoRequest
  <1>23. ASSUME Crash
        PROVE  TypeOK'
    BY <1>23 DEF Crash, Job, NoJob, Refunding, NoReport, Request, NoRequest
  <1>24. ASSUME BroadcastBreaks
         PROVE  TypeOK'
    BY <1>24, FailJobTyped DEF BroadcastBreaks
  <1>25. ASSUME BroadcastDone
         PROVE  TypeOK'
    BY <1>25 DEF BroadcastDone, Job
  <1>26. CASE UNCHANGED vars
    BY <1>26 DEF vars
  <1>27. ASSUME JobUnrefunded
        PROVE  TypeOK'
    BY <1>27 DEF JobUnrefunded, Job
  <1>28. ASSUME NEW r \in Report, ReportUnrefunded(r)
        PROVE  TypeOK'
    BY <1>28 DEF ReportUnrefunded, Refunding, NoReport
  <1>29. ASSUME NEW q \in Buyer \cup Admin, GrantFails(q)
        PROVE  TypeOK'
    BY <1>29 DEF GrantFails, Request, NoRequest
  <1> QED
    BY <1>1, <1>2, <1>3, <1>4, <1>5, <1>6, <1>7, <1>8, <1>9, <1>10, <1>11,
       <1>12, <1>13, <1>14, <1>15, <1>16, <1>17, <1>18, <1>19, <1>20, <1>21,
       <1>22, <1>23, <1>24, <1>25, <1>26, <1>27, <1>28, <1>29 DEF Next

-----------------------------------------------------------------------------
(* The wallet against the ledger: every step but a purchase's charge moves  *)
(* both by the same amount, and that one records when it does not.          *)

(* A refund moves the wallet and the ledger alike. *)
LEMMA RefundBooked ==
  ASSUME TypeOK, NEW source, NEW amount \in Nat,
         RefundToSource(source, amount), Reconciled, dropped' = dropped
  PROVE  Reconciled'
  BY DEF TypeOK, RefundToSource, Book, Category, Reconciled, CreditEntries,
         DebitEntries

(* A renewal takes away what the bucket held and puts in what it books,     *)
(* unless it leaves a newer row alone and says so.                          *)
LEMMA RenewalBooked ==
  ASSUME TypeOK, OnlyPurchasesDrift, NEW copied, RenewSubscriptionCredits(copied)
  PROVE  OnlyPurchasesDrift'
  <1> DEFINE granted == MonthlyCredits[plan]
  <1>1. granted \in Nat
    BY WalletAssumption DEF TypeOK
  <1>2. CASE copied = granted /\ subscription # granted
    BY <1>2 DEF RenewSubscriptionCredits, OnlyPurchasesDrift
  <1>3. CASE ~(copied = granted /\ subscription # granted)
    <2>1. subscription' = granted
      BY <1>3 DEF RenewSubscriptionCredits, Written
    <2>2. /\ dropped' = dropped + subscription /\ payg' = payg
          /\ drifted' <=> drifted
          /\ booked' = [booked EXCEPT !["subscription_renewal"] = @ + granted]
      BY <1>3 DEF RenewSubscriptionCredits, Book, OnlyPurchasesDrift
    <2> QED
      BY <1>1, <2>1, <2>2 DEF TypeOK, OnlyPurchasesDrift, Reconciled,
         CreditEntries, DebitEntries, Category
  <1> QED
    BY <1>2, <1>3

(* The ledger invariant is preserved by every step. *)
LEMMA BooksStep ==
  TypeOK /\ OnlyPurchasesDrift /\ [Next]_vars => OnlyPurchasesDrift'
  <1> SUFFICES ASSUME TypeOK, OnlyPurchasesDrift, [Next]_vars
               PROVE  OnlyPurchasesDrift'
    OBVIOUS
  <1> USE DEF TypeOK, wallet, books, OnlyPurchasesDrift, Reconciled,
              CreditEntries, DebitEntries
  <1>1. ASSUME NEW m \in Msg, LoadJob(m)
        PROVE  OnlyPurchasesDrift'
    BY <1>1 DEF LoadJob
  <1>2. ASSUME Throttle
        PROVE  OnlyPurchasesDrift'
    BY <1>2 DEF Throttle
  <1>3. ASSUME NEW allowPayg \in BOOLEAN, DeductCreditsForSms(allowPayg)
        PROVE  OnlyPurchasesDrift'
    BY <1>3, JobHoldsMessage DEF DeductCreditsForSms, Book, Category
  <1>4. ASSUME NEW allowPayg \in BOOLEAN, DeductRefused(allowPayg)
        PROVE  OnlyPurchasesDrift'
    BY <1>4 DEF DeductRefused
  <1>5. ASSUME GatewayAccepted
        PROVE  OnlyPurchasesDrift'
    BY <1>5 DEF GatewayAccepted
  <1>6. ASSUME GatewayRejected
        PROVE  OnlyPurchasesDrift'
    <2>1. bill[job.msg].cost \in Nat
      BY <1>6, JobHoldsMessage DEF GatewayRejected, FailJob, Bill
    <2>2. RefundToSource(bill[job.msg].source, bill[job.msg].cost)
      BY <1>6 DEF GatewayRejected, FailJob
    <2>3. Reconciled => Reconciled'
      <3> HIDE DEF TypeOK, Reconciled
      <3> QED
        BY <1>6, <2>1, <2>2, RefundBooked DEF GatewayRejected, FailJob
    <2> QED
      BY <1>6, <2>3 DEF GatewayRejected, FailJob
  <1>7. ASSUME NEW m \in Msg, MarkSent(m)
        PROVE  OnlyPurchasesDrift'
    BY <1>7 DEF MarkSent
  <1>8. ASSUME NEW m \in Msg, PollNotDelivered(m)
        PROVE  OnlyPurchasesDrift'
    BY <1>8 DEF PollNotDelivered
  <1>9. ASSUME NEW m \in Msg, ReportSettled(m)
        PROVE  OnlyPurchasesDrift'
    BY <1>9 DEF ReportSettled
  <1>10. ASSUME NEW r \in Report, NEW m \in Msg, ReportChecks(r, m)
        PROVE  OnlyPurchasesDrift'
    BY <1>10 DEF ReportChecks
  <1>11. ASSUME NEW r \in Report, ReportRefunds(r)
        PROVE  OnlyPurchasesDrift'
    <2>1. report[r].seen.cost \in Nat
      BY <1>11, ReportHoldsMessage DEF ReportRefunds, Bill
    <2>2. RefundToSource(report[r].seen.source, report[r].seen.cost)
      BY <1>11 DEF ReportRefunds
    <2>3. Reconciled => Reconciled'
      <3> HIDE DEF TypeOK, Reconciled
      <3> QED
        BY <1>11, <2>1, <2>2, RefundBooked DEF ReportRefunds
    <2> QED
      BY <1>11, <2>3 DEF ReportRefunds
  <1>12. ASSUME NEW n \in TopUps, AddPaygCredits(n)
        PROVE  OnlyPurchasesDrift'
    BY <1>12, WalletAssumption DEF AddPaygCredits, Book, Category
  <1>13. ASSUME NEW n \in TopUps, UseCredits(n)
        PROVE  OnlyPurchasesDrift'
    BY <1>13, WalletAssumption
    DEF UseCredits, Book, Category, PaygLeft, SubscriptionLeft
  <1>14. ASSUME NEW q \in Buyer, NEW p \in Plan, BuyChecks(q, p)
        PROVE  OnlyPurchasesDrift'
    BY <1>14 DEF BuyChecks
  <1>15. ASSUME NEW q \in Buyer, BuyCharges(q)
        PROVE  OnlyPurchasesDrift'
    <2> DEFINE w == request[q]
    <2>1. w.plan \in Plan /\ w.payg \in Int /\ w.subscription \in Int
      BY <1>15 DEF BuyCharges, Request, NoRequest
    <2>2. MonthlyPrice[w.plan] \in Nat
      BY <2>1, WalletAssumption
    <2>3. CASE w.payg # payg \/ w.subscription # subscription
      BY <1>15, <2>3 DEF BuyCharges
    <2>4. CASE w.payg = payg /\ w.subscription = subscription
      BY <1>15, <2>2, <2>4
      DEF BuyCharges, Book, Category, PaygLeft, SubscriptionLeft, Written
    <2> QED
      BY <2>3, <2>4
  <1>16. ASSUME NEW q \in Buyer, BuyAssigns(q)
        PROVE  OnlyPurchasesDrift'
    BY <1>16 DEF BuyAssigns
  <1>17. ASSUME NEW q \in Buyer, BuyGrants(q)
        PROVE  OnlyPurchasesDrift'
    BY <1>17, RenewalBooked DEF BuyGrants
  <1>18. ASSUME NEW q \in Admin, NEW p \in Plan, AssignPlan(q, p)
        PROVE  OnlyPurchasesDrift'
    BY <1>18 DEF AssignPlan
  <1>19. ASSUME NEW q \in Admin, AssignGrants(q)
        PROVE  OnlyPurchasesDrift'
    BY <1>19, RenewalBooked DEF AssignGrants
  <1>20. ASSUME NEW q \in Admin, CancelPlan(q)
        PROVE  OnlyPurchasesDrift'
    BY <1>20 DEF CancelPlan
  <1>21. ASSUME NEW q \in Admin, CancelReads(q)
        PROVE  OnlyPurchasesDrift'
    BY <1>21 DEF CancelReads
  <1>22. ASSUME NEW q \in Admin, CancelWipes(q)
        PROVE  OnlyPurchasesDrift'
    BY <1>22 DEF CancelWipes, Category
  <1>23. ASSUME Crash
        PROVE  OnlyPurchasesDrift'
    BY <1>23 DEF Crash
  <1>24. ASSUME BroadcastBreaks
        PROVE  OnlyPurchasesDrift'
    <2>1. bill[job.msg].cost \in Nat
      BY <1>24, JobHoldsMessage DEF BroadcastBreaks, FailJob, Bill
    <2>2. RefundToSource(bill[job.msg].source, bill[job.msg].cost)
      BY <1>24 DEF BroadcastBreaks, FailJob
    <2>3. Reconciled => Reconciled'
      <3> HIDE DEF TypeOK, Reconciled
      <3> QED
        BY <1>24, <2>1, <2>2, RefundBooked DEF BroadcastBreaks, FailJob
    <2> QED
      BY <1>24, <2>3 DEF BroadcastBreaks, FailJob
  <1>25. ASSUME BroadcastDone
        PROVE  OnlyPurchasesDrift'
    BY <1>25 DEF BroadcastDone
  <1>26. CASE UNCHANGED vars
    BY <1>26 DEF vars
  <1>27. ASSUME JobUnrefunded
        PROVE  OnlyPurchasesDrift'
    BY <1>27 DEF JobUnrefunded
  <1>28. ASSUME NEW r \in Report, ReportUnrefunded(r)
        PROVE  OnlyPurchasesDrift'
    BY <1>28 DEF ReportUnrefunded
  <1>29. ASSUME NEW q \in Buyer \cup Admin, GrantFails(q)
        PROVE  OnlyPurchasesDrift'
    BY <1>29 DEF GrantFails
  <1> QED
    BY <1>1, <1>2, <1>3, <1>4, <1>5, <1>6, <1>7, <1>8, <1>9, <1>10,
       <1>11, <1>12, <1>13, <1>14, <1>15, <1>16, <1>17, <1>18, <1>19, <1>20,
       <1>21, <1>22, <1>23, <1>24, <1>25, <1>26, <1>27, <1>28, <1>29 DEF Next

-----------------------------------------------------------------------------
(* The row itself, together with the copies requests work from.            *)

(* So is the row's. *)
LEMMA RowStep == TypeOK /\ RowOK /\ [Next]_vars => RowOK'
  <1> SUFFICES ASSUME TypeOK, RowOK, [Next]_vars
               PROVE  RowOK'
    OBVIOUS
  <1> USE DEF TypeOK, wallet, RowOK, BalanceMirrorsPayg, NoOverdraft, CopiesOK,
              CopyOK, Requests
  <1>1. ASSUME NEW m \in Msg, LoadJob(m)
        PROVE  RowOK'
    BY <1>1 DEF LoadJob
  <1>2. ASSUME Throttle
        PROVE  RowOK'
    BY <1>2 DEF Throttle
  <1>3. ASSUME NEW allowPayg \in BOOLEAN, DeductCreditsForSms(allowPayg)
        PROVE  RowOK'
    BY <1>3, JobHoldsMessage DEF DeductCreditsForSms, Affordable
  <1>4. ASSUME NEW allowPayg \in BOOLEAN, DeductRefused(allowPayg)
        PROVE  RowOK'
    BY <1>4 DEF DeductRefused
  <1>5. ASSUME GatewayAccepted
        PROVE  RowOK'
    BY <1>5 DEF GatewayAccepted
  <1>6. ASSUME GatewayRejected
        PROVE  RowOK'
    <2>1. bill[job.msg].cost \in Nat
      BY <1>6, JobHoldsMessage DEF GatewayRejected, FailJob, Bill
    <2> QED
      BY <1>6, <2>1 DEF GatewayRejected, FailJob, RefundToSource
  <1>7. ASSUME NEW m \in Msg, MarkSent(m)
        PROVE  RowOK'
    BY <1>7 DEF MarkSent
  <1>8. ASSUME NEW m \in Msg, PollNotDelivered(m)
        PROVE  RowOK'
    BY <1>8 DEF PollNotDelivered
  <1>9. ASSUME NEW m \in Msg, ReportSettled(m)
        PROVE  RowOK'
    BY <1>9 DEF ReportSettled
  <1>10. ASSUME NEW r \in Report, NEW m \in Msg, ReportChecks(r, m)
        PROVE  RowOK'
    BY <1>10 DEF ReportChecks
  <1>11. ASSUME NEW r \in Report, ReportRefunds(r)
        PROVE  RowOK'
    <2>1. report[r].seen.cost \in Nat
      BY <1>11, ReportHoldsMessage DEF ReportRefunds, Bill
    <2> QED
      BY <1>11, <2>1 DEF ReportRefunds, RefundToSource
  <1>12. ASSUME NEW n \in TopUps, AddPaygCredits(n)
        PROVE  RowOK'
    BY <1>12, WalletAssumption DEF AddPaygCredits
  <1>13. ASSUME NEW n \in TopUps, UseCredits(n)
        PROVE  RowOK'
    BY <1>13, WalletAssumption DEF UseCredits, PaygLeft, SubscriptionLeft
  <1>14. ASSUME NEW q \in Buyer, NEW p \in Plan, BuyChecks(q, p)
        PROVE  RowOK'
    <2>1. CopyOK(request'[q])
      BY <1>14 DEF BuyChecks
    <2>2. \A x \in Requests \ {q} : request'[x] = request[x]
      BY <1>14 DEF BuyChecks
    <2> QED
      BY <1>14, <2>1, <2>2 DEF BuyChecks
  <1>15. ASSUME NEW q \in Buyer, BuyCharges(q)
        PROVE  RowOK'
    <2> DEFINE w == request[q]
    <2>1. /\ w \in [pc : {"checked"}, plan : Plan, was : Plan,
                    subscription : Int, payg : Int, balance : Int]
          /\ w.payg >= MonthlyPrice[w.plan]
          /\ w.balance = w.payg /\ w.subscription >= 0
      BY <1>15 DEF BuyCharges, Request, NoRequest
    <2>2. MonthlyPrice[w.plan] \in Nat
      BY <2>1, WalletAssumption
    <2>3. BalanceMirrorsPayg' /\ NoOverdraft'
      BY <1>15, <2>1, <2>2
      DEF BuyCharges, PaygLeft, SubscriptionLeft, Written
    <2>4. CopyOK(request'[q])
      BY <1>15, <2>1, <2>2 DEF BuyCharges, PaygLeft, SubscriptionLeft
    <2>5. \A x \in Requests \ {q} : request'[x] = request[x]
      BY <1>15 DEF BuyCharges
    <2> QED
      BY <2>3, <2>4, <2>5
  <1>16. ASSUME NEW q \in Buyer, BuyAssigns(q)
        PROVE  RowOK'
    BY <1>16 DEF BuyAssigns
  <1>17. ASSUME NEW q \in Buyer, BuyGrants(q)
        PROVE  RowOK'
    <2>1. MonthlyCredits[plan] \in Nat
      BY WalletAssumption
    <2> QED
      BY <1>17, <2>1 DEF BuyGrants, RenewSubscriptionCredits, Written,
         NoRequest
  <1>18. ASSUME NEW q \in Admin, NEW p \in Plan, AssignPlan(q, p)
        PROVE  RowOK'
    BY <1>18 DEF AssignPlan
  <1>19. ASSUME NEW q \in Admin, AssignGrants(q)
        PROVE  RowOK'
    <2>1. MonthlyCredits[plan] \in Nat
      BY WalletAssumption
    <2> QED
      BY <1>19, <2>1 DEF AssignGrants, RenewSubscriptionCredits, Written,
         NoRequest
  <1>20. ASSUME NEW q \in Admin, CancelPlan(q)
        PROVE  RowOK'
    BY <1>20 DEF CancelPlan
  <1>21. ASSUME NEW q \in Admin, CancelReads(q)
        PROVE  RowOK'
    BY <1>21 DEF CancelReads, NoRequest
  <1>22. ASSUME NEW q \in Admin, CancelWipes(q)
        PROVE  RowOK'
    BY <1>22 DEF CancelWipes, Written, NoRequest
  <1>23. ASSUME Crash
        PROVE  RowOK'
    BY <1>23 DEF Crash, NoRequest
  <1>24. ASSUME BroadcastBreaks
        PROVE  RowOK'
    <2>1. bill[job.msg].cost \in Nat
      BY <1>24, JobHoldsMessage DEF BroadcastBreaks, FailJob, Bill
    <2> QED
      BY <1>24, <2>1 DEF BroadcastBreaks, FailJob, RefundToSource
  <1>25. ASSUME BroadcastDone
        PROVE  RowOK'
    BY <1>25 DEF BroadcastDone
  <1>26. CASE UNCHANGED vars
    BY <1>26 DEF vars
  <1>27. ASSUME JobUnrefunded
        PROVE  RowOK'
    BY <1>27 DEF JobUnrefunded
  <1>28. ASSUME NEW r \in Report, ReportUnrefunded(r)
        PROVE  RowOK'
    BY <1>28 DEF ReportUnrefunded
  <1>29. ASSUME NEW q \in Buyer \cup Admin, GrantFails(q)
        PROVE  RowOK'
    BY <1>29 DEF GrantFails, NoRequest
  <1> QED
    BY <1>1, <1>2, <1>3, <1>4, <1>5, <1>6, <1>7, <1>8, <1>9, <1>10,
       <1>11, <1>12, <1>13, <1>14, <1>15, <1>16, <1>17, <1>18, <1>19, <1>20,
       <1>21, <1>22, <1>23, <1>24, <1>25, <1>26, <1>27, <1>28, <1>29 DEF Next


-----------------------------------------------------------------------------
(* Without purchases the module implements Account.                        *)

(* A refund is one Credit of the account. *)
LEMMA RefundIsCredit ==
  ASSUME TypeOK, NEW source, NEW amount \in Nat,
         RefundToSource(source, amount), dropped' = dropped
  PROVE  Credits!Credit
  BY DEF TypeOK, RefundToSource, Book, Category, CreditEntries, DebitEntries,
         Credits!Credit

(* Every step is one of the account's, or a stutter. *)
LEMMA AccountStep ==
  ASSUME Buyer = {}, TypeOK, RowOK, [Next]_vars
  PROVE  [Credits!AccountNext]_(Credits!accountVars)
  <1> USE Buyer = {} DEF TypeOK, wallet, books, Category, RowOK, NoOverdraft,
              BalanceMirrorsPayg, CreditEntries, DebitEntries,
              Credits!AccountNext, Credits!accountVars
  <1>1. ASSUME NEW m \in Msg, LoadJob(m)
        PROVE  [Credits!AccountNext]_(Credits!accountVars)
    BY <1>1 DEF LoadJob
  <1>2. ASSUME Throttle
        PROVE  [Credits!AccountNext]_(Credits!accountVars)
    BY <1>2 DEF Throttle
  <1>3. ASSUME NEW allowPayg \in BOOLEAN, DeductCreditsForSms(allowPayg)
        PROVE  [Credits!AccountNext]_(Credits!accountVars)
    <2>1. Credits!Debit
      BY <1>3, JobHoldsMessage
      DEF DeductCreditsForSms, Affordable, Book, Credits!Debit
    <2> QED
      BY <2>1
  <1>4. ASSUME NEW allowPayg \in BOOLEAN, DeductRefused(allowPayg)
        PROVE  [Credits!AccountNext]_(Credits!accountVars)
    BY <1>4 DEF DeductRefused
  <1>5. ASSUME GatewayAccepted
        PROVE  [Credits!AccountNext]_(Credits!accountVars)
    BY <1>5 DEF GatewayAccepted
  <1>6. ASSUME GatewayRejected
        PROVE  [Credits!AccountNext]_(Credits!accountVars)
    <2>1. bill[job.msg].cost \in Nat
      BY <1>6, JobHoldsMessage DEF GatewayRejected, FailJob, Bill
    <2>2. RefundToSource(bill[job.msg].source, bill[job.msg].cost)
      BY <1>6 DEF GatewayRejected, FailJob
    <2>3. Credits!Credit
      BY <1>6, <2>1, <2>2, RefundIsCredit DEF GatewayRejected, FailJob
    <2> QED
      BY <2>3
  <1>7. ASSUME NEW m \in Msg, MarkSent(m)
        PROVE  [Credits!AccountNext]_(Credits!accountVars)
    BY <1>7 DEF MarkSent
  <1>8. ASSUME NEW m \in Msg, PollNotDelivered(m)
        PROVE  [Credits!AccountNext]_(Credits!accountVars)
    BY <1>8 DEF PollNotDelivered
  <1>9. ASSUME NEW m \in Msg, ReportSettled(m)
        PROVE  [Credits!AccountNext]_(Credits!accountVars)
    BY <1>9 DEF ReportSettled
  <1>10. ASSUME NEW r \in Report, NEW m \in Msg, ReportChecks(r, m)
        PROVE  [Credits!AccountNext]_(Credits!accountVars)
    BY <1>10 DEF ReportChecks
  <1>11. ASSUME NEW r \in Report, ReportRefunds(r)
        PROVE  [Credits!AccountNext]_(Credits!accountVars)
    <2>1. report[r].seen.cost \in Nat
      BY <1>11, ReportHoldsMessage DEF ReportRefunds, Bill
    <2>2. RefundToSource(report[r].seen.source, report[r].seen.cost)
      BY <1>11 DEF ReportRefunds
    <2>3. Credits!Credit
      BY <1>11, <2>1, <2>2, RefundIsCredit DEF ReportRefunds
    <2> QED
      BY <2>3
  <1>12. ASSUME NEW n \in TopUps, AddPaygCredits(n)
        PROVE  [Credits!AccountNext]_(Credits!accountVars)
    <2>1. Credits!Credit
      BY <1>12, WalletAssumption DEF AddPaygCredits, Book, Credits!Credit
    <2> QED
      BY <2>1
  <1>13. ASSUME NEW n \in TopUps, UseCredits(n)
        PROVE  [Credits!AccountNext]_(Credits!accountVars)
    <2>1. n \in Nat /\ payg >= n
      BY <1>13, WalletAssumption DEF UseCredits
    <2>2. Credits!Debit
      BY <1>13, <2>1
      DEF UseCredits, PaygLeft, SubscriptionLeft, Book, Credits!Debit
    <2> QED
      BY <2>2
  <1>14. ASSUME NEW q \in Buyer, NEW p \in Plan, BuyChecks(q, p)
        PROVE  [Credits!AccountNext]_(Credits!accountVars)
    BY <1>14
  <1>15. ASSUME NEW q \in Buyer, BuyCharges(q)
        PROVE  [Credits!AccountNext]_(Credits!accountVars)
    BY <1>15
  <1>16. ASSUME NEW q \in Buyer, BuyAssigns(q)
        PROVE  [Credits!AccountNext]_(Credits!accountVars)
    BY <1>16
  <1>17. ASSUME NEW q \in Buyer, BuyGrants(q)
        PROVE  [Credits!AccountNext]_(Credits!accountVars)
    BY <1>17
  <1>18. ASSUME NEW q \in Admin, NEW p \in Plan, AssignPlan(q, p)
        PROVE  [Credits!AccountNext]_(Credits!accountVars)
    BY <1>18 DEF AssignPlan
  <1>19. ASSUME NEW q \in Admin, AssignGrants(q)
        PROVE  [Credits!AccountNext]_(Credits!accountVars)
    <2>1. MonthlyCredits[plan] \in Nat
      BY WalletAssumption
    <2>2. /\ subscription' = MonthlyCredits[plan]
          /\ dropped' = dropped + subscription
          /\ Book("subscription_renewal", MonthlyCredits[plan])
          /\ payg' = payg
      BY <1>19, <2>1 DEF AssignGrants, RenewSubscriptionCredits, Written
    <2>3. Credits!Renewal
      <3>1. subscription \in 0 .. (subscription + payg)
        OBVIOUS
      <3> QED
        BY <2>1, <2>2, <3>1 DEF Book, Credits!Renewal
    <2> QED
      BY <2>3
  <1>20. ASSUME NEW q \in Admin, CancelPlan(q)
        PROVE  [Credits!AccountNext]_(Credits!accountVars)
    BY <1>20 DEF CancelPlan
  <1>21. ASSUME NEW q \in Admin, CancelReads(q)
        PROVE  [Credits!AccountNext]_(Credits!accountVars)
    BY <1>21 DEF CancelReads
  <1>22. ASSUME NEW q \in Admin, CancelWipes(q)
        PROVE  [Credits!AccountNext]_(Credits!accountVars)
    <2>1. Credits!Forfeit
      BY <1>22 DEF CancelWipes, Credits!Forfeit
    <2> QED
      BY <2>1
  <1>23. ASSUME Crash
        PROVE  [Credits!AccountNext]_(Credits!accountVars)
    BY <1>23 DEF Crash
  <1>24. ASSUME BroadcastBreaks
        PROVE  [Credits!AccountNext]_(Credits!accountVars)
    <2>1. bill[job.msg].cost \in Nat
      BY <1>24, JobHoldsMessage DEF BroadcastBreaks, FailJob, Bill
    <2>2. RefundToSource(bill[job.msg].source, bill[job.msg].cost)
      BY <1>24 DEF BroadcastBreaks, FailJob
    <2>3. Credits!Credit
      BY <1>24, <2>1, <2>2, RefundIsCredit DEF BroadcastBreaks, FailJob
    <2> QED
      BY <2>3
  <1>25. ASSUME BroadcastDone
        PROVE  [Credits!AccountNext]_(Credits!accountVars)
    BY <1>25 DEF BroadcastDone
  <1>26. CASE UNCHANGED vars
    BY <1>26 DEF vars
  <1>27. ASSUME JobUnrefunded
        PROVE  [Credits!AccountNext]_(Credits!accountVars)
    BY <1>27 DEF JobUnrefunded
  <1>28. ASSUME NEW r \in Report, ReportUnrefunded(r)
        PROVE  [Credits!AccountNext]_(Credits!accountVars)
    BY <1>28 DEF ReportUnrefunded
  <1>29. ASSUME NEW q \in Buyer \cup Admin, GrantFails(q)
        PROVE  [Credits!AccountNext]_(Credits!accountVars)
    BY <1>29 DEF GrantFails
  <1> QED
    BY <1>1, <1>2, <1>3, <1>4, <1>5, <1>6, <1>7, <1>8, <1>9, <1>10,
       <1>11, <1>12, <1>13, <1>14, <1>15, <1>16, <1>17, <1>18, <1>19, <1>20,
       <1>21, <1>22, <1>23, <1>24, <1>25, <1>26, <1>27, <1>28, <1>29 DEF Next

-----------------------------------------------------------------------------
(* The theorems.                                                           *)

(* Whatever is interleaved, every column keeps its type. *)
THEOREM TypeCorrect == Spec => []TypeOK
  <1>1. Init => TypeOK
    <2> SUFFICES ASSUME Init
                 PROVE  TypeOK
      OBVIOUS
    <2>1. bill \in [Msg -> Bill]
      <3>1. [status |-> "pending", cost |-> 0, source |-> "none",
             refunded |-> FALSE, acked |-> FALSE] \in Bill
        BY DEF Bill
      <3> QED
        BY <3>1 DEF Init
    <2>2. job \in Job /\ report \in [Report -> Refunding]
      BY DEF Init, Job, Refunding
    <2>3. request \in [Buyer \cup Admin -> Request]
      BY DEF Init, Request
    <2>4. booked \in [Category -> Nat]
      BY DEF Init
    <2>5. /\ subscription \in Int /\ payg \in Int /\ balance \in Int
          /\ plan \in Plan /\ dropped \in Int
      BY WalletAssumption DEF Init
    <2>6. drifted \in BOOLEAN
      BY DEF Init
    <2> QED
      BY <2>1, <2>2, <2>3, <2>4, <2>5, <2>6 DEF TypeOK
  <1> QED
    BY <1>1, TypeStep, PTL DEF Spec

(* The ledger and the wallet part only by a purchase that worked on a stale *)
(* copy: for any number of messages, of reports that refund twice, of       *)
(* top-ups, renewals, cancellations and crashes.                            *)
THEOREM LedgerCorrect ==
  ASSUME SeedBalance = 0
  PROVE  Spec => []OnlyPurchasesDrift
  <1>1. Init => OnlyPurchasesDrift
    BY DEF Init, OnlyPurchasesDrift, Reconciled, CreditEntries, DebitEntries,
           Category
  <1> QED
    BY <1>1, TypeCorrect, BooksStep, PTL DEF Spec

(* The row's strengthening is an invariant: the two columns agree, nothing *)
(* is overdrawn, and so it is in the copies purchases work from.           *)
THEOREM RowCorrect ==
  ASSUME SeedBalance = 0
  PROVE  Spec => []RowOK
  <1>1. Init => RowOK
    BY DEF Init, RowOK, BalanceMirrorsPayg, NoOverdraft, CopiesOK, CopyOK,
           Requests, NoRequest
  <1> QED
    BY <1>1, TypeCorrect, RowStep, PTL DEF Spec

(* The balance column of a wallet created with none is its PAYG column,    *)
(* for ever.                                                               *)
THEOREM BalanceCorrect ==
  ASSUME SeedBalance = 0
  PROVE  Spec => []BalanceMirrorsPayg
  <1>1. RowOK => BalanceMirrorsPayg
    BY DEF RowOK
  <1> QED
    BY <1>1, RowCorrect, PTL

(* Such a wallet is never overdrawn, not even by a purchase with a stale    *)
(* copy.                                                                   *)
THEOREM NeverOverdrawn ==
  ASSUME SeedBalance = 0
  PROVE  Spec => []NoOverdraft
  <1>1. RowOK => NoOverdraft
    BY DEF RowOK
  <1> QED
    BY <1>1, RowCorrect, PTL

(* With no purchases the ledger explains the wallet to the last credit. *)
THEOREM ReconciledWithoutPurchases ==
  ASSUME Buyer = {}, SeedBalance = 0
  PROVE  Spec => []Reconciled
  <1>1. Init => ~drifted
    BY DEF Init
  <1>2. ~drifted /\ [Next]_vars => ~drifted'
    <2> SUFFICES ASSUME ~drifted, [Next]_vars
                 PROVE  ~drifted'
      OBVIOUS
    <2>1. ASSUME NEW q \in Admin, AssignGrants(q)
          PROVE  ~drifted'
      BY <2>1 DEF AssignGrants, RenewSubscriptionCredits
    <2>2. \/ UNCHANGED drifted
          \/ \E q \in Admin : AssignGrants(q)
      BY DEF Next, vars, books, LoadJob, Throttle, DeductCreditsForSms,
             DeductRefused, GatewayAccepted, GatewayRejected, FailJob,
             JobUnrefunded, ReportUnrefunded, GrantFails,
             BroadcastBreaks, BroadcastDone, MarkSent,
             PollNotDelivered, ReportSettled, ReportChecks, ReportRefunds,
             AddPaygCredits, UseCredits, AssignPlan, CancelPlan, CancelReads,
             CancelWipes, Crash
    <2> QED
      BY <2>1, <2>2
  <1>3. OnlyPurchasesDrift /\ ~drifted => Reconciled
    BY DEF OnlyPurchasesDrift
  <1> QED
    BY <1>1, <1>2, <1>3, LedgerCorrect, PTL DEF Spec

(* With no purchases the billing code implements Account: each credit or   *)
(* debit moves with its ledger entry, and credits vanish only at a renewal *)
(* or a cancellation.                                                      *)
THEOREM ImplementsAccount ==
  ASSUME Buyer = {}, SeedBalance = 0
  PROVE  Spec => KeepsAccount
  <1>1. Init => Credits!AccountInit
    BY DEF Init, Credits!AccountInit, CreditEntries, DebitEntries, Category
  <1>2. TypeOK /\ RowOK /\ [Next]_vars
          => [Credits!AccountNext]_(Credits!accountVars)
    BY AccountStep
  <1> QED
    BY <1>1, <1>2, TypeCorrect, RowCorrect, PTL DEF Spec, KeepsAccount,
       Credits!AccountSpec

=============================================================================
