------------------------------ MODULE Payments ------------------------------
(***************************************************************************)
(* Topping up the wallet: the billing page of the dashboard, which makes a *)
(* reference, registers the intent and opens the Paystack popup; Paystack,  *)
(* which charges the customer; and the payment service, which keeps its     *)
(* transactions in memory and credits the wallet when it verifies one.  The *)
(* same page buys plans, and the same flag tells that either is under way.  *)
(***************************************************************************)
EXTENDS Naturals, FiniteSets

CONSTANTS
    Reference,    \* references of payments
    Verifier,     \* requests to the service that may be under way at once
    NoReference,
    MaxRestarts,  \* bound: restarts of the server
    MaxReloads,   \* bound: times the page is opened again
    MaxReopened   \* bound: no reference is registered again once one reopened this often

ASSUME PaymentsAssumption ==
    NoReference \notin Reference /\ MaxRestarts \in Nat /\ MaxReloads \in Nat
      /\ MaxReopened \in Nat

VARIABLES
    intent,     \* the service's transactions: reference |-> status
    charged,    \* references Paystack took money for
    credited,   \* reference |-> times the wallet was credited for it
    request,    \* requests that verify or complete a payment
    till,       \* the billing page
    minted,     \* references made so far
    restarts, reloads,
    reopened,   \* history: reference |-> times it was a success and became payable again
    uncredited  \* history: completed without a credit
payVars == <<intent, charged, credited, request, till, minted, restarts, reloads,
             reopened, uncredited>>

IntentStatus == {"absent", "PENDING", "SUCCESS", "FAILED"}
NoRequest == [step |-> "none", ref |-> NoReference, page |-> FALSE]
OpenedTill ==
    [loading |-> TRUE, modal |-> FALSE, status |-> "none", busy |-> FALSE,
     registering |-> NoReference, popup |-> NoReference, ref |-> NoReference,
     plan |-> "none"]

\* Mutant: the status changes after the credit.
CompleteLater(v, r, page) ==
    /\ request' = [request EXCEPT ![v] = [step |-> "crediting", ref |-> r, page |-> page]]
    /\ UNCHANGED intent

\* complete_payment: only a pending transaction, whose status changes before
\* the credit is awaited.
Complete(v, r, page) ==
    /\ intent' = [intent EXCEPT ![r] = "SUCCESS"]
    /\ request' = [request EXCEPT ![v] = [step |-> "crediting", ref |-> r, page |-> page]]

PayInit ==
    /\ intent = [r \in Reference |-> "absent"]
    /\ charged = {} /\ credited = [r \in Reference |-> 0]
    /\ request = [v \in Verifier |-> NoRequest]
    /\ till = OpenedTill /\ minted = {}
    /\ restarts = 0 /\ reloads = 0 /\ uncredited = {}
    /\ reopened = [r \in Reference |-> 0]

serviceVars == <<intent, charged, credited, request, minted, restarts, reloads,
                 reopened, uncredited>>
historyVars == <<minted, restarts, reloads, reopened, uncredited>>

----------------------------------------------------------------------------
(* The page.                                                                *)

\* Plans, ledger and balance are read together, and shown when all are there.
FetchData == till.loading /\ till' = [till EXCEPT !.loading = FALSE]
             /\ UNCHANGED serviceVars

\* What the cards offer: a top-up, and each plan but the user's.
OpenTopup == ~till.loading /\ till' = [till EXCEPT !.modal = TRUE]
             /\ UNCHANGED serviceVars

\* Mutant: cancelling the form frees the page's buttons.
CancelTopupFrees ==
    /\ till.modal /\ (till.status = "none" \/ ~till.busy)
    /\ till' = [till EXCEPT !.modal = FALSE, !.busy = FALSE]
    /\ UNCHANGED serviceVars

\* The form can be cancelled at any time, the dialog closed unless it works.
CancelTopup ==
    /\ till.modal /\ (till.status = "none" \/ ~till.busy)
    /\ till' = [till EXCEPT !.modal = FALSE]
    /\ UNCHANGED serviceVars

PayOffered == till.modal /\ till.status = "none" /\ ~till.busy
HandleTopup(r) ==
    /\ PayOffered /\ r \notin minted
    /\ till' = [till EXCEPT !.busy = TRUE, !.registering = r]
    /\ minted' = minted \cup {r}
    /\ UNCHANGED <<intent, charged, credited, request, restarts, reloads, reopened, uncredited>>

\* register-intent writes PENDING over whatever the transaction was.
Registers(r) ==
    /\ intent' = [intent EXCEPT ![r] = "PENDING"]
    /\ reopened' = IF intent[r] = "SUCCESS" THEN [reopened EXCEPT ![r] = @ + 1] ELSE reopened

\* Its answer opens the popup, whatever is shown by then.
IntentRegistered ==
    LET r == till.registering
    IN /\ r # NoReference
       /\ \/ /\ Registers(r)
             /\ till' = [till EXCEPT !.registering = NoReference, !.popup = r]
          \/ /\ Registers(r) \/ UNCHANGED <<intent, reopened>>
             /\ till' = [till EXCEPT !.registering = NoReference, !.busy = FALSE]
    /\ UNCHANGED <<charged, credited, request, minted, restarts, reloads, uncredited>>

\* Paystack charges the customer of an open popup ...
PaystackCharges ==
    /\ till.popup # NoReference /\ charged' = charged \cup {till.popup}
    /\ UNCHANGED <<intent, credited, request, till, historyVars>>

\* Mutant: the callback verifies the reference the page held before.
PopupCallsBackStale(v) ==
    LET r == till.popup
    IN /\ r \in charged /\ request[v] = NoRequest
       /\ till' = [till EXCEPT !.popup = NoReference, !.status = "verifying", !.ref = r]
       /\ request' = [request EXCEPT ![v] = [step |-> "asked", ref |-> till.ref, page |-> TRUE]]
       /\ UNCHANGED <<intent, charged, credited, historyVars>>

\* ... and calls back, which asks the service to verify the payment; or the
\* popup is closed.
PopupCallsBack(v) ==
    LET r == till.popup
    IN /\ r \in charged /\ request[v] = NoRequest
       /\ till' = [till EXCEPT !.popup = NoReference, !.status = "verifying", !.ref = r]
       /\ request' = [request EXCEPT ![v] = [step |-> "asked", ref |-> r, page |-> TRUE]]
       /\ UNCHANGED <<intent, charged, credited, historyVars>>
OnClose ==
    /\ till.popup # NoReference
    /\ till' = [till EXCEPT !.popup = NoReference, !.busy = FALSE]
    /\ UNCHANGED serviceVars

\* Two seconds after a success the dialog closes and the page reads again.
ResetTopupState(t) == [t EXCEPT !.status = "none", !.busy = FALSE, !.ref = NoReference]
SuccessTimer ==
    /\ till.status = "success"
    /\ till' = [ResetTopupState(till) EXCEPT !.modal = FALSE]
    /\ UNCHANGED serviceVars
TryAgain ==
    /\ till.modal /\ till.status = "failed" /\ till' = ResetTopupState(till)
    /\ UNCHANGED serviceVars

HandleBuyPlan ==
    /\ ~till.loading /\ ~till.modal /\ till.plan = "none"
    /\ till' = [till EXCEPT !.plan = "asked"]
    /\ UNCHANGED serviceVars
UpgradeIdle == till.plan = "asked" /\ ~till.busy
CloseUpgrade ==
    /\ UpgradeIdle /\ till' = [till EXCEPT !.plan = "none"] /\ UNCHANGED serviceVars
ConfirmUpgrade ==
    /\ UpgradeIdle /\ till' = [till EXCEPT !.plan = "buying", !.busy = TRUE]
    /\ UNCHANGED serviceVars
UpgradeAnswered ==
    /\ till.plan = "buying"
    /\ \E plan \in {"none", "asked"} : till' = [till EXCEPT !.plan = plan, !.busy = FALSE]
    /\ UNCHANGED serviceVars

\* Nothing of the page outlives it: the popup, its callback and the reference;
\* an intent on its way may still arrive.
Reload ==
    /\ reloads < MaxReloads /\ reloads' = reloads + 1 /\ till' = OpenedTill
    /\ request' = [v \in Verifier |-> [request[v] EXCEPT !.page = FALSE]]
    /\ \/ UNCHANGED <<intent, reopened>>
       \/ till.registering # NoReference /\ Registers(till.registering)
    /\ UNCHANGED <<charged, credited, minted, restarts, uncredited>>

----------------------------------------------------------------------------
(* The payment service.                                                     *)

\* A request answers the page, if the page is the one that asked.
Answer(v, answer) ==
    /\ request' = [request EXCEPT ![v] = NoRequest]
    /\ till' = IF request[v].page THEN [till EXCEPT !.status = answer] ELSE till

\* Any client may register a reference that is known, start a simulated push,
\* verify a reference, or complete it.
RegisterAgain(r) ==
    /\ r \in minted /\ \A q \in Reference : reopened[q] < MaxReopened
    /\ Registers(r)
    /\ UNCHANGED <<charged, credited, request, till, minted, restarts, reloads, uncredited>>
InitiateMomoPush(r) ==
    /\ r \notin minted /\ minted' = minted \cup {r}
    /\ intent' = [intent EXCEPT ![r] = "PENDING"]
    /\ UNCHANGED <<charged, credited, request, till, restarts, reloads, reopened, uncredited>>
VerifyAgain(v, r) ==
    /\ r \in minted /\ request[v] = NoRequest
    /\ request' = [request EXCEPT ![v] = [step |-> "asked", ref |-> r, page |-> FALSE]]
    /\ UNCHANGED <<intent, charged, credited, till, historyVars>>
SimulateComplete(v, r) ==
    /\ request[v] = NoRequest /\ intent[r] = "PENDING"
    /\ \/ Complete(v, r, FALSE) /\ UNCHANGED uncredited
       \/ /\ intent' = [intent EXCEPT ![r] = "FAILED"] /\ uncredited' = uncredited \cup {r}
          /\ UNCHANGED request
    /\ UNCHANGED <<charged, credited, till, minted, restarts, reloads, reopened>>

\* Mutant: a payment Paystack knows is answered as done, whatever was credited.
VerifyTakesItForDone(v) ==
    /\ request[v].step = "asked"
    /\ \/ request[v].ref \in charged /\ Answer(v, "success")
       \/ Answer(v, "failed")
    /\ UNCHANGED <<intent, charged, credited, historyVars>>

\* Paystack has answered: an unknown reference that was paid is taken as one
\* that is pending.
VerifyPaystackPayment(v) ==
    LET r == request[v].ref
    IN /\ request[v].step = "asked"
       /\ \/ /\ r \in charged /\ intent[r] \in {"absent", "PENDING"}
             /\ Complete(v, r, request[v].page) /\ UNCHANGED till
          \/ /\ r \in charged /\ intent[r] \in {"SUCCESS", "FAILED"}
             /\ Answer(v, "success") /\ UNCHANGED intent
          \/ Answer(v, "failed") /\ UNCHANGED intent
       /\ UNCHANGED <<charged, credited, historyVars>>

\* add_payg_credits commits, or its failure is an answer like any other; the
\* answer itself may not come back.
Credits(v) ==
    /\ request[v].step = "crediting"
    /\ credited' = [credited EXCEPT ![request[v].ref] = @ + 1]
    /\ \E answer \in {"success", "failed"} : Answer(v, answer)
    /\ UNCHANGED <<intent, charged, historyVars>>
CreditFails(v) ==
    /\ request[v].step = "crediting" /\ Answer(v, "failed")
    /\ uncredited' = uncredited \cup {request[v].ref}
    /\ UNCHANGED <<intent, charged, credited, minted, restarts, reloads, reopened>>

Crediting == {request[v].ref : v \in {w \in Verifier : request[w].step = "crediting"}}
Restart ==
    /\ restarts < MaxRestarts /\ restarts' = restarts + 1
    /\ intent' = [r \in Reference |-> "absent"]
    /\ request' = [v \in Verifier |-> NoRequest]
    /\ till' = IF till.status = "verifying" THEN [till EXCEPT !.status = "failed"] ELSE till
    /\ reopened' = [r \in Reference |->
                      IF intent[r] = "SUCCESS" THEN reopened[r] + 1 ELSE reopened[r]]
    /\ uncredited' = uncredited \cup Crediting
    /\ UNCHANGED <<charged, credited, minted, reloads>>

PayNext ==
    \/ FetchData \/ OpenTopup \/ CancelTopup \/ IntentRegistered
    \/ PaystackCharges \/ OnClose \/ SuccessTimer \/ TryAgain
    \/ HandleBuyPlan \/ CloseUpgrade \/ ConfirmUpgrade \/ UpgradeAnswered
    \/ Reload \/ Restart
    \/ \E r \in Reference : HandleTopup(r) \/ InitiateMomoPush(r) \/ RegisterAgain(r)
    \/ \E v \in Verifier :
         \/ PopupCallsBack(v) \/ VerifyPaystackPayment(v) \/ Credits(v) \/ CreditFails(v)
         \/ \E r \in Reference : VerifyAgain(v, r) \/ SimulateComplete(v, r)

PaySpec == PayInit /\ [][PayNext]_payVars

----------------------------------------------------------------------------
PayTypeOK ==
    /\ intent \in [Reference -> IntentStatus]
    /\ charged \subseteq Reference /\ minted \subseteq Reference
    /\ credited \in [Reference -> Nat]
    /\ request \in [Verifier -> [step : {"none", "asked", "crediting"},
                                 ref : Reference \cup {NoReference}, page : BOOLEAN]]
    /\ \A v \in Verifier : request[v].step # "none" => request[v].ref \in Reference
    /\ till \in [loading : BOOLEAN, modal : BOOLEAN,
                 status : {"none", "verifying", "success", "failed"}, busy : BOOLEAN,
                 registering : Reference \cup {NoReference},
                 popup : Reference \cup {NoReference},
                 ref : Reference \cup {NoReference},
                 plan : {"none", "asked", "buying"}]
    /\ restarts \in Nat /\ reloads \in Nat
    /\ reopened \in [Reference -> Nat] /\ uncredited \subseteq Reference

(* A payment is credited once, however often, by whomever and in whatever   *)
(* order it is registered, verified and completed, and once more each time  *)
(* that the service lost sight of its success: a restart forgets its        *)
(* transactions (payment_service.py keeps them in memory), and a            *)
(* registration writes PENDING over whatever was there.                     *)
CreditedOnce == \A r \in Reference : credited[r] <= 1 + reopened[r]

(* The page says "Wallet topped up successfully" of a payment the wallet    *)
(* was credited for, or is being credited for by another request; or of one *)
(* whose completion lost its credit, which a verification takes for done.   *)
SuccessMeansCredited ==
    till.status = "success" =>
        credited[till.ref] > 0 \/ till.ref \in Crediting \cup uncredited

(* One thing at a time is under way on the billing page: while a payment is *)
(* registered, in the popup or verified, no plan is bought and no second    *)
(* payment is begun, although the form can be closed and opened meanwhile.  *)
Underway == {k \in {"registering", "popup", "verifying", "buying"} :
               \/ k = "registering" /\ till.registering # NoReference
               \/ k = "popup" /\ till.popup # NoReference
               \/ k = "verifying" /\ till.status = "verifying"
               \/ k = "buying" /\ till.plan = "buying"}
OnePaymentAtATime == \A j, k \in Underway : j = k
=============================================================================
