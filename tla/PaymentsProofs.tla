--------------------------- MODULE PaymentsProofs ---------------------------
(***************************************************************************)
(* What holds of topping up for any references, requests, restarts and      *)
(* reloads.  The invariant has three parts: what the billing page has under *)
(* way (Tidy), which references exist and are being registered (Known), and *)
(* what became of the credit of each payment (Once, Accounted, Paged).      *)
(***************************************************************************)
EXTENDS Payments, FiniteSetTheorems, TLAPS

\* A request that was made to credit reference r.
CreditsNow(v, r) == request[v].step = "crediting" /\ request[v].ref = r

\* The page has one thing under way, and its buttons are disabled meanwhile.
Tidy ==
    /\ till.registering # NoReference =>
         till.busy /\ till.popup = NoReference /\ till.status = "none" /\ till.plan # "buying"
    /\ till.popup # NoReference =>
         till.busy /\ till.registering = NoReference /\ till.status = "none" /\ till.plan # "buying"
    /\ till.status # "none" =>
         till.busy /\ till.registering = NoReference /\ till.popup = NoReference
           /\ till.plan # "buying"
    /\ till.plan = "buying" =>
         till.busy /\ till.registering = NoReference /\ till.popup = NoReference
           /\ till.status = "none"

\* Whatever is known of a reference, it was made before; a reference that is
\* being registered is in nobody's hands yet.
Known ==
    \A r \in Reference :
      /\ r \notin minted =>
           /\ intent[r] = "absent" /\ r \notin charged /\ credited[r] = 0
           /\ till.registering # r /\ till.popup # r
           /\ \A v \in Verifier : request[v].ref # r
      /\ till.registering = r => r \notin charged

\* The requests that credit a reference, its credits, and one more while it is
\* not a success, have a reason each.
CreditsOf(r) == {v \in Verifier : CreditsNow(v, r)}
Payable(r) == IF intent[r] = "SUCCESS" THEN 0 ELSE 1
OnceFor(r) ==
    /\ IsFiniteSet(CreditsOf(r))
    /\ credited[r] + Cardinality(CreditsOf(r)) + Payable(r) <= 1 + reopened[r]
Once == \A r \in Reference : OnceFor(r)

\* A transaction that is over was credited, is being credited, or lost it.
Settled(r) == \/ credited[r] > 0 \/ r \in uncredited
              \/ \E v \in Verifier : CreditsNow(v, r)
Accounted ==
    /\ \A r \in Reference : intent[r] \in {"SUCCESS", "FAILED"} => Settled(r)
    /\ till.status = "success" => till.ref \in Reference /\ Settled(till.ref)

\* A request of the page is about the payment the page shows as verified.
Paged ==
    \A v \in Verifier : request[v].step # "none" /\ request[v].page =>
      /\ till.status = "verifying" /\ till.ref = request[v].ref
      /\ \A w \in Verifier : request[w].step # "none" /\ request[w].page => v = w

PayInv == PayTypeOK /\ Tidy /\ Known /\ Once /\ Accounted /\ Paged

USE PaymentsAssumption

-----------------------------------------------------------------------------
LEMMA PayStarts == PayInit => PayInv
<1> SUFFICES ASSUME PayInit PROVE PayInv
    OBVIOUS
<1>1. PayTypeOK /\ Tidy /\ Known /\ Accounted /\ Paged
    BY DEF PayInit, PayTypeOK, Tidy, Known, Accounted, Paged, CreditsNow, Settled,
           IntentStatus, NoRequest, OpenedTill
<1>2. ASSUME NEW r \in Reference PROVE OnceFor(r)
  <2>1. /\ CreditsOf(r) = {} /\ credited[r] = 0 /\ reopened[r] = 0 /\ Payable(r) = 1
      BY DEF PayInit, CreditsOf, CreditsNow, NoRequest, Payable
  <2> QED
      BY <2>1, FS_EmptySet DEF OnceFor
<1> QED
    BY <1>1, <1>2 DEF PayInv, Once

\* A registration makes a transaction pending, or changes nothing.
LEMMA Registering ==
    ASSUME PayTypeOK, NEW q \in Reference, Registers(q) \/ UNCHANGED <<intent, reopened>>
    PROVE  /\ intent' \in [Reference -> IntentStatus] /\ reopened' \in [Reference -> Nat]
           /\ \A r \in Reference : \/ intent'[r] = intent[r]
                                   \/ r = q /\ intent'[r] = "PENDING"
<1>1. CASE Registers(q)
  <2>1. /\ intent' \in [Reference -> IntentStatus]
        /\ \A r \in Reference : intent'[r] = intent[r] \/ (r = q /\ intent'[r] = "PENDING")
      BY <1>1 DEF Registers, PayTypeOK, IntentStatus
  <2>2. reopened' \in [Reference -> Nat]
      BY <1>1 DEF Registers, PayTypeOK
  <2> QED
      BY <2>1, <2>2
<1>2. CASE UNCHANGED <<intent, reopened>>
    BY <1>2 DEF PayTypeOK
<1> QED
    BY <1>1, <1>2

\* The page's registration, and one of a page that was opened again meanwhile.
LEMMA PageRegisters ==
    ASSUME PayTypeOK, IntentRegistered
    PROVE  /\ till.registering \in Reference
           /\ Registers(till.registering) \/ UNCHANGED <<intent, reopened>>
           /\ \/ till' = [till EXCEPT !.registering = NoReference, !.popup = till.registering]
              \/ till' = [till EXCEPT !.registering = NoReference, !.busy = FALSE]
           /\ UNCHANGED <<charged, credited, request, minted, restarts, reloads, uncredited>>
<1>1. till.registering \in Reference
    BY DEF IntentRegistered, PayTypeOK
<1> QED
    BY Zenon, <1>1 DEF IntentRegistered
LEMMA ReloadRegisters ==
    ASSUME PayTypeOK, Reload
    PROVE  \/ UNCHANGED <<intent, reopened>>
           \/ till.registering \in Reference /\ Registers(till.registering)
    BY Zenon DEF Reload, PayTypeOK
LEMMA Reloading ==
    ASSUME PayTypeOK, Reload
    PROVE  /\ intent' \in [Reference -> IntentStatus] /\ reopened' \in [Reference -> Nat]
           /\ \A r \in Reference : \/ intent'[r] = intent[r]
                                   \/ r = till.registering /\ intent'[r] = "PENDING"
<1>1. CASE UNCHANGED <<intent, reopened>>
    BY <1>1 DEF PayTypeOK
<1>2. CASE till.registering \in Reference /\ Registers(till.registering)
    BY <1>2, Registering
<1> QED
    BY <1>1, <1>2, ReloadRegisters

\* Every step keeps the types.
LEMMA TypeKept == PayInv /\ [PayNext]_payVars => PayTypeOK'
<1> SUFFICES ASSUME PayInv, [PayNext]_payVars PROVE PayTypeOK'
    OBVIOUS
<1> USE DEF PayInv, payVars, serviceVars, historyVars, PayTypeOK, IntentStatus,
   OpenedTill, NoRequest
<1>1. CASE FetchData
    BY <1>1 DEF FetchData
<1>2. CASE OpenTopup
    BY <1>2 DEF OpenTopup
<1>3. CASE CancelTopup
    BY <1>3 DEF CancelTopup
<1>4. CASE IntentRegistered
  <2>1. intent' \in [Reference -> IntentStatus] /\ reopened' \in [Reference -> Nat]
    BY <1>4, PageRegisters, Registering
  <2> QED
    BY <1>4, <2>1, PageRegisters
<1>5. CASE PaystackCharges
    BY <1>5 DEF PaystackCharges
<1>6. CASE OnClose
    BY <1>6 DEF OnClose
<1>7. CASE SuccessTimer
    BY <1>7 DEF SuccessTimer, ResetTopupState
<1>8. CASE TryAgain
    BY <1>8 DEF TryAgain, ResetTopupState
<1>9. CASE HandleBuyPlan
    BY <1>9 DEF HandleBuyPlan
<1>10. CASE CloseUpgrade
    BY <1>10 DEF CloseUpgrade, UpgradeIdle
<1>11. CASE ConfirmUpgrade
    BY <1>11 DEF ConfirmUpgrade, UpgradeIdle
<1>12. CASE UpgradeAnswered
    BY <1>12 DEF UpgradeAnswered
<1>13. CASE Reload
  <2>1. intent' \in [Reference -> IntentStatus] /\ reopened' \in [Reference -> Nat]
    BY <1>13, Reloading
  <2>2. ASSUME NEW v \in Verifier
        PROVE  [request[v] EXCEPT !.page = FALSE] \in
                 [step : {"none", "asked", "crediting"}, ref : Reference \cup {NoReference},
                  page : BOOLEAN]
    <3>1. PICK q \in [step : {"none", "asked", "crediting"}, ref : Reference \cup {NoReference},
                      page : BOOLEAN] : q = request[v]
      OBVIOUS
    <3> QED
      BY <3>1
  <2>3. request' = [v \in Verifier |-> [request[v] EXCEPT !.page = FALSE]]
    BY <1>13 DEF Reload
  <2>4. request' \in [Verifier -> [step : {"none", "asked", "crediting"},
                                   ref : Reference \cup {NoReference}, page : BOOLEAN]]
    BY <2>2, <2>3
  <2>5. \A v \in Verifier : request'[v].step = request[v].step /\ request'[v].ref = request[v].ref
    BY <2>3
  <2> QED
    BY <1>13, <2>1, <2>4, <2>5 DEF Reload, OpenedTill
<1>14. CASE Restart
    BY SMTT(40), <1>14 DEF Restart, Crediting, NoRequest
<1>15. ASSUME NEW r \in Reference, HandleTopup(r) PROVE PayTypeOK'
    BY <1>15 DEF HandleTopup, PayOffered
<1>16. ASSUME NEW r \in Reference, InitiateMomoPush(r) PROVE PayTypeOK'
    BY <1>16 DEF InitiateMomoPush
<1>17. ASSUME NEW v \in Verifier, PopupCallsBack(v) PROVE PayTypeOK'
    BY <1>17 DEF PopupCallsBack, NoRequest
<1>18. ASSUME NEW v \in Verifier, VerifyPaystackPayment(v) PROVE PayTypeOK'
  <2>1. CASE Complete(v, request[v].ref, request[v].page) /\ UNCHANGED till
    BY <1>18, <2>1 DEF VerifyPaystackPayment, Complete
  <2>2. CASE UNCHANGED intent /\ \E answer \in {"success", "failed"} : Answer(v, answer)
    BY <1>18, <2>2 DEF VerifyPaystackPayment, Answer, NoRequest
  <2> QED
    BY <1>18, <2>1, <2>2 DEF VerifyPaystackPayment
<1>19. ASSUME NEW v \in Verifier, Credits(v) PROVE PayTypeOK'
    BY <1>19 DEF Credits, Answer, NoRequest
<1>20. ASSUME NEW v \in Verifier, CreditFails(v) PROVE PayTypeOK'
    BY <1>20 DEF CreditFails, Answer, NoRequest
<1>21. ASSUME NEW v \in Verifier, NEW r \in Reference, VerifyAgain(v, r) PROVE PayTypeOK'
    BY <1>21 DEF VerifyAgain, NoRequest
<1>22. ASSUME NEW v \in Verifier, NEW r \in Reference, SimulateComplete(v, r) PROVE PayTypeOK'
  <2>1. CASE Complete(v, r, FALSE) /\ UNCHANGED uncredited
    BY <1>22, <2>1 DEF SimulateComplete, Complete, NoRequest
  <2>2. CASE intent' = [intent EXCEPT ![r] = "FAILED"] /\ UNCHANGED request
    BY ZenonT(60), <1>22, <2>2 DEF SimulateComplete
  <2> QED
    BY <1>22, <2>1, <2>2 DEF SimulateComplete
<1>23. CASE UNCHANGED payVars
    BY <1>23
<1>24. ASSUME NEW r \in Reference, RegisterAgain(r) PROVE PayTypeOK'
    BY <1>24 DEF RegisterAgain, Registers
<1> QED
    BY <1>1, <1>2, <1>3, <1>4, <1>5, <1>6, <1>7, <1>8, <1>9, <1>10, <1>11, <1>12, <1>13,
       <1>14, <1>15, <1>16, <1>17, <1>18, <1>19, <1>20, <1>21, <1>22, <1>23, <1>24 DEF PayNext

\* The page begins nothing before what it has under way has ended.
LEMMA TidyKept == PayInv /\ [PayNext]_payVars => Tidy'
<1> SUFFICES ASSUME PayInv, [PayNext]_payVars PROVE Tidy'
    OBVIOUS
<1> USE DEF PayInv, payVars, serviceVars, historyVars, PayTypeOK, Tidy
<1>1. CASE FetchData
    BY <1>1 DEF FetchData
<1>2. CASE OpenTopup
    BY <1>2 DEF OpenTopup
<1>3. CASE CancelTopup
    BY <1>3 DEF CancelTopup
<1>4. CASE IntentRegistered
    BY <1>4 DEF IntentRegistered
<1>5. CASE PaystackCharges
    BY <1>5 DEF PaystackCharges
<1>6. CASE OnClose
    BY <1>6 DEF OnClose
<1>7. CASE SuccessTimer
    BY <1>7 DEF SuccessTimer, ResetTopupState
<1>8. CASE TryAgain
    BY <1>8 DEF TryAgain, ResetTopupState
<1>9. CASE HandleBuyPlan
    BY <1>9 DEF HandleBuyPlan
<1>10. CASE CloseUpgrade
    BY <1>10 DEF CloseUpgrade, UpgradeIdle
<1>11. CASE ConfirmUpgrade
    BY <1>11 DEF ConfirmUpgrade, UpgradeIdle
<1>12. CASE UpgradeAnswered
    BY <1>12 DEF UpgradeAnswered
<1>13. CASE Reload
    BY <1>13 DEF Reload, OpenedTill
<1>14. CASE Restart
    BY <1>14 DEF Restart, Crediting, NoRequest
<1>15. ASSUME NEW r \in Reference, HandleTopup(r) PROVE Tidy'
    BY <1>15 DEF HandleTopup, PayOffered
<1>16. ASSUME NEW r \in Reference, InitiateMomoPush(r) PROVE Tidy'
    BY <1>16 DEF InitiateMomoPush
<1>17. ASSUME NEW v \in Verifier, PopupCallsBack(v) PROVE Tidy'
    BY <1>17 DEF PopupCallsBack, NoRequest
<1>18. ASSUME NEW v \in Verifier, VerifyPaystackPayment(v) PROVE Tidy'
    BY <1>18 DEF VerifyPaystackPayment, Complete, Answer, NoRequest, Paged
<1>19. ASSUME NEW v \in Verifier, Credits(v) PROVE Tidy'
    BY <1>19 DEF Credits, Answer, NoRequest, Paged
<1>20. ASSUME NEW v \in Verifier, CreditFails(v) PROVE Tidy'
    BY <1>20 DEF CreditFails, Answer, NoRequest, Paged
<1>21. ASSUME NEW v \in Verifier, NEW r \in Reference, VerifyAgain(v, r) PROVE Tidy'
    BY <1>21 DEF VerifyAgain, NoRequest
<1>22. ASSUME NEW v \in Verifier, NEW r \in Reference, SimulateComplete(v, r) PROVE Tidy'
    BY <1>22 DEF SimulateComplete, Complete, NoRequest
<1>23. CASE UNCHANGED payVars
    BY <1>23
<1>24. ASSUME NEW r \in Reference, RegisterAgain(r) PROVE Tidy'
    BY <1>24 DEF RegisterAgain, Registers
<1> QED
    BY <1>1, <1>2, <1>3, <1>4, <1>5, <1>6, <1>7, <1>8, <1>9, <1>10, <1>11, <1>12, <1>13,
       <1>14, <1>15, <1>16, <1>17, <1>18, <1>19, <1>20, <1>21, <1>22, <1>23, <1>24 DEF PayNext

\* References are made once, and used after they were made.
LEMMA KnownKept == PayInv /\ [PayNext]_payVars => Known'
<1> SUFFICES ASSUME PayInv, [PayNext]_payVars PROVE Known'
    OBVIOUS
<1> USE DEF PayInv, payVars, serviceVars, historyVars, PayTypeOK, Tidy, Known
<1>1. CASE FetchData
    BY <1>1 DEF FetchData
<1>2. CASE OpenTopup
    BY <1>2 DEF OpenTopup
<1>3. CASE CancelTopup
    BY <1>3 DEF CancelTopup
<1>4. CASE IntentRegistered
  <2>1. till.registering \in Reference
    BY <1>4, PageRegisters
  <2>2. \A r \in Reference : \/ intent'[r] = intent[r]
                             \/ r = till.registering /\ intent'[r] = "PENDING"
    BY <1>4, PageRegisters, Registering
  <2>3. till'.registering = NoReference /\ till'.status = till.status /\ till'.ref = till.ref
          /\ till'.popup \in {till.popup, till.registering}
    BY <1>4, PageRegisters
  <2>4. UNCHANGED <<charged, credited, request, minted, uncredited>>
    BY <1>4, PageRegisters
  <2> QED
    BY <2>1, <2>2, <2>3, <2>4
<1>5. CASE PaystackCharges
    BY <1>5 DEF PaystackCharges
<1>6. CASE OnClose
    BY <1>6 DEF OnClose
<1>7. CASE SuccessTimer
    BY <1>7 DEF SuccessTimer, ResetTopupState
<1>8. CASE TryAgain
    BY <1>8 DEF TryAgain, ResetTopupState
<1>9. CASE HandleBuyPlan
    BY <1>9 DEF HandleBuyPlan
<1>10. CASE CloseUpgrade
    BY <1>10 DEF CloseUpgrade, UpgradeIdle
<1>11. CASE ConfirmUpgrade
    BY <1>11 DEF ConfirmUpgrade, UpgradeIdle
<1>12. CASE UpgradeAnswered
    BY <1>12 DEF UpgradeAnswered
<1>13. CASE Reload
    BY <1>13, Reloading DEF Reload, OpenedTill
<1>14. CASE Restart
    BY <1>14 DEF Restart, Crediting, NoRequest
<1>15. ASSUME NEW r \in Reference, HandleTopup(r) PROVE Known'
    BY <1>15 DEF HandleTopup, PayOffered
<1>16. ASSUME NEW r \in Reference, InitiateMomoPush(r) PROVE Known'
    BY <1>16 DEF InitiateMomoPush
<1>17. ASSUME NEW v \in Verifier, PopupCallsBack(v) PROVE Known'
    BY <1>17 DEF PopupCallsBack, NoRequest
<1>18. ASSUME NEW v \in Verifier, VerifyPaystackPayment(v) PROVE Known'
    BY <1>18 DEF VerifyPaystackPayment, Complete, Answer, NoRequest
<1>19. ASSUME NEW v \in Verifier, Credits(v) PROVE Known'
    BY <1>19 DEF Credits, Answer, NoRequest
<1>20. ASSUME NEW v \in Verifier, CreditFails(v) PROVE Known'
    BY <1>20 DEF CreditFails, Answer, NoRequest
<1>21. ASSUME NEW v \in Verifier, NEW r \in Reference, VerifyAgain(v, r) PROVE Known'
    BY <1>21 DEF VerifyAgain, NoRequest
<1>22. ASSUME NEW v \in Verifier, NEW r \in Reference, SimulateComplete(v, r) PROVE Known'
    BY <1>22 DEF SimulateComplete, Complete, NoRequest
<1>23. CASE UNCHANGED payVars
    BY <1>23
<1>24. ASSUME NEW r \in Reference, RegisterAgain(r) PROVE Known'
    BY <1>24 DEF RegisterAgain, Registers
<1> QED
    BY <1>1, <1>2, <1>3, <1>4, <1>5, <1>6, <1>7, <1>8, <1>9, <1>10, <1>11, <1>12, <1>13,
       <1>14, <1>15, <1>16, <1>17, <1>18, <1>19, <1>20, <1>21, <1>22, <1>23, <1>24 DEF PayNext

\* What adds no request that credits, and makes no reference payable without
\* counting it, keeps the books.
LEMMA OnceSame ==
    ASSUME PayInv, NEW r \in Reference, CreditsOf(r)' \subseteq CreditsOf(r),
           credited'[r] = credited[r], reopened'[r] \in Nat,
           Payable(r)' + reopened[r] <= Payable(r) + reopened'[r]
    PROVE  OnceFor(r)'
<1>1. /\ IsFiniteSet(CreditsOf(r)') /\ Cardinality(CreditsOf(r)') \in Nat
      /\ Cardinality(CreditsOf(r)') <= Cardinality(CreditsOf(r))
      /\ Cardinality(CreditsOf(r)) \in Nat
    BY FS_Subset, FS_CardinalityType DEF PayInv, Once, OnceFor
<1>2. credited[r] \in Nat /\ reopened[r] \in Nat /\ Payable(r) \in {0, 1} /\ Payable(r)' \in {0, 1}
    BY DEF PayInv, PayTypeOK, Payable
<1> QED
    BY <1>1, <1>2 DEF PayInv, Once, OnceFor

\* A registration of a reference whose success it overwrites is counted.
LEMMA OnceRegistered ==
    ASSUME PayInv, NEW q \in Reference, Registers(q), UNCHANGED credited,
           \A r \in Reference : CreditsOf(r)' \subseteq CreditsOf(r)
    PROVE  Once'
<1>1. \A r \in Reference :
        /\ reopened'[r] \in Nat
        /\ Payable(r)' + reopened[r] <= Payable(r) + reopened'[r]
    BY DEF Registers, Payable, PayInv, PayTypeOK
<1> QED
    BY <1>1, OnceSame DEF Once

\* Only the request that completes a payable transaction credits it.
LEMMA OnceCompleted ==
    ASSUME PayInv, NEW v \in Verifier, NEW q \in Reference, NEW page, Complete(v, q, page),
           intent[q] # "SUCCESS", request[v].step # "crediting", UNCHANGED <<credited, reopened>>
    PROVE  Once'
<1>1. /\ intent' = [intent EXCEPT ![q] = "SUCCESS"]
      /\ request' = [request EXCEPT ![v] = [step |-> "crediting", ref |-> q, page |-> page]]
    BY DEF Complete
<1>2. \A w \in Verifier, r \in Reference :
        CreditsNow(w, r)' <=> IF w = v THEN r = q ELSE CreditsNow(w, r)
    BY <1>1 DEF CreditsNow, PayInv, PayTypeOK
<1>3. ASSUME NEW r \in Reference, r # q PROVE OnceFor(r)'
  <2>1. CreditsOf(r)' \subseteq CreditsOf(r)
      BY <1>2, <1>3 DEF CreditsOf
  <2>2. Payable(r)' = Payable(r) /\ reopened[r] \in Nat /\ Payable(r) \in {0, 1}
      BY <1>1, <1>3 DEF Payable, PayInv, PayTypeOK
  <2> QED
      BY <2>1, <2>2, OnceSame
<1>4. OnceFor(q)'
  <2>1. CreditsOf(q)' = CreditsOf(q) \cup {v} /\ v \notin CreditsOf(q)
      BY <1>2 DEF CreditsOf, CreditsNow
  <2>2. /\ IsFiniteSet(CreditsOf(q)') /\ Cardinality(CreditsOf(q)) \in Nat
        /\ Cardinality(CreditsOf(q)') = Cardinality(CreditsOf(q)) + 1
      BY <2>1, FS_AddElement, FS_CardinalityType DEF PayInv, Once, OnceFor
  <2>3. Payable(q) = 1 /\ Payable(q)' = 0 /\ credited[q] \in Nat /\ reopened[q] \in Nat
      BY <1>1 DEF Payable, PayInv, PayTypeOK
  <2> QED
      BY <2>2, <2>3 DEF PayInv, Once, OnceFor
<1> QED
    BY <1>3, <1>4 DEF Once

\* A request that has credited is a credit.
LEMMA OnceCredited ==
    ASSUME PayInv, NEW v \in Verifier, Credits(v)
    PROVE  Once'
<1>1. PICK q \in Reference : q = request[v].ref
    BY DEF Credits, PayInv, PayTypeOK
<1>2. /\ CreditsNow(v, q) /\ credited' = [credited EXCEPT ![q] = @ + 1]
      /\ request' = [request EXCEPT ![v] = NoRequest] /\ UNCHANGED <<intent, reopened>>
    BY <1>1 DEF Credits, Answer, CreditsNow, historyVars
<1>3. \A w \in Verifier, r \in Reference : CreditsNow(w, r)' <=> w # v /\ CreditsNow(w, r)
    BY <1>2 DEF CreditsNow, NoRequest, PayInv, PayTypeOK
<1>4. ASSUME NEW r \in Reference, r # q PROVE OnceFor(r)'
  <2>1. CreditsOf(r)' \subseteq CreditsOf(r) /\ credited'[r] = credited[r]
      BY <1>2, <1>3, <1>4 DEF CreditsOf, PayInv, PayTypeOK
  <2>2. Payable(r)' = Payable(r) /\ reopened'[r] = reopened[r] /\ reopened[r] \in Nat
        /\ Payable(r) \in {0, 1}
      BY <1>2 DEF Payable, PayInv, PayTypeOK
  <2> QED
      BY <2>1, <2>2, OnceSame
<1>5. OnceFor(q)'
  <2>1. CreditsOf(q)' = CreditsOf(q) \ {v} /\ v \in CreditsOf(q)
      BY <1>2, <1>3 DEF CreditsOf
  <2>2. /\ IsFiniteSet(CreditsOf(q)') /\ Cardinality(CreditsOf(q)) \in Nat
        /\ Cardinality(CreditsOf(q)') = Cardinality(CreditsOf(q)) - 1
      BY <2>1, FS_RemoveElement, FS_CardinalityType DEF PayInv, Once, OnceFor
  <2>3. /\ Payable(q)' = Payable(q) /\ Payable(q) \in {0, 1} /\ reopened'[q] = reopened[q]
        /\ credited[q] \in Nat /\ reopened[q] \in Nat /\ credited'[q] = credited[q] + 1
      BY <1>2 DEF Payable, PayInv, PayTypeOK
  <2> QED
      BY <2>2, <2>3 DEF PayInv, Once, OnceFor
<1> QED
    BY <1>4, <1>5 DEF Once

LEMMA OnceKept == PayInv /\ [PayNext]_payVars => Once'
<1> SUFFICES ASSUME PayInv, [PayNext]_payVars PROVE Once'
    OBVIOUS
<1>1. ASSUME UNCHANGED <<credited, intent, reopened>>,
             \A r \in Reference : CreditsOf(r)' \subseteq CreditsOf(r)
      PROVE  Once'
  <2>1. \A r \in Reference : reopened[r] \in Nat /\ Payable(r) \in {0, 1} /\ Payable(r)' = Payable(r)
      BY <1>1 DEF PayInv, PayTypeOK, Payable
  <2> QED
      BY <1>1, <2>1, OnceSame DEF Once
<1>2. CASE UNCHANGED <<credited, intent, reopened, request>>
    BY <1>1, <1>2 DEF CreditsOf, CreditsNow
<1>3. CASE IntentRegistered
  <2>1. /\ till.registering \in Reference /\ UNCHANGED <<credited, request>>
        /\ Registers(till.registering) \/ UNCHANGED <<intent, reopened>>
      BY <1>3, PageRegisters DEF PayInv
  <2> QED
      BY <1>2, <2>1, OnceRegistered DEF CreditsOf, CreditsNow
<1>4. ASSUME NEW r \in Reference, RegisterAgain(r) PROVE Once'
    BY <1>4, OnceRegistered DEF RegisterAgain, CreditsOf, CreditsNow
<1>5. CASE Reload
  <2>1. \A r \in Reference : CreditsOf(r)' \subseteq CreditsOf(r)
      BY <1>5 DEF Reload, CreditsOf, CreditsNow
  <2>2. /\ UNCHANGED credited
        /\ \/ UNCHANGED <<intent, reopened>>
           \/ till.registering \in Reference /\ Registers(till.registering)
      BY <1>5, ReloadRegisters DEF Reload, PayInv
  <2> QED
      BY <1>1, <2>1, <2>2, OnceRegistered
<1>6. CASE Restart
  <2>1. ASSUME NEW r \in Reference PROVE OnceFor(r)'
    <3>1. CreditsOf(r)' \subseteq CreditsOf(r) /\ credited'[r] = credited[r]
        BY <1>6 DEF Restart, CreditsOf, CreditsNow, NoRequest
    <3>2. reopened'[r] \in Nat /\ Payable(r)' + reopened[r] <= Payable(r) + reopened'[r]
        BY <1>6 DEF Restart, Payable, PayInv, PayTypeOK
    <3> QED
        BY <3>1, <3>2, OnceSame
  <2> QED
      BY <2>1 DEF Once
<1>7. ASSUME NEW r \in Reference, InitiateMomoPush(r) PROVE Once'
  <2>1. intent[r] = "absent" /\ intent' = [intent EXCEPT ![r] = "PENDING"]
        /\ UNCHANGED <<credited, reopened, request>>
      BY <1>7 DEF InitiateMomoPush, PayInv, Known
  <2>2. Registers(r)
      BY <2>1 DEF Registers
  <2> QED
      BY <2>1, <2>2, OnceRegistered DEF CreditsOf, CreditsNow
<1>8. ASSUME NEW v \in Verifier, PopupCallsBack(v) \/ \E r \in Reference : VerifyAgain(v, r)
      PROVE  Once'
  <2>1. /\ UNCHANGED <<credited, intent, reopened>>
        /\ \A w \in Verifier : request'[w] = request[w] \/ request'[w].step = "asked"
      BY <1>8 DEF PopupCallsBack, VerifyAgain, historyVars, PayInv, PayTypeOK
  <2> QED
      BY <1>1, <2>1 DEF CreditsOf, CreditsNow
<1>9. ASSUME NEW v \in Verifier, VerifyPaystackPayment(v) PROVE Once'
  <2>1. /\ request[v].step = "asked" /\ request[v].ref \in Reference
        /\ UNCHANGED <<credited, reopened>>
      BY <1>9 DEF VerifyPaystackPayment, historyVars, PayInv, PayTypeOK
  <2>2. CASE /\ intent[request[v].ref] # "SUCCESS"
             /\ Complete(v, request[v].ref, request[v].page)
      BY <2>1, <2>2, OnceCompleted
  <2>3. CASE UNCHANGED intent /\ request' = [request EXCEPT ![v] = NoRequest]
      BY <1>1, <2>1, <2>3 DEF CreditsOf, CreditsNow, NoRequest, PayInv, PayTypeOK
  <2> QED
      BY <1>9, <2>2, <2>3 DEF VerifyPaystackPayment, Answer
<1>10. ASSUME NEW v \in Verifier, CreditFails(v) PROVE Once'
    BY <1>1, <1>10 DEF CreditFails, Answer, CreditsOf, CreditsNow, NoRequest, PayInv, PayTypeOK
<1>11. ASSUME NEW v \in Verifier, NEW r \in Reference, SimulateComplete(v, r) PROVE Once'
  <2>1. /\ request[v].step # "crediting" /\ intent[r] = "PENDING"
        /\ UNCHANGED <<credited, reopened>>
      BY <1>11 DEF SimulateComplete, NoRequest
  <2>2. CASE Complete(v, r, FALSE)
      BY <2>1, <2>2, OnceCompleted
  <2>3. CASE intent' = [intent EXCEPT ![r] = "FAILED"] /\ UNCHANGED request
    <3>1. \A q \in Reference : /\ Payable(q)' = Payable(q) /\ Payable(q) \in {0, 1}
                              /\ reopened'[q] = reopened[q] /\ reopened[q] \in Nat
                              /\ CreditsOf(q)' = CreditsOf(q) /\ credited'[q] = credited[q]
        BY <2>1, <2>3 DEF Payable, PayInv, PayTypeOK, CreditsOf, CreditsNow
    <3> QED
        BY <3>1, OnceSame DEF Once
  <2> QED
      BY <1>11, <2>2, <2>3 DEF SimulateComplete
<1>12. CASE \/ FetchData \/ OpenTopup \/ CancelTopup \/ PaystackCharges \/ OnClose
           \/ SuccessTimer \/ TryAgain \/ HandleBuyPlan \/ CloseUpgrade
           \/ ConfirmUpgrade \/ UpgradeAnswered
           \/ (\E r \in Reference : HandleTopup(r)) \/ UNCHANGED payVars
    BY <1>2, <1>12 DEF FetchData, OpenTopup, CancelTopup, PaystackCharges, OnClose, SuccessTimer,
         TryAgain, HandleBuyPlan, CloseUpgrade, ConfirmUpgrade, UpgradeAnswered, HandleTopup,
         payVars, serviceVars, historyVars
<1> QED
    BY <1>3, <1>4, <1>5, <1>6, <1>7, <1>8, <1>9, <1>10, <1>11, <1>12, OnceCredited DEF PayNext

\* No transaction is over without a credit, or the record of its loss.
LEMMA AccountedKept == PayInv /\ [PayNext]_payVars => Accounted'
<1> SUFFICES ASSUME PayInv, [PayNext]_payVars PROVE Accounted'
    OBVIOUS
<1> USE DEF PayInv, payVars, serviceVars, historyVars, PayTypeOK, Accounted, Paged,
   Settled, CreditsNow
<1>1. CASE FetchData
    BY <1>1 DEF FetchData
<1>2. CASE OpenTopup
    BY <1>2 DEF OpenTopup
<1>3. CASE CancelTopup
    BY <1>3 DEF CancelTopup
<1>4. CASE IntentRegistered
  <2>1. till.registering \in Reference
    BY <1>4, PageRegisters
  <2>2. \A r \in Reference : \/ intent'[r] = intent[r]
                             \/ r = till.registering /\ intent'[r] = "PENDING"
    BY <1>4, PageRegisters, Registering
  <2>3. till'.registering = NoReference /\ till'.status = till.status /\ till'.ref = till.ref
          /\ till'.popup \in {till.popup, till.registering}
    BY <1>4, PageRegisters
  <2>4. UNCHANGED <<charged, credited, request, minted, uncredited>>
    BY <1>4, PageRegisters
  <2> QED
    BY <2>1, <2>2, <2>3, <2>4
<1>5. CASE PaystackCharges
    BY <1>5 DEF PaystackCharges
<1>6. CASE OnClose
    BY <1>6 DEF OnClose
<1>7. CASE SuccessTimer
    BY <1>7 DEF SuccessTimer, ResetTopupState
<1>8. CASE TryAgain
    BY <1>8 DEF TryAgain, ResetTopupState
<1>9. CASE HandleBuyPlan
    BY <1>9 DEF HandleBuyPlan
<1>10. CASE CloseUpgrade
    BY <1>10 DEF CloseUpgrade, UpgradeIdle
<1>11. CASE ConfirmUpgrade
    BY <1>11 DEF ConfirmUpgrade, UpgradeIdle
<1>12. CASE UpgradeAnswered
    BY <1>12 DEF UpgradeAnswered
<1>13. CASE Reload
    BY SMTT(40), <1>13, Reloading DEF Reload, OpenedTill
<1>14. CASE Restart
    BY <1>14 DEF Restart, Crediting, NoRequest
<1>15. ASSUME NEW r \in Reference, HandleTopup(r) PROVE Accounted'
    BY <1>15 DEF HandleTopup, PayOffered
<1>16. ASSUME NEW r \in Reference, InitiateMomoPush(r) PROVE Accounted'
    BY <1>16 DEF InitiateMomoPush
<1>17. ASSUME NEW v \in Verifier, PopupCallsBack(v) PROVE Accounted'
    BY <1>17 DEF PopupCallsBack, NoRequest
<1>18. ASSUME NEW v \in Verifier, VerifyPaystackPayment(v) PROVE Accounted'
    BY <1>18 DEF VerifyPaystackPayment, Complete, Answer, NoRequest
<1>19. ASSUME NEW v \in Verifier, Credits(v) PROVE Accounted'
    BY <1>19 DEF Credits, Answer, NoRequest
<1>20. ASSUME NEW v \in Verifier, CreditFails(v) PROVE Accounted'
    BY <1>20 DEF CreditFails, Answer, NoRequest
<1>21. ASSUME NEW v \in Verifier, NEW r \in Reference, VerifyAgain(v, r) PROVE Accounted'
    BY <1>21 DEF VerifyAgain, NoRequest
<1>22. ASSUME NEW v \in Verifier, NEW r \in Reference, SimulateComplete(v, r) PROVE Accounted'
    BY SMTT(40), <1>22 DEF SimulateComplete, Complete, NoRequest
<1>23. CASE UNCHANGED payVars
    BY <1>23
<1>24. ASSUME NEW r \in Reference, RegisterAgain(r) PROVE Accounted'
    BY <1>24 DEF RegisterAgain, Registers
<1> QED
    BY <1>1, <1>2, <1>3, <1>4, <1>5, <1>6, <1>7, <1>8, <1>9, <1>10, <1>11, <1>12, <1>13,
       <1>14, <1>15, <1>16, <1>17, <1>18, <1>19, <1>20, <1>21, <1>22, <1>23, <1>24 DEF PayNext

\* The page waits for one verification at a time, of the payment it shows.
LEMMA PagedKept == PayInv /\ [PayNext]_payVars => Paged'
<1> SUFFICES ASSUME PayInv, [PayNext]_payVars PROVE Paged'
    OBVIOUS
<1> USE DEF PayInv, payVars, serviceVars, historyVars, PayTypeOK, Tidy, Paged
<1>1. CASE FetchData
    BY <1>1 DEF FetchData
<1>2. CASE OpenTopup
    BY <1>2 DEF OpenTopup
<1>3. CASE CancelTopup
    BY <1>3 DEF CancelTopup
<1>4. CASE IntentRegistered
    BY <1>4 DEF IntentRegistered
<1>5. CASE PaystackCharges
    BY <1>5 DEF PaystackCharges
<1>6. CASE OnClose
    BY <1>6 DEF OnClose
<1>7. CASE SuccessTimer
    BY <1>7 DEF SuccessTimer, ResetTopupState
<1>8. CASE TryAgain
    BY <1>8 DEF TryAgain, ResetTopupState
<1>9. CASE HandleBuyPlan
    BY <1>9 DEF HandleBuyPlan
<1>10. CASE CloseUpgrade
    BY <1>10 DEF CloseUpgrade, UpgradeIdle
<1>11. CASE ConfirmUpgrade
    BY <1>11 DEF ConfirmUpgrade, UpgradeIdle
<1>12. CASE UpgradeAnswered
    BY <1>12 DEF UpgradeAnswered
<1>13. CASE Reload
    BY <1>13 DEF Reload, OpenedTill
<1>14. CASE Restart
    BY <1>14 DEF Restart, Crediting, NoRequest
<1>15. ASSUME NEW r \in Reference, HandleTopup(r) PROVE Paged'
    BY <1>15 DEF HandleTopup, PayOffered
<1>16. ASSUME NEW r \in Reference, InitiateMomoPush(r) PROVE Paged'
    BY <1>16 DEF InitiateMomoPush
<1>17. ASSUME NEW v \in Verifier, PopupCallsBack(v) PROVE Paged'
    BY <1>17 DEF PopupCallsBack, NoRequest
<1>18. ASSUME NEW v \in Verifier, VerifyPaystackPayment(v) PROVE Paged'
    BY <1>18 DEF VerifyPaystackPayment, Complete, Answer, NoRequest
<1>19. ASSUME NEW v \in Verifier, Credits(v) PROVE Paged'
    BY <1>19 DEF Credits, Answer, NoRequest
<1>20. ASSUME NEW v \in Verifier, CreditFails(v) PROVE Paged'
    BY <1>20 DEF CreditFails, Answer, NoRequest
<1>21. ASSUME NEW v \in Verifier, NEW r \in Reference, VerifyAgain(v, r) PROVE Paged'
    BY <1>21 DEF VerifyAgain, NoRequest
<1>22. ASSUME NEW v \in Verifier, NEW r \in Reference, SimulateComplete(v, r) PROVE Paged'
    BY <1>22 DEF SimulateComplete, Complete, NoRequest
<1>23. CASE UNCHANGED payVars
    BY <1>23
<1>24. ASSUME NEW r \in Reference, RegisterAgain(r) PROVE Paged'
    BY <1>24 DEF RegisterAgain, Registers
<1> QED
    BY <1>1, <1>2, <1>3, <1>4, <1>5, <1>6, <1>7, <1>8, <1>9, <1>10, <1>11, <1>12, <1>13,
       <1>14, <1>15, <1>16, <1>17, <1>18, <1>19, <1>20, <1>21, <1>22, <1>23, <1>24 DEF PayNext

-----------------------------------------------------------------------------
LEMMA PayAlways == PaySpec => []PayInv
<1>1. PayInit => PayInv
    BY PayStarts
<1>2. PayInv /\ [PayNext]_payVars => PayInv'
  <2> SUFFICES ASSUME PayInv, [PayNext]_payVars PROVE PayInv'
    OBVIOUS
  <2> QED
    BY TypeKept, TidyKept, KnownKept, OnceKept, AccountedKept, PagedKept DEF PayInv
<1> QED
    BY <1>1, <1>2, PTL DEF PaySpec

(* Every reachable state of the billing page and the payment service is     *)
(* well typed; a callback never asks for a reference that is none.          *)
THEOREM PayTypeCorrect == PaySpec => []PayTypeOK
<1>1. PayInv => PayTypeOK
    BY DEF PayInv
<1> QED
    BY <1>1, PayAlways, PTL

(* A payment is credited once, and once more each time that a restart or a *)
(* registration made its success payable again, whatever requests register, *)
(* verify and complete it, in whatever order (payment_service.py).          *)
THEOREM CreditedOnceCorrect == PaySpec => []CreditedOnce
<1>1. PayInv => CreditedOnce
  <2> SUFFICES ASSUME PayInv, NEW r \in Reference PROVE credited[r] <= 1 + reopened[r]
      BY DEF CreditedOnce
  <2>1. OnceFor(r) /\ credited[r] \in Nat /\ reopened[r] \in Nat /\ Payable(r) \in {0, 1}
      BY DEF PayInv, PayTypeOK, Once, Payable
  <2>2. Cardinality(CreditsOf(r)) \in Nat
      BY <2>1, FS_CardinalityType DEF OnceFor
  <2> QED
      BY <2>1, <2>2 DEF OnceFor
<1> QED
    BY <1>1, PayAlways, PTL

(* The page reports a success only of a payment that was credited, is being *)
(* credited, or lost its credit when it was completed (PricingPage.js).     *)
THEOREM SuccessCorrect == PaySpec => []SuccessMeansCredited
<1>1. PayInv => SuccessMeansCredited
    BY DEF PayInv, Accounted, Settled, CreditsNow, SuccessMeansCredited, Crediting
<1> QED
    BY <1>1, PayAlways, PTL

(* The billing page never has two payments, or a payment and the purchase   *)
(* of a plan, under way (PricingPage.js).                                   *)
THEOREM OneAtATimeCorrect == PaySpec => []OnePaymentAtATime
<1>1. PayInv => OnePaymentAtATime
    BY DEF PayInv, Tidy, OnePaymentAtATime, Underway
<1> QED
    BY <1>1, PayAlways, PTL
=============================================================================
