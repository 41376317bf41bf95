----------------------------- MODULE SenderIds -----------------------------
(***************************************************************************)
(* Sender IDs: the user's page of requests and the page that submits        *)
(* documents for one that needs verification, with the server's rules and   *)
(* the decisions of the staff, which come at any time.                      *)
(***************************************************************************)
EXTENDS Naturals, FiniteSets

CONSTANTS
    Name,           \* sender IDs that may be asked for
    Decision,       \* what the staff may decide
    StatusFilters,  \* filters of the user's list
    MaxSenderCalls, \* bound: calls under way
    MaxSenderReads  \* bound: pages opened and refreshes

VARIABLES
    registry,    \* server: sender ID |-> status
    requests,    \* the user's page
    verifying,   \* the verification page
    senderCalls, \* calls under way
    senderReads,
    astray,      \* history: documents went to a request the address did not name
    misled,      \* history: the address changed during a read, or its read failed
    turnedDown   \* history: a new request for a rejected ID was refused
senderVars == <<registry, requests, verifying, senderCalls, senderReads,
                astray, misled, turnedDown>>

NoName == "no sender"
NoRequests == [n \in {} |-> "none"]
Existing == {n \in Name : registry[n] # "none"}
RequestRows == [n \in Existing |-> registry[n]]
EmptyRequest == [name |-> NoName, details |-> FALSE]
SenderCall(op, n, a) == [op |-> op, name |-> n, arg |-> a, live |-> TRUE]

OpenedRequests(super) ==
    [open |-> TRUE, super |-> super, rows |-> NoRequests, loading |-> TRUE, filter |-> "all",
     detail |-> NoName, detailStatus |-> "none", form |-> EmptyRequest, busy |-> FALSE]
OpenedVerifying(n) ==
    [route |-> n, found |-> NoName, loading |-> TRUE, busy |-> FALSE]

SenderInit ==
    /\ registry = [n \in Name |-> "none"]
    /\ \E super \in BOOLEAN : requests = OpenedRequests(super)
    /\ verifying = [OpenedVerifying(NoName) EXCEPT !.loading = FALSE]
    /\ senderCalls = {SenderCall("mine", NoName, "none")}
    /\ senderReads = 0
    /\ astray = FALSE /\ misled = FALSE /\ turnedDown = FALSE

Ask(c) == /\ Cardinality(senderCalls) < MaxSenderCalls
          /\ senderCalls' = senderCalls \cup {c}
AskRead(c) == /\ senderReads < MaxSenderReads /\ senderReads' = senderReads + 1
              /\ Ask(c)
SenderAnswers(op) == {c \in senderCalls : c.op = op}
histories == <<astray, misled, turnedDown>>

----------------------------------------------------------------------------
(* The user's requests.                                                     *)

MyRequestsFetched(c) ==
    /\ senderCalls' = senderCalls \ {c}
    /\ \E got \in {RequestRows, requests.rows} :
         requests' = [requests EXCEPT !.loading = FALSE, !.rows = got]
    /\ UNCHANGED <<registry, verifying, senderReads, histories>>
RefreshRequests ==
    /\ requests.open /\ requests.detail = NoName /\ AskRead(SenderCall("mine", NoName, "none"))
    /\ requests' = [requests EXCEPT !.loading = TRUE]
    /\ UNCHANGED <<registry, verifying, histories>>

OnRequests == /\ requests.open
              /\ UNCHANGED <<registry, verifying, senderCalls, senderReads, histories>>
SetStatusFilter(f) ==
    OnRequests /\ ~requests.loading /\ requests' = [requests EXCEPT !.filter = f]
OpenRequestDetails(n) ==
    /\ OnRequests /\ ~requests.loading /\ n \in DOMAIN requests.rows
    /\ requests.filter \in {"all", requests.rows[n]}
    /\ requests' = [requests EXCEPT !.detail = n, !.detailStatus = requests.rows[n]]
CloseRequestDetails == OnRequests /\ requests' = [requests EXCEPT !.detail = NoName]
\* Retry Request puts the rejected ID into the form again.
RetryRequest ==
    /\ OnRequests /\ requests.detail # NoName /\ requests.detailStatus = "rejected"
    /\ requests' = [requests EXCEPT !.form.name = requests.detail, !.detail = NoName]
FillRequest(n) ==
    /\ OnRequests /\ requests.detail = NoName
    /\ requests' = [requests EXCEPT !.form = [name |-> n, details |-> TRUE]]

\* An ID of three characters, and for a user who is not a superadmin a use
\* case and a company or user name.
RequestOffered == /\ requests.open /\ requests.detail = NoName /\ ~requests.busy
                  /\ requests.form.name # NoName
HandleRequest ==
    /\ RequestOffered /\ ~requests.super /\ requests.form.details
    /\ Ask(SenderCall("request", requests.form.name, "pending"))
    /\ requests' = [requests EXCEPT !.busy = TRUE]
    /\ UNCHANGED <<registry, verifying, senderReads, histories>>
HandleAdminAdd ==
    /\ RequestOffered /\ requests.super
    /\ Ask(SenderCall("request", requests.form.name, "approved"))
    /\ requests' = [requests EXCEPT !.busy = TRUE]
    /\ UNCHANGED <<registry, verifying, senderReads, histories>>

\* The server refuses an ID the organization has, whatever its status.
RequestAnswered(c) ==
    /\ \/ /\ registry[c.name] = "none"
          /\ registry' = [registry EXCEPT ![c.name] = c.arg]
          /\ requests' = IF c.live THEN [requests EXCEPT !.busy = FALSE, !.form = EmptyRequest,
                                                         !.loading = TRUE]
                         ELSE requests
          /\ senderCalls' = (senderCalls \ {c}) \cup
                              (IF c.live THEN {SenderCall("mine", NoName, "none")} ELSE {})
          /\ UNCHANGED turnedDown
       \/ /\ registry[c.name] # "none"
          /\ turnedDown' = (turnedDown \/ registry[c.name] = "rejected")
          /\ requests' = IF c.live THEN [requests EXCEPT !.busy = FALSE] ELSE requests
          /\ senderCalls' = senderCalls \ {c} /\ UNCHANGED registry
    /\ UNCHANGED <<verifying, senderReads, astray, misled>>

----------------------------------------------------------------------------
(* The verification page of one request, which its address names: a link in *)
(* the drawer or in a notification.                                         *)

\* A page that is left forgets its reads; what it posted goes on without it.
Left == {[c EXCEPT !.live = FALSE] : c \in {d \in senderCalls : d.op \notin {"mine", "verify"}}}

\* Mutant: a new address is not read (an effect that does not depend on it).
OpenVerificationUnread(n) ==
    /\ n \in Existing /\ n # verifying.route /\ senderReads < MaxSenderReads
    /\ senderReads' = senderReads + 1
    /\ misled' = (misled \/ SenderAnswers("verify") # {})
    /\ IF verifying.route = NoName
       THEN /\ verifying' = OpenedVerifying(n)
            /\ senderCalls' = Left \cup {SenderCall("verify", n, "none")}
       ELSE verifying' = [verifying EXCEPT !.route = n] /\ UNCHANGED senderCalls
    /\ requests' = [OpenedRequests(requests.super) EXCEPT !.open = FALSE, !.loading = FALSE]
    /\ UNCHANGED <<registry, astray, turnedDown>>

OpenVerification(n) ==
    /\ n \in Existing /\ n # verifying.route /\ senderReads < MaxSenderReads
    /\ senderReads' = senderReads + 1
    /\ misled' = (misled \/ SenderAnswers("verify") # {})
    /\ IF verifying.route = NoName
       THEN /\ verifying' = OpenedVerifying(n)
            /\ senderCalls' = Left \cup {SenderCall("verify", n, "none")}
       ELSE /\ verifying' = [verifying EXCEPT !.route = n, !.loading = TRUE]
            /\ senderCalls' = senderCalls \cup {SenderCall("verify", n, "none")}
    /\ requests' = [OpenedRequests(requests.super) EXCEPT !.open = FALSE, !.loading = FALSE]
    /\ UNCHANGED <<registry, astray, turnedDown>>

ToRequests(calls) ==
    /\ verifying' = [OpenedVerifying(NoName) EXCEPT !.loading = FALSE]
    /\ requests' = OpenedRequests(requests.super)
    /\ senderCalls' = calls \cup {SenderCall("mine", NoName, "none")}
BackToRequests ==
    /\ verifying.route # NoName /\ senderReads < MaxSenderReads
    /\ senderReads' = senderReads + 1 /\ ToRequests(Left)
    /\ UNCHANGED <<registry, histories>>

RequestFetched(c) ==
    /\ senderCalls' = senderCalls \ {c}
    /\ \/ /\ verifying' = [verifying EXCEPT !.loading = FALSE, !.found = c.name]
          /\ UNCHANGED misled
       \/ /\ verifying' = [verifying EXCEPT !.loading = FALSE]
          /\ misled' = (misled \/ verifying.found # NoName)
    /\ UNCHANGED <<registry, requests, senderReads, astray, turnedDown>>

SubmitOffered == /\ verifying.route # NoName /\ verifying.found # NoName
                 /\ ~verifying.loading /\ ~verifying.busy
SubmitDocuments ==
    /\ SubmitOffered /\ Ask(SenderCall("documents", verifying.found, verifying.route))
    /\ verifying' = [verifying EXCEPT !.busy = TRUE]
    /\ UNCHANGED <<registry, requests, senderReads, histories>>

\* Documents are taken for a request that needs them and leave its status as
\* it is; a page that was left still goes to the user's requests.
DocumentsAnswered(c) ==
    /\ \/ /\ registry[c.name] = "need_verification"
          /\ astray' = (astray \/ c.name # c.arg)
          /\ IF requests.open
             THEN senderCalls' = senderCalls \ {c} /\ UNCHANGED <<requests, verifying>>
             ELSE ToRequests(Left \ {c, [c EXCEPT !.live = FALSE]})
       \/ /\ verifying' = IF c.live THEN [verifying EXCEPT !.busy = FALSE] ELSE verifying
          /\ senderCalls' = senderCalls \ {c} /\ UNCHANGED <<requests, astray>>
    /\ UNCHANGED <<registry, senderReads, misled, turnedDown>>

\* The staff may decide any way about any request, and again.
StaffDecides(n, decision) ==
    /\ n \in Existing /\ registry' = [registry EXCEPT ![n] = decision]
    /\ UNCHANGED <<requests, verifying, senderCalls, senderReads, histories>>

SenderNext ==
    \/ RefreshRequests \/ CloseRequestDetails \/ RetryRequest \/ HandleRequest
    \/ HandleAdminAdd \/ BackToRequests \/ SubmitDocuments
    \/ \E f \in StatusFilters : SetStatusFilter(f)
    \/ \E n \in Name : \/ OpenRequestDetails(n) \/ FillRequest(n) \/ OpenVerification(n)
                       \/ \E decision \in Decision : StaffDecides(n, decision)
    \/ \E c \in SenderAnswers("mine") : MyRequestsFetched(c)
    \/ \E c \in SenderAnswers("request") : RequestAnswered(c)
    \/ \E c \in SenderAnswers("verify") : RequestFetched(c)
    \/ \E c \in SenderAnswers("documents") : DocumentsAnswered(c)
SenderSpec == SenderInit /\ [][SenderNext]_senderVars

----------------------------------------------------------------------------
(* Documents go to the request the page's address named, whatever links     *)
(* were followed and however late the answers came; unless the address      *)
(* changed while a request was still being read, or the read after a change *)
(* failed (fetchRequest does not ask whether its request is still the one   *)
(* of the page, and keeps the last one when it fails).                      *)
VerifiesTheOneNamed == astray => misled

(* "Review the admin note below, update your details, and submit a new      *)
(* request if needed": a request for an ID that was rejected is not refused *)
(* (SenderIDManagement.js).                                                 *)
RejectedCanBeRetried == ~turnedDown
=============================================================================
