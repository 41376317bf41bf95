------------------------------ MODULE Delivery ------------------------------
(***************************************************************************)
(* The life of the message rows: the endpoints that create and retry them, *)
(* the in-memory queue with its one serial worker, the provider, the tasks *)
(* that process delivery reports, the status poller, the retry worker, the *)
(* recovery of orphans, and the process dying under all of them.           *)
(*                                                                         *)
(* One process runs every task; they interleave where the code awaits.     *)
(* Each opens its own session, so it decides on a copy of the row and its  *)
(* commit writes the columns it changed in that copy.  Billing is Wallet's *)
(* subject: here a charge succeeds or is refused.                          *)
(***************************************************************************)
EXTENDS Integers, Sequences, FiniteSets

CONSTANTS
  Msg,          \* messages
  Dlr,          \* delivery-report tasks that can be under way at once
  Retry,        \* retry requests that can be under way at once
  MaxRetries,   \* RetryWorker.max_retries
  MaxCopies,    \* bound: places one message holds in the queue
  MaxCrashes    \* bound: times the process dies

ASSUME DeliveryAssumption ==
  /\ MaxRetries \in Nat \ {0}
  /\ MaxCopies \in Nat \ {0}
  /\ MaxCrashes \in Nat

VARIABLES
  row,        \* the message rows
  accepting,  \* messages inserted and enqueued, not committed yet
  queue,      \* _sms_task_queue
  job,        \* the message the worker holds
  dlr,        \* delivery-report tasks, with the status they read
  polled,     \* messages the poller selected
  picked,     \* messages the retry worker selected, with their retry_count
  request,    \* retry requests, with the row they read
  called,     \* history: messages that have cause to be sent
  lapsed,     \* history: messages a retry request reset although their
              \* status had moved on since it was read, or whose acceptance
              \* a crash or a broken broadcast kept out of their row
  unsettled,  \* history: messages whose failed attempt was never written,
              \* because the refund that goes with it failed
  crashes

vars == <<row, accepting, queue, job, dlr, polled, picked, request, called,
          lapsed, unsettled, crashes>>
tasks == <<dlr, polled, picked, request>>
history == <<called, lapsed, unsettled, crashes>>

MessageStatus == {"PENDING", "PROCESSING", "SUBMITTED", "DELIVERED", "FAILED",
                  "NOT_DELIVERED"}
Undelivered == {"FAILED", "NOT_DELIVERED"}

\* "NONE": no such row.  sent: sent_at and the provider_msg_id of the latest
\* attempt are set.  lately: sent_at is within SUBMITTED_POLL_WINDOW_HOURS.
\* next: next_retry_at is NULL, ahead, or past.  tries: retry_count, which
\* matters up to MaxRetries.  old: created longer ago than
\* PENDING_ORPHAN_THRESHOLD_MINUTES.
Row == [status : MessageStatus \cup {"NONE"}, sent : BOOLEAN, lately : BOOLEAN,
        next : {"never", "ahead", "past"}, tries : 0 .. MaxRetries,
        old : BOOLEAN]

NoJob == [pc |-> "idle"]
Job == {NoJob} \cup
  [pc : {"read", "loaded", "charged", "accepted", "failed", "saved"}, msg : Msg]

NoTask == [pc |-> "idle"]
Report == {NoTask} \cup [pc : {"read"}, msg : Msg, seen : MessageStatus,
                         stat : {"SUBMITTED", "DELIVERED", "NOT_DELIVERED"}]
RetryRequest == {NoTask} \cup
  [pc : {"read"}, msg : Msg, tries : 0 .. MaxRetries,
   kind : {"sms", "campaign", "message"}]
NotPicked == -1

Init ==
  /\ row = [m \in Msg |-> [status |-> "NONE", sent |-> FALSE, lately |-> FALSE,
                           next |-> "never", tries |-> 0, old |-> FALSE]]
  /\ accepting = {}
  /\ queue = <<>>
  /\ job = NoJob
  /\ dlr = [t \in Dlr |-> NoTask]
  /\ polled = {}
  /\ picked = [m \in Msg |-> NotPicked]
  /\ request = [q \in Retry |-> NoTask]
  /\ called = Msg
  /\ lapsed = {}
  /\ unsettled = {}
  /\ crashes = 0

-----------------------------------------------------------------------------
Places(m) == {i \in 1 .. Len(queue) : queue[i] = m}
Room(m) == Cardinality(Places(m)) < MaxCopies

\* A put on the unbounded queue: at once, with no look at what is in it.
Enqueue(m) == Room(m) /\ queue' = Append(queue, m)

SetStatus(m, s) == row' = [row EXCEPT ![m].status = s]

\* Another try, counted no further than it matters.
OneMore(tries) == IF tries < MaxRetries THEN tries + 1 ELSE tries

-----------------------------------------------------------------------------
(* send and quick-send enqueue the id of the row before they commit it.    *)

SendSms(m) ==
  /\ row[m].status = "NONE"
  /\ m \notin accepting
  /\ accepting' = accepting \cup {m}
  /\ Enqueue(m)
  /\ UNCHANGED <<row, job, tasks, history>>

CommitSend(m) ==
  /\ m \in accepting
  /\ accepting' = accepting \ {m}
  /\ SetStatus(m, "PENDING")
  /\ UNCHANGED <<queue, job, tasks, history>>

-----------------------------------------------------------------------------
(* The worker loop: one message at a time.                                 *)

Dequeue == job = NoJob /\ queue # <<>> /\ queue' = Tail(queue)

\* Forgets that a delivered message is with its recipient.
SkipsSubmitted(m) == row[m].status \in {"NONE", "SUBMITTED"}

\* Nothing to send for a message already with the provider, or for a row that
\* is not there: the request that enqueued it has not committed.
Skipped(m) == row[m].status \in {"NONE", "SUBMITTED", "DELIVERED"}

SkipJob ==
  /\ Dequeue
  /\ Skipped(Head(queue))
  /\ UNCHANGED <<row, accepting, job, tasks, history>>

ReadJob ==
  /\ Dequeue
  /\ ~Skipped(Head(queue))
  /\ job' = [pc |-> "read", msg |-> Head(queue)]
  /\ UNCHANGED <<row, accepting, tasks, history>>

MarkProcessing ==
  /\ job.pc = "read"
  /\ job' = [job EXCEPT !.pc = "loaded"]
  /\ SetStatus(job.msg, "PROCESSING")
  /\ unsettled' = unsettled \ {job.msg}
  /\ UNCHANGED <<accepting, queue, tasks, called, lapsed, crashes>>

Throttle ==
  /\ job.pc = "loaded"
  /\ job' = NoJob
  /\ row' = [row EXCEPT ![job.msg].status = "PENDING",
                        ![job.msg].next = "ahead"]
  /\ UNCHANGED <<accepting, queue, tasks, history>>

Charge ==
  /\ job.pc = "loaded"
  /\ job' = [job EXCEPT !.pc = "charged"]
  /\ UNCHANGED <<row, accepting, queue, tasks, history>>

\* No credits, or an exception before the gateway.
Refuse ==
  /\ job.pc = "loaded"
  /\ job' = NoJob
  /\ SetStatus(job.msg, "FAILED")
  /\ UNCHANGED <<accepting, queue, tasks, history>>

GatewayAccepts ==
  /\ job.pc = "charged"
  /\ job' = [job EXCEPT !.pc = "accepted"]
  /\ called' = called \ {job.msg}
  /\ UNCHANGED <<row, accepting, queue, tasks, lapsed, unsettled, crashes>>

\* Rejected, or taken and the answer lost: the worker cannot tell.
GatewayFails ==
  /\ job.pc = "charged"
  /\ job' = [job EXCEPT !.pc = "failed"]
  /\ UNCHANGED <<row, accepting, queue, tasks, history>>

\* Saves the name the status had once.
SaveSent ==
  /\ job.pc = "accepted"
  /\ job' = [job EXCEPT !.pc = "saved"]
  /\ row' = [row EXCEPT ![job.msg].status = "SENT", ![job.msg].sent = TRUE,
                        ![job.msg].lately = TRUE]
  /\ UNCHANGED <<accepting, queue, tasks, history>>

SaveSubmitted ==
  /\ job.pc = "accepted"
  /\ job' = [job EXCEPT !.pc = "saved"]
  /\ row' = [row EXCEPT ![job.msg].status = "SUBMITTED",
                        ![job.msg].sent = TRUE,
                        ![job.msg].lately = TRUE]
  /\ UNCHANGED <<accepting, queue, tasks, history>>

\* Lets the error go without a word in the row.
SaveNothing ==
  /\ job.pc = "failed"
  /\ job' = NoJob
  /\ UNCHANGED <<row, accepting, queue, tasks, history>>

\* Refunded in the same commit.
SaveFailed ==
  /\ job.pc = "failed"
  /\ job' = NoJob
  /\ SetStatus(job.msg, "FAILED")
  /\ UNCHANGED <<accepting, queue, tasks, history>>

\* An error in the refund rolls the worker's session back, FAILED included, and
\* expires the row it reads next: the job ends on that, nothing is written.
FailureLost ==
  /\ job.pc = "failed"
  /\ job' = NoJob
  /\ unsettled' = unsettled \cup {job.msg}
  /\ UNCHANGED <<row, accepting, queue, tasks, called, lapsed, crashes>>

BroadcastDone ==
  /\ job.pc = "saved"
  /\ job' = NoJob
  /\ UNCHANGED <<row, accepting, queue, tasks, history>>

\* The broadcast is inside the same try as the send: a socket that joins or
\* leaves while it iterates makes an accepted message FAILED.  (If the refund
\* that follows fails, the row is left as BroadcastDone leaves it.)
BroadcastBreaks ==
  /\ job.pc = "saved"
  /\ job' = NoJob
  /\ SetStatus(job.msg, "FAILED")
  /\ lapsed' = lapsed \cup {job.msg}
  /\ UNCHANGED <<accepting, queue, tasks, called, unsettled, crashes>>

-----------------------------------------------------------------------------
(* Delivery reports: late, repeated, in any order or never.  One for an id *)
(* no row holds is logged and dropped.                                     *)

ReadReport(t, m, stat) ==
  /\ dlr[t] = NoTask
  /\ row[m].sent
  /\ dlr' = [dlr EXCEPT ![t] = [pc |-> "read", msg |-> m,
                                seen |-> row[m].status, stat |-> stat]]
  /\ UNCHANGED <<row, accepting, queue, job, polled, picked, request, history>>

SaveReport(t) ==
  /\ dlr[t].pc = "read"
  /\ LET m == dlr[t].msg
         stat == dlr[t].stat
     IN  IF stat = dlr[t].seen
         THEN UNCHANGED <<row, called>>
         ELSE /\ SetStatus(m, stat)
              /\ called' = IF stat = "NOT_DELIVERED" THEN called \cup {m}
                                                     ELSE called
  /\ dlr' = [dlr EXCEPT ![t] = NoTask]
  /\ UNCHANGED <<accepting, queue, job, polled, picked, request, lapsed,
                 unsettled, crashes>>

\* The refund of an undelivered message fails, and takes the status with it.
ReportLost(t) ==
  /\ dlr[t].pc = "read"
  /\ dlr[t].stat = "NOT_DELIVERED"
  /\ dlr' = [dlr EXCEPT ![t] = NoTask]
  /\ UNCHANGED <<row, accepting, queue, job, polled, picked, request, history>>

-----------------------------------------------------------------------------
(* The poller: selects once, asks the provider about each, commits once.   *)

\* Nothing sent more than a day ago is asked about.
PollSelects ==
  /\ polled = {}
  /\ polled' = {m \in Msg : /\ row[m].status = "SUBMITTED"
                            /\ row[m].sent
                            /\ row[m].lately}
  /\ polled' # {}
  /\ UNCHANGED <<row, accepting, queue, job, dlr, picked, request, history>>

Resolve(delivered, failed) ==
  /\ row' = [m \in Msg |->
       IF m \in delivered THEN [row[m] EXCEPT !.status = "DELIVERED"]
       ELSE IF m \in failed THEN [row[m] EXCEPT !.status = "NOT_DELIVERED"]
       ELSE row[m]]
  /\ called' = called \cup failed
  /\ polled' = {}
  /\ UNCHANGED <<accepting, queue, job, dlr, picked, request, lapsed,
                 unsettled, crashes>>

\* Without the assumption about old messages.
PollWaits(answered) ==
  \E delivered, failed \in SUBSET answered :
    /\ delivered \cap failed = {}
    /\ Resolve(delivered, failed)

\* answered: the messages for which the provider gave a status the poller
\* knows: delivered, failed, or still submitted.  Of an old message still
\* submitted means delivered.  A request that fails leaves its message alone.
PollSaves(answered) ==
  \E delivered, failed \in SUBSET answered :
    /\ delivered \cap failed = {}
    /\ {m \in answered : row[m].old} \subseteq delivered \cup failed
    /\ Resolve(delivered, failed)

Poll == polled # {} /\ \E answered \in SUBSET polled : PollSaves(answered)

PollAnswered == polled # {} /\ PollSaves(polled)

-----------------------------------------------------------------------------
(* The retry worker: one SELECT, then a commit and a put per message.      *)

RetryEligible(m) ==
  /\ row[m].status \in Undelivered \cup {"PENDING"}
  /\ row[m].next = "past"
  /\ row[m].tries < MaxRetries

RetrySelects ==
  /\ \A m \in Msg : picked[m] = NotPicked
  /\ \E m \in Msg : RetryEligible(m)
  /\ picked' =
       [m \in Msg |-> IF RetryEligible(m) THEN row[m].tries ELSE NotPicked]
  /\ UNCHANGED <<row, accepting, queue, job, dlr, polled, request, history>>

\* The status stays: the SMS worker takes a failed message as it is.
RetryMessage(m) ==
  /\ picked[m] # NotPicked
  /\ row' = [row EXCEPT ![m].tries = OneMore(picked[m]), ![m].next = "ahead"]
  /\ Enqueue(m)
  /\ picked' = [picked EXCEPT ![m] = NotPicked]
  /\ UNCHANGED <<accepting, job, dlr, polled, request, history>>

\* A recovery that looks where the retry worker looks.
RecoverThrottled(m) ==
  /\ row[m].status = "PENDING"
  /\ row[m].next = "past"
  /\ Enqueue(m)
  /\ UNCHANGED <<row, accepting, job, tasks, history>>

\* The pass over the PENDING rows that were never sent.  The puts of a pass do
\* not suspend, so message by message is how it runs.
RecoverOrphan(m) ==
  /\ row[m].status = "PENDING"
  /\ ~row[m].sent
  /\ row[m].old
  /\ Enqueue(m)
  /\ UNCHANGED <<row, accepting, job, tasks, history>>

-----------------------------------------------------------------------------
(* Requests: retry one message, a campaign, or a message of a campaign.    *)

RetryReads(q, m, kind) ==
  /\ request[q] = NoTask
  /\ row[m].status \in (IF kind = "sms" THEN {"FAILED"} ELSE Undelivered)
  /\ request' = [request EXCEPT ![q] =
       [pc |-> "read", msg |-> m, tries |-> row[m].tries, kind |-> kind]]
  /\ UNCHANGED <<row, accepting, queue, job, dlr, polled, picked, history>>

\* PENDING whatever the row says by now, and one more place in the queue.
RetryCommits(q) ==
  /\ request[q].pc = "read"
  /\ LET m == request[q].msg
         kind == request[q].kind
         tries == IF kind = "message" THEN OneMore(request[q].tries) ELSE 0
     IN  /\ row' = [row EXCEPT
              ![m].status = "PENDING",
              ![m].tries = IF tries = request[q].tries THEN @ ELSE tries,
              ![m].next = IF kind = "sms" THEN "never" ELSE @]
         /\ Enqueue(m)
         /\ lapsed' = IF row[m].status \in Undelivered THEN lapsed
                                                      ELSE lapsed \cup {m}
  /\ request' = [request EXCEPT ![q] = NoTask]
  /\ UNCHANGED <<accepting, job, dlr, polled, picked, called, unsettled,
                 crashes>>

ForceDeliver(m) ==
  /\ row[m].status # "NONE"
  /\ SetStatus(m, "DELIVERED")
  /\ UNCHANGED <<accepting, queue, job, tasks, history>>

-----------------------------------------------------------------------------
(* Time, and the end of the process.                                       *)

GrowsOld(m) ==
  /\ row[m].status # "NONE"
  /\ ~row[m].old
  /\ row' = [row EXCEPT ![m].old = TRUE]
  /\ UNCHANGED <<accepting, queue, job, tasks, history>>

\* A day since sent_at, which only a resend sets anew.  It matters to a row
\* that is still SUBMITTED.
LeavesWindow(m) ==
  /\ row[m].status = "SUBMITTED"
  /\ row[m].lately
  /\ row' = [row EXCEPT ![m].lately = FALSE]
  /\ UNCHANGED <<accepting, queue, job, tasks, history>>

RetryDue(m) ==
  /\ row[m].next = "ahead"
  /\ row' = [row EXCEPT ![m].next = "past"]
  /\ UNCHANGED <<accepting, queue, job, tasks, history>>

\* The rows stay; the queue, every task and every open transaction are lost.
Crash ==
  /\ crashes < MaxCrashes
  /\ crashes' = crashes + 1
  /\ accepting' = {}
  /\ queue' = <<>>
  /\ job' = NoJob
  /\ dlr' = [t \in Dlr |-> NoTask]
  /\ polled' = {}
  /\ picked' = [m \in Msg |-> NotPicked]
  /\ request' = [q \in Retry |-> NoTask]
  /\ lapsed' = IF job.pc = "accepted" THEN lapsed \cup {job.msg} ELSE lapsed
  /\ UNCHANGED <<row, called, unsettled>>

Worker ==
  \/ SkipJob \/ ReadJob \/ MarkProcessing
  \/ Throttle \/ Charge \/ Refuse
  \/ GatewayAccepts \/ GatewayFails
  \/ SaveSubmitted \/ SaveFailed \/ FailureLost
  \/ BroadcastDone \/ BroadcastBreaks

Next ==
  \/ \E m \in Msg : SendSms(m)
  \/ \E m \in Msg : CommitSend(m)
  \/ Worker
  \/ \E t \in Dlr, m \in Msg,
        stat \in {"SUBMITTED", "DELIVERED", "NOT_DELIVERED"} :
       ReadReport(t, m, stat)
  \/ \E t \in Dlr : SaveReport(t)
  \/ \E t \in Dlr : ReportLost(t)
  \/ PollSelects
  \/ Poll
  \/ RetrySelects
  \/ \E m \in Msg : RetryMessage(m)
  \/ \E m \in Msg : RecoverOrphan(m)
  \/ \E q \in Retry, m \in Msg, kind \in {"sms", "campaign", "message"} :
       RetryReads(q, m, kind)
  \/ \E q \in Retry : RetryCommits(q)
  \/ \E m \in Msg : ForceDeliver(m)
  \/ \E m \in Msg : GrowsOld(m)
  \/ \E m \in Msg : LeavesWindow(m)
  \/ \E m \in Msg : RetryDue(m)
  \/ Crash

Spec == Init /\ [][Next]_vars

-----------------------------------------------------------------------------
(* What the event loop, the sleeps of the background loops and the second- *)
(* long window of the rate limiter bring about in the end.                 *)

PassesLimiter(m) == job # NoJob /\ job.msg = m /\ (Charge \/ Refuse)

Fairness ==
  /\ WF_vars(Worker)
  /\ WF_vars(RetrySelects)
  /\ WF_vars(PollSelects)
  /\ SF_vars(PollAnswered)
  /\ \A m \in Msg :
       /\ SF_vars(PassesLimiter(m))
       /\ WF_vars(RetryMessage(m))
       /\ WF_vars(RecoverOrphan(m))
       /\ WF_vars(GrowsOld(m))
       /\ WF_vars(RetryDue(m))

FairSpec == Spec /\ Fairness

-----------------------------------------------------------------------------
TypeOK ==
  /\ row \in [Msg -> Row]
  /\ accepting \subseteq Msg
  /\ queue \in Seq(Msg)
  /\ job \in Job
  /\ dlr \in [Dlr -> Report]
  /\ polled \subseteq Msg
  /\ picked \in [Msg -> {NotPicked} \cup 0 .. MaxRetries]
  /\ request \in [Retry -> RetryRequest]
  /\ called \subseteq Msg
  /\ lapsed \subseteq Msg
  /\ unsettled \subseteq Msg
  /\ crashes \in 0 .. MaxCrashes

(* A message the provider has taken is handed to it again only after it was *)
(* reported undelivered: places in the queue left over from recoveries,     *)
(* retries and the loop of the retry worker, throttling, stale reports and  *)
(* forced deliveries send nothing twice.  The exceptions are a retry request *)
(* that resets a row which has moved on since the request read it, a crash  *)
(* between the provider's acceptance and its commit, and a broadcast that   *)
(* breaks after it.                                                         *)
ResentForCause == job.pc = "charged" => job.msg \in called \cup lapsed

Stranded(m) ==
  row[m].status = "PROCESSING" /\ ~(job # NoJob /\ job.msg = m)

(* A row that nobody holds rests in PROCESSING for two reasons only: a      *)
(* crash, which leaves it no place in the queue, or a refund that failed    *)
(* and took the FAILED of this very attempt with it.  Retry requests,       *)
(* reports, the poller, leftover places and broken broadcasts strand none.  *)
HeldWhileProcessing ==
  \A m \in Msg :
    Stranded(m) => \/ crashes > 0 /\ Places(m) = {}
                   \/ m \in unsettled

(* No message that was never sent is forgotten, although its job may be    *)
(* dropped because its row was not committed, throttled, or lost with the  *)
(* queue: it is sent, fails, or is stranded in PROCESSING as                *)
(* HeldWhileProcessing says.                                               *)
NeverForgotten ==
  \A m \in Msg :
    row[m].status = "PENDING" /\ ~row[m].sent ~>
      row[m].status \notin {"PENDING", "PROCESSING"} \/ Stranded(m)

(* A submitted message is resolved although its reports may never come,    *)
(* whatever crashes, unless it is still SUBMITTED a day after it was sent:  *)
(* such a message is never asked about again.                              *)
SubmittedIsResolved ==
  \A m \in Msg :
    row[m].status = "SUBMITTED" ~>
      row[m].status # "SUBMITTED" \/ ~row[m].lately

(* "Throttled - reset to PENDING so the retry_worker picks it up"          *)
(* (sms_worker.py:58).                                                     *)
ThrottledIsRetried ==
  \A m \in Msg :
    row[m].status = "PENDING" /\ row[m].next # "never" ~>
      row[m].status # "PENDING"

=============================================================================
