------------------------------ MODULE Campaign ------------------------------
(***************************************************************************)
(* One campaign: the ways it is started (a broadcast request, the          *)
(* scheduler), the batch task that queues its messages, and the aggregate  *)
(* status that the worker, the delivery reports and the poller recompute   *)
(* from the message rows whenever one of them changes.                     *)
(*                                                                         *)
(* A recomputation flushes its own change, reads the campaign and counts   *)
(* the rows, and commits later; the database shows it what others have     *)
(* committed and nothing of what they have not.  The commit writes the     *)
(* columns in which the result differs from the copy of the campaign it    *)
(* started from.  Of a message's life this module has what the campaign    *)
(* tells apart; Delivery has the rest.                                     *)
(***************************************************************************)
EXTENDS Integers, FiniteSets

CONSTANTS
  Msg,        \* the campaign's messages
  Session,    \* report, poller and force-deliver sessions at once
  Batch,      \* process_campaign_batch tasks at once
  Request,    \* the broadcast and edit requests that come
  Times,      \* the scheduled times given: "none", "ahead"
  MaxCopies,  \* bound: places one message holds in the queue
  MaxStarts   \* bound: batches started by requests or by the scheduler

ASSUME CampaignAssumption ==
  /\ IsFiniteSet(Msg) /\ Msg # {}
  /\ "worker" \notin Session
  /\ Times \subseteq {"none", "ahead"}
  /\ MaxCopies \in Nat \ {0}
  /\ MaxStarts \in Nat

VARIABLES
  campaign,   \* status of the campaign row
  schedule,   \* scheduled_at: NULL, ahead, or due
  row,        \* status of each message row
  sent,       \* messages with a sent_at and a provider's id
  late,       \* those whose sent_at is older than the poller looks back
  places,     \* places each message holds in the queue
  job,        \* the message in the worker's hands
  session,    \* refreshes outside the worker
  batch,      \* batch tasks
  scheduler,  \* whether the scheduler has selected the campaign
  request,    \* broadcast and edit requests
  starts,     \* batches started
  fresh,      \* history: tasks whose refresh is to leave the campaign right:
              \* the total they have is that of the rows, and they will write
              \* it or have no need to
  owed,       \* history: the rows or the campaign changed otherwise since the
              \* last such refresh
  settled     \* history: messages that were delivered or failed once

tasks == <<job, session, batch, scheduler, request>>
history == <<fresh, owed, settled>>
messages == <<row, sent, late>>
vars == <<campaign, schedule, messages, places, tasks, starts, history>>

CampaignStatus == {"DRAFT", "SCHEDULED", "SENDING", "DELIVERING", "COMPLETED",
                   "FAILED"}
InFlight == {"PENDING", "PROCESSING", "SUBMITTED"}
\* "FAILED" stands for FAILED and NOT_DELIVERED, which count alike.
Final == {"DELIVERED", "FAILED"}
Rows == [Msg -> InFlight \cup Final]

Idle == [pc |-> "idle"]
Done == [pc |-> "done"]
\* The uncommitted part of a refresh: the rows the task has flushed, the
\* status it computed, and the one it writes, if any.
Changes == UNION {[ms -> Final \cup {"SUBMITTED"}] : ms \in SUBSET Msg}
Sessions == {Idle, [pc |-> "saved"]}
  \cup [pc : {"counted"}, changes : Changes, total : CampaignStatus,
        status : CampaignStatus \cup {"kept"}]
Job == {Idle}
  \cup [pc : {"read", "loaded"}, msg : Msg]
  \cup [pc : {"charged", "failed", "submitted"}, msg : Msg,
        copied : CampaignStatus]
  \cup [pc : {"counted"}, msg : Msg, changes : Changes,
        total : CampaignStatus, status : CampaignStatus \cup {"kept"}]
Written == {"DRAFT", "SCHEDULED", "FAILED", "kept"}
Requests == {Idle, Done, [pc |-> "starting"]}
  \cup [pc : {"scheduling"}, status : Written]
  \cup [pc : {"failing"}, status : Written, pending : SUBSET Msg]
  \cup [pc : {"editing"}, status : Written, scheduled : Times]

\* create_campaign: the rows of the messages are there from the start.
Init ==
  /\ schedule \in Times
  /\ campaign = IF schedule = "none" THEN "DRAFT" ELSE "SCHEDULED"
  /\ row = [m \in Msg |-> "PENDING"]
  /\ sent = {}
  /\ late = {}
  /\ places = [m \in Msg |-> 0]
  /\ job = Idle
  /\ session = [s \in Session |-> Idle]
  /\ batch = [b \in Batch |-> "idle"]
  /\ scheduler = "idle"
  /\ request = [q \in Request |-> Idle]
  /\ starts = 0
  /\ fresh = {}
  /\ owed = TRUE
  /\ settled = {}

-----------------------------------------------------------------------------
(* refresh_campaign_delivery_status.                                       *)

\* Mutant: PROCESSING is not counted as in flight.
AggregateForgets(rows) ==
  IF \E m \in Msg : rows[m] \in {"PENDING", "SUBMITTED"} THEN "DELIVERING"
  ELSE IF \E m \in Msg : rows[m] = "DELIVERED" THEN "COMPLETED"
  ELSE "FAILED"

Aggregate(rows) ==
  IF \E m \in Msg : rows[m] \in InFlight THEN "DELIVERING"
  ELSE IF \E m \in Msg : rows[m] = "DELIVERED" THEN "COMPLETED"
  ELSE "FAILED"

\* The rows as the task that flushed the changes sees them.
With(changes) ==
  [m \in Msg |-> IF m \in DOMAIN changes THEN changes[m] ELSE row[m]]

Same(status, ms) == [m \in ms |-> status]
NoChange == Same("SUBMITTED", {})

\* Mutant: the rows are counted without the flush.
TotalUnflushed(changes) == Aggregate(row)

\* What a task that has flushed the changes counts.
Total(changes) == Aggregate(With(changes))

\* A commit writes the status only if it differs from the copy.
Writes(copied, status) == IF status # copied THEN status ELSE "kept"
Saved(status) == IF status = "kept" THEN campaign ELSE status

\* Rows a transaction has flushed are locked until it commits.
Changing(task) == IF task.pc = "counted" THEN DOMAIN task.changes ELSE {}
Locked(m) ==
  m \in Changing(job) \/ \E s \in Session : m \in Changing(session[s])

SameToTheCampaign(status1, status2) ==
  status1 = status2 \/ {status1, status2} \subseteq InFlight

Task(id) == IF id = "worker" THEN job ELSE session[id]

\* Of the refreshes under way, those that will overwrite a campaign written
\* meanwhile: a total that equals the task's own copy is not written.
Overwriting == {id \in fresh : Task(id).status # "kept"}

\* Something other than a refresh writes the campaign.
SetCampaign(status) ==
  /\ campaign' = status
  /\ fresh' = Overwriting
  /\ owed' = TRUE

\* A message row is committed outside a refresh.
SetStatus(m, status) ==
  /\ ~Locked(m)
  /\ row' = [row EXCEPT ![m] = status]
  /\ IF SameToTheCampaign(row[m], status)
     THEN UNCHANGED <<fresh, owed>>
     ELSE fresh' = {} /\ owed' = TRUE
  /\ settled' = IF status \in Final THEN settled \cup {m} ELSE settled

CommitRefresh(id, task) ==
  /\ campaign' = Saved(task.status)
  /\ row' = With(task.changes)
  /\ owed' = (id \notin fresh)
  /\ fresh' = IF \E m \in Msg : ~SameToTheCampaign(row[m], row'[m]) THEN {}
              ELSE IF campaign' = campaign THEN fresh \ {id}
              ELSE Overwriting \ {id}
  /\ settled' = settled \cup {m \in Msg : row'[m] \in Final}

-----------------------------------------------------------------------------
(* Starting the campaign.                                                  *)

EnqueueBatch ==
  /\ starts < MaxStarts
  /\ starts' = starts + 1
  /\ \E b \in Batch :
       batch[b] = "idle" /\ batch' = [batch EXCEPT ![b] = "started"]

SchedulerSelects ==
  /\ scheduler = "idle"
  /\ campaign = "SCHEDULED"
  /\ schedule = "due"
  /\ scheduler' = "selected"
  /\ UNCHANGED <<campaign, schedule, messages, places, job, session, batch,
                 request, starts, history>>

SchedulerStarts ==
  /\ scheduler = "selected"
  /\ scheduler' = "idle"
  /\ SetCampaign("SENDING")
  /\ EnqueueBatch
  /\ UNCHANGED <<schedule, messages, places, job, session, request, settled>>

\* A request works out the status it will write as it reads the campaign.
BroadcastReads(q) ==
  /\ request[q] = Idle
  /\ campaign \notin {"SENDING", "COMPLETED"}
  /\ \E ready \in BOOLEAN :
       request' = [request EXCEPT ![q] =
         IF ~ready
         THEN [pc |-> "failing", status |-> Writes(campaign, "FAILED"),
               pending |-> {m \in Msg : row[m] = "PENDING"}]
         ELSE IF schedule = "ahead"
         THEN [pc |-> "scheduling", status |-> Writes(campaign, "SCHEDULED")]
         ELSE [pc |-> "starting"]]
  /\ UNCHANGED <<campaign, schedule, messages, places, job, session, batch,
                 scheduler, starts, history>>

BroadcastStarts(q) ==
  /\ request[q].pc = "starting"
  /\ request' = [request EXCEPT ![q] = Done]
  /\ SetCampaign("SENDING")
  /\ EnqueueBatch
  /\ UNCHANGED <<schedule, messages, places, job, session, scheduler, settled>>

RequestCommits(q) ==
  /\ request' = [request EXCEPT ![q] = Done]
  /\ IF request[q].status = "kept" THEN UNCHANGED <<campaign, fresh, owed>>
     ELSE SetCampaign(request[q].status)

BroadcastSchedules(q) ==
  /\ request[q].pc = "scheduling"
  /\ RequestCommits(q)
  /\ UNCHANGED <<schedule, messages, places, job, session, batch, scheduler,
                 starts, settled>>

\* No provider is ready: what was pending when it looked is marked as failed.
BroadcastOffline(q) ==
  /\ request[q].pc = "failing"
  /\ LET failing == request[q].pending
     IN  /\ \A m \in failing : ~Locked(m)
         /\ row' = With(Same("FAILED", failing))
         /\ settled' = settled \cup failing
  /\ request' = [request EXCEPT ![q] = Done]
  /\ campaign' = Saved(request[q].status)
  /\ fresh' = {} /\ owed' = TRUE
  /\ UNCHANGED <<schedule, sent, late, places, job, session, batch, scheduler,
                 starts>>

EditReads(q, scheduled) ==
  /\ request[q] = Idle
  /\ campaign # "COMPLETED"
  /\ request' = [request EXCEPT ![q] =
       [pc |-> "editing", scheduled |-> scheduled,
        status |-> Writes(campaign,
          IF campaign \notin {"DRAFT", "SCHEDULED"} THEN campaign
          ELSE IF scheduled = "none" THEN "DRAFT" ELSE "SCHEDULED")]]
  /\ UNCHANGED <<campaign, schedule, messages, places, job, session, batch,
                 scheduler, starts, history>>

EditCommits(q) ==
  /\ request[q].pc = "editing"
  /\ schedule' = request[q].scheduled
  /\ RequestCommits(q)
  /\ UNCHANGED <<messages, places, job, session, batch, scheduler, starts,
                 settled>>

-----------------------------------------------------------------------------
(* process_campaign_batch.                                                 *)

\* A campaign that is SENDING already is not written again.
BatchReads(b) ==
  /\ batch[b] = "started"
  /\ batch' = [batch EXCEPT ![b] = CASE campaign = "COMPLETED" -> "idle"
                                     [] campaign = "SENDING" -> "sending"
                                     [] OTHER -> "marking"]
  /\ UNCHANGED <<campaign, schedule, messages, places, job, session,
                 scheduler, request, starts, history>>

BatchMarks(b) ==
  /\ batch[b] = "marking"
  /\ batch' = [batch EXCEPT ![b] = "sending"]
  /\ SetCampaign("SENDING")
  /\ UNCHANGED <<schedule, messages, places, job, session, scheduler, request,
                 starts, settled>>

Put(ms) ==
  /\ \A m \in ms : places[m] < MaxCopies
  /\ places' = [m \in Msg |-> IF m \in ms THEN places[m] + 1 ELSE places[m]]

BatchPuts(b) ==
  /\ batch[b] = "sending"
  /\ batch' = [batch EXCEPT ![b] = "put"]
  /\ Put({m \in Msg : row[m] = "PENDING"})
  /\ UNCHANGED <<campaign, schedule, messages, job, session, scheduler,
                 request, starts, history>>

\* Mutant: the status of a message is given to the campaign.
BatchEndsSubmitted(b) ==
  /\ batch[b] = "put"
  /\ batch' = [batch EXCEPT ![b] = "idle"]
  /\ SetCampaign("SUBMITTED")
  /\ UNCHANGED <<schedule, messages, places, job, session, scheduler, request,
                 starts, settled>>

\* Whatever has become of the campaign since.
BatchEnds(b) ==
  /\ batch[b] = "put"
  /\ batch' = [batch EXCEPT ![b] = "idle"]
  /\ SetCampaign("DELIVERING")
  /\ UNCHANGED <<schedule, messages, places, job, session, scheduler, request,
                 starts, settled>>

-----------------------------------------------------------------------------
(* The worker.                                                             *)

TakeJob(m) ==
  /\ job = Idle
  /\ places[m] > 0
  /\ places' = [places EXCEPT ![m] = @ - 1]
  /\ job' = IF row[m] \in {"SUBMITTED", "DELIVERED"} THEN Idle
            ELSE [pc |-> "read", msg |-> m]
  /\ UNCHANGED <<campaign, schedule, messages, session, batch, scheduler,
                 request, starts, history>>

MarkProcessing ==
  /\ job.pc = "read"
  /\ SetStatus(job.msg, "PROCESSING")
  /\ job' = [job EXCEPT !.pc = "loaded"]
  /\ UNCHANGED <<campaign, schedule, sent, late, places, session, batch,
                 scheduler, request, starts>>

Throttle ==
  /\ job.pc = "loaded"
  /\ SetStatus(job.msg, "PENDING")
  /\ job' = Idle
  /\ UNCHANGED <<campaign, schedule, sent, late, places, session, batch,
                 scheduler, request, starts>>

\* The campaign is read for its PAYG preference: that is the worker's copy.
Charge ==
  /\ job.pc = "loaded"
  /\ job' = [pc |-> "charged", msg |-> job.msg, copied |-> campaign]
  /\ UNCHANGED <<campaign, schedule, messages, places, session, batch,
                 scheduler, request, starts, history>>

\* Not enough credits: nobody tells the campaign.
Refuse ==
  /\ job.pc = "loaded"
  /\ SetStatus(job.msg, "FAILED")
  /\ job' = Idle
  /\ UNCHANGED <<campaign, schedule, sent, late, places, session, batch,
                 scheduler, request, starts>>

\* The worker counts with the copy of the campaign it has.
JobCounts(changes) ==
  /\ \A m \in DOMAIN changes : ~Locked(m)
  /\ job' = [pc |-> "counted", msg |-> job.msg, changes |-> changes,
             total |-> Total(changes),
             status |-> Writes(job.copied, Total(changes))]
  /\ fresh' = IF job.copied = campaign \/ Total(changes) # job.copied
              THEN fresh \cup {"worker"} ELSE fresh
  /\ UNCHANGED <<campaign, schedule, messages, places, session, batch,
                 scheduler, request, starts, owed, settled>>

\* The refresh comes before the commit of SUBMITTED.
GatewayAccepts ==
  job.pc = "charged" /\ JobCounts(Same("SUBMITTED", {job.msg}))

\* The refund commits FAILED; the refresh is still to come.  The gateway
\* refused, or a socket joined or left while the update was sent out.
JobFails ==
  /\ job.pc \in {"charged", "submitted"}
  /\ SetStatus(job.msg, "FAILED")
  /\ job' = [job EXCEPT !.pc = "failed"]
  /\ UNCHANGED <<campaign, schedule, sent, late, places, session, batch,
                 scheduler, request, starts>>

CountFailed == job.pc = "failed" /\ JobCounts(NoChange)

\* A report has refunded the message while the update was sent out: nothing is
\* refunded, and FAILED is not committed before the refresh.
FailUnrefunded ==
  job.pc = "submitted" /\ JobCounts(Same("FAILED", {job.msg}))

JobCommits ==
  /\ job.pc = "counted"
  /\ CommitRefresh("worker", job)
  /\ LET accepted == {m \in DOMAIN job.changes : job.changes[m] = "SUBMITTED"}
     IN  /\ sent' = sent \cup accepted
         /\ late' = late \ accepted
         /\ job' = IF accepted = {} THEN Idle
                   ELSE [pc |-> "submitted", msg |-> job.msg,
                         copied |-> job.total]
  /\ UNCHANGED <<schedule, places, session, batch, scheduler, request, starts>>

BroadcastDone ==
  /\ job.pc = "submitted"
  /\ job' = Idle
  /\ UNCHANGED <<campaign, schedule, messages, places, session, batch,
                 scheduler, request, starts, history>>

-----------------------------------------------------------------------------
(* Reports, the poller and the force-deliver endpoints.                    *)

SessionCounts(s, changes) ==
  /\ \A m \in DOMAIN changes : ~Locked(m)
  /\ session' = [session EXCEPT ![s] =
       [pc |-> "counted", changes |-> changes, total |-> Total(changes),
        status |-> Writes(campaign, Total(changes))]]
  /\ fresh' = fresh \cup {s}
  /\ UNCHANGED <<campaign, schedule, messages, places, job, batch, scheduler,
                 request, starts, owed, settled>>

\* A report that a message was delivered, was accepted, or failed with nothing
\* to refund, or that says nothing known; and the force-deliver of any message.
ReportCounts(s) ==
  /\ session[s] = Idle
  /\ \/ SessionCounts(s, NoChange)
     \/ \E m \in Msg : SessionCounts(s, Same("DELIVERED", {m}))
     \/ \E m \in sent, status \in {"SUBMITTED", "FAILED"} :
          SessionCounts(s, Same(status, {m}))

\* The poller, which looks a day back, settles several; force-deliver of the
\* whole campaign, which takes any, calls them all delivered.
PollCounts(s, delivered, undelivered) ==
  /\ session[s] = Idle
  /\ (delivered \cup undelivered) \cap late = {} \/ undelivered = {}
  /\ delivered \cup undelivered \subseteq {m \in sent : row[m] = "SUBMITTED"}
  /\ delivered \cap undelivered = {}
  /\ delivered \cup undelivered # {}
  /\ SessionCounts(s, [m \in delivered \cup undelivered |->
                        IF m \in delivered THEN "DELIVERED" ELSE "FAILED"])

\* An undelivered message is refunded, and its row committed, before the
\* campaign is counted.
ReportRefunds(s, m) ==
  /\ session[s] = Idle
  /\ m \in sent
  /\ SetStatus(m, "FAILED")
  /\ session' = [session EXCEPT ![s] = [pc |-> "saved"]]
  /\ UNCHANGED <<campaign, schedule, sent, late, places, job, batch,
                 scheduler, request, starts>>

RefundedCounts(s) == session[s].pc = "saved" /\ SessionCounts(s, NoChange)

SessionCommits(s) ==
  /\ session[s].pc = "counted"
  /\ CommitRefresh(s, session[s])
  /\ session' = [session EXCEPT ![s] = Idle]
  /\ UNCHANGED <<schedule, sent, late, places, job, batch, scheduler, request,
                 starts>>

-----------------------------------------------------------------------------
(* Retries, recovery, time and restarts.                                   *)

RetryMessage(m) ==
  /\ row[m] = "FAILED"
  /\ SetStatus(m, "PENDING")
  /\ Put({m})
  /\ UNCHANGED <<campaign, schedule, sent, late, tasks, starts>>

\* Mutant: a campaign that is being sent is left to its batch.
RecoverIdleOrphans ==
  /\ campaign # "SENDING"
  /\ LET orphans == {m \in Msg \ sent : row[m] = "PENDING"}
     IN  orphans # {} /\ Put(orphans)
  /\ UNCHANGED <<campaign, schedule, messages, tasks, starts, history>>

\* Any time may have passed, so any message may be old enough.
RecoverOrphans ==
  /\ LET orphans == {m \in Msg \ sent : row[m] = "PENDING"}
     IN  orphans # {} /\ Put(orphans)
  /\ UNCHANGED <<campaign, schedule, messages, tasks, starts, history>>

LeavesWindow(m) ==
  /\ m \in sent \ late
  /\ row[m] = "SUBMITTED"
  /\ late' = late \cup {m}
  /\ UNCHANGED <<campaign, schedule, row, sent, places, tasks, starts, history>>

BecomesDue ==
  /\ schedule = "ahead"
  /\ schedule' = "due"
  /\ UNCHANGED <<campaign, messages, places, tasks, starts, history>>

Crash ==
  /\ places' = [m \in Msg |-> 0]
  /\ job' = Idle
  /\ session' = [s \in Session |-> Idle]
  /\ batch' = [b \in Batch |-> "idle"]
  /\ scheduler' = "idle"
  /\ request' = [q \in Request |->
                  IF request[q] = Idle THEN Idle ELSE Done]
  /\ fresh' = {}
  /\ UNCHANGED <<campaign, schedule, messages, starts, owed, settled>>

Next ==
  \/ SchedulerSelects \/ SchedulerStarts
  \/ \E q \in Request :
       \/ BroadcastReads(q) \/ BroadcastStarts(q)
       \/ BroadcastSchedules(q) \/ BroadcastOffline(q)
       \/ \E scheduled \in Times : EditReads(q, scheduled)
       \/ EditCommits(q)
  \/ \E b \in Batch :
       BatchReads(b) \/ BatchMarks(b) \/ BatchPuts(b) \/ BatchEnds(b)
  \/ \E m \in Msg : TakeJob(m)
  \/ MarkProcessing
  \/ Throttle \/ Charge \/ Refuse
  \/ GatewayAccepts \/ JobFails \/ CountFailed \/ FailUnrefunded
  \/ JobCommits
  \/ BroadcastDone
  \/ \E s \in Session :
       \/ ReportCounts(s)
       \/ \E delivered, undelivered \in SUBSET Msg :
            PollCounts(s, delivered, undelivered)
       \/ \E m \in Msg : ReportRefunds(s, m)
       \/ RefundedCounts(s)
       \/ SessionCommits(s)
  \/ \E m \in Msg : RetryMessage(m) \/ LeavesWindow(m)
  \/ RecoverOrphans
  \/ BecomesDue
  \/ Crash

Spec == Init /\ [][Next]_vars

(* The loops of the worker, the recovery and the poller go on; a session    *)
(* ends what it began; who asks the limiter often enough passes it, and the *)
(* poller reaches every submitted message of the last day between its       *)
(* reports.  (The bound on places, which the code does not have, may stop a *)
(* batch meanwhile.)                                                        *)
Worker ==
  \/ \E m \in Msg : TakeJob(m)
  \/ MarkProcessing \/ Throttle \/ Charge \/ Refuse
  \/ GatewayAccepts \/ JobFails \/ CountFailed \/ FailUnrefunded
  \/ JobCommits \/ BroadcastDone

PollSettles(s) ==
  LET submitted == {m \in sent \ late : row[m] = "SUBMITTED"}
  IN  \E delivered \in SUBSET submitted :
        PollCounts(s, delivered, submitted \ delivered)

Fairness ==
  /\ WF_vars(Worker)
  /\ SF_vars(Charge \/ Refuse)
  /\ WF_vars(RecoverOrphans)
  /\ \A s \in Session :
       /\ WF_vars(RefundedCounts(s) \/ SessionCommits(s))
       /\ SF_vars(PollSettles(s))
  /\ \A b \in Batch :
       SF_vars(BatchReads(b) \/ BatchMarks(b) \/ BatchPuts(b) \/ BatchEnds(b))

FairSpec == Spec /\ Fairness

-----------------------------------------------------------------------------
TypeOK ==
  /\ campaign \in CampaignStatus
  /\ schedule \in Times \cup {"due"}
  /\ row \in Rows
  /\ sent \subseteq Msg
  /\ late \subseteq sent
  /\ places \in [Msg -> 0 .. MaxCopies]
  /\ job \in Job
  /\ session \in [Session -> Sessions]
  /\ batch \in [Batch -> {"idle", "started", "marking", "sending", "put"}]
  /\ scheduler \in {"idle", "selected"}
  /\ request \in [Request -> Requests]
  /\ starts \in 0 .. MaxStarts
  /\ fresh \subseteq Session \cup {"worker"}
  /\ owed \in BOOLEAN
  /\ settled \subseteq Msg

(* A refresh leaves the campaign showing what its messages are, whatever    *)
(* the refreshing task had not committed: with an old copy of the campaign, *)
(* and over a write of another task that came between, if it writes at all; *)
(* and so it stays until something else changes.  Not promised: a refresh   *)
(* during which rows of other tasks change, and a total that equals the old *)
(* copy and so is not written (SettlesInTheEnd shows what comes of those);  *)
(* and what a batch, the scheduler or an edit writes after the refresh.     *)
ShowsItsMessages == owed \/ campaign = Aggregate(row)

(* A campaign is not shown as COMPLETED before every message of it was      *)
(* delivered or has failed, whichever refreshes overlap.                   *)
CompletedMeansSettled == campaign = "COMPLETED" => settled = Msg

(* "later broadcast" (campaigns.py, create_campaign): no message is handed  *)
(* to the provider before the campaign was started.                        *)
SentAfterBroadcast == job.pc = "charged" => starts > 0

\* No task will refresh the campaign.
Quiet ==
  /\ job = Idle
  /\ \A s \in Session : session[s] = Idle
  /\ \A b \in Batch : batch[b] = "idle"

(* "When all messages are terminal: if at least one message was delivered,  *)
(* mark COMPLETED; otherwise mark FAILED" (campaign_status.py:18-20): once a *)
(* started campaign has nothing in flight and no task at work, it is no    *)
(* longer shown as DELIVERING.                                             *)
SettlesInTheEnd ==
  starts > 0 /\ Quiet /\ (\A m \in Msg : row[m] \in Final)
    => campaign # "DELIVERING"

\* Left where no loop looks: in nobody's hands after a crash, reset by a retry
\* whose place in the queue a crash has emptied, or submitted too long ago.
Abandoned(m) ==
  \/ row[m] = "PROCESSING" /\ job = Idle /\ places[m] = 0
  \/ row[m] = "PENDING" /\ m \in sent
  \/ row[m] = "SUBMITTED" /\ m \in late

(* A restart between the commit of SENDING and the batch's puts leaves a    *)
(* campaign that a new broadcast refuses; only the recovery of orphans      *)
(* (resolve_worker.py) moves it on.  Though restarts and retries by hand    *)
(* come to an end, it may stay SENDING for ever, but not for a message that *)
(* could still be sent or settled: time and again nothing of it is left.    *)
SendingMovesOn ==
  \/ []<><<Crash \/ \E m \in Msg : RetryMessage(m)>>_vars
  \/ []<>(campaign # "SENDING")
  \/ []<>(\A m \in Msg : row[m] \in Final \/ Abandoned(m))

=============================================================================
