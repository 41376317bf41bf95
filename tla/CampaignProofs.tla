--------------------------- MODULE CampaignProofs ---------------------------
(* Proofs about Campaign, for every set of messages, sessions, batches and  *)
(* requests.                                                                *)
EXTENDS Campaign, TLAPS

USE DEF messages

-----------------------------------------------------------------------------
(* The operators of a refresh.                                              *)

(* A set of flushed rows says which messages it changes and to what. *)
LEMMA ChangesTyped ==
  ASSUME NEW changes \in Changes
  PROVE  /\ DOMAIN changes \subseteq Msg
         /\ \A m \in DOMAIN changes : changes[m] \in Final \cup {"SUBMITTED"}
  BY DEF Changes

(* Giving one status to some messages is such a set.                        *)
LEMMA SameTyped ==
  ASSUME NEW ms \in SUBSET Msg, NEW status \in Final \cup {"SUBMITTED"}
  PROVE  Same(status, ms) \in Changes
  BY DEF Same, Changes

(* So is no change at all.                                                  *)
LEMMA NoChangeTyped == NoChange \in Changes
  BY SameTyped DEF NoChange

(* What the poller was told of several messages is one too.                 *)
LEMMA ToldTyped ==
  ASSUME NEW delivered \in SUBSET Msg, NEW undelivered \in SUBSET Msg
  PROVE  [m \in delivered \cup undelivered |->
            IF m \in delivered THEN "DELIVERED" ELSE "FAILED"] \in Changes
  <1> DEFINE settling == delivered \cup undelivered
             told == [m \in settling |->
                        IF m \in delivered THEN "DELIVERED" ELSE "FAILED"]
  <1>1. told \in [settling -> Final \cup {"SUBMITTED"}]
    BY DEF Final
  <1>2. settling \in SUBSET Msg
    OBVIOUS
  <1>3. told \in Changes
    <2> HIDE DEF told, settling
    <2> QED
      BY <1>1, <1>2 DEF Changes
  <1> QED
    BY <1>3

(* A task sees well-typed rows.                                             *)
LEMMA WithTyped ==
  ASSUME row \in Rows, NEW changes \in Changes
  PROVE  With(changes) \in Rows
  BY ChangesTyped DEF With, Rows, InFlight, Final

(* An aggregate is one of three statuses.                                   *)
LEMMA AggregateTyped ==
  ASSUME NEW rows
  PROVE  Aggregate(rows) \in {"DELIVERING", "COMPLETED", "FAILED"}
  BY DEF Aggregate

(* The aggregate depends only on what the campaign tells apart. *)
LEMMA AggregateSame ==
  ASSUME NEW rows1, NEW rows2,
         \A m \in Msg : SameToTheCampaign(rows1[m], rows2[m])
  PROVE  Aggregate(rows1) = Aggregate(rows2)
  BY DEF Aggregate, SameToTheCampaign, InFlight

-----------------------------------------------------------------------------
(* Every step keeps the variables in their types.                           *)

(* A message row committed outside a refresh.                               *)
LEMMA SetStatusTyped ==
  ASSUME TypeOK, NEW m \in Msg, NEW status \in InFlight \cup Final,
         SetStatus(m, status)
  PROVE  /\ row' \in Rows
         /\ fresh' \subseteq Session \cup {"worker"}
         /\ owed' \in BOOLEAN
         /\ settled' \subseteq Msg
  BY DEF TypeOK, SetStatus, Rows

(* The commit of a refresh.                                                 *)
LEMMA CommitTyped ==
  ASSUME TypeOK, NEW id, NEW task,
         task.changes \in Changes, task.status \in CampaignStatus \cup {"kept"},
         CommitRefresh(id, task)
  PROVE  /\ campaign' \in CampaignStatus
         /\ row' \in Rows
         /\ fresh' \subseteq Session \cup {"worker"}
         /\ owed' \in BOOLEAN
         /\ settled' \subseteq Msg
  <1>1. row' \in Rows
    BY WithTyped DEF TypeOK, CommitRefresh
  <1> QED
    BY <1>1 DEF TypeOK, CommitRefresh, Saved, Overwriting

(* A put stays within the places there are.                                 *)
LEMMA PutTyped ==
  ASSUME TypeOK, NEW ms \in SUBSET Msg, Put(ms)
  PROVE  places' \in [Msg -> 0 .. MaxCopies]
  BY CampaignAssumption DEF TypeOK, Put

(* What the worker holds past its start. *)
LEMMA JobHolds ==
  ASSUME TypeOK
  PROVE  /\ job.pc \in {"read", "loaded"} => job.msg \in Msg
         /\ job.pc \in {"charged", "failed", "submitted"} =>
              job.msg \in Msg /\ job.copied \in CampaignStatus
         /\ job.pc = "counted" =>
              /\ job.msg \in Msg
              /\ job.changes \in Changes /\ job.total \in CampaignStatus
              /\ job.status \in CampaignStatus \cup {"kept"}
  BY DEF TypeOK, Job, Idle

(* What a session with a refresh to commit holds.                           *)
LEMMA SessionHolds ==
  ASSUME TypeOK, NEW s \in Session, session[s].pc = "counted"
  PROVE  /\ session[s].changes \in Changes
         /\ session[s].total \in CampaignStatus
         /\ session[s].status \in CampaignStatus \cup {"kept"}
  BY DEF TypeOK, Sessions, Idle

(* What a request that has read the campaign holds.                         *)
LEMMA RequestHolds ==
  ASSUME TypeOK, NEW q \in Request
  PROVE  /\ request[q].pc \in {"scheduling", "failing", "editing"} =>
              request[q].status \in Written
         /\ request[q].pc = "failing" => request[q].pending \in SUBSET Msg
         /\ request[q].pc = "editing" =>
              request[q].scheduled \in Times
  BY DEF TypeOK, Requests, Idle, Done

(* The worker counts.                                                       *)
LEMMA JobCountsTyped ==
  ASSUME TypeOK, job.pc \in {"charged", "failed", "submitted"},
         NEW changes \in Changes, JobCounts(changes)
  PROVE  TypeOK'
  <1>1. Total(changes) \in CampaignStatus
    BY AggregateTyped DEF Total, CampaignStatus
  <1>2. job' \in Job
    BY <1>1, JobHolds DEF JobCounts, Job, Writes
  <1> QED
    BY <1>2 DEF TypeOK, JobCounts

(* A session counts.                                                        *)
LEMMA SessionCountsTyped ==
  ASSUME TypeOK, NEW s \in Session, NEW changes \in Changes,
         SessionCounts(s, changes)
  PROVE  TypeOK'
  <1>1. Total(changes) \in CampaignStatus
    BY AggregateTyped DEF Total, CampaignStatus
  <1>2. session' \in [Session -> Sessions]
    BY <1>1 DEF TypeOK, SessionCounts, Sessions, Writes
  <1> QED
    BY <1>2 DEF TypeOK, SessionCounts

(* The commit of a request.                                                 *)
LEMMA RequestCommitsTyped ==
  ASSUME TypeOK, NEW q \in Request,
         request[q].pc \in {"scheduling", "editing"}, RequestCommits(q)
  PROVE  /\ campaign' \in CampaignStatus
         /\ request' \in [Request -> Requests]
         /\ fresh' \subseteq Session \cup {"worker"}
         /\ owed' \in BOOLEAN
  <1>1. request' \in [Request -> Requests]
    BY DEF TypeOK, RequestCommits, Requests
  <1> QED
    BY <1>1, RequestHolds
    DEF TypeOK, RequestCommits, SetCampaign, Overwriting, CampaignStatus,
        Written

(* A new campaign is well typed.                                            *)
LEMMA TypeInit == Init => TypeOK
  BY CampaignAssumption
  DEF Init, TypeOK, CampaignStatus, Rows, InFlight, Job, Sessions, Requests

(* Starting and editing.                                                    *)
LEMMA StartTyped ==
  ASSUME TypeOK,
         \/ SchedulerSelects \/ SchedulerStarts
         \/ \E q \in Request :
              \/ BroadcastReads(q) \/ BroadcastStarts(q)
              \/ BroadcastSchedules(q) \/ BroadcastOffline(q)
              \/ \E scheduled \in Times : EditReads(q, scheduled)
              \/ EditCommits(q)
  PROVE  TypeOK'
  <1>1. ASSUME SchedulerSelects PROVE TypeOK'
    BY <1>1 DEF TypeOK, SchedulerSelects, history
  <1>2. ASSUME SchedulerStarts PROVE TypeOK'
    BY <1>2, CampaignAssumption
    DEF TypeOK, SchedulerStarts, SetCampaign, EnqueueBatch, Overwriting,
          CampaignStatus
  <1>3. ASSUME NEW q \in Request, BroadcastReads(q) PROVE TypeOK'
    <2>1. request' \in [Request -> Requests]
      BY <1>3
      DEF BroadcastReads, TypeOK, Requests, Writes, Written, CampaignStatus
    <2> QED
      BY <1>3, <2>1 DEF TypeOK, BroadcastReads, history
  <1>4. ASSUME NEW q \in Request, BroadcastStarts(q) PROVE TypeOK'
    <2>1. request' \in [Request -> Requests]
      BY <1>4 DEF BroadcastStarts, TypeOK, Requests
    <2> QED
      BY <1>4, <2>1, CampaignAssumption
      DEF TypeOK, BroadcastStarts, SetCampaign, EnqueueBatch, Overwriting,
          CampaignStatus
  <1>5. ASSUME NEW q \in Request, BroadcastSchedules(q) PROVE TypeOK'
    BY <1>5, RequestCommitsTyped DEF TypeOK, BroadcastSchedules
  <1>6. ASSUME NEW q \in Request, BroadcastOffline(q) PROVE TypeOK'
    <2>1. request[q].status \in Written /\ request[q].pending \in SUBSET Msg
      BY <1>6, RequestHolds DEF BroadcastOffline
    <2>2. row' \in Rows
      <3>1. Same("FAILED", request[q].pending) \in Changes
        BY <2>1, SameTyped DEF Final
      <3> QED
        BY <1>6, <3>1, WithTyped DEF BroadcastOffline, TypeOK
    <2>3. request' \in [Request -> Requests]
      BY <1>6 DEF BroadcastOffline, TypeOK, Requests
    <2> QED
      BY <1>6, <2>1, <2>2, <2>3
      DEF TypeOK, BroadcastOffline, Saved, CampaignStatus, Written
  <1>7. ASSUME NEW q \in Request, NEW scheduled \in Times,
               EditReads(q, scheduled)
        PROVE  TypeOK'
    <2>1. request' \in [Request -> Requests]
      BY <1>7
      DEF EditReads, TypeOK, Requests, Writes, Written, CampaignStatus
    <2> QED
      BY <1>7, <2>1 DEF TypeOK, EditReads, history
  <1>8. ASSUME NEW q \in Request, EditCommits(q) PROVE TypeOK'
    <2>1. request[q].scheduled \in Times
      BY <1>8, RequestHolds DEF EditCommits
    <2> QED
      BY <1>8, <2>1, RequestCommitsTyped DEF TypeOK, EditCommits
  <1> QED
    BY <1>1, <1>2, <1>3, <1>4, <1>5, <1>6, <1>7, <1>8

(* The batch task.                                                          *)
LEMMA BatchTyped ==
  ASSUME TypeOK, NEW b \in Batch,
         BatchReads(b) \/ BatchMarks(b) \/ BatchPuts(b) \/ BatchEnds(b)
  PROVE  TypeOK'
  <1>1. CASE BatchReads(b)
    BY <1>1 DEF TypeOK, BatchReads, history
  <1>2. CASE BatchMarks(b)
    BY <1>2 DEF TypeOK, BatchMarks, SetCampaign, Overwriting,
           CampaignStatus
  <1>3. CASE BatchPuts(b)
    <2>1. places' \in [Msg -> 0 .. MaxCopies]
      BY <1>3, PutTyped DEF BatchPuts
    <2> QED
      BY <1>3, <2>1 DEF TypeOK, BatchPuts, history
  <1>4. CASE BatchEnds(b)
    BY <1>4 DEF TypeOK, BatchEnds, SetCampaign, Overwriting,
           CampaignStatus
  <1> QED
    BY <1>1, <1>2, <1>3, <1>4

(* The worker.                                                              *)
LEMMA WorkerTyped ==
  ASSUME TypeOK,
         \/ \E m \in Msg : TakeJob(m)
         \/ MarkProcessing \/ Throttle \/ Charge \/ Refuse
         \/ GatewayAccepts \/ JobFails \/ CountFailed \/ FailUnrefunded
         \/ JobCommits \/ BroadcastDone
  PROVE  TypeOK'
  <1>1. ASSUME NEW m \in Msg, TakeJob(m) PROVE TypeOK'
    BY <1>1, CampaignAssumption DEF TypeOK, TakeJob, Job, history
  <1>2. ASSUME MarkProcessing PROVE TypeOK'
    <2>1. job.msg \in Msg
      BY <1>2, JobHolds DEF MarkProcessing
    <2>2. job' \in Job
      BY <1>2, <2>1 DEF MarkProcessing, TypeOK, Job, Idle
    <2> QED
      BY <1>2, <2>1, <2>2, SetStatusTyped DEF TypeOK, MarkProcessing, InFlight
  <1>3. ASSUME Throttle PROVE TypeOK'
    <2>1. job.msg \in Msg
      BY <1>3, JobHolds DEF Throttle
    <2> QED
      BY <1>3, <2>1, SetStatusTyped DEF TypeOK, Throttle, InFlight, Job
  <1>4. ASSUME Charge PROVE TypeOK'
    <2>1. job.msg \in Msg
      BY <1>4, JobHolds DEF Charge
    <2> QED
      BY <1>4, <2>1 DEF TypeOK, Charge, Job, history
  <1>5. ASSUME Refuse PROVE TypeOK'
    <2>1. job.msg \in Msg
      BY <1>5, JobHolds DEF Refuse
    <2> QED
      BY <1>5, <2>1, SetStatusTyped DEF TypeOK, Refuse, Final, Job
  <1>6. ASSUME GatewayAccepts PROVE TypeOK'
    BY <1>6, JobHolds, SameTyped, JobCountsTyped DEF GatewayAccepts
  <1>7. ASSUME JobFails PROVE TypeOK'
    <2>1. job.msg \in Msg /\ job.copied \in CampaignStatus
      BY <1>7, JobHolds DEF JobFails
    <2>2. job' \in Job
      BY <1>7, <2>1 DEF JobFails, TypeOK, Job, Idle
    <2> QED
      BY <1>7, <2>1, <2>2, SetStatusTyped DEF TypeOK, JobFails, Final
  <1>8. ASSUME CountFailed PROVE TypeOK'
    BY <1>8, NoChangeTyped, JobCountsTyped DEF CountFailed
  <1>9. ASSUME FailUnrefunded PROVE TypeOK'
    BY <1>9, JobHolds, SameTyped, JobCountsTyped DEF FailUnrefunded, Final
  <1>10. ASSUME JobCommits PROVE TypeOK'
    <2>1. /\ job.msg \in Msg
          /\ job.changes \in Changes /\ job.total \in CampaignStatus
          /\ job.status \in CampaignStatus \cup {"kept"}
      BY <1>10, JobHolds DEF JobCommits
    <2>2. sent' \subseteq Msg /\ late' \subseteq sent'
      BY <1>10, <2>1, ChangesTyped DEF TypeOK, JobCommits
    <2>3. job' \in Job
      BY <1>10, <2>1 DEF JobCommits, Job
    <2> QED
      BY <1>10, <2>1, <2>2, <2>3, CommitTyped DEF TypeOK, JobCommits
  <1>11. ASSUME BroadcastDone PROVE TypeOK'
    BY <1>11 DEF TypeOK, BroadcastDone, Job, history
  <1> QED
    BY <1>1, <1>2, <1>3, <1>4, <1>5, <1>6, <1>7, <1>8, <1>9, <1>10, <1>11

(* Reports, the poller and force-deliver.                                   *)
LEMMA SessionTyped ==
  ASSUME TypeOK, NEW s \in Session,
         \/ ReportCounts(s)
         \/ \E delivered, undelivered \in SUBSET Msg :
              PollCounts(s, delivered, undelivered)
         \/ \E m \in Msg : ReportRefunds(s, m)
         \/ RefundedCounts(s)
         \/ SessionCommits(s)
  PROVE  TypeOK'
  <1>1. ASSUME ReportCounts(s) PROVE TypeOK'
    BY <1>1, NoChangeTyped, SameTyped, SessionCountsTyped
    DEF ReportCounts, TypeOK, Final
  <1>2. ASSUME NEW delivered \in SUBSET Msg, NEW undelivered \in SUBSET Msg,
               PollCounts(s, delivered, undelivered)
        PROVE  TypeOK'
    BY <1>2, ToldTyped, SessionCountsTyped DEF PollCounts
  <1>3. ASSUME NEW m \in Msg, ReportRefunds(s, m) PROVE TypeOK'
    <2>1. session' \in [Session -> Sessions]
      BY <1>3 DEF ReportRefunds, TypeOK, Sessions
    <2> QED
      BY <1>3, <2>1, SetStatusTyped DEF TypeOK, ReportRefunds, Final
  <1>4. ASSUME RefundedCounts(s) PROVE TypeOK'
    BY <1>4, NoChangeTyped, SessionCountsTyped DEF RefundedCounts
  <1>5. ASSUME SessionCommits(s) PROVE TypeOK'
    <2>1. session' \in [Session -> Sessions]
      BY <1>5 DEF SessionCommits, TypeOK, Sessions
    <2> QED
      BY <1>5, <2>1, SessionHolds, CommitTyped DEF TypeOK, SessionCommits
  <1> QED
    BY <1>1, <1>2, <1>3, <1>4, <1>5

(* Retries, recovery, time and restarts.                                    *)
LEMMA RestTyped ==
  ASSUME TypeOK,
         \/ \E m \in Msg : RetryMessage(m) \/ LeavesWindow(m)
         \/ RecoverOrphans \/ BecomesDue \/ Crash
  PROVE  TypeOK'
  <1>1. ASSUME NEW m \in Msg, RetryMessage(m) PROVE TypeOK'
    <2>1. places' \in [Msg -> 0 .. MaxCopies]
      BY <1>1, PutTyped DEF RetryMessage
    <2> QED
      BY <1>1, <2>1, SetStatusTyped DEF TypeOK, RetryMessage, InFlight, tasks
  <1>2. ASSUME RecoverOrphans PROVE TypeOK'
    <2>1. places' \in [Msg -> 0 .. MaxCopies]
      BY <1>2, PutTyped DEF RecoverOrphans
    <2> QED
      BY <1>2, <2>1 DEF TypeOK, RecoverOrphans, tasks, history
  <1>3. ASSUME BecomesDue PROVE TypeOK'
    BY <1>3 DEF TypeOK, BecomesDue, tasks, history
  <1>4. ASSUME Crash PROVE TypeOK'
    BY <1>4, CampaignAssumption
    DEF TypeOK, Crash, Job, Sessions, Requests
  <1>5. ASSUME NEW m \in Msg, LeavesWindow(m) PROVE TypeOK'
    BY <1>5 DEF TypeOK, LeavesWindow, tasks, history
  <1> QED
    BY <1>1, <1>2, <1>3, <1>4, <1>5

(* Every step.                                                              *)
LEMMA TypeStep == TypeOK /\ [Next]_vars => TypeOK'
  <1> SUFFICES ASSUME TypeOK, [Next]_vars PROVE TypeOK'
    OBVIOUS
  <1>1. CASE UNCHANGED vars
    BY <1>1 DEF TypeOK, vars, tasks, history
  <1>2. CASE Next
    BY <1>2, StartTyped, BatchTyped, WorkerTyped, SessionTyped, RestTyped
    DEF Next
  <1> QED
    BY <1>1, <1>2

(* Every reachable state of the campaign model is well typed, for any        *)
(* messages, sessions, batches and requests.                                *)
THEOREM TypeCorrect == Spec => []TypeOK
  BY TypeInit, TypeStep, PTL DEF Spec

-----------------------------------------------------------------------------
(* ShowsItsMessages.  By itself it says nothing of a refresh under way; the *)
(* strengthening says what a fresh one holds.                               *)

(* A task in fresh has a refresh to commit, with the total that is right     *)
(* now, which it will write unless its copy of the campaign is still the row *)
(* and says the same.                                                       *)
Right(task) ==
  /\ task.pc = "counted"
  /\ \/ task.status = task.total
     \/ task.status = "kept" /\ task.total = campaign
  /\ task.total = Total(task.changes)

FreshRight ==
  /\ "worker" \in fresh => Right(job)
  /\ \A s \in Session : s \in fresh => Right(session[s])

ShownOrOwed == ShowsItsMessages /\ FreshRight

(* A step that the campaign does not tell apart leaves a total right.       *)
LEMMA TotalSame ==
  ASSUME NEW changes,
         \A m \in Msg : SameToTheCampaign(row[m], row'[m])
  PROVE  Total(changes)' = Total(changes)
  <1> DEFINE now == [m \in Msg |-> IF m \in DOMAIN changes THEN changes[m]
                                   ELSE row[m]]
             next == [m \in Msg |-> IF m \in DOMAIN changes THEN changes[m]
                                    ELSE row'[m]]
  <1>1. \A m \in Msg : SameToTheCampaign(now[m], next[m])
    BY DEF SameToTheCampaign
  <1> HIDE DEF now, next
  <1>2. Aggregate(now) = Aggregate(next)
    BY <1>1, AggregateSame
  <1> QED
    BY <1>2 DEF Total, With, Aggregate, InFlight, now, next

(* Nor does such a step change what the rows amount to.                     *)
LEMMA ShownSame ==
  ASSUME \A m \in Msg : SameToTheCampaign(row[m], row'[m])
  PROVE  Aggregate(row)' = Aggregate(row)
  <1> DEFINE next == row'
  <1>1. Aggregate(row) = Aggregate(next)
    <2>1. \A m \in Msg : SameToTheCampaign(row[m], next[m])
      OBVIOUS
    <2> HIDE DEF next
    <2> QED
      BY <2>1, AggregateSame
  <1> QED
    BY <1>1 DEF Aggregate, InFlight, next

(* Nothing the campaign tells apart has changed, and what changed task was  *)
(* not about to commit a right total.                                       *)
LEMMA StaysShown ==
  ASSUME ShownOrOwed, UNCHANGED <<campaign, fresh, owed>>,
         \A m \in Msg : SameToTheCampaign(row[m], row'[m]),
         "worker" \in fresh => job' = job,
         \A s \in Session : s \in fresh => session'[s] = session[s]
  PROVE  ShownOrOwed'
  <1>1. ShowsItsMessages'
    BY ShownSame DEF ShownOrOwed, ShowsItsMessages
  <1>2. "worker" \in fresh' => Right(job)'
    <2> SUFFICES ASSUME "worker" \in fresh PROVE Right(job)'
      OBVIOUS
    <2>1. Right(job) /\ job' = job
      BY DEF ShownOrOwed, FreshRight
    <2>2. Total(job.changes)' = Total(job.changes)
      BY <2>1, TotalSame DEF Total, With
    <2> QED
      BY <2>1, <2>2 DEF Right
  <1>3. ASSUME NEW s \in Session, s \in fresh' PROVE Right(session[s])'
    <2>1. Right(session[s]) /\ session'[s] = session[s]
      BY <1>3 DEF ShownOrOwed, FreshRight
    <2>2. Total(session[s].changes)' = Total(session[s].changes)
      BY <2>1, TotalSame DEF Total, With
    <2> QED
      BY <2>1, <2>2 DEF Right
  <1> QED
    BY <1>1, <1>2, <1>3 DEF ShownOrOwed, FreshRight

(* After a write that is not a refresh one is owed, and fresh are only those *)
(* that will overwrite it.                                                  *)
LEMMA WriteShown ==
  ASSUME ShownOrOwed, NEW status, SetCampaign(status),
         UNCHANGED <<row, job, session>>
  PROVE  ShownOrOwed'
  <1>1. ShowsItsMessages'
    BY DEF SetCampaign, ShowsItsMessages
  <1>2. \A m \in Msg : SameToTheCampaign(row[m], row'[m])
    BY DEF SameToTheCampaign
  <1>3. "worker" \in fresh' => Right(job)'
    <2> SUFFICES ASSUME "worker" \in fresh' PROVE Right(job)'
      OBVIOUS
    <2>1. Right(job) /\ job.status # "kept"
      BY DEF SetCampaign, Overwriting, Task, ShownOrOwed, FreshRight
    <2>2. Total(job.changes)' = Total(job.changes)
      BY <1>2, <2>1, TotalSame DEF Total, With
    <2> QED
      BY <2>1, <2>2 DEF Right
  <1>4. ASSUME NEW s \in Session, s \in fresh' PROVE Right(session[s])'
    <2>1. Right(session[s]) /\ session[s].status # "kept"
      BY <1>4, CampaignAssumption
      DEF SetCampaign, Overwriting, Task, ShownOrOwed, FreshRight
    <2>2. Total(session[s].changes)' = Total(session[s].changes)
      BY <1>2, <2>1, TotalSame DEF Total, With
    <2> QED
      BY <2>1, <2>2 DEF Right
  <1> QED
    BY <1>1, <1>3, <1>4 DEF ShownOrOwed, FreshRight

(* Nor is one fresh after a write that changes rows as well.                *)
LEMMA OwedShown ==
  ASSUME fresh' = {}, owed' = TRUE
  PROVE  ShownOrOwed'
  BY DEF ShownOrOwed, ShowsItsMessages, FreshRight

(* A message row committed outside a refresh: one is owed if it matters.    *)
LEMMA StatusShown ==
  ASSUME TypeOK, ShownOrOwed, NEW m \in Msg, NEW status,
         SetStatus(m, status), UNCHANGED campaign,
         "worker" \in fresh => job' = job,
         \A s \in Session : s \in fresh => session'[s] = session[s]
  PROVE  ShownOrOwed'
  <1>1. CASE SameToTheCampaign(row[m], status)
    <2>1. \A n \in Msg : SameToTheCampaign(row[n], row'[n])
      BY <1>1 DEF TypeOK, Rows, SetStatus, SameToTheCampaign
    <2> QED
      BY <1>1, <2>1, StaysShown DEF SetStatus
  <1>2. CASE ~SameToTheCampaign(row[m], status)
    BY <1>2, OwedShown DEF SetStatus
  <1> QED
    BY <1>1, <1>2

(* A fresh refresh leaves the campaign as its messages are; any other one   *)
(* leaves one owed.                                                         *)
LEMMA CommitShown ==
  ASSUME ShownOrOwed, NEW id, NEW task, CommitRefresh(id, task),
         id \in fresh => Right(task),
         "worker" \in fresh \ {id} => job' = job,
         \A s \in Session : s \in fresh \ {id} => session'[s] = session[s]
  PROVE  ShownOrOwed'
  <1>1. ShowsItsMessages'
    <2>1. CASE id \notin fresh
      BY <2>1 DEF CommitRefresh, ShowsItsMessages
    <2>2. CASE id \in fresh
      <3>1. campaign' = Aggregate(With(task.changes))
        BY <2>2, AggregateTyped DEF CommitRefresh, Saved, Right, Total
      <3>2. Aggregate(row)' = Aggregate(With(task.changes))
        <4>1. row' = With(task.changes)
          BY DEF CommitRefresh
        <4> QED
          BY <4>1 DEF Aggregate, InFlight
      <3> QED
        BY <3>1, <3>2 DEF ShowsItsMessages
    <2> QED
      BY <2>1, <2>2
  <1>2. CASE fresh' = {}
    BY <1>1, <1>2 DEF ShownOrOwed, FreshRight
  <1>3. CASE /\ \A m \in Msg : SameToTheCampaign(row[m], row'[m])
             /\ fresh' \subseteq fresh \ {id}
             /\ campaign' = campaign \/ fresh' \subseteq Overwriting
    <2>1. "worker" \in fresh' => Right(job)'
      <3> SUFFICES ASSUME "worker" \in fresh' PROVE Right(job)'
        OBVIOUS
      <3>1. Right(job) /\ job' = job
        BY <1>3 DEF ShownOrOwed, FreshRight
      <3>2. Total(job.changes)' = Total(job.changes)
        BY <1>3, <3>1, TotalSame DEF Total, With
      <3>3. campaign' = campaign \/ job.status # "kept"
        BY <1>3 DEF Overwriting, Task
      <3> QED
        BY <3>1, <3>2, <3>3 DEF Right
    <2>2. ASSUME NEW s \in Session, s \in fresh' PROVE Right(session[s])'
      <3>1. Right(session[s]) /\ session'[s] = session[s]
        BY <1>3, <2>2 DEF ShownOrOwed, FreshRight
      <3>2. Total(session[s].changes)' = Total(session[s].changes)
        BY <1>3, <3>1, TotalSame DEF Total, With
      <3>3. campaign' = campaign \/ session[s].status # "kept"
        BY <1>3, <2>2, CampaignAssumption DEF Overwriting, Task
      <3> QED
        BY <3>1, <3>2, <3>3 DEF Right
    <2> QED
      BY <1>1, <2>1, <2>2 DEF ShownOrOwed, FreshRight
  <1>4. CASE \E m \in Msg : ~SameToTheCampaign(row[m], row'[m])
    BY <1>2, <1>4 DEF CommitRefresh
  <1>5. CASE \A m \in Msg : SameToTheCampaign(row[m], row'[m])
    BY <1>3, <1>5 DEF CommitRefresh, Overwriting
  <1> QED
    BY <1>4, <1>5

(* The worker counts: it is fresh if its copy of the campaign is the row or  *)
(* differs from what it will write.                                         *)
LEMMA JobCountsShown ==
  ASSUME ShownOrOwed, job.pc # "counted", NEW changes, JobCounts(changes)
  PROVE  ShownOrOwed'
  <1>1. ShowsItsMessages'
    BY DEF ShownOrOwed, ShowsItsMessages, JobCounts, Aggregate, InFlight
  <1>2. \A m \in Msg : SameToTheCampaign(row[m], row'[m])
    BY DEF JobCounts, SameToTheCampaign
  <1>3. "worker" \in fresh' => Right(job)'
    <2>1. Total(job.changes)' = Total(changes)
      BY <1>2, TotalSame DEF JobCounts, Total, With
    <2>2. "worker" \notin fresh
      BY DEF ShownOrOwed, FreshRight, Right
    <2> QED
      BY <2>1, <2>2 DEF JobCounts, Right, Writes
  <1>4. ASSUME NEW s \in Session, s \in fresh' PROVE Right(session[s])'
    <2>1. Right(session[s]) /\ session'[s] = session[s]
      BY <1>4, CampaignAssumption DEF ShownOrOwed, FreshRight, JobCounts
    <2>2. Total(session[s].changes)' = Total(session[s].changes)
      BY <1>2, <2>1, TotalSame DEF Total, With
    <2> QED
      BY <2>1, <2>2 DEF JobCounts, Right
  <1> QED
    BY <1>1, <1>3, <1>4 DEF ShownOrOwed, FreshRight

(* A session counts, with a copy it has just read.                          *)
LEMMA SessionCountsShown ==
  ASSUME TypeOK, ShownOrOwed, NEW s \in Session, NEW changes,
         SessionCounts(s, changes)
  PROVE  ShownOrOwed'
  <1>1. ShowsItsMessages'
    BY DEF ShownOrOwed, ShowsItsMessages, SessionCounts, Aggregate, InFlight
  <1>2. \A m \in Msg : SameToTheCampaign(row[m], row'[m])
    BY DEF SessionCounts, SameToTheCampaign
  <1>3. "worker" \in fresh' => Right(job)'
    <2> SUFFICES ASSUME "worker" \in fresh' PROVE Right(job)'
      OBVIOUS
    <2>1. Right(job) /\ job' = job
      BY CampaignAssumption DEF ShownOrOwed, FreshRight, SessionCounts
    <2>2. Total(job.changes)' = Total(job.changes)
      BY <1>2, <2>1, TotalSame DEF Total, With
    <2> QED
      BY <2>1, <2>2 DEF SessionCounts, Right
  <1>4. ASSUME NEW t \in Session, t \in fresh' PROVE Right(session[t])'
    <2>1. CASE t = s
      <3>1. session'[s] = [pc |-> "counted", changes |-> changes,
                           total |-> Total(changes),
                           status |-> Writes(campaign, Total(changes))]
        BY DEF SessionCounts, TypeOK
      <3>2. Total(session[s].changes)' = Total(changes)
        BY <1>2, <3>1, TotalSame DEF Total, With
      <3> QED
        BY <2>1, <3>1, <3>2 DEF SessionCounts, Right, Writes
    <2>2. CASE t # s
      <3>1. Right(session[t]) /\ session'[t] = session[t]
        BY <1>4, <2>2 DEF ShownOrOwed, FreshRight, SessionCounts, TypeOK
      <3>2. Total(session[t].changes)' = Total(session[t].changes)
        BY <1>2, <3>1, TotalSame DEF Total, With
      <3> QED
        BY <3>1, <3>2 DEF SessionCounts, Right
    <2> QED
      BY <2>1, <2>2
  <1> QED
    BY <1>1, <1>3, <1>4 DEF ShownOrOwed, FreshRight

(* Every step keeps the strengthening.                                      *)
LEMMA ShownStep ==
  ASSUME TypeOK, ShownOrOwed, [Next]_vars
  PROVE  ShownOrOwed'
  <1> USE DEF SameToTheCampaign
  <1>1. CASE UNCHANGED vars
    BY <1>1, StaysShown DEF vars, tasks, history
  <1>2. ASSUME \/ SchedulerSelects \/ RecoverOrphans \/ BecomesDue
               \/ \E m \in Msg : LeavesWindow(m)
        PROVE  ShownOrOwed'
    BY <1>2, StaysShown
    DEF SchedulerSelects, RecoverOrphans, BecomesDue, LeavesWindow, tasks,
        history
  <1>3. ASSUME SchedulerStarts \/ Crash PROVE ShownOrOwed'
    <2>1. CASE SchedulerStarts
      BY <2>1, WriteShown DEF SchedulerStarts
    <2>2. CASE Crash
      BY <2>2 DEF Crash, ShownOrOwed, ShowsItsMessages, FreshRight,
                  Aggregate, InFlight
    <2> QED
      BY <1>3, <2>1, <2>2
  <1>4. ASSUME NEW q \in Request,
               \/ BroadcastReads(q)
               \/ \E scheduled \in Times : EditReads(q, scheduled)
        PROVE  ShownOrOwed'
    BY <1>4, StaysShown DEF BroadcastReads, EditReads, history
  <1>5. ASSUME NEW q \in Request, BroadcastStarts(q) \/ BroadcastOffline(q)
        PROVE  ShownOrOwed'
    BY <1>5, WriteShown, OwedShown DEF BroadcastStarts, BroadcastOffline
  <1>6. ASSUME NEW q \in Request, BroadcastSchedules(q) \/ EditCommits(q)
        PROVE  ShownOrOwed'
    <2>1. CASE request[q].status = "kept"
      BY <1>6, <2>1, StaysShown
      DEF BroadcastSchedules, EditCommits, RequestCommits
    <2>2. CASE request[q].status # "kept"
      BY <1>6, <2>2, WriteShown
      DEF BroadcastSchedules, EditCommits, RequestCommits
    <2> QED
      BY <2>1, <2>2
  <1>7. ASSUME NEW b \in Batch, BatchReads(b) \/ BatchPuts(b)
        PROVE  ShownOrOwed'
    BY <1>7, StaysShown DEF BatchReads, BatchPuts, history
  <1>8. ASSUME NEW b \in Batch, BatchMarks(b) \/ BatchEnds(b)
        PROVE  ShownOrOwed'
    BY <1>8, WriteShown DEF BatchMarks, BatchEnds
  <1>9. job.pc # "counted" => "worker" \notin fresh
    BY DEF ShownOrOwed, FreshRight, Right
  <1>10. ASSUME \/ \E m \in Msg : TakeJob(m)
                \/ Charge \/ BroadcastDone
         PROVE  ShownOrOwed'
    BY <1>9, <1>10, StaysShown DEF TakeJob, Charge, BroadcastDone, Idle, history
  <1>11. ASSUME MarkProcessing \/ Throttle \/ Refuse \/ JobFails
         PROVE  ShownOrOwed'
    <2>1. job.msg \in Msg /\ "worker" \notin fresh
      BY <1>9, <1>11, JobHolds DEF MarkProcessing, Throttle, Refuse, JobFails
    <2> QED
      BY <1>11, <2>1, StatusShown DEF MarkProcessing, Throttle, Refuse, JobFails
  <1>12. ASSUME GatewayAccepts \/ CountFailed \/ FailUnrefunded
         PROVE  ShownOrOwed'
    BY <1>12, JobCountsShown DEF GatewayAccepts, CountFailed, FailUnrefunded
  <1>13. ASSUME JobCommits PROVE ShownOrOwed'
    BY <1>13, CommitShown DEF JobCommits, ShownOrOwed, FreshRight
  <1>14. ASSUME NEW s \in Session,
                \/ ReportCounts(s)
                \/ \E delivered, undelivered \in SUBSET Msg :
                     PollCounts(s, delivered, undelivered)
                \/ RefundedCounts(s)
         PROVE  ShownOrOwed'
    BY <1>14, SessionCountsShown DEF ReportCounts, PollCounts, RefundedCounts
  <1>15. ASSUME NEW s \in Session, NEW m \in Msg, ReportRefunds(s, m)
         PROVE  ShownOrOwed'
    <2>1. s \notin fresh
      BY <1>15 DEF ReportRefunds, Idle, ShownOrOwed, FreshRight, Right
    <2>2. \A t \in Session : t \in fresh => session'[t] = session[t]
      BY <1>15, <2>1 DEF ReportRefunds, TypeOK
    <2> QED
      BY <1>15, <2>2, StatusShown DEF ReportRefunds
  <1>16. ASSUME NEW s \in Session, SessionCommits(s) PROVE ShownOrOwed'
    <2>1. \A t \in Session : t # s => session'[t] = session[t]
      BY <1>16 DEF SessionCommits, TypeOK
    <2> QED
      BY <1>16, <2>1, CommitShown DEF SessionCommits, ShownOrOwed, FreshRight
  <1>17. ASSUME NEW m \in Msg, RetryMessage(m) PROVE ShownOrOwed'
    BY <1>17, StatusShown DEF RetryMessage, tasks
  <1> QED
    BY <1>1, <1>2, <1>3, <1>4, <1>5, <1>6, <1>7, <1>8, <1>10, <1>11, <1>12,
       <1>13, <1>14, <1>15, <1>16, <1>17
    DEF Next

(* Whatever a refreshing task had not committed and whoever wrote the        *)
(* campaign meanwhile, a refresh that counted rows which have stayed as they *)
(* were, and that writes unless nothing is to be written, leaves the campaign *)
(* showing what its messages are (campaign_status.py:25, 54-61).            *)
THEOREM ShownCorrect == Spec => []ShowsItsMessages
  <1>1. Init => ShownOrOwed
    BY DEF Init, ShownOrOwed, ShowsItsMessages, FreshRight
  <1>2. TypeOK /\ ShownOrOwed /\ [Next]_vars => ShownOrOwed'
    BY ShownStep
  <1>3. ShownOrOwed => ShowsItsMessages
    BY DEF ShownOrOwed
  <1> QED
    BY <1>1, <1>2, <1>3, TypeCorrect, PTL DEF Spec

-----------------------------------------------------------------------------
(* CompletedMeansSettled.  A total may be committed long after the count, so *)
(* the strengthening says what a COMPLETED to be written has seen: a         *)
(* message settled before, or one its own commit settles.                   *)

Seen(task) ==
  task.pc = "counted" /\ task.status = "COMPLETED" =>
    \A m \in Msg : m \in settled
                   \/ (m \in DOMAIN task.changes /\ task.changes[m] \in Final)

RowsSettled == \A m \in Msg : row[m] \in Final => m \in settled

SettledOrSettling ==
  /\ CompletedMeansSettled
  /\ RowsSettled
  /\ Seen(job)
  /\ \A s \in Session : Seen(session[s])

(* What a task counts as COMPLETED it has seen settled.                     *)
LEMMA CountSees ==
  ASSUME TypeOK, RowsSettled, NEW changes \in Changes,
         Total(changes) = "COMPLETED"
  PROVE  \A m \in Msg : m \in settled
                        \/ (m \in DOMAIN changes /\ changes[m] \in Final)
  <1> SUFFICES ASSUME NEW m \in Msg
               PROVE  m \in settled
                      \/ (m \in DOMAIN changes /\ changes[m] \in Final)
    OBVIOUS
  <1>1. With(changes)[m] \in (InFlight \cup Final)
    BY WithTyped DEF TypeOK, Rows
  <1>2. With(changes)[m] \notin InFlight
    BY DEF Total, Aggregate
  <1> QED
    BY <1>1, <1>2 DEF With, RowsSettled

(* The campaign is not written COMPLETED, settled messages stay settled, and *)
(* tasks keep their totals or drop them.                                    *)
LEMMA SettledKept ==
  ASSUME TypeOK, SettledOrSettling,
         campaign' = campaign \/ campaign' # "COMPLETED",
         settled \subseteq settled', settled' \subseteq Msg,
         \A m \in Msg : row'[m] = row[m] \/ row'[m] \notin Final
                        \/ m \in settled',
         job' = job \/ job'.pc # "counted",
         \A s \in Session : session'[s] = session[s]
                            \/ session'[s].pc # "counted"
  PROVE  SettledOrSettling'
  <1>1. CompletedMeansSettled'
    BY DEF SettledOrSettling, CompletedMeansSettled
  <1>2. RowsSettled'
    BY DEF SettledOrSettling, RowsSettled, Final
  <1>3. Seen(job)'
    BY DEF SettledOrSettling, Seen, Final
  <1>4. ASSUME NEW s \in Session PROVE Seen(session[s])'
    BY DEF SettledOrSettling, Seen, Final
  <1> QED
    BY <1>1, <1>2, <1>3, <1>4 DEF SettledOrSettling

(* A message that reaches a final status is settled.                        *)
LEMMA StatusSettles ==
  ASSUME TypeOK, NEW m \in Msg, NEW status, SetStatus(m, status)
  PROVE  /\ settled \subseteq settled' /\ settled' \subseteq Msg
         /\ \A n \in Msg : row'[n] = row[n] \/ row'[n] \notin Final
                           \/ n \in settled'
  BY DEF TypeOK, Rows, SetStatus

(* The commit of a refresh settles what it changed, and all if COMPLETED.   *)
LEMMA CommitSettles ==
  ASSUME TypeOK, RowsSettled, CompletedMeansSettled, NEW id, NEW task,
         task.pc = "counted", task.changes \in Changes, Seen(task),
         CommitRefresh(id, task)
  PROVE  /\ settled \subseteq settled' /\ settled' \subseteq Msg
         /\ \A m \in Msg : row'[m] \notin Final \/ m \in settled'
         /\ campaign' = "COMPLETED" => settled' = Msg
  <1>1. /\ settled \subseteq settled' /\ settled' \subseteq Msg
        /\ \A m \in Msg : row'[m] \notin Final \/ m \in settled'
    BY DEF CommitRefresh, TypeOK
  <1>2. ASSUME campaign' = "COMPLETED" PROVE settled' = Msg
    <2>1. CASE task.status = "COMPLETED"
      <3> SUFFICES ASSUME NEW m \in Msg PROVE m \in settled'
        BY <1>1
      <3>1. CASE m \in settled
        BY <3>1, <1>1
      <3>2. CASE m \in DOMAIN task.changes /\ task.changes[m] \in Final
        BY <3>2, <1>1 DEF CommitRefresh, With
      <3> QED
        BY <2>1, <3>1, <3>2 DEF Seen
    <2>2. CASE campaign = "COMPLETED"
      BY <1>1, <2>2 DEF CompletedMeansSettled
    <2> QED
      BY <1>2, <2>1, <2>2 DEF CommitRefresh, Saved
  <1> QED
    BY <1>1, <1>2

(* Every step keeps the strengthening.                                      *)
LEMMA SettledStep ==
  ASSUME TypeOK, SettledOrSettling, [Next]_vars
  PROVE  SettledOrSettling'
  <1>0. settled \subseteq Msg
    BY DEF TypeOK
  <1>1. CASE UNCHANGED vars
    BY <1>0, <1>1, SettledKept DEF vars, tasks, history
  <1>2. ASSUME \/ SchedulerSelects \/ SchedulerStarts \/ RecoverOrphans
               \/ BecomesDue \/ Crash \/ \E m \in Msg : LeavesWindow(m)
        PROVE  SettledOrSettling'
    BY <1>0, <1>2, SettledKept
    DEF SchedulerSelects, SchedulerStarts, SetCampaign, RecoverOrphans,
        BecomesDue, Crash, LeavesWindow, Idle, tasks, history
  <1>3. ASSUME NEW q \in Request,
               \/ BroadcastReads(q) \/ BroadcastStarts(q)
               \/ \E scheduled \in Times : EditReads(q, scheduled)
        PROVE  SettledOrSettling'
    BY <1>0, <1>3, SettledKept
    DEF BroadcastReads, BroadcastStarts, EditReads, SetCampaign, history
  <1>4. ASSUME NEW q \in Request, BroadcastSchedules(q) \/ EditCommits(q)
        PROVE  SettledOrSettling'
    <2>1. request[q].status \in Written
      BY <1>4, RequestHolds DEF BroadcastSchedules, EditCommits
    <2> QED
      BY <1>0, <1>4, <2>1, SettledKept
      DEF BroadcastSchedules, EditCommits, RequestCommits, SetCampaign, Written
  <1>5. ASSUME NEW q \in Request, BroadcastOffline(q)
        PROVE  SettledOrSettling'
    <2>1. request[q].status \in Written /\ request[q].pending \in SUBSET Msg
      BY <1>5, RequestHolds DEF BroadcastOffline
    <2>2. /\ settled \subseteq settled' /\ settled' \subseteq Msg
          /\ \A m \in Msg : row'[m] = row[m] \/ m \in settled'
      BY <1>0, <1>5, <2>1 DEF BroadcastOffline, With, Same
    <2> QED
      BY <1>5, <2>1, <2>2, SettledKept
      DEF BroadcastOffline, Saved, Written
  <1>6. ASSUME NEW b \in Batch,
               BatchReads(b) \/ BatchMarks(b) \/ BatchPuts(b) \/ BatchEnds(b)
        PROVE  SettledOrSettling'
    BY <1>0, <1>6, SettledKept
    DEF BatchReads, BatchMarks, BatchPuts, BatchEnds, SetCampaign, history
  <1>7. ASSUME \/ \E m \in Msg : TakeJob(m)
               \/ Charge \/ BroadcastDone
        PROVE  SettledOrSettling'
    BY <1>0, <1>7, SettledKept DEF TakeJob, Charge, BroadcastDone, Idle, history
  <1>8. ASSUME MarkProcessing \/ Throttle \/ Refuse \/ JobFails
        PROVE  SettledOrSettling'
    <2>1. job.msg \in Msg
      BY <1>8, JobHolds DEF MarkProcessing, Throttle, Refuse, JobFails
    <2>2. \/ job' = Idle
          \/ job' = [job EXCEPT !.pc = "loaded"]
          \/ job' = [job EXCEPT !.pc = "failed"]
      BY <1>8 DEF MarkProcessing, Throttle, Refuse, JobFails
    <2>3. job'.pc # "counted"
      BY <1>8, <2>2 DEF MarkProcessing, Throttle, Refuse, JobFails, Idle,
                        TypeOK, Job
    <2> QED
      BY <1>8, <2>1, <2>3, StatusSettles, SettledKept
      DEF MarkProcessing, Throttle, Refuse, JobFails
  <1>9. ASSUME NEW changes \in Changes, JobCounts(changes)
        PROVE  SettledOrSettling'
    <2>1. Seen(job)'
      BY <1>9, CountSees
      DEF JobCounts, Seen, SettledOrSettling, Writes, Final
    <2> QED
      BY <1>9, <2>1
      DEF JobCounts, SettledOrSettling, CompletedMeansSettled, RowsSettled,
          Seen, Final
  <1>10. ASSUME GatewayAccepts \/ CountFailed \/ FailUnrefunded
         PROVE  SettledOrSettling'
    BY <1>9, <1>10, JobHolds, SameTyped, NoChangeTyped
    DEF GatewayAccepts, CountFailed, FailUnrefunded, Final
  <1>11. ASSUME JobCommits PROVE SettledOrSettling'
    <2>1. job'.pc # "counted"
      BY <1>11 DEF JobCommits, Idle
    <2>2. /\ settled \subseteq settled' /\ settled' \subseteq Msg
          /\ \A m \in Msg : row'[m] \notin Final \/ m \in settled'
          /\ campaign' = "COMPLETED" => settled' = Msg
      BY <1>11, JobHolds, CommitSettles DEF JobCommits, SettledOrSettling
    <2> QED
      BY <1>11, <2>1, <2>2
      DEF JobCommits, SettledOrSettling, CompletedMeansSettled, RowsSettled,
          Seen, Final
  <1>12. ASSUME NEW s \in Session, NEW changes \in Changes,
                SessionCounts(s, changes)
         PROVE  SettledOrSettling'
    <2>1. ASSUME NEW t \in Session PROVE Seen(session[t])'
      BY <1>12, CountSees
      DEF SessionCounts, Seen, SettledOrSettling, Writes, Final, TypeOK
    <2> QED
      BY <1>12, <2>1
      DEF SessionCounts, SettledOrSettling, CompletedMeansSettled, RowsSettled,
          Seen, Final
  <1>13. ASSUME NEW s \in Session, ReportCounts(s) \/ RefundedCounts(s)
         PROVE  SettledOrSettling'
    BY <1>12, <1>13, SameTyped, NoChangeTyped
    DEF ReportCounts, RefundedCounts, Final, TypeOK
  <1>14. ASSUME NEW s \in Session, NEW delivered \in SUBSET Msg,
                NEW undelivered \in SUBSET Msg,
                PollCounts(s, delivered, undelivered)
         PROVE  SettledOrSettling'
    BY <1>12, <1>14, ToldTyped DEF PollCounts
  <1>15. ASSUME NEW s \in Session, NEW m \in Msg, ReportRefunds(s, m)
         PROVE  SettledOrSettling'
    <2>1. \A t \in Session : session'[t] = session[t]
                             \/ session'[t].pc # "counted"
      BY <1>15 DEF ReportRefunds, TypeOK
    <2> QED
      BY <1>15, <2>1, StatusSettles, SettledKept DEF ReportRefunds
  <1>16. ASSUME NEW s \in Session, SessionCommits(s) PROVE SettledOrSettling'
    <2>1. \A t \in Session : session'[t] = session[t]
                             \/ session'[t].pc # "counted"
      BY <1>16 DEF SessionCommits, TypeOK, Idle
    <2>2. /\ settled \subseteq settled' /\ settled' \subseteq Msg
          /\ \A m \in Msg : row'[m] \notin Final \/ m \in settled'
          /\ campaign' = "COMPLETED" => settled' = Msg
      BY <1>16, SessionHolds, CommitSettles
      DEF SessionCommits, SettledOrSettling
    <2> QED
      BY <1>16, <2>1, <2>2
      DEF SessionCommits, SettledOrSettling, CompletedMeansSettled,
          RowsSettled, Seen, Final
  <1>17. ASSUME NEW m \in Msg, RetryMessage(m) PROVE SettledOrSettling'
    BY <1>17, StatusSettles, SettledKept DEF RetryMessage, tasks
  <1> QED
    BY <1>1, <1>2, <1>3, <1>4, <1>5, <1>6, <1>7, <1>8, <1>10, <1>11, <1>13,
       <1>14, <1>15, <1>16, <1>17
    DEF Next

(* A campaign is not shown as COMPLETED before each of its messages was      *)
(* delivered or has failed, for any number of messages and overlapping      *)
(* refreshes (campaign_status.py:54-61).                                    *)
THEOREM CompletedCorrect == Spec => []CompletedMeansSettled
  <1>1. Init => SettledOrSettling
    BY DEF Init, SettledOrSettling, CompletedMeansSettled, RowsSettled, Seen,
           Idle, Final
  <1>2. TypeOK /\ SettledOrSettling /\ [Next]_vars => SettledOrSettling'
    BY SettledStep
  <1>3. SettledOrSettling => CompletedMeansSettled
    BY DEF SettledOrSettling
  <1> QED
    BY <1>1, <1>2, <1>3, TypeCorrect, PTL DEF Spec

=============================================================================
