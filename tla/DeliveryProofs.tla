--------------------------- MODULE DeliveryProofs ---------------------------
(* Proofs about Delivery, for every set of messages, report tasks and retry *)
(* requests, any retry limit and any number of crashes.                     *)
EXTENDS Delivery, TLAPS

-----------------------------------------------------------------------------
(* What the tasks hold.                                                     *)

(* The worker holds a message while it is not idle.                         *)
LEMMA JobHolds ==
  ASSUME TypeOK
  PROVE  /\ job.pc # "idle" => job.msg \in Msg
         /\ job = NoJob <=> job.pc = "idle"
  BY DEF TypeOK, Job, NoJob

(* Each step of the worker keeps the message it holds.                      *)
LEMMA JobMoves ==
  ASSUME TypeOK, job.pc # "idle",
         NEW pc \in {"read", "loaded", "charged", "accepted", "failed", "saved"}
  PROVE  /\ [job EXCEPT !.pc = pc] \in Job
         /\ [job EXCEPT !.pc = pc].pc = pc
         /\ [job EXCEPT !.pc = pc].msg = job.msg
  BY DEF TypeOK, Job, NoJob

(* A report that has read a row holds the row's message and a status.       *)
LEMMA ReportHolds ==
  ASSUME TypeOK, NEW t \in Dlr, dlr[t].pc = "read"
  PROVE  /\ dlr[t].msg \in Msg
         /\ dlr[t].stat \in {"SUBMITTED", "DELIVERED", "NOT_DELIVERED"}
  BY DEF TypeOK, Report, NoTask

(* So does a retry request.                                                 *)
LEMMA RequestHolds ==
  ASSUME TypeOK, NEW q \in Retry, request[q].pc = "read"
  PROVE  request[q].msg \in Msg /\ request[q].tries \in 0 .. MaxRetries
  BY DEF TypeOK, RetryRequest, NoTask

(* Another try is within the limit.                                         *)
LEMMA OneMoreTyped ==
  ASSUME NEW tries \in 0 .. MaxRetries
  PROVE  OneMore(tries) \in 0 .. MaxRetries
  BY DeliveryAssumption DEF OneMore

(* A status written to a row leaves the rows well typed.                    *)
LEMMA SetStatusTyped ==
  ASSUME TypeOK, NEW m \in Msg, NEW status \in MessageStatus,
         SetStatus(m, status)
  PROVE  row' \in [Msg -> Row]
  BY DEF TypeOK, SetStatus, Row

(* A field written with a value of its kind leaves a row a row.             *)
LEMMA FieldTyped ==
  ASSUME NEW r \in Row
  PROVE  /\ \A status \in MessageStatus : [r EXCEPT !.status = status] \in Row
         /\ \A next \in {"never", "ahead", "past"} : [r EXCEPT !.next = next] \in Row
         /\ [r EXCEPT !.status = "SUBMITTED", !.sent = TRUE, !.lately = TRUE] \in Row
  BY ZenonT(60) DEF Row, MessageStatus

(* So does a row written by a retry request.                                *)
LEMMA ResetTyped ==
  ASSUME TypeOK, NEW m \in Msg, NEW tries \in 0 .. MaxRetries,
         NEW next \in {"never", "ahead", "past"}
  PROVE  [row EXCEPT ![m].status = "PENDING", ![m].tries = tries,
                     ![m].next = next] \in [Msg -> Row]
  <1> DEFINE reset == [row[m] EXCEPT !.status = "PENDING", !.tries = tries,
                                     !.next = next]
  <1>1. row[m] \in Row
    BY DEF TypeOK
  <1>2. reset \in Row
    BY <1>1 DEF Row, MessageStatus
  <1>3. [row EXCEPT ![m] = reset] \in [Msg -> Row]
    <2> HIDE DEF reset
    <2> QED
      BY <1>2 DEF TypeOK
  <1> QED
    BY <1>3 DEF TypeOK

(* A message put in the queue leaves it well typed, and adds a place for    *)
(* that message alone.                                                      *)
LEMMA EnqueueTyped ==
  ASSUME TypeOK, NEW n \in Msg, Enqueue(n)
  PROVE  /\ queue' \in Seq(Msg)
         /\ \A m \in Msg : m # n /\ Places(m) = {} => Places(m)' = {}
  BY DEF TypeOK, Enqueue, Places

(* Taking the head leaves it well typed, and adds a place for nobody.       *)
LEMMA DequeueTyped ==
  ASSUME TypeOK, Dequeue
  PROVE  /\ queue' \in Seq(Msg)
         /\ Head(queue) \in Msg
         /\ Places(Head(queue)) # {}
         /\ \A m \in Msg : Places(m) = {} => Places(m)' = {}
  <1>1. queue \in Seq(Msg) /\ queue # <<>> /\ queue' = Tail(queue)
    BY DEF TypeOK, Dequeue
  <1>2. Head(queue) = queue[1] /\ 1 \in 1 .. Len(queue)
    BY <1>1
  <1>3. ASSUME NEW m \in Msg, Places(m) = {} PROVE Places(m)' = {}
    <2>1. \A i \in 1 .. Len(queue) : queue[i] # m
      BY <1>3 DEF Places
    <2>2. \A i \in 1 .. Len(queue') :
            i + 1 \in 1 .. Len(queue) /\ queue'[i] = queue[i + 1]
      BY <1>1
    <2> QED
      BY <2>1, <2>2 DEF Places
  <1> QED
    BY <1>1, <1>2, <1>3 DEF Places

-----------------------------------------------------------------------------
(* Every step keeps the variables in their types.                           *)

(* A new process, with no rows, is well typed.                              *)
LEMMA TypeInit == Init => TypeOK
  BY DeliveryAssumption
  DEF Init, TypeOK, Row, MessageStatus, Job, Report, RetryRequest, NotPicked

(* Accepting messages and time.                                             *)
LEMMA RowTyped ==
  ASSUME TypeOK, NEW m \in Msg,
         \/ SendSms(m) \/ CommitSend(m) \/ ForceDeliver(m)
         \/ GrowsOld(m) \/ LeavesWindow(m) \/ RetryDue(m)
  PROVE  TypeOK'
  <1>1. CASE SendSms(m)
    BY <1>1, EnqueueTyped DEF SendSms, TypeOK, tasks, history
  <1>2. CASE CommitSend(m)
    BY <1>2, SetStatusTyped DEF CommitSend, TypeOK, MessageStatus, tasks, history
  <1>3. CASE ForceDeliver(m)
    BY <1>3, SetStatusTyped
    DEF ForceDeliver, TypeOK, MessageStatus, tasks, history
  <1>4. CASE GrowsOld(m)
    BY <1>4 DEF GrowsOld, TypeOK, Row, tasks, history
  <1>5. CASE RetryDue(m)
    <2>1. row' = [row EXCEPT ![m] = [row[m] EXCEPT !.next = "past"]]
      BY <1>5 DEF RetryDue
    <2>2. [row[m] EXCEPT !.next = "past"] \in Row
      BY FieldTyped DEF TypeOK
    <2> QED
      BY <1>5, <2>1, <2>2 DEF RetryDue, TypeOK, tasks, history
  <1>6. CASE LeavesWindow(m)
    BY <1>6 DEF LeavesWindow, TypeOK, Row, tasks, history
  <1> QED
    BY <1>1, <1>2, <1>3, <1>4, <1>5, <1>6

(* The worker.                                                              *)
LEMMA WorkerTyped ==
  ASSUME TypeOK, Worker
  PROVE  TypeOK'
  <1> USE DEF tasks, history
  <1>1. CASE SkipJob
    BY <1>1, DequeueTyped DEF SkipJob, TypeOK
  <1>2. CASE ReadJob
    BY <1>2, DequeueTyped DEF ReadJob, TypeOK, Job
  <1>3. CASE MarkProcessing
    BY <1>3, JobHolds, JobMoves, SetStatusTyped
    DEF MarkProcessing, TypeOK, MessageStatus
  <1>4. CASE Throttle
    <2>1. job.msg \in Msg
      BY <1>4, JobHolds DEF Throttle
    <2>2. row' \in [Msg -> Row]
      BY ZenonT(60), <1>4, <2>1 DEF Throttle, TypeOK, Row, MessageStatus
    <2> QED
      BY <1>4, <2>2 DEF Throttle, TypeOK, Job
  <1>5. CASE Charge
    BY <1>5, JobMoves DEF Charge, TypeOK
  <1>6. CASE Refuse
    BY <1>6, JobHolds, SetStatusTyped DEF Refuse, TypeOK, Job, MessageStatus
  <1>7. CASE GatewayAccepts
    BY <1>7, JobMoves DEF GatewayAccepts, TypeOK
  <1>8. CASE GatewayFails
    BY <1>8, JobMoves DEF GatewayFails, TypeOK
  <1>9. CASE SaveSubmitted
    <2>1. job.msg \in Msg
      BY <1>9, JobHolds DEF SaveSubmitted
    <2>2. row' \in [Msg -> Row]
      <3>1. row' = [row EXCEPT ![job.msg] =
              [@ EXCEPT !.status = "SUBMITTED", !.sent = TRUE, !.lately = TRUE]]
        BY <1>9 DEF SaveSubmitted
      <3>2. [row[job.msg] EXCEPT !.status = "SUBMITTED", !.sent = TRUE,
                                 !.lately = TRUE] \in Row
        BY <2>1, FieldTyped DEF TypeOK
      <3> QED
        BY <2>1, <3>1, <3>2 DEF TypeOK
    <2> QED
      BY <1>9, <2>2, JobMoves DEF SaveSubmitted, TypeOK
  <1>10. CASE SaveFailed
    BY <1>10, JobHolds, SetStatusTyped
    DEF SaveFailed, TypeOK, Job, MessageStatus
  <1>11. CASE BroadcastDone
    BY <1>11 DEF BroadcastDone, TypeOK, Job
  <1>12. CASE BroadcastBreaks
    BY <1>12, JobHolds, SetStatusTyped
    DEF BroadcastBreaks, TypeOK, Job, MessageStatus
  <1>13. CASE FailureLost
    BY <1>13, JobHolds DEF FailureLost, TypeOK, Job
  <1> QED
    BY <1>1, <1>2, <1>3, <1>4, <1>5, <1>6, <1>7, <1>8, <1>9, <1>10, <1>11,
       <1>12, <1>13
    DEF Worker

(* Delivery reports.                                                        *)
LEMMA ReportTyped ==
  ASSUME TypeOK, NEW t \in Dlr,
         \/ \E m \in Msg, stat \in {"SUBMITTED", "DELIVERED", "NOT_DELIVERED"} :
              /\ ReadReport(t, m, stat)
              /\ row[m].status # "NONE"
         \/ SaveReport(t)
         \/ ReportLost(t)
  PROVE  TypeOK'
  <1>1. ASSUME NEW m \in Msg,
               NEW stat \in {"SUBMITTED", "DELIVERED", "NOT_DELIVERED"},
               ReadReport(t, m, stat), row[m].status # "NONE"
        PROVE  TypeOK'
    <2>1. row[m].status \in MessageStatus
      BY <1>1 DEF TypeOK, Row
    <2>2. dlr' \in [Dlr -> Report]
      BY <1>1, <2>1 DEF ReadReport, TypeOK, Report
    <2> QED
      BY <1>1, <2>2 DEF ReadReport, TypeOK, history
  <1>2. CASE SaveReport(t)
    <2>1. dlr' \in [Dlr -> Report]
      BY <1>2 DEF SaveReport, TypeOK, Report
    <2>2. row' \in [Msg -> Row] /\ called' \subseteq Msg
      BY <1>2, ReportHolds, SetStatusTyped
      DEF SaveReport, TypeOK, MessageStatus
    <2> QED
      BY <1>2, <2>1, <2>2 DEF SaveReport, TypeOK
  <1>3. CASE ReportLost(t)
    BY <1>3 DEF ReportLost, TypeOK, Report, history
  <1> QED
    BY <1>1, <1>2, <1>3

(* The poller, the retry worker and the recovery.                           *)
LEMMA LoopTyped ==
  ASSUME TypeOK,
         \/ PollSelects \/ Poll \/ RetrySelects
         \/ \E m \in Msg : RetryMessage(m)
         \/ \E m \in Msg : RecoverOrphan(m)
  PROVE  TypeOK'
  <1>1. CASE PollSelects
    BY <1>1 DEF PollSelects, TypeOK, history
  <1>2. CASE Poll
    <2>1. PICK delivered, failed \in SUBSET Msg : Resolve(delivered, failed)
      BY <1>2 DEF Poll, PollSaves, TypeOK
    <2>2. row' \in [Msg -> Row]
      BY <2>1, FieldTyped DEF Resolve, TypeOK, MessageStatus
    <2> QED
      BY <2>1, <2>2 DEF Resolve, TypeOK
  <1>3. CASE RetrySelects
    <2>1. \A m \in Msg : row[m].tries \in 0 .. MaxRetries
      BY DEF TypeOK, Row
    <2> QED
      BY <1>3, <2>1 DEF RetrySelects, TypeOK, history
  <1>4. ASSUME NEW m \in Msg, RetryMessage(m) PROVE TypeOK'
    <2>1. picked[m] \in 0 .. MaxRetries
      BY <1>4 DEF RetryMessage, TypeOK
    <2>2. OneMore(picked[m]) \in 0 .. MaxRetries
      BY <2>1, OneMoreTyped
    <2>3. row' \in [Msg -> Row]
      BY ZenonT(60), <1>4, <2>2 DEF RetryMessage, TypeOK, Row
    <2> QED
      BY <1>4, <2>3, EnqueueTyped DEF RetryMessage, TypeOK, history
  <1>5. ASSUME NEW m \in Msg, RecoverOrphan(m) PROVE TypeOK'
    BY <1>5, EnqueueTyped DEF RecoverOrphan, TypeOK, tasks, history
  <1> QED
    BY <1>1, <1>2, <1>3, <1>4, <1>5

(* Retry requests and the end of the process.                               *)
LEMMA RequestTyped ==
  ASSUME TypeOK,
         \/ \E q \in Retry, m \in Msg, kind \in {"sms", "campaign", "message"} :
              RetryReads(q, m, kind)
         \/ \E q \in Retry : RetryCommits(q)
         \/ Crash
  PROVE  TypeOK'
  <1>1. ASSUME NEW q \in Retry, NEW m \in Msg,
               NEW kind \in {"sms", "campaign", "message"},
               RetryReads(q, m, kind)
        PROVE  TypeOK'
    <2>1. row[m].tries \in 0 .. MaxRetries
      BY DEF TypeOK, Row
    <2>2. request' \in [Retry -> RetryRequest]
      BY <1>1, <2>1 DEF RetryReads, TypeOK, RetryRequest
    <2> QED
      BY <1>1, <2>2 DEF RetryReads, TypeOK, history
  <1>2. ASSUME NEW q \in Retry, RetryCommits(q) PROVE TypeOK'
    <2> DEFINE m == request[q].msg
               tries == IF request[q].kind = "message"
                        THEN OneMore(request[q].tries) ELSE 0
    <2>1. m \in Msg /\ request[q].tries \in 0 .. MaxRetries
      BY <1>2, RequestHolds DEF RetryCommits
    <2>2. tries \in 0 .. MaxRetries
      BY <2>1, OneMoreTyped, DeliveryAssumption
    <2>3. PICK newTries \in 0 .. MaxRetries,
               next \in {"never", "ahead", "past"} :
            row' = [row EXCEPT ![m].status = "PENDING",
                               ![m].tries = newTries,
                               ![m].next = next]
      <3>1. row[m].tries \in 0 .. MaxRetries
            /\ row[m].next \in {"never", "ahead", "past"}
        BY <2>1 DEF TypeOK, Row
      <3>2. row' = [row EXCEPT
              ![m].status = "PENDING",
              ![m].tries = IF tries = request[q].tries THEN @ ELSE tries,
              ![m].next = IF request[q].kind = "sms" THEN "never" ELSE @]
        BY <1>2 DEF RetryCommits
      <3> HIDE DEF m, tries
      <3>3. row' = [row EXCEPT
              ![m].status = "PENDING",
              ![m].tries = IF tries = request[q].tries THEN row[m].tries
                                                       ELSE tries,
              ![m].next = IF request[q].kind = "sms" THEN "never"
                                                     ELSE row[m].next]
        BY <3>2, <2>1 DEF TypeOK, Row
      <3> QED
        BY <2>2, <3>1, <3>3
    <2>4. row' \in [Msg -> Row]
      <3> HIDE DEF m
      <3> QED
        BY <2>1, <2>3, ResetTyped
    <2>5. queue' \in Seq(Msg)
      BY <1>2, <2>1, EnqueueTyped DEF RetryCommits
    <2>6. request' \in [Retry -> RetryRequest]
      BY <1>2 DEF RetryCommits, TypeOK, RetryRequest
    <2>7. lapsed' \subseteq Msg
      BY <1>2, <2>1 DEF RetryCommits, TypeOK
    <2> QED
      BY <1>2, <2>4, <2>5, <2>6, <2>7 DEF RetryCommits, TypeOK
  <1>3. CASE Crash
    <2>1. lapsed' \subseteq Msg
      BY <1>3, JobHolds DEF Crash, TypeOK
    <2> QED
      BY <1>3, <2>1, DeliveryAssumption
      DEF Crash, TypeOK, Job, Report, RetryRequest, NotPicked
  <1> QED
    BY <1>1, <1>2, <1>3

-----------------------------------------------------------------------------
(* Rows that are held are there.                                            *)

(* A row a task has read, or that was sent, is committed; one being         *)
(* accepted is not.                                                         *)
RowsThere ==
  /\ \A m \in Msg : row[m].sent => row[m].status # "NONE"
  /\ job.pc # "idle" => row[job.msg].status # "NONE"
  /\ \A t \in Dlr : dlr[t].pc = "read" => row[dlr[t].msg].status # "NONE"
  /\ \A m \in polled : row[m].status # "NONE"
  /\ \A q \in Retry :
       request[q].pc = "read" => row[request[q].msg].status # "NONE"
  /\ \A m \in accepting : row[m].status = "NONE"

Typed == TypeOK /\ RowsThere

(* Every step from a state with its rows there is well typed.               *)
LEMMA TypeStep == Typed /\ [Next]_vars => TypeOK'
  <1> SUFFICES ASSUME Typed, [Next]_vars PROVE TypeOK'
    OBVIOUS
  <1> USE DEF Typed
  <1>1. ASSUME NEW m \in Msg,
               \/ SendSms(m) \/ CommitSend(m) \/ ForceDeliver(m)
               \/ GrowsOld(m) \/ LeavesWindow(m) \/ RetryDue(m)
        PROVE  TypeOK'
    BY <1>1, RowTyped
  <1>2. CASE Worker
    BY <1>2, WorkerTyped
  <1>3. ASSUME NEW t \in Dlr, NEW m \in Msg,
               NEW stat \in {"SUBMITTED", "DELIVERED", "NOT_DELIVERED"},
               ReadReport(t, m, stat)
        PROVE  TypeOK'
    <2>1. row[m].status # "NONE"
      BY <1>3 DEF ReadReport, RowsThere
    <2> QED
      BY <1>3, <2>1, ReportTyped
  <1>4. ASSUME NEW t \in Dlr, SaveReport(t) \/ ReportLost(t) PROVE TypeOK'
    BY <1>4, ReportTyped
  <1>5. ASSUME \/ PollSelects \/ Poll \/ RetrySelects
               \/ \E m \in Msg : RetryMessage(m)
               \/ \E m \in Msg : RecoverOrphan(m)
        PROVE  TypeOK'
    BY <1>5, LoopTyped
  <1>6. ASSUME \/ \E q \in Retry, m \in Msg,
                    kind \in {"sms", "campaign", "message"} :
                    RetryReads(q, m, kind)
               \/ \E q \in Retry : RetryCommits(q)
               \/ Crash
        PROVE  TypeOK'
    BY <1>6, RequestTyped
  <1>7. CASE UNCHANGED vars
    BY <1>7 DEF vars, tasks, history, TypeOK
  <1> QED
    BY <1>1, <1>2, <1>3, <1>4, <1>5, <1>6, <1>7 DEF Next

-----------------------------------------------------------------------------
(* What each step writes.                                                   *)

(* The step gives row m the status s and leaves the other statuses alone.   *)
WritesStatus(m, s) ==
  \A n \in Msg : row'[n].status = IF n = m THEN s ELSE row[n].status

KeepsStatuses == \A n \in Msg : row'[n].status = row[n].status

KeepsSent == \A n \in Msg : row'[n].sent = row[n].sent

(* SetStatus writes a status and nothing else.                              *)
LEMMA SetStatusWrites ==
  ASSUME TypeOK, NEW m \in Msg, NEW s, SetStatus(m, s)
  PROVE  WritesStatus(m, s) /\ KeepsSent
  BY DEF TypeOK, Row, SetStatus, WritesStatus, KeepsSent

(* Throttling writes PENDING.                                               *)
LEMMA ThrottleWrites ==
  ASSUME TypeOK, Throttle
  PROVE  WritesStatus(job.msg, "PENDING") /\ KeepsSent
  BY JobHolds DEF TypeOK, Row, Throttle, WritesStatus, KeepsSent

(* A successful attempt writes SUBMITTED, and sent.                         *)
LEMMA SaveSubmittedWrites ==
  ASSUME TypeOK, SaveSubmitted
  PROVE  /\ WritesStatus(job.msg, "SUBMITTED")
         /\ \A n \in Msg : row'[n].sent = (n = job.msg \/ row[n].sent)
  <1>1. job.msg \in Msg
    BY JobHolds DEF SaveSubmitted
  <1>2. \A n \in Msg : row'[n] =
          IF n = job.msg
          THEN [row[n] EXCEPT !.status = "SUBMITTED", !.sent = TRUE,
                              !.lately = TRUE]
          ELSE row[n]
    BY <1>1 DEF TypeOK, SaveSubmitted
  <1>3. \A n \in Msg : row[n].sent \in BOOLEAN
    BY DEF TypeOK, Row
  <1> QED
    BY <1>1, <1>2, <1>3 DEF TypeOK, Row, WritesStatus

(* A report writes the status it carries, unless the row it read had it.    *)
LEMMA SaveReportWrites ==
  ASSUME TypeOK, NEW t \in Dlr, SaveReport(t)
  PROVE  /\ \/ KeepsStatuses /\ called' = called
            \/ /\ WritesStatus(dlr[t].msg, dlr[t].stat)
               /\ called' = IF dlr[t].stat = "NOT_DELIVERED"
                            THEN called \cup {dlr[t].msg} ELSE called
         /\ KeepsSent
  <1>1. CASE row' = row /\ called' = called
    BY <1>1 DEF KeepsStatuses, KeepsSent
  <1>2. CASE /\ SetStatus(dlr[t].msg, dlr[t].stat)
             /\ called' = IF dlr[t].stat = "NOT_DELIVERED"
                          THEN called \cup {dlr[t].msg} ELSE called
    BY <1>2, ReportHolds, SetStatusWrites DEF SaveReport
  <1> QED
    BY <1>1, <1>2 DEF SaveReport

(* The poller writes DELIVERED, or NOT_DELIVERED with cause to send again.  *)
LEMMA PollWrites ==
  ASSUME TypeOK, Poll
  PROVE  /\ \A n \in Msg :
              \/ row'[n].status = row[n].status
              \/ n \in polled /\ row'[n].status = "DELIVERED"
              \/ n \in polled /\ row'[n].status = "NOT_DELIVERED" /\ n \in called'
         /\ KeepsSent
         /\ called \subseteq called'
         /\ polled' = {}
         /\ UNCHANGED <<accepting, queue, job, dlr, picked, request, lapsed,
                        unsettled, crashes>>
  <1>1. PICK delivered, failed \in SUBSET polled : Resolve(delivered, failed)
    BY DEF Poll, PollSaves, TypeOK
  <1>2. \A n \in Msg : row'[n] =
          IF n \in delivered THEN [row[n] EXCEPT !.status = "DELIVERED"]
          ELSE IF n \in failed THEN [row[n] EXCEPT !.status = "NOT_DELIVERED"]
          ELSE row[n]
    BY <1>1 DEF Resolve
  <1>3. \A n \in Msg : row[n] \in Row
    BY DEF TypeOK
  <1>4. KeepsSent
    BY <1>2, <1>3 DEF Row, KeepsSent
  <1>5. \A n \in Msg : row'[n].status =
          IF n \in delivered THEN "DELIVERED"
          ELSE IF n \in failed THEN "NOT_DELIVERED"
          ELSE row[n].status
    BY <1>2, <1>3 DEF Row
  <1>6. called' = called \cup failed
    BY <1>1 DEF Resolve
  <1>7. \A n \in Msg :
          \/ row'[n].status = row[n].status
          \/ n \in polled /\ row'[n].status = "DELIVERED"
          \/ n \in polled /\ row'[n].status = "NOT_DELIVERED" /\ n \in called'
    BY <1>5, <1>6
  <1>8. /\ polled' = {}
        /\ UNCHANGED <<accepting, queue, job, dlr, picked, request, lapsed,
                       unsettled, crashes>>
    BY <1>1 DEF Resolve
  <1> QED
    BY <1>4, <1>6, <1>7, <1>8

(* The retry worker writes no status.                                       *)
LEMMA RetryMessageWrites ==
  ASSUME TypeOK, NEW m \in Msg, RetryMessage(m)
  PROVE  KeepsStatuses /\ KeepsSent
  BY DEF TypeOK, Row, RetryMessage, KeepsStatuses, KeepsSent

(* Neither does the passing of time.                                        *)
LEMMA TimeWrites ==
  ASSUME TypeOK, NEW m \in Msg,
         GrowsOld(m) \/ LeavesWindow(m) \/ RetryDue(m)
  PROVE  KeepsStatuses /\ KeepsSent
  <1>1. CASE GrowsOld(m)
    BY <1>1 DEF TypeOK, Row, GrowsOld, KeepsStatuses, KeepsSent
  <1>2. CASE RetryDue(m)
    BY <1>2 DEF TypeOK, Row, RetryDue, KeepsStatuses, KeepsSent
  <1>3. CASE LeavesWindow(m)
    BY <1>3 DEF TypeOK, Row, LeavesWindow, KeepsStatuses, KeepsSent
  <1> QED
    BY <1>1, <1>2, <1>3

(* A retry request writes PENDING.                                          *)
LEMMA RetryCommitsWrites ==
  ASSUME TypeOK, NEW q \in Retry, RetryCommits(q)
  PROVE  WritesStatus(request[q].msg, "PENDING") /\ KeepsSent
  <1> DEFINE m == request[q].msg
             tries == IF request[q].kind = "message"
                      THEN OneMore(request[q].tries) ELSE 0
  <1>1. m \in Msg
    BY RequestHolds DEF RetryCommits
  <1>2. row' = [row EXCEPT
          ![m].status = "PENDING",
          ![m].tries = IF tries = request[q].tries THEN @ ELSE tries,
          ![m].next = IF request[q].kind = "sms" THEN "never" ELSE @]
    BY DEF RetryCommits
  <1> HIDE DEF m, tries
  <1>3. WritesStatus(m, "PENDING") /\ KeepsSent
    BY <1>1, <1>2 DEF TypeOK, Row, WritesStatus, KeepsSent
  <1> QED
    BY <1>3 DEF m

-----------------------------------------------------------------------------
(* Rows stay there.                                                         *)

LEMMA RowsThereInit == Init => RowsThere
  BY DEF Init, RowsThere, NoJob, NoTask

(* A step that leaves the tasks alone or ends them, creates no row and      *)
(* takes none away, keeps the rows there.                                   *)
LEMMA RowsThereKept ==
  ASSUME Typed,
         \A m \in Msg : row[m].status = "NONE" <=> row'[m].status = "NONE",
         \A m \in Msg :
           row'[m].sent => row[m].sent \/ row[m].status # "NONE",
         job'.pc # "idle" =>
           job'.msg \in Msg /\ row[job'.msg].status # "NONE",
         UNCHANGED <<accepting, request>>, polled' \subseteq polled,
         \A t \in Dlr : dlr'[t].pc = "read" => dlr'[t] = dlr[t]
  PROVE  RowsThere'
  <1>1. \A t \in Dlr : dlr'[t].pc = "read" => dlr'[t].msg \in Msg
    BY ReportHolds DEF Typed
  <1>2. \A q \in Retry : request[q].pc = "read" => request[q].msg \in Msg
    BY RequestHolds DEF Typed
  <1> QED
    BY <1>1, <1>2 DEF RowsThere, Typed, TypeOK

(* The worker creates no row and takes only rows that are there.            *)
LEMMA RowsThereWorker ==
  ASSUME Typed, Worker
  PROVE  RowsThere'
  <1> USE DEF tasks, history
  <1>1. TypeOK /\ RowsThere
    BY DEF Typed
  <1>2. job.pc # "idle" => job.msg \in Msg /\ row[job.msg].status # "NONE"
    BY <1>1, JobHolds DEF RowsThere
  <1>3. CASE SkipJob
    BY <1>1, <1>2, <1>3, RowsThereKept DEF SkipJob
  <1>4. CASE ReadJob
    BY <1>1, <1>4, DequeueTyped, RowsThereKept DEF ReadJob, Skipped
  <1>5. CASE MarkProcessing
    BY <1>1, <1>2, <1>5, JobMoves, SetStatusWrites, RowsThereKept
    DEF MarkProcessing, WritesStatus, KeepsSent
  <1>6. CASE Throttle
    <2>1. job.pc # "idle" /\ job'.pc = "idle"
          /\ UNCHANGED <<accepting, request, polled, dlr>>
      BY <1>6 DEF Throttle, NoJob
    <2>2. WritesStatus(job.msg, "PENDING") /\ KeepsSent
      BY <1>1, <1>6, ThrottleWrites
    <2> QED
      BY <1>1, <1>2, <2>1, <2>2, RowsThereKept DEF WritesStatus, KeepsSent
  <1>7. CASE Charge \/ GatewayAccepts \/ GatewayFails
    <2>1. job.pc # "idle" /\ UNCHANGED <<row, accepting, request, polled, dlr>>
      BY <1>7 DEF Charge, GatewayAccepts, GatewayFails
    <2>2. \E pc \in {"charged", "accepted", "failed"} :
            job' = [job EXCEPT !.pc = pc]
      BY <1>7 DEF Charge, GatewayAccepts, GatewayFails
    <2>3. job'.msg = job.msg
      BY <1>1, <2>1, <2>2, JobMoves
    <2> QED
      BY <1>1, <1>2, <2>1, <2>3, RowsThereKept
  <1>8. CASE Refuse \/ SaveFailed \/ BroadcastBreaks
    <2>1. job.pc # "idle" /\ SetStatus(job.msg, "FAILED") /\ job' = NoJob
          /\ UNCHANGED <<accepting, request, polled, dlr>>
      BY <1>8 DEF Refuse, SaveFailed, BroadcastBreaks
    <2> QED
      BY <1>1, <1>2, <2>1, SetStatusWrites, RowsThereKept
      DEF WritesStatus, KeepsSent, NoJob
  <1>9. CASE SaveSubmitted
    <2>1. job.pc # "idle" /\ UNCHANGED <<accepting, request, polled, dlr>>
      BY <1>9 DEF SaveSubmitted
    <2>2. job'.msg = job.msg
      BY <1>1, <1>9, JobMoves DEF SaveSubmitted
    <2>3. /\ WritesStatus(job.msg, "SUBMITTED")
          /\ \A n \in Msg : row'[n].sent = (n = job.msg \/ row[n].sent)
      BY <1>1, <1>9, SaveSubmittedWrites
    <2> QED
      BY <1>1, <1>2, <2>1, <2>2, <2>3, RowsThereKept DEF WritesStatus
  <1>10. CASE BroadcastDone \/ FailureLost
    BY <1>1, <1>10, RowsThereKept DEF BroadcastDone, FailureLost, NoJob
  <1> QED
    BY <1>3, <1>4, <1>5, <1>6, <1>7, <1>8, <1>9, <1>10 DEF Worker

(* Every step keeps the rows there.                                         *)
LEMMA RowsThereStep == Typed /\ [Next]_vars => RowsThere'
  <1> SUFFICES ASSUME Typed, [Next]_vars PROVE RowsThere'
    OBVIOUS
  <1> USE DEF tasks, history
  <1>1. TypeOK /\ RowsThere
    BY DEF Typed
  <1>2. job.pc # "idle" => job.msg \in Msg /\ row[job.msg].status # "NONE"
    BY <1>1, JobHolds DEF RowsThere
  <1>3. ASSUME NEW m \in Msg, SendSms(m) PROVE RowsThere'
    BY <1>1, <1>3 DEF SendSms, RowsThere
  <1>4. ASSUME NEW m \in Msg, CommitSend(m) PROVE RowsThere'
    <2>1. WritesStatus(m, "PENDING") /\ KeepsSent
      BY <1>1, <1>4, SetStatusWrites DEF CommitSend
    <2>2. \A t \in Dlr : dlr[t].pc = "read" => dlr[t].msg \in Msg
      BY <1>1, ReportHolds
    <2>3. \A q \in Retry : request[q].pc = "read" => request[q].msg \in Msg
      BY <1>1, RequestHolds
    <2> QED
      BY <1>1, <1>2, <1>4, <2>1, <2>2, <2>3
      DEF CommitSend, RowsThere, WritesStatus, KeepsSent, TypeOK
  <1>5. CASE Worker
    BY <1>5, RowsThereWorker
  <1>6. ASSUME NEW t \in Dlr, NEW m \in Msg,
               NEW stat \in {"SUBMITTED", "DELIVERED", "NOT_DELIVERED"},
               ReadReport(t, m, stat)
        PROVE  RowsThere'
    BY <1>1, <1>6 DEF ReadReport, RowsThere, TypeOK
  <1>7. ASSUME NEW t \in Dlr, SaveReport(t) PROVE RowsThere'
    <2>1. /\ dlr[t].msg \in Msg /\ row[dlr[t].msg].status # "NONE"
          /\ dlr[t].stat # "NONE"
      BY <1>1, <1>7, ReportHolds DEF SaveReport, RowsThere
    <2>2. \A u \in Dlr : dlr'[u].pc = "read" => dlr'[u] = dlr[u]
      BY <1>1, <1>7 DEF SaveReport, TypeOK, NoTask
    <2>3. /\ \A m \in Msg : row[m].status = "NONE" <=> row'[m].status = "NONE"
          /\ KeepsSent
      BY <1>1, <1>7, <2>1, SaveReportWrites DEF WritesStatus, KeepsStatuses
    <2> QED
      BY <1>2, <1>7, <2>2, <2>3, RowsThereKept DEF SaveReport, KeepsSent
  <1>8. CASE PollSelects
    BY <1>1, <1>8 DEF PollSelects, RowsThere
  <1>9. CASE Poll
    <2>1. \A m \in Msg : row[m].status = "NONE" <=> row'[m].status = "NONE"
      BY <1>1, <1>9, PollWrites DEF RowsThere
    <2> QED
      BY <1>1, <1>2, <1>9, <2>1, PollWrites, RowsThereKept DEF KeepsSent
  <1>10. CASE RetrySelects
    BY <1>1, <1>10 DEF RetrySelects, RowsThere
  <1>11. ASSUME NEW m \in Msg, RetryMessage(m) PROVE RowsThere'
    BY <1>1, <1>2, <1>11, RetryMessageWrites, RowsThereKept
    DEF RetryMessage, KeepsStatuses, KeepsSent
  <1>12. ASSUME NEW m \in Msg, RecoverOrphan(m) PROVE RowsThere'
    BY <1>1, <1>12 DEF RecoverOrphan, RowsThere
  <1>13. ASSUME NEW q \in Retry, NEW m \in Msg,
                NEW kind \in {"sms", "campaign", "message"},
                RetryReads(q, m, kind)
         PROVE  RowsThere'
    <2>1. row[m].status # "NONE"
      BY <1>13 DEF RetryReads, Undelivered
    <2> QED
      BY <1>1, <1>13, <2>1 DEF RetryReads, RowsThere, TypeOK
  <1>14. ASSUME NEW q \in Retry, RetryCommits(q) PROVE RowsThere'
    <2>1. request[q].msg \in Msg /\ row[request[q].msg].status # "NONE"
      BY <1>1, <1>14, RequestHolds DEF RetryCommits, RowsThere
    <2>2. WritesStatus(request[q].msg, "PENDING") /\ KeepsSent
      BY <1>1, <1>14, RetryCommitsWrites
    <2>3. \A p \in Retry : request'[p].pc = "read" => request'[p] = request[p]
      BY <1>1, <1>14 DEF RetryCommits, TypeOK, NoTask
    <2>4. \A m \in Msg : row[m].status = "NONE" <=> row'[m].status = "NONE"
      BY <2>1, <2>2 DEF WritesStatus
    <2>5. UNCHANGED <<accepting, job, dlr, polled>>
      BY <1>14 DEF RetryCommits
    <2>6. \A t \in Dlr : dlr[t].pc = "read" => dlr[t].msg \in Msg
      BY <1>1, ReportHolds
    <2>7. \A p \in Retry : request[p].pc = "read" => request[p].msg \in Msg
      BY <1>1, RequestHolds
    <2> QED
      BY SMTT(40), <1>1, <1>2, <2>2, <2>3, <2>4, <2>5, <2>6, <2>7
      DEF RowsThere, KeepsSent, TypeOK
  <1>15. ASSUME NEW m \in Msg, ForceDeliver(m) PROVE RowsThere'
    BY <1>1, <1>2, <1>15, SetStatusWrites, RowsThereKept
    DEF ForceDeliver, WritesStatus, KeepsSent
  <1>16. ASSUME NEW m \in Msg,
                GrowsOld(m) \/ LeavesWindow(m) \/ RetryDue(m)
         PROVE  RowsThere'
    <2>1. UNCHANGED <<accepting, queue, job, tasks, history>>
      BY <1>16 DEF GrowsOld, LeavesWindow, RetryDue
    <2> QED
      BY <1>1, <1>2, <1>16, <2>1, TimeWrites, RowsThereKept
      DEF KeepsStatuses, KeepsSent
  <1>17. CASE Crash
    BY <1>1, <1>17 DEF Crash, RowsThere, NoJob, NoTask
  <1>18. CASE UNCHANGED vars
    BY <1>1, <1>18 DEF vars, RowsThere
  <1>19. ASSUME NEW t \in Dlr, ReportLost(t) PROVE RowsThere'
    <2>1. \A u \in Dlr : dlr'[u].pc = "read" => dlr'[u] = dlr[u]
      BY <1>1, <1>19 DEF ReportLost, TypeOK, NoTask
    <2> QED
      BY <1>2, <1>19, <2>1, RowsThereKept DEF ReportLost
  <1> QED
    BY <1>3, <1>4, <1>5, <1>6, <1>7, <1>8, <1>9, <1>10, <1>11, <1>12, <1>13,
       <1>14, <1>15, <1>16, <1>17, <1>18, <1>19
    DEF Next

(* Every reachable state is well typed, and its rows are there.             *)
LEMMA TypedCorrect == Spec => []Typed
  <1>1. Init => Typed
    BY TypeInit, RowsThereInit DEF Typed
  <1>2. Typed /\ [Next]_vars => Typed'
    BY TypeStep, RowsThereStep DEF Typed
  <1> QED
    BY <1>1, <1>2, PTL DEF Spec

(* Every reachable state of the message rows, the queue and the tasks is    *)
(* well typed (sms_worker.py, retry_worker.py, resolve_worker.py).          *)
THEOREM TypeCorrect == Spec => []TypeOK
  <1>1. Typed => TypeOK
    BY DEF Typed
  <1> QED
    BY <1>1, TypedCorrect, PTL

-----------------------------------------------------------------------------
(* A row rests in PROCESSING only after a crash or a lost failure.          *)

(* Not inductive: a message stranded by a crash could be queued again by    *)
(* the retry worker if it had been selected, and the worker could let go of *)
(* a row it has saved while the row is PROCESSING.  Neither happens.        *)
StrandedAlone ==
  /\ \A m \in Msg :
       Stranded(m) =>
         \/ crashes > 0 /\ Places(m) = {} /\ picked[m] = NotPicked
         \/ m \in unsettled
  /\ job.pc = "saved" => row[job.msg].status # "PROCESSING"

LEMMA StrandedInit == Init => StrandedAlone
  BY DEF Init, StrandedAlone, Stranded, NoJob

(* A step strands no message if no row becomes PROCESSING, none that the    *)
(* worker lets go of is, and none that is stranded is queued or selected.   *)
LEMMA StrandedKept ==
  ASSUME Typed, StrandedAlone, crashes' = crashes, unsettled' = unsettled,
         \A m \in Msg : row'[m].status = "PROCESSING" =>
           /\ row[m].status = "PROCESSING"
           /\ job # NoJob /\ job.msg = m => job' # NoJob /\ job'.msg = m
           /\ Places(m) = {} => Places(m)' = {}
           /\ picked[m] = NotPicked => picked'[m] = NotPicked,
         job'.pc = "saved" => row'[job'.msg].status # "PROCESSING"
  PROVE  StrandedAlone'
  BY DEF StrandedAlone, Stranded

(* The worker.                                                              *)
LEMMA StrandedWorker ==
  ASSUME Typed, StrandedAlone, Worker
  PROVE  StrandedAlone'
  <1> USE DEF tasks, history
  <1>1. TypeOK
    BY DEF Typed
  <1>2. job.pc # "idle" => job.msg \in Msg /\ job # NoJob
    BY <1>1, JobHolds
  <1>3. queue' = queue => \A m \in Msg : Places(m)' = Places(m)
    BY DEF Places
  <1>4. CASE SkipJob
    BY <1>1, <1>4, DequeueTyped, StrandedKept
    DEF SkipJob, Dequeue, NoJob
  <1>5. CASE ReadJob
    BY <1>1, <1>5, DequeueTyped, StrandedKept DEF ReadJob, Dequeue
  <1>6. CASE MarkProcessing
    <2>1. /\ job.pc # "idle"
          /\ UNCHANGED <<queue, picked, crashes>>
          /\ unsettled' = unsettled \ {job.msg}
      BY <1>6 DEF MarkProcessing
    <2>2. job'.pc = "loaded" /\ job'.msg = job.msg /\ job' # NoJob
      BY <1>1, <1>6, <2>1, JobMoves DEF MarkProcessing, NoJob
    <2>3. WritesStatus(job.msg, "PROCESSING")
      BY <1>1, <1>2, <1>6, <2>1, SetStatusWrites DEF MarkProcessing
    <2> QED
      BY <1>2, <1>3, <2>1, <2>2, <2>3
      DEF StrandedAlone, Stranded, WritesStatus
  <1>7. CASE Throttle
    <2>1. /\ job.pc # "idle" /\ job' = NoJob
          /\ UNCHANGED <<queue, picked, unsettled, crashes>>
      BY <1>7 DEF Throttle
    <2>2. WritesStatus(job.msg, "PENDING")
      BY <1>1, <1>7, ThrottleWrites
    <2> QED
      BY <1>2, <1>3, <2>1, <2>2, StrandedKept DEF WritesStatus, NoJob
  <1>8. CASE Charge \/ GatewayAccepts \/ GatewayFails
    <2>1. job.pc # "idle" /\ UNCHANGED <<row, queue, picked, unsettled, crashes>>
      BY <1>8 DEF Charge, GatewayAccepts, GatewayFails
    <2>2. \E pc \in {"charged", "accepted", "failed"} :
            job' = [job EXCEPT !.pc = pc]
      BY <1>8 DEF Charge, GatewayAccepts, GatewayFails
    <2>3. job'.pc \in {"charged", "accepted", "failed"} /\ job'.msg = job.msg
      BY <1>1, <2>1, <2>2, JobMoves
    <2> QED
      BY <1>2, <1>3, <2>1, <2>3, StrandedKept DEF NoJob
  <1>9. CASE Refuse \/ SaveFailed \/ BroadcastBreaks
    <2>1. job.pc # "idle" /\ SetStatus(job.msg, "FAILED") /\ job' = NoJob
          /\ UNCHANGED <<queue, picked, unsettled, crashes>>
      BY <1>9 DEF Refuse, SaveFailed, BroadcastBreaks
    <2>2. WritesStatus(job.msg, "FAILED")
      BY <1>1, <1>2, <2>1, SetStatusWrites
    <2> QED
      BY <1>2, <1>3, <2>1, <2>2, StrandedKept DEF WritesStatus, NoJob
  <1>10. CASE SaveSubmitted
    <2>1. job.pc # "idle" /\ UNCHANGED <<queue, picked, unsettled, crashes>>
      BY <1>10 DEF SaveSubmitted
    <2>2. job'.pc = "saved" /\ job'.msg = job.msg
      BY <1>1, <1>10, <2>1, JobMoves DEF SaveSubmitted
    <2>3. WritesStatus(job.msg, "SUBMITTED")
      BY <1>1, <1>10, SaveSubmittedWrites
    <2> QED
      BY <1>2, <1>3, <2>1, <2>2, <2>3, StrandedKept DEF WritesStatus, NoJob
  <1>11. CASE BroadcastDone
    <2>1. row[job.msg].status # "PROCESSING"
      BY <1>11 DEF BroadcastDone, StrandedAlone
    <2> QED
      BY <1>3, <1>11, <2>1, StrandedKept DEF BroadcastDone, NoJob
  <1>12. CASE FailureLost
    <2>1. /\ unsettled' = unsettled \cup {job.msg} /\ job' = NoJob
          /\ UNCHANGED <<row, queue, picked, crashes>>
      BY <1>12 DEF FailureLost
    <2> QED
      BY <1>3, <2>1 DEF StrandedAlone, Stranded, NoJob
  <1> QED
    BY <1>4, <1>5, <1>6, <1>7, <1>8, <1>9, <1>10, <1>11, <1>12 DEF Worker

(* Every step.                                                              *)
LEMMA StrandedStep ==
  Typed /\ StrandedAlone /\ [Next]_vars => StrandedAlone'
  <1> SUFFICES ASSUME Typed, StrandedAlone, [Next]_vars PROVE StrandedAlone'
    OBVIOUS
  <1> USE DEF tasks, history
  <1>1. TypeOK
    BY DEF Typed
  <1>2. queue' = queue => \A m \in Msg : Places(m)' = Places(m)
    BY DEF Places
  <1>3. job.pc = "saved" =>
          job.msg \in Msg /\ row[job.msg].status # "PROCESSING"
    BY <1>1, JobHolds DEF StrandedAlone
  <1>4. ASSUME NEW m \in Msg, SendSms(m) PROVE StrandedAlone'
    BY <1>1, <1>3, <1>4, EnqueueTyped, StrandedKept DEF SendSms
  <1>5. ASSUME NEW m \in Msg, CommitSend(m) PROVE StrandedAlone'
    BY <1>1, <1>2, <1>3, <1>5, SetStatusWrites, StrandedKept
    DEF CommitSend, WritesStatus
  <1>6. CASE Worker
    BY <1>6, StrandedWorker
  <1>7. ASSUME NEW t \in Dlr, NEW m \in Msg,
               NEW stat \in {"SUBMITTED", "DELIVERED", "NOT_DELIVERED"},
               ReadReport(t, m, stat)
        PROVE  StrandedAlone'
    BY <1>2, <1>3, <1>7, StrandedKept DEF ReadReport
  <1>8. ASSUME NEW t \in Dlr, SaveReport(t) PROVE StrandedAlone'
    <2>1. dlr[t].stat # "PROCESSING"
      BY <1>1, <1>8, ReportHolds DEF SaveReport
    <2>2. \A m \in Msg :
            row'[m].status = "PROCESSING" => row[m].status = "PROCESSING"
      BY <1>1, <1>8, <2>1, SaveReportWrites DEF WritesStatus, KeepsStatuses
    <2> QED
      BY <1>2, <1>3, <1>8, <2>2, StrandedKept DEF SaveReport
  <1>9. CASE PollSelects
    BY <1>2, <1>3, <1>9, StrandedKept DEF PollSelects
  <1>10. CASE Poll
    BY <1>1, <1>2, <1>3, <1>10, PollWrites, StrandedKept
  <1>11. CASE RetrySelects
    <2>1. \A m \in Msg : row[m].status = "PROCESSING" => ~RetryEligible(m)
      BY DEF RetryEligible, Undelivered
    <2> QED
      BY <1>2, <1>3, <1>11, <2>1, StrandedKept DEF RetrySelects
  <1>12. ASSUME NEW m \in Msg, RetryMessage(m) PROVE StrandedAlone'
    <2>1. KeepsStatuses
      BY <1>1, <1>12, RetryMessageWrites
    <2>2. /\ job' = job /\ crashes' = crashes /\ unsettled' = unsettled
          /\ picked[m] # NotPicked
          /\ \A n \in Msg : n # m => picked'[n] = picked[n]
      BY <1>1, <1>12 DEF RetryMessage, TypeOK
    <2>3. \A n \in Msg : n # m /\ Places(n) = {} => Places(n)' = {}
      BY <1>1, <1>12, EnqueueTyped DEF RetryMessage
    <2> QED
      BY <1>3, <2>1, <2>2, <2>3 DEF StrandedAlone, Stranded, KeepsStatuses
  <1>13. ASSUME NEW m \in Msg, RecoverOrphan(m) PROVE StrandedAlone'
    BY <1>1, <1>3, <1>13, EnqueueTyped, StrandedKept DEF RecoverOrphan
  <1>14. ASSUME NEW q \in Retry, NEW m \in Msg,
                NEW kind \in {"sms", "campaign", "message"},
                RetryReads(q, m, kind)
         PROVE  StrandedAlone'
    BY <1>2, <1>3, <1>14, StrandedKept DEF RetryReads
  <1>15. ASSUME NEW q \in Retry, RetryCommits(q) PROVE StrandedAlone'
    <2>1. request[q].msg \in Msg
      BY <1>1, <1>15, RequestHolds DEF RetryCommits
    <2>2. WritesStatus(request[q].msg, "PENDING")
      BY <1>1, <1>15, RetryCommitsWrites
    <2>3. \A m \in Msg :
            m # request[q].msg /\ Places(m) = {} => Places(m)' = {}
      BY <1>1, <1>15, <2>1, EnqueueTyped DEF RetryCommits
    <2>4. UNCHANGED <<job, picked, unsettled, crashes>>
      BY <1>15 DEF RetryCommits
    <2> QED
      BY <1>3, <2>1, <2>2, <2>3, <2>4, StrandedKept DEF WritesStatus
  <1>16. ASSUME NEW m \in Msg, ForceDeliver(m) PROVE StrandedAlone'
    BY <1>1, <1>2, <1>3, <1>16, SetStatusWrites, StrandedKept
    DEF ForceDeliver, WritesStatus
  <1>17. ASSUME NEW m \in Msg,
                GrowsOld(m) \/ LeavesWindow(m) \/ RetryDue(m)
         PROVE  StrandedAlone'
    <2>1. UNCHANGED <<accepting, queue, job, tasks, history>>
      BY <1>17 DEF GrowsOld, LeavesWindow, RetryDue
    <2> QED
      BY <1>1, <1>2, <1>3, <1>17, <2>1, TimeWrites, StrandedKept
      DEF KeepsStatuses
  <1>18. CASE Crash
    <2>1. queue' = <<>> /\ job' = NoJob /\ crashes' = crashes + 1
          /\ picked' = [m \in Msg |-> NotPicked]
      BY <1>18 DEF Crash
    <2>2. crashes' > 0
      BY <1>1, <2>1, DeliveryAssumption DEF TypeOK
    <2> QED
      BY <2>1, <2>2 DEF StrandedAlone, Stranded, Places, NoJob
  <1>19. CASE UNCHANGED vars
    BY <1>2, <1>3, <1>19, StrandedKept DEF vars
  <1>20. ASSUME NEW t \in Dlr, ReportLost(t) PROVE StrandedAlone'
    BY <1>2, <1>3, <1>20, StrandedKept DEF ReportLost
  <1> QED
    BY <1>4, <1>5, <1>6, <1>7, <1>8, <1>9, <1>10, <1>11, <1>12, <1>13, <1>14,
       <1>15, <1>16, <1>17, <1>18, <1>19, <1>20
    DEF Next

(* A row rests in PROCESSING only while the worker holds it, after a crash  *)
(* and with no place in the queue, or because the refund of the attempt     *)
(* failed (sms_worker.py:38-176, billing_service.py:448-451).               *)
THEOREM HeldCorrect == Spec => []HeldWhileProcessing
  <1>1. Init => StrandedAlone
    BY StrandedInit
  <1>2. Typed /\ StrandedAlone /\ [Next]_vars => StrandedAlone'
    BY StrandedStep
  <1>3. StrandedAlone => HeldWhileProcessing
    BY DEF StrandedAlone, HeldWhileProcessing
  <1> QED
    BY <1>1, <1>2, <1>3, TypedCorrect, PTL DEF Spec

-----------------------------------------------------------------------------
(* Nothing is sent again without cause.                                     *)

Settled == {"SUBMITTED", "DELIVERED"}

(* What may be sent again, and what the worker has on its way, has cause to *)
(* be: a message that has none is at rest as SUBMITTED or DELIVERED, or the *)
(* provider has just accepted it.                                           *)
SendsHaveCause ==
  /\ \A m \in Msg :
       \/ m \in called \cup lapsed
       \/ row[m].status \in Settled
       \/ job.pc = "accepted" /\ job.msg = m
  /\ job.pc \in {"read", "loaded", "charged", "failed"} =>
       job.msg \in called \cup lapsed

LEMMA CauseInit == Init => SendsHaveCause
  BY DEF Init, SendsHaveCause, NoJob

(* A step of any other task leaves causes in place, and unsettles only a    *)
(* message that has one.                                                    *)
LEMMA CauseKept ==
  ASSUME SendsHaveCause, job' = job,
         called \cup lapsed \subseteq called' \cup lapsed',
         \A m \in Msg : row[m].status \in Settled =>
           row'[m].status \in Settled \/ m \in called' \cup lapsed'
  PROVE  SendsHaveCause'
  BY DEF SendsHaveCause

(* The worker.                                                              *)
LEMMA CauseWorker ==
  ASSUME Typed, SendsHaveCause, Worker
  PROVE  SendsHaveCause'
  <1> USE DEF tasks, history
  <1>1. TypeOK
    BY DEF Typed
  <1>2. job.pc # "idle" => job.msg \in Msg
    BY <1>1, JobHolds
  <1>3. CASE SkipJob
    BY <1>3, CauseKept DEF SkipJob
  <1>4. CASE ReadJob
    <2>1. Head(queue) \in Msg /\ row[Head(queue)].status \notin Settled
      BY <1>1, <1>4, DequeueTyped DEF ReadJob, Skipped, Settled
    <2>2. Head(queue) \in called \cup lapsed
      BY <1>4, <2>1 DEF SendsHaveCause, ReadJob, Dequeue, NoJob
    <2> QED
      BY <1>4, <2>2 DEF SendsHaveCause, ReadJob, Dequeue, NoJob
  <1>5. CASE MarkProcessing
    <2>1. job.pc = "read" /\ UNCHANGED <<called, lapsed>>
      BY <1>5 DEF MarkProcessing
    <2>2. job'.pc = "loaded" /\ job'.msg = job.msg
      BY <1>1, <1>5, <2>1, JobMoves DEF MarkProcessing
    <2>3. WritesStatus(job.msg, "PROCESSING")
      BY <1>1, <1>2, <1>5, <2>1, SetStatusWrites DEF MarkProcessing
    <2> QED
      BY <2>1, <2>2, <2>3 DEF SendsHaveCause, WritesStatus
  <1>6. CASE Throttle
    <2>1. job.pc = "loaded" /\ job'.pc = "idle" /\ UNCHANGED <<called, lapsed>>
      BY <1>6 DEF Throttle, NoJob
    <2>2. WritesStatus(job.msg, "PENDING")
      BY <1>1, <1>6, ThrottleWrites
    <2> QED
      BY <2>1, <2>2 DEF SendsHaveCause, WritesStatus
  <1>7. CASE Charge \/ GatewayFails
    <2>1. /\ job.pc \in {"loaded", "charged"}
          /\ UNCHANGED <<row, called, lapsed>>
      BY <1>7 DEF Charge, GatewayFails
    <2>2. \E pc \in {"charged", "failed"} : job' = [job EXCEPT !.pc = pc]
      BY <1>7 DEF Charge, GatewayFails
    <2>3. job'.pc \in {"charged", "failed"} /\ job'.msg = job.msg
      BY <1>1, <2>1, <2>2, JobMoves
    <2> QED
      BY <2>1, <2>3 DEF SendsHaveCause
  <1>8. CASE GatewayAccepts
    <2>1. /\ job.pc = "charged" /\ called' = called \ {job.msg}
          /\ UNCHANGED <<row, lapsed>>
      BY <1>8 DEF GatewayAccepts
    <2>2. job'.pc = "accepted" /\ job'.msg = job.msg
      BY <1>1, <1>8, <2>1, JobMoves DEF GatewayAccepts
    <2> QED
      BY <2>1, <2>2 DEF SendsHaveCause
  <1>9. CASE Refuse \/ SaveFailed
    <2>1. /\ job.pc \in {"loaded", "failed"} /\ SetStatus(job.msg, "FAILED")
          /\ job'.pc = "idle" /\ UNCHANGED <<called, lapsed>>
      BY <1>9 DEF Refuse, SaveFailed, NoJob
    <2>2. WritesStatus(job.msg, "FAILED")
      BY <1>1, <1>2, <2>1, SetStatusWrites
    <2> QED
      BY <2>1, <2>2 DEF SendsHaveCause, WritesStatus
  <1>10. CASE SaveSubmitted
    <2>1. job.pc = "accepted" /\ UNCHANGED <<called, lapsed>>
      BY <1>10 DEF SaveSubmitted
    <2>2. job'.pc = "saved" /\ job'.msg = job.msg
      BY <1>1, <1>10, <2>1, JobMoves DEF SaveSubmitted
    <2>3. WritesStatus(job.msg, "SUBMITTED")
      BY <1>1, <1>10, SaveSubmittedWrites
    <2> QED
      BY <2>1, <2>2, <2>3 DEF SendsHaveCause, WritesStatus, Settled
  <1>11. CASE BroadcastDone \/ FailureLost
    BY <1>11 DEF SendsHaveCause, BroadcastDone, FailureLost, NoJob
  <1>12. CASE BroadcastBreaks
    <2>1. /\ job.pc = "saved" /\ SetStatus(job.msg, "FAILED")
          /\ job'.pc = "idle" /\ called' = called
          /\ lapsed' = lapsed \cup {job.msg}
      BY <1>12 DEF BroadcastBreaks, NoJob
    <2>2. WritesStatus(job.msg, "FAILED")
      BY <1>1, <1>2, <2>1, SetStatusWrites
    <2> QED
      BY <2>1, <2>2 DEF SendsHaveCause, WritesStatus
  <1> QED
    BY <1>3, <1>4, <1>5, <1>6, <1>7, <1>8, <1>9, <1>10, <1>11, <1>12
    DEF Worker

(* Every step.                                                              *)
LEMMA CauseStep ==
  Typed /\ SendsHaveCause /\ [Next]_vars => SendsHaveCause'
  <1> SUFFICES ASSUME Typed, SendsHaveCause, [Next]_vars
               PROVE  SendsHaveCause'
    OBVIOUS
  <1> USE DEF tasks, history
  <1>1. TypeOK /\ RowsThere
    BY DEF Typed
  <1>2. ASSUME NEW m \in Msg, SendSms(m) PROVE SendsHaveCause'
    BY <1>2, CauseKept DEF SendSms
  <1>3. ASSUME NEW m \in Msg, CommitSend(m) PROVE SendsHaveCause'
    <2>1. row[m].status \notin Settled
      BY <1>1, <1>3 DEF CommitSend, RowsThere, Settled
    <2>2. WritesStatus(m, "PENDING")
      BY <1>1, <1>3, SetStatusWrites DEF CommitSend
    <2> QED
      BY <1>3, <2>1, <2>2, CauseKept DEF CommitSend, WritesStatus
  <1>4. CASE Worker
    BY <1>4, CauseWorker
  <1>5. ASSUME NEW t \in Dlr, NEW m \in Msg,
               NEW stat \in {"SUBMITTED", "DELIVERED", "NOT_DELIVERED"},
               ReadReport(t, m, stat)
        PROVE  SendsHaveCause'
    BY <1>5, CauseKept DEF ReadReport
  <1>6. ASSUME NEW t \in Dlr, SaveReport(t) PROVE SendsHaveCause'
    <2>1. dlr[t].stat \in Settled \cup {"NOT_DELIVERED"}
      BY <1>1, <1>6, ReportHolds DEF SaveReport, Settled
    <2> QED
      BY <1>1, <1>6, <2>1, SaveReportWrites, CauseKept
      DEF SaveReport, WritesStatus, KeepsStatuses, Settled
  <1>7. CASE Poll
    BY <1>1, <1>7, PollWrites, CauseKept DEF Settled
  <1>8. CASE PollSelects \/ RetrySelects
    BY <1>8, CauseKept DEF PollSelects, RetrySelects
  <1>9. ASSUME NEW m \in Msg, RetryMessage(m) PROVE SendsHaveCause'
    BY <1>1, <1>9, RetryMessageWrites, CauseKept
    DEF RetryMessage, KeepsStatuses
  <1>10. ASSUME NEW m \in Msg, RecoverOrphan(m) PROVE SendsHaveCause'
    BY <1>10, CauseKept DEF RecoverOrphan
  <1>11. ASSUME NEW q \in Retry, NEW m \in Msg,
                NEW kind \in {"sms", "campaign", "message"},
                RetryReads(q, m, kind)
         PROVE  SendsHaveCause'
    BY <1>11, CauseKept DEF RetryReads
  <1>12. ASSUME NEW q \in Retry, RetryCommits(q) PROVE SendsHaveCause'
    <2>1. WritesStatus(request[q].msg, "PENDING")
      BY <1>1, <1>12, RetryCommitsWrites
    <2>2. /\ job' = job /\ called' = called /\ lapsed \subseteq lapsed'
          /\ row[request[q].msg].status \in Settled =>
               request[q].msg \in lapsed'
      BY <1>12 DEF RetryCommits, Settled, Undelivered
    <2> QED
      BY <2>1, <2>2, CauseKept DEF WritesStatus
  <1>13. ASSUME NEW m \in Msg, ForceDeliver(m) PROVE SendsHaveCause'
    BY <1>1, <1>13, SetStatusWrites, CauseKept
    DEF ForceDeliver, WritesStatus, Settled
  <1>14. ASSUME NEW m \in Msg,
                GrowsOld(m) \/ LeavesWindow(m) \/ RetryDue(m)
         PROVE  SendsHaveCause'
    <2>1. UNCHANGED <<accepting, queue, job, tasks, history>>
      BY <1>14 DEF GrowsOld, LeavesWindow, RetryDue
    <2> QED
      BY <1>1, <1>14, <2>1, TimeWrites, CauseKept DEF KeepsStatuses
  <1>15. CASE Crash
    BY <1>15 DEF Crash, SendsHaveCause, NoJob
  <1>16. CASE UNCHANGED vars
    BY <1>16, CauseKept DEF vars
  <1>17. ASSUME NEW t \in Dlr, ReportLost(t) PROVE SendsHaveCause'
    BY <1>17, CauseKept DEF ReportLost
  <1> QED
    BY <1>2, <1>3, <1>4, <1>5, <1>6, <1>7, <1>8, <1>9, <1>10, <1>11, <1>12,
       <1>13, <1>14, <1>15, <1>16, <1>17
    DEF Next

(* A message the provider took is handed to it again only after it was      *)
(* reported undelivered, for any number of messages, tasks, places in the   *)
(* queue and crashes, with the exceptions named at ResentForCause           *)
(* (sms_worker.py:44-47, 100-151).                                          *)
THEOREM ResentCorrect == Spec => []ResentForCause
  <1>1. Init => SendsHaveCause
    BY CauseInit
  <1>2. Typed /\ SendsHaveCause /\ [Next]_vars => SendsHaveCause'
    BY CauseStep
  <1>3. SendsHaveCause => ResentForCause
    BY DEF SendsHaveCause, ResentForCause
  <1> QED
    BY <1>1, <1>2, <1>3, TypedCorrect, PTL DEF Spec

=============================================================================
