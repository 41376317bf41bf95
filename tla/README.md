# Nexra: TLA+ models and proofs

Nexra sells bulk SMS to organisations. Its backend (`src/app`, FastAPI on one
uvicorn process) keeps organisations, wallets, messages and campaigns in
Postgres and runs everything else as tasks of one event loop: the request
handlers, one serial SMS worker fed by an in-memory queue, a task per delivery
report, a status poller that also recovers orphans, a retry worker and a
campaign scheduler. Two React applications (`src/nexra-dashboard/src`), one for
customers and one for the platform's staff, are clients of its HTTP API.

This directory holds models of the parts whose correctness depends on how those
tasks interleave and on the process being restarted under them, models of the
applications' pages, whose calls are answered in any order while the user goes
on, the TLC runs that check them on small instances, and proofs for every
instance of what matters most. Line numbers refer to the files under `src/`;
page and component names to those under `src/nexra-dashboard/src`.

## The system

| Component | State | Operations | Talks to |
|---|---|---|---|
| Billing (`services/billing_service.py`, `endpoints/billing.py`) | `wallets`, `billing_ledger`, billing columns of `sms_messages`, `organizations.plan_id` | charge, refund, top-up, deduct, renew, assign, cancel, buy plan | called by worker, reports, endpoints, payments |
| Queue and SMS worker (`core/queue.py`, `workers/sms_worker.py`) | in-memory queue, message rows | put, take, mark, throttle, charge, send, settle | billing, limiter, gateway, campaigns, sockets |
| Message endpoints (`endpoints/sms.py`) | message rows | send, quick-send, retry, force-deliver, provider's webhook | queue, reports |
| Delivery reports (`workers/dlr_worker.py`) | message rows, report log | look up, set status, refund | billing, campaigns |
| Poller and recovery (`workers/resolve_worker.py`) | message rows | ask the provider about SUBMITTED, queue orphans | provider's API, queue |
| Retry worker (`workers/retry_worker.py`) | `retry_count`, `next_retry_at` | select, re-queue | queue |
| Campaigns (`endpoints/campaigns.py`, `workers/campaign_worker.py`, `services/campaign_status.py`) | `campaigns`, message rows | create, edit, broadcast, schedule, retry, aggregate | queue, worker, reports |
| Payments (`services/payment_service.py`, `endpoints/payments.py`) | in-memory transactions | register, verify, complete | top-up, Paystack, billing page |
| Sender IDs (`endpoints/sender_ids.py`) | sender rows | request, submit documents, decide | messages, campaigns, the two pages |
| Rate limiters (`services/rate_limiter.py`, `endpoints/sms.py:25-46`) | Redis sorted sets, in-memory lists | admit or refuse | worker, endpoints |
| SMPP client and adapters (`services/mtn_smpp_client.py`, `services/adapters`) | sequence number, pending futures, connection flags | connect, bind, submit, keep alive, receive | gateway manager, reports |
| Registration, staff, invitations, waitlist (`endpoints/auth.py`, `staff.py`, `waitlist.py`) | users, organisations, wallets, invitations | register, invite, accept, delete | billing |
| Sockets and customer webhooks (`core/websocket.py`, `services/webhook_service.py`) | sets of sockets | connect, broadcast, dispatch | all of the above |
| Contacts, groups, templates, analytics, search, administration | their rows | one-transaction edits and reads | pages |
| Sessions of the applications (`api/client.js`, `AuthContext.js`, the login and registration pages) | one token in localStorage, an account per tab | sign in, register, sign out, impersonate, be refused | every call |
| Contacts page | segments, open segment, all contacts, ticks | open, create, import, add, remove, delete | contacts and groups |
| Campaign wizard and checkout | form, stored draft, checkout | fill, save, price, broadcast | campaigns, wallet |
| Message history and recipients' drawer | filter, search, page, rows, ticks | read, retry | campaigns |
| Campaigns page, quick send | cards, dialogs | broadcast, retry, delete, send at once | campaigns, scheduler |
| Billing page (`PricingPage.js`) | one flag for everything under way | top up, verify, buy a plan | payments |
| Sender ID pages | requests, a request being verified | request, verify | sender IDs |
| Lists, dashboards, search | a key and the rows shown | read, delete | analytics, search, platform |
| Dialogs | a draft, a guard | post | administration, support |
| Administrators' buttons, notifications | a row as it was read | update, read again | administration |
| Menus, banner, tour, theme, toasts | address, localStorage | go, dismiss, complete | announcements |

What is hard in it:

* **Copies.** A session is opened with `expire_on_commit=False` and
  `autoflush=False` (`db/database.py:9-11`). A row once loaded is the session's
  copy to the end, a later `SELECT ... FOR UPDATE` of the same row waits for the
  lock and still returns that copy, and a commit writes the columns whose value
  the copy changed. Decisions are therefore made on old values under a lock that
  looks as if it prevented that.
* **Duplicates.** Five paths put a message in the queue and none looks whether it
  is there. What stops a second send is one status check at the head of the queue.
* **Restarts.** The queue and the payment transactions live in memory. The host
  stops idle processes, so restarts are ordinary.
* **Money in several commits.** Buying, assigning and cancelling a plan commit
  two or three times; a refund races the report that caused it.
* **Late answers.** A page's handler is two steps, before and after its `await`.
  Nothing is cancelled: an answer is applied to whatever the page shows by then,
  with the values of the render in which the call was made.
* **Windows.** Tabs share localStorage, and a server that others change as well.

What makes each part correct: *billing*, the ledger explains the wallet, no
bucket is overdrawn, a charge is refunded once, to the bucket it came from;
*delivery*, nothing is sent twice without cause, nothing is forgotten, no row
rests in an intermediate status; *campaigns*, nothing is sent before its
broadcast, and the aggregate status follows the messages; *payments*, one credit
per payment, one thing under way; *sessions*, a tab acts as the account it shows;
*pages*, what is shown is what the page is set to, what is asked for is done to
what it was asked of, and once.

## Modules

| Module | Models | Used by |
|---|---|---|
| `Account` | abstract specification of one organisation's credits | `Wallet`, as `Credits` |
| `Wallet` | the wallet row, ledger totals, billing columns, and every caller that can interleave around them | `MCWallet`, `WalletProofs` |
| `MCWallet` | a two-plan catalogue in which charges mix the buckets | runs `wallet*` |
| `WalletProofs` | the theorems about `Wallet` | - |
| `Delivery` | message rows, queue, worker, reports, poller, retries, recovery, crash | `MCDelivery`, `DeliveryProofs` |
| `MCDelivery` | symmetry sets for larger instances | runs `delivery*` |
| `DeliveryProofs` | the theorems about `Delivery` | - |
| `Campaign` | one campaign's status, the ways it is started, the batch, every task that recomputes the aggregate | `MCCampaign`, `CampaignProofs` |
| `MCCampaign` | symmetry sets | runs `campaign*` |
| `CampaignProofs` | the theorems about `Campaign` | - |
| `Payments` | top-up: billing page, popup, Paystack's charge, transactions in memory, restarts | `MCFrontend`, `PaymentsProofs` |
| `PaymentsProofs` | the theorems about `Payments` | - |
| `Outbox`, `Wizard` | what is sent: campaign cards and quick send, the campaign wizard and its checkout | `MCFrontend`, `SendingProofs` |
| `Drawer`, `History`, `Pages`, `ContactBook` | what is listed: the recipients drawer, the history, ten pages read by key, segments and contacts | `MCFrontend`, `ListsProofs` |
| `Forms`, `SenderIds`, `Rows` | what is updated: dialogs, sender IDs and their documents, rows with buttons | `MCFrontend`, `UpdatesProofs` |
| `Session`, `Shell` | the token and who each tab shows; menus, banner, tour, theme and toasts | `MCFrontend`, `ShellProofs` |
| `SendingProofs`, `ListsProofs`, `UpdatesProofs`, `ShellProofs` | the theorems about them | - |
| `MCFrontend` | small instances of the twelve modules of the dashboard, one part at a time | runs `frontend`, `platform_delete` |

### Wallet

State and code: `subscription`, `payg`, `balance` are the three columns of the
wallet; `plan` the organisation's plan; `booked` the ledger, as a total per
category (nothing reads single entries back); `bill` the billing columns of each
message with its status reduced to what billing tells apart; `job` what the
worker's session holds; `report` and `request` the sessions of delivery reports
and of plan requests between two of their commits, with their copies. `dropped`
and `drifted` are history: what the subscription bucket held when a renewal or a
cancellation took it away, with no ledger entry; and whether a purchase ever
charged a copy that was no longer the row, or booked a grant that its copy, holding
as much already, did not write.

Each billing function locks the wallet row and commits before it lets go, so it is
one action; what its caller read before the lock is in the caller's record.
`Written(new, copied, row)` is the rule of the commit: only a column whose value
the copy changed is written. `buy_plan` is four actions (check, charge, assign,
grant), `assign-plan` two, a cancellation three, and `Crash` may come between any
two of them. The refund and the renewal catch the error of their own commit and
roll back: `JobUnrefunded`, `ReportUnrefunded` and `GrantFails` leave everything
as the commit before left it. The worker's load, charge, gateway call and
settlement are separate actions; reports, the poller and forced deliveries may
write the message in between. A refund by a report is two actions, the checks and
the locked part.

`Account` has four kinds of movement: credit, debit, renewal, forfeit. The
refinement maps its `funds` to the sum of the two buckets and its `credited` and
`debited` to ledger totals.

### Delivery

State and code: `row` is the message row: status, whether the latest attempt set
`sent_at` and `provider_msg_id`, whether that is within the poller's window
(`lately`), `next_retry_at` (NULL, ahead, past), `retry_count` up to the maximum,
and whether the row is older than the orphan threshold. `accepting` are rows
inserted and already queued but not committed. `queue` is the asyncio queue with
its duplicates. `job` is the worker's position in `_async_process_sms`; `dlr`,
`polled`, `picked` and `request` are what the other tasks read and have not yet
acted on. `called` and `lapsed` are history for `ResentForCause`, `unsettled` for
`HeldWhileProcessing`: the messages whose FAILED was rolled back with their refund
(`billing_service.py:448-451`), in the worker (`FailureLost`) or in a report
(`ReportLost`).

Each action is the code between two awaits that let another task see or change
shared state: a commit, the provider's answer, or the end of a SELECT whose
result is used later. A put on the queue and a chain of puts do not suspend. The
poller's requests run one by one, but everything it decides is written in one
commit at the end, so the answers are one action; a request that fails leaves its
message out of `answered`.

Time is four steps: a message grows older than the thresholds, a submitted one
leaves the window of 24 hours in which it is polled (`LeavesWindow`), a retry
becomes due, and everything else is ordinary scheduling. The ten minutes of an
orphan and the fifteen of an unanswered message are the same step: any finite
delay may separate them from what follows.

Not in it: the page limits of 100 rows (with a backlog larger than a page the
liveness results do not apply), deletion of messages, opt-outs. A message that
failed at the first attempt has `next_retry_at` NULL and is never selected by the
retry worker, whose docstring (`retry_worker.py:12-15`) promises retries of failed
messages: in the model, as in the code, only a message that was throttled once has
a date there.

### Campaign

State and code: `campaign` is `campaigns.status`, `schedule` is `scheduled_at`
reduced to NULL, ahead and due. `row`, `sent`, `places` and `job` are the message
rows, `provider_msg_id`, the queue and the worker, with what the campaign tells
apart: no billing, retry dates or sockets. `session` is any session other than
the worker's that refreshes: a report, the poller, a force-deliver request.
`batch`, `scheduler` and `request` are the tasks that start or edit the campaign.
`fresh`, `owed` and `settled` are history: the refreshes during which no other row
has changed, whether such a refresh is still owed, and the messages that were
settled once. A write of the campaign by somebody else ends only those refreshes
that will not write over it (`Overwriting`), however old their copy is.

`refresh_campaign_delivery_status` is the heart of it. It flushes the caller's
own change, reads the campaign, counts the rows, and the caller commits later.
Here that is two actions, a count (`JobCounts`, `SessionCounts`) and a commit
(`CommitRefresh`), with the flushed rows locked in between and invisible to
others; the two SELECTs of a refresh are one action. The commit follows the
session's rule: the status is written only if it differs from the copy (`Writes`,
worked out at the count, and `Saved`, at the commit). The worker's copy of the
campaign dates from its look at the PAYG preference (`sms_worker.py:69`), before the
gateway call, and is not read again.

A broadcast or an edit works out what it will write when it reads the campaign
(nothing suspends in between) and writes it in another action. `campaign_worker`
and `process_campaign_batch` are two and four actions. A restart drops all tasks.
Whether the refund in the worker's or a report's failure path commits FAILED
before the count, or finds nothing to refund, is a free choice here (`JobFails`
or `FailUnrefunded`, `ReportRefunds` or `ReportCounts`): `Wallet` decides it.
A retry and the recovery of orphans are one action each, `Delivery` takes them
apart; any time may have passed, so the recovery may take any orphan.

Not in it: `delivered_count` and `failed_count`, which are computed with the
status and nobody reads back; personalisation and recipients; deletion of a
campaign; several campaigns, which share only the queue.

### The applications

React runs one handler at a time. An action is a handler up to its `await`, or
what comes after it; a call that is under way is a record in a set or a counter,
and is answered, refused, or done without its answer coming back. Several calls
may be under way, and any may be answered next. What a handler computed from the
render it belongs to is in the call's record, as its closure has it. A component
that was unmounted no longer hears its answer, but what was asked is done.

* `Payments`: `till` is the page, whose flag `isProcessing` (`busy`) disables all
  its buttons; `intent` is `pending_transactions`. `complete_payment` sets SUCCESS
  before it awaits the credit, so verification is two actions; `Restart` empties
  the transactions and drops the requests; `Reload` drops the page's half.
  `verify` is also reachable without the page (`VerifyAgain`), and so are the
  simulated completions and the registration of a reference that is known already
  (`RegisterAgain`), which writes PENDING over any status, as the page's own does
  (`Registers`, `payment_service.py:86`). `reopened` counts, for each reference, the
  successes a restart or a registration lost sight of. Amounts are left to `Wallet`.
* `Session`: `token` is `access_token`, `tabs` what each application's
  `AuthContext` holds. Opening the impersonated account in a new window replaces
  the token of the administrator's tab too. `foreign` are the tabs that have not read
  the token since another tab stored one; a tab reads it when it is loaded and sends
  `/auth/me` with it there and then (`api/client.js:14-20`), so an answer that comes
  later is still that of the token read at the mount. A 401 ends the session; an
  expired token is a 403, which changes nothing.
* `ContactBook`: the page mounts a new view for each segment opened from the
  list, but sets the segment of the one that is open when a creation is answered.
  Imports end in callbacks of the page, which still run when the view is gone. A
  creation may fail, or be done without its answer (`CreateFails`).
* `Wizard`: every change of the form is stored in the tab, except in edit mode;
  the lists of contacts and segments are read only on step 2 and by its dialogs, and
  the read of the segments is slow, fails or is answered (`SegmentsRead`,
  `SegmentsFail`) while the user goes on: a segment of a restored draft counts for
  nothing until then (`Counted`). Saving makes the
  campaign, the checkout prices it by the page's own count. A redirect leaves the
  page whatever it was waiting for; a save whose answer was lost may have been
  stored. A campaign that was saved and is then opened and edited is a draft of its
  own.
* `History`: which of the seven things that read the list (filter, page, search
  timer, listener, interval, deletion, mount) reads with which key. A deletion awaits
  its answer and then reads with the key of the render it was confirmed in
  (`DeleteCampaign`, `Deleted`), or, refused, reads nothing.
* `Drawer`: rendered by the history, which replaces its whole page by a skeleton
  whenever it reads (`MessagesPage.js:184`), and so unmounts the drawer. A retry
  request reads what failed (`RetryReads`), then writes and enqueues it
  (`RetryEnqueues`): the ticked ones in one commit, all that failed one by one; other
  requests come in between.
* `Outbox`: cards act on the status they were read with. The server passes a request
  by the status it reads (`BroadcastPasses`: all but SENDING and COMPLETED) and
  starts the campaign when it commits (`Started`), and the scheduler does the same in
  two steps; the workers move campaigns meanwhile, through DELIVERING too
  (`CampaignMoves`).
* `SenderIds`: the verification page reads all requests and finds the one its
  address names; the address may change while it reads.
* `Pages`: ten pages that show what was read for a key; `PageKeys` and `OpensWith`
  give each its keys. `raced` and `failed` record why rows may be of another key.
* `Forms`: nine dialogs, by the five rules in which they differ (`Rules`).
* `Rows`: six kinds of row whose buttons send what they compute from the row.
* `Shell`: the menus and routers are sets of addresses; banner, tour and theme are
  per window and share `kept`, the localStorage; the toasts' clock counts the
  milliseconds in which ids are made.

Pages share nothing but the server and the tab's token, and are shown one at a
time: in `MCFrontend` a behaviour is one part's, chosen in the initial state
(`Area`), so that every part is explored in full and none multiplies another.
What a part may start with in several ways is fixed while another moves (`Fixed`).

## Runs

| Run | Result | Instance | Distinct states |
|---|---|---|---|
| `wallet` | passes: `TypeOK`, `BalanceMirrorsPayg`, `NoOverdraft`, `OnlyPurchasesDrift` | 1 message, 1 report, 1 buyer, 1 admin, 2 plans | 2.3 M |
| `wallet_account` | passes: `Reconciled`, `KeepsAccount` | 2 messages, 1 report, no buyer, 1 admin | 2.6 M |
| `wallet_purchase` | violates `Reconciled` | as `wallet` | - |
| `wallet_refunds` | violates `RefundsWithinCharges` | 1 message, 2 reports | - |
| `delivery` | passes: `TypeOK`, `ResentForCause`, `HeldWhileProcessing` | 1 message, 1 report task, 1 retry request, 1 crash | 3.7 M |
| `delivery_live` | passes: `NeverForgotten`, `SubmittedIsResolved` | 1 message, 1 report task, 1 crash | 177 k |
| `campaign` | passes: `TypeOK`, `ShowsItsMessages`, `CompletedMeansSettled` | 2 messages, 1 session, 1 batch, no request | 3.7 M |
| `campaign_live` | passes: `SendingMovesOn` | 1 message, 1 session, 1 batch, 1 broadcast or edit | 0.8 M |
| `campaign_early` | violates `SentAfterBroadcast` | 1 message, no request | - |
| `campaign_stuck` | violates `SettlesInTheEnd` | 1 message, no session, no request | - |
| `frontend` | passes 25 invariants, below | 20 parts | 1.7 M |
| `platform_delete` | violates `DeletesWhatItNames` | the part `pages` | - |

| Part | Invariants of `frontend` |
|---|---|
| contacts | `RowsOfOpenSegment`: rows under a segment's name are that segment's |
| wizard, reopened | `CoveredIsCovered`: what the checkout calls covered is, but for segments that had not come; `OneBroadcastPerDraft` |
| history | `ListMatchesItsFilter`: no change of filter, search or page goes without a read of it |
| drawer, retries | `TickedAreShown`; `RetriedOncePerFailure`: a failure is retried once, and once more for each request that read it beside another |
| cards, quick | `StartedOncePerFailure`: a campaign is started once, again for each failure, and again for each request let pass while it was DELIVERING or beside another; `QuickSentOnce` |
| payments, renewals | `PayTypeOK`; `CreditedOnce`: a payment is credited once, and again for each success a restart or a registration lost sight of; `SuccessMeansCredited`, `OnePaymentAtATime` |
| senders | `VerifiesTheOneNamed`: documents go to the request in the address |
| session | `SessionTypeOK`; `ActsAsShown`: a tab acts as whom it shows, unless another stored a token since it stored or read one |
| pages | `ShowsWhatItSays`, `ChartsDrawn` |
| forms | `DoneOncePerDraft`, `ClosesWhenDone` |
| rows | `UpdatesStick`: what a button was pressed for is what the server holds; `RowsCatchUp` |
| route, banner, tour, toasts | `MenusLeadWhereTheySay`; `DismissedStaysDismissed`; `TourOffersItselfOnce`; `ToastsLast` |

Several of these hold but for a named excuse (`switched`, `doubt`, `raced`,
`failed`, `foreign`, `late`, `hasty`, `blind`, `misled`, ...). Each excuse is a
history variable that only what it names sets, and its comment says what the code
does then; the invariant says that nothing else brings the bad state about. Where
the code lets a thing happen again (a start, a retry, a credit) the invariant counts
the occasions it gives (`again`, `overlaps`, `reopened`) and bounds the repetitions
by them.

Bounds. `MaxBooked = 4` (6 in `wallet_account`) caps each ledger category: an
action that would begin a movement past it is not taken, one already begun
finishes. With a month of 2 credits for a price of 2, charges of 3 (4 without a
plan) and top-ups of 2, that is room for two top-ups, two grants, so that a
purchase meets a bucket that holds credits, a charge that mixes the buckets and
its refund, in any order; with 6, for two charges. `MaxRetries = 1` is the
smallest limit that can be reached; the code compares with it and does nothing
else. `MaxCopies = 2` lets a message be queued while it is already there, which is
what duplicates need; a third place adds nothing the second does not, since a
place that finds the message sent is dropped. One crash separates a before from an
after. The messages of `Delivery` meet only in the queue and the worker; two of
them, without retry requests, are too many states for a run that is kept, and the
proofs have any number.

In `Campaign`, two messages are what it takes for one refresh to miss another's
change, and the worker and one session are two refreshes at once. `campaign_live`
has a request beside the scheduler, which are two ways to start the campaign, and
one batch (`MaxStarts = 1`). The bounds fall short of two requests at once, and of
requests with two messages (more than 17 M states). The proofs of the same
invariants have no such bounds.

In `frontend`, two calls under way (`MaxBookCalls`, `MaxDrawerCalls`, `MaxOutbox`,
`MaxPageReads`) are what it takes for one answer to overtake another; sender IDs
need one call and two reads (`MaxSenderCalls`, `MaxSenderReads`), and the history
four reads of its list (`MaxReads`), since a timer, the listener and the interval
hold three keys. Of changes, one by the user against those of others suffices
where each is a call of its own (`MaxWrites`, `MaxActs`, `MaxSubmits`), two where
the second is computed from the first (`MaxClicks` with `MaxRowReads`,
`MaxRetries` and `MaxFailures`, `MaxPosts`; `MaxFails` and `MaxAgain` are one, the
failure and the request let pass after which a campaign is started again, and
`MaxReopened` one, the success that is lost sight of). `MaxDrafts = 3` lets a
draft follow one that a late answer has replaced; `MaxSaved = 3` leaves room for
an existing campaign and two of one draft; `MaxMounts = 2` lets the wizard be left
and opened again. Its every kind of recipient and both together are too many
states, so they are two parts, apart in `WizMoves`: `wizard` opens the page once,
`reopened` twice, from an empty stored form, for contacts only, with no schedule
and at most two campaigns, which is what a second broadcast of a draft takes.
Likewise `drawer` has one retry and `retries` two, of the first page only; `cards`
has no quick send and `quick` no checkout; `payments` registers two references
once each and `renewals` one again and again. `MaxSignIns = 3` for two tabs and an
impersonation; `MaxRestarts = MaxReloads = 1` separate a before from an after.
`MaxClock = 4` is twice a toast's lifetime, and `MaxToasts = 3` two of one
millisecond with one of another. Two segments are open after each other and a
third is made; two references, two verifications at once, two tabs, two windows.

What the five violations show is in `PROJECT.json` under `findings`: a purchase
overwrites the wallet from a stale copy; one charge is refunded twice by two
reports; a draft's messages are sent by the recovery of orphans; a campaign whose
last message is refused for lack of credits stays DELIVERING; the platform's page
deletes, at the endpoint of one tab, the record with the number of a row of the
other.

Other disagreements between the code and what it says, with the definition that
TLC finds violated when it is checked by hand:

* a mixed charge is stored as "payg" and its refund goes whole to PAYG, although
  the comment says "Refund to original credit source" (`billing_service.py:408`;
  `PaygBacked` of `Wallet`);
* a throttled message at its retry limit waits for ever, although it is "reset to
  PENDING so the retry_worker picks it up" (`sms_worker.py:58`;
  `ThrottledIsRetried` of `Delivery`);
* "Subscription covers the entire broadcast" (`BroadcastCheckoutModal.js:185`) of
  a count the page made before the segments were read, or of a campaign that keeps
  other recipients (`CoversTheEntireBroadcast` of `Wizard`);
* "submit a new request if needed" (`SenderIDManagement.js:733`) of a rejected ID,
  which the server refuses as "already requested" (`sender_ids.py:116`;
  `RejectedCanBeRetried` of `SenderIds`);

and some that need no run: cancelling a plan answers "Remaining credits moved to
PAYG wallet." (`billing.py:265`) and wipes them (`billing.py:236-244`), modelled as
`CancelWipes`; "silent token refresh on 401" (`api/client.js:21`) never happens,
since no page stores the `refresh_token` that signing in returns, and an expired
token is answered with 403 (`deps.py:33-37`).

Deadlock is not checked in any run: an instance may come to rest with every
message settled and every bound used.

### Fairness

`FairSpec` of `Delivery` assumes, and the code justifies:

* the worker loop goes on (weak fairness of `Worker`): `_sms_worker_loop` catches
  every exception and sleeps at most a second;
* the retry worker, the recovery and the poller run again and again (weak
  fairness of their actions): each is a loop that catches every exception, and
  is started by `main.py:91-93`;
* a message that asks the limiter again and again is let through in the end
  (strong fairness of `PassesLimiter`): the window is one second, the worker
  handles five messages a second, and the default limit is five;
* the provider's status API answers in the end (strong fairness of
  `PollAnswered`): otherwise nothing resolves a message without a report;
* time passes (weak fairness of `GrowsOld`, `RetryDue`). That a submitted message
  leaves the poller's window may happen at any time after it was sent, and such a
  message is not promised to be resolved: nothing asks about it again.

No fairness is assumed of users, reports, retries by hand or crashes.

`FairSpec` of `Campaign` assumes the same of the worker, the limiter, the recovery
and the poller (`PollSettles`, which finds every submitted message of its window
answered or old), that a session which counted commits, and that a batch goes on. The
batch's fairness is strong only because the bound on places may stop it, which the
code's queue does not. `SendingMovesOn` excuses behaviours in which restarts or
retries by hand never end.

## Proofs

`WalletProofs` proves, for every set of messages, reports, requests and plans, any
catalogue and any amounts, and with no bound used:

* `TypeCorrect`: `Spec => []TypeOK`;
* `LedgerCorrect`: `OnlyPurchasesDrift` is an invariant. It is inductive together
  with the types: each action moves both sides of the balance by the same amount,
  except a purchase's charge, which either worked on the row as it is or sets
  `drifted`, and its grant, which is booked and may not be written
  (`RenewalBooked`: a renewal takes away what the bucket held, puts in what it books,
  or sets `drifted`);
* `BalanceCorrect`, `NeverOverdrawn`: `BalanceMirrorsPayg` and `NoOverdraft` are
  invariants. Neither is inductive: a purchase writes what its copy held. The
  strengthening `RowOK` adds `CopiesOK`: in every copy that will be written the
  balance is the PAYG amount, both buckets are non-negative, and a copy past its
  check can pay the price it is about to be charged;
* `ReconciledWithoutPurchases`: with no buyers, `Reconciled` is an invariant,
  because nothing sets `drifted`: every other renewal works on the row it locked;
* `ImplementsAccount`: with no buyers, `Spec => KeepsAccount`, the refinement of
  `Account`, each action a movement of the account or a stutter.

The assumptions are `WalletAssumption` (amounts are natural numbers, the default
plan is in the catalogue), and, for all but `TypeCorrect`, `SeedBalance = 0`: the
wallet was created by registration. `scripts/create_superadmin.py` seeds one with a
balance and no PAYG credits, and for such a wallet the columns differ from the
start.

`CampaignProofs` proves, from `CampaignAssumption` (a finite, non-empty set of
messages, positive bounds, and no session named as the worker):

* `TypeCorrect`: `Spec => []TypeOK`;
* `ShownCorrect`: `ShowsItsMessages` is an invariant. The strengthening
  `FreshRight` says that a task in `fresh` has counted a total that is still right,
  and will write it over whatever the campaign is by then, or writes nothing because
  the campaign says so already. Each action either changes nothing a total
  depends on (`AggregateSame`), or empties `fresh` and sets `owed`, or writes the
  campaign and leaves in `fresh` those that will write over it (`WriteShown`);
* `CompletedCorrect`: `CompletedMeansSettled` is an invariant. A COMPLETED total
  may be committed long after it was counted, so the strengthening says that
  whatever a refresh that will write COMPLETED has seen is settled already or by its
  own commit.

`DeliveryProofs` proves, from `DeliveryAssumption` (positive bounds), for any set
of messages, report tasks and retry requests, any retry limit and any number of
places in the queue and of crashes:

* `TypeCorrect`: `Spec => []TypeOK`. A report records the status of the row it
  found, so the types need `RowsThere`: a row that was sent, or that any task
  holds, is committed, and a row still being accepted is not;
* `HeldCorrect`: `HeldWhileProcessing` is an invariant. The strengthening
  `StrandedAlone` adds that a message stranded by a crash is not selected by the
  retry worker, which would queue it again, and that a row the worker has saved is no
  longer PROCESSING when the worker lets go of it;
* `ResentCorrect`: `ResentForCause` is an invariant. The property speaks of the
  moment before a send only. The strengthening `SendsHaveCause` follows every
  message: one with no cause to be sent is SUBMITTED or DELIVERED in its row, or
  the provider has accepted it and the worker is about to write that down; and
  whatever the worker took from the queue had cause when it was taken and keeps it
  until it is accepted. The number of places in the queue does not enter the
  argument: the one check at the head of the queue and the single worker are
  enough.

Each proof goes through what every action writes to the status columns
(`WritesStatus`, `KeepsStatuses`), stated once.

`PaymentsProofs` proves, from `PaymentsAssumption` (no reference is the absent
one), for any references, any number of requests at once, of restarts and of
reloads:

* `PayTypeCorrect`: `PaySpec => []PayTypeOK`;
* `OneAtATimeCorrect`: `OnePaymentAtATime`, by `Tidy`: whatever is under way, the
  flag is set, and it alone is under way;
* `CreditedOnceCorrect`: `CreditedOnce`, by `Known` (a reference is new to
  everybody until it is made, and to the service until it is registered) and
  `Once`: the credits of a reference, the requests that are crediting it, and one
  more while it is not a SUCCESS and so could still be paid, are at most one and as
  many as successes were lost sight of;
* `SuccessCorrect`: `SuccessMeansCredited`, by `Accounted` (a transaction that is
  over was credited, is being credited, or lost its credit) and `Paged` (the
  request of the page is about the payment the page shows).

`SendingProofs` proves, from `OutboxAssumption` (the campaigns there may be first
are campaigns, with a status of the code's), for any cards and submits:

* `StartedCorrect`: `StartedOncePerFailure`, by `Covered`: the starts of a campaign,
  the requests that were let pass and have not committed, and one more while none was
  and the next would be the first or the first since a failure, have a failure or an
  excused pass each;
* `QuickSentCorrect`: `QuickSentOnce`, by `OneSubmit` (all that is under way of the
  form is one call, for what is composed) and `SentIsGone` (what was sent, and is
  not unsure, is no longer in the form);

and, from `WizAssumption` (contacts, segments and their members are finite, stored
forms are forms, wallets hold natural numbers), for any number of saves, edits and
openings of the page:

* `CoveredCorrect`: `CoveredIsCovered`. The checkout compares a count the page
  made with a campaign the server made, so the strengthening follows the count
  from the press of the button (`SaveFits`: the page counted at least whom the
  save reaches, but for the members of segments whose list had not come) to the
  open checkout (`Priced`: the campaign still is as it was counted, and no save of
  it is under way). `CountsEveryone` is the arithmetic of it: the members of the
  segments counted one by one, with the contacts and the numbers typed in, are at
  least the set of people the server makes of them; and the five cases of the
  checkout agree with the balance (`WizCovers`);
* `OneBroadcastCorrect`: `OneBroadcastPerDraft`. `OneAtATime` says that the page
  waits for one call, and not while its checkout is open; `OneBusy`, that of the
  campaigns of one draft one is busy, which is sent or asked to be, and that none of
  the draft in the form was sent. Neither holds after an answer that was not heard
  (`doubt`).

`ListsProofs` proves, from `HistoryAssumption` (the list may be set to no filter,
no term and the first page) where the history is concerned, for any campaigns,
pages, messages and retries under way, and any filters, searches and keys:

* `RetriedCorrect`: `RetriedOncePerFailure`. The strengthening `Spared` counts: the
  retries of a message, the requests that have it in hand (read as failed, not yet
  enqueued) and one more while its failure is in nobody's hand have a failure or an
  overlap each. The server reads what failed when the retry arrives, so what the
  drawer showed does not enter;
* `TickedCorrect`: `TickedAreShown`. The ticks are among the failed rows while the
  drawer loads too (`TicksAmongRows`), when the property says nothing of them;
* `ListMatchesCorrect`: `ListMatchesItsFilter`, by `LastReadIsCurrent`: of the reads
  under way and the rows shown, the one numbered last, if it began with the key
  there was, has the filter and page there are, and the term unless the timer has
  still to read with a newer one;
* `ShowsWhatItSaysCorrect`, `ChartsDrawnCorrect`: `ShowsWhatItSays` and
  `ChartsDrawn`. `Focused` says that, unless two reads raced, those under way are of
  the key there is; `Steady`, that three pages cannot race at all, because one hides
  its dates while it loads and two have one key; `Timed`, that the timer of the
  search over everything holds what is typed;

and, from `BookAssumption` (no segment is the absent one), for any contacts,
segments and calls:

* `RowsOfOpenSegmentCorrect`: `RowsOfOpenSegment`. The rows are judged when they are
  loaded; `RowsFit` says it of the rows while they load too, and `CallFits` of every
  call of the view that is still heard: it is of the segment that is open. A late
  callback of an import belongs to the page and is not among them.

`UpdatesProofs` proves, from `FormsAssumption` (the forms are the nine), for any
number of drafts and posts:

* `DoneOnceCorrect`, `ClosesCorrect`: `DoneOncePerDraft` and `ClosesWhenDone`.
  Neither is inductive. `Behind` says that a draft begun while an earlier one is
  under way is `late`; `Guarded`, that a guarded draft that is not late has one
  post, and its guard up, or was closed by a dialog that begins anew when it is
  opened; `OverWhenDone`, that a draft that was done is out of the form or shown as
  done; `TimedWhenDone`, that a timer runs for a draft that was done, or the draft
  it will close is late. `RulesOK` is what the rules of the nine forms have in
  common, and is needed: a form that lifted its guard when it is closed and kept its
  draft would do it twice;

with no assumption, for any names, addresses and reads:

* `VerifiesTheOneNamedCorrect`: `VerifiesTheOneNamed`, by `NotMisled`: until
  something misleads the page, the request it reads, the one it shows and the one it
  has submitted documents for are that of its address;

and, from `RowAssumption` (the rows are of the six kinds), for any number of
buttons pressed and reads:

* `UpdatesStickCorrect`: `UpdatesStick`, by `Wanting`: the updates under way are one,
  and the server holds what was last asked for when it has applied it, and will
  when it has not. An update that is a reversal (`flip`) is right only because it
  was computed from a row that was not old, which is what `hasty` excuses;
* `RowsCatchUpCorrect`: `RowsCatchUp`, by `Catching` (what the server holds is
  shown, or an answer or a read that will show it is still to come) and `Numbered`
  (reads are numbered as the server took them and answered once).

`ShellProofs` proves, from `SessionAssumption`, for any tabs, accounts and
sign-ins: `SessionTypeCorrect` and `ActsAsShownCorrect`. What makes `ActsAsShown`
inductive is what a tab's unanswered `/auth/me` will show (`Asked`): the account
of the token there is, unless another tab has stored one since the call was sent.
It proves, with no assumption, for any windows and announcements:

* `MenusLeadCorrect`: `MenusLeadWhereTheySay`. The address is always an entry some
  menu of the role has offered (`Followed`), and each router knows, and heads,
  every one of them (`UserMenusLead`, `AdminMenusLead`);
* `DismissedCorrect`: `DismissedStaysDismissed`, by `Remembered`: what was dismissed
  is in localStorage, and in what each window has read, but for what was written
  over and what another window has dismissed since;
* `TourCorrect`: `TourOffersItselfOnce`, by `OfferedOnce`, which says it of a tour
  whose timer still runs too;
* `ToastsCorrect`: `ToastsLast`, by `NamedByClock`: a toast's id is the millisecond
  it was made in, so what takes another away has its birth.

Every safety invariant of the passing runs is stated by one of these theorems, for
every value of the constants; the runs check the same on small instances. Only
model-checked are the liveness properties `NeverForgotten`, `SubmittedIsResolved`
and `SendingMovesOn`: they rest on fairness and so on ENABLED, which are out of
the prover's reach.

## Not modelled

* **Earlier dashboards**: `nexra-dashboard/app.js`, `admin2.js`, `admin3.js`,
  `temp_admin.js` and `components/layout/CommandPalette.js` are loaded by no page of
  the repository, `dist` holds copies, and the list of groups in
  `ContactsPage.js:101-243` is rendered by nothing.
* **Landing, help, documentation and settings pages**: static, or one call of which
  nothing is kept.
* **SMPP client and adapters**: responses after the ten-second timeout find no
  future, and sequence numbers are reused across reconnects
  (`mtn_smpp_client.py:117`); the deployment's gateway is Arkesel's HTTP API, whose
  outcomes `Delivery` has.
* **Rate limiters**: `Delivery` has the outcome, throttled or not. That refused
  attempts count in the window too (`rate_limiter.py:39`) is not a question of
  interleaving: one pipeline runs at a time.
* **What no property of this system can promise**: that a request which timed out
  after the provider took the message (`arkesel.py:30`) was not sent; it is
  refunded, and a retry sends it again.
* **One SQL comparison**: messages that failed at once have `next_retry_at` NULL and
  never satisfy `next_retry_at <= now` (`retry_worker.py:50`); see `Delivery`.
* **The seeded wallet** (`models.py:314`, `scripts/create_superadmin.py`): the
  theorems about `Wallet` assume a wallet created empty.
* **A broadcast that finds no provider** marks as FAILED what it read as PENDING
  (`campaigns.py:339`), which the worker may have sent since: `BroadcastOffline`
  does so; that a sent message is not shown as FAILED holds of neither.
* **Registration, staff, invitations, customers' webhooks, analytics, health**:
  edits of a row in one transaction each, reads, and calls nobody waits for.
* **Commits the database refuses**, but for those of refunds and renewals, whose code
  catches the error and goes on: everywhere else the request ends there, as in a
  crash of that task alone.
* **Data**: amounts of payments, text of messages, what a row displays.
