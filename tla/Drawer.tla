------------------------------ MODULE Drawer ------------------------------
(***************************************************************************)
(* The drawer with the recipients of a campaign, from which failed         *)
(* messages are sent again: one, the ones ticked, or all.  The message     *)
(* history renders it, and renders nothing but a skeleton while it reads   *)
(* its own list (module History): the drawer sees that come and go.        *)
(***************************************************************************)
EXTENDS Naturals, FiniteSets

CONSTANTS
    Campaigns,   \* campaigns that have recipients
    Message,     \* their messages
    MessagesOf,  \* campaign |-> (page of the drawer |-> messages on it)
    MaxDrawerCalls, \* bound: calls under way when the user asks for another
    MaxRetries,  \* bound: retries asked for
    MaxFailures  \* bound: failures of a message

VARIABLES
    outcome,     \* server: message |-> whether it failed, how often it did and was
                 \* enqueued again, and the retries that read a failure which
                 \* another had in hand
    skeleton,    \* the page shows a skeleton, and no drawer
    drawer,      \* the drawer: campaign, page, rows, ticked, buttons at work
    drawerCalls, \* its reads and retries under way
    nRetries     \* retries so far
drawerVars == <<outcome, skeleton, drawer, drawerCalls, nRetries>>

ShutDrawer == [campaign |-> "none", page |-> 0, rows |-> {}, ticked |-> {},
               loading |-> TRUE, busy |-> {}]

MayAskDrawer == Cardinality(drawerCalls) < MaxDrawerCalls

DrawerInit ==
    /\ outcome = [m \in Message |-> [failed |-> TRUE, failures |-> 1, retries |-> 0,
                                   overlaps |-> 0]]
    /\ skeleton = FALSE /\ drawer = ShutDrawer /\ drawerCalls = {} /\ nRetries = 0

PageOf(c, p) == IF p \in DOMAIN MessagesOf[c] THEN MessagesOf[c][p] ELSE {}
\* Rows as the server has them: who is on the page, and which of them failed.
RecipientRows(c, p) == {[id |-> m, failed |-> outcome[m].failed] : m \in PageOf(c, p)}
FailedRows(R) == {r.id : r \in {x \in R : x.failed}}
FetchRecipients(c, p) == [op |-> "read", campaign |-> c, page |-> p, ids |-> {}]

\* Another campaign: back to page 0, nothing ticked; the effect on the page
\* that was left behind reads too.  The rows stay until an answer comes.
OpenDrawer(c) ==
    /\ ~skeleton /\ drawer.campaign = "none" /\ MayAskDrawer
    /\ drawer' = [drawer EXCEPT !.campaign = c, !.page = 0, !.ticked = {}, !.loading = TRUE]
    /\ drawerCalls' = drawerCalls \cup {FetchRecipients(c, drawer.page), FetchRecipients(c, 0)}
    /\ UNCHANGED <<outcome, skeleton, nRetries>>

CloseDrawer ==
    /\ drawer.campaign # "none" /\ ~skeleton
    /\ drawer' = [drawer EXCEPT !.campaign = "none"]
    /\ UNCHANGED <<outcome, skeleton, drawerCalls, nRetries>>

TurnPage(p) ==
    /\ drawer.campaign # "none" /\ ~drawer.loading /\ MayAskDrawer
    /\ p \in DOMAIN MessagesOf[drawer.campaign] /\ p # drawer.page
    /\ drawer' = [drawer EXCEPT !.page = p, !.loading = TRUE]
    /\ drawerCalls' = drawerCalls \cup {FetchRecipients(drawer.campaign, p)}
    /\ UNCHANGED <<outcome, skeleton, nRetries>>

\* Mutant: ticks outlive the rows they were made on.
RecipientsReadKeepsTicks(r) ==
    /\ drawerCalls' = drawerCalls \ {r}
    /\ \/ drawer' = [drawer EXCEPT !.rows = RecipientRows(r.campaign, r.page),
                                   !.loading = FALSE, !.busy = @ \ r.ids]
       \/ drawer' = [drawer EXCEPT !.loading = FALSE, !.busy = @ \ r.ids]
    /\ UNCHANGED <<outcome, skeleton, nRetries>>

\* An answer replaces the rows, of whichever campaign, and unticks everything.
RecipientsRead(r) ==
    /\ drawerCalls' = drawerCalls \ {r}
    /\ \/ drawer' = [drawer EXCEPT !.rows = RecipientRows(r.campaign, r.page),
                                   !.ticked = {}, !.loading = FALSE, !.busy = @ \ r.ids]
       \/ drawer' = [drawer EXCEPT !.loading = FALSE, !.busy = @ \ r.ids]
    /\ UNCHANGED <<outcome, skeleton, nRetries>>

RowsOffered == drawer.campaign # "none" /\ ~drawer.loading

ToggleSelect(m) ==
    /\ RowsOffered /\ m \in FailedRows(drawer.rows)
    /\ drawer' = [drawer EXCEPT !.ticked = IF m \in @ THEN @ \ {m} ELSE @ \cup {m}]
    /\ UNCHANGED <<outcome, skeleton, drawerCalls, nRetries>>

ToggleSelectAllFailed ==
    /\ RowsOffered /\ FailedRows(drawer.rows) # {}
    /\ drawer' = [drawer EXCEPT !.ticked =
         IF FailedRows(drawer.rows) \subseteq @ THEN @ \ FailedRows(drawer.rows)
                                                ELSE @ \cup FailedRows(drawer.rows)]
    /\ UNCHANGED <<outcome, skeleton, drawerCalls, nRetries>>

\* Each retry disables its own button until the rows are read again.
Retry(ids, button) ==
    /\ drawer.campaign # "none" /\ button \cap drawer.busy = {}
    /\ MayAskDrawer /\ nRetries < MaxRetries /\ nRetries' = nRetries + 1
    /\ drawer' = [drawer EXCEPT !.busy = @ \cup button]
    /\ drawerCalls' = drawerCalls \cup
         {[op |-> "retry", n |-> nRetries', campaign |-> drawer.campaign, page |-> drawer.page,
           ids |-> ids, button |-> button, left |-> {}, mounted |-> TRUE]}
    /\ UNCHANGED <<outcome, skeleton>>

RetrySingle(m) ==
    RowsOffered /\ m \in FailedRows(drawer.rows) /\ Retry({m}, {m})
RetrySelected == drawer.ticked # {} /\ Retry(drawer.ticked, {"selected"})
RetryAllFailed ==
    /\ FailedRows(drawer.rows) # {}
    /\ Retry(UNION {MessagesOf[drawer.campaign][p] : p \in DOMAIN MessagesOf[drawer.campaign]},
             {"all"})

ReadCalls == {r \in drawerCalls : r.op = "read"}
RetryCalls == drawerCalls \ ReadCalls
\* The requests that have a message in hand: read as failed, not yet enqueued.
Holders(m) == {r \in RetryCalls : m \in r.left}
PutCall(r, c) == drawerCalls' = (drawerCalls \ {r}) \cup {c}

\* Mutant: the server takes the page's word for what failed.
FoundUnchecked(r) ==
    {m \in r.ids : \E p \in DOMAIN MessagesOf[r.campaign] : m \in PageOf(r.campaign, p)}

\* The messages of the campaign, of those asked for, that the server reads as
\* failed, in a query of its own; a single one that is not is refused.
Found(r) ==
    {m \in r.ids : outcome[m].failed
                     /\ \E p \in DOMAIN MessagesOf[r.campaign] : m \in PageOf(r.campaign, p)}
RetryReads(r) ==
    /\ r.op = "retry" /\ (r.button \subseteq Message => Found(r) # {})
    /\ PutCall(r, [r EXCEPT !.op = "retrying", !.left = Found(r)])
    /\ outcome' = [m \in Message |-> IF m \in Found(r) /\ Holders(m) # {}
                   THEN [outcome[m] EXCEPT !.overlaps = @ + 1] ELSE outcome[m]]
    /\ UNCHANGED <<skeleton, drawer, nRetries>>

\* It then writes PENDING, whatever the row is by now, and enqueues: those that
\* were ticked with one commit, all that failed one commit after the other.
RetryEnqueues(r, S) ==
    /\ r.op = "retrying" /\ S # {} /\ (r.button = {"selected"} => S = r.left)
    /\ PutCall(r, [r EXCEPT !.left = @ \ S])
    /\ outcome' = [m \in Message |-> IF m \in S
                   THEN [outcome[m] EXCEPT !.failed = FALSE, !.retries = @ + 1] ELSE outcome[m]]
    /\ UNCHANGED <<skeleton, drawer, nRetries>>

\* The page then reads the rows of the campaign and page it asked from.
RetryDone(r) ==
    /\ r.op = "retrying" /\ r.left = {}
    /\ drawerCalls' = (drawerCalls \ {r}) \cup
         IF r.mounted THEN {[FetchRecipients(r.campaign, r.page) EXCEPT !.ids = r.button]} ELSE {}
    /\ UNCHANGED <<outcome, skeleton, drawer, nRetries>>
\* An error, before it, halfway or after, offers the button again.
RetryFails(r) ==
    /\ drawerCalls' = drawerCalls \ {r}
    /\ drawer' = IF r.mounted THEN [drawer EXCEPT !.busy = @ \ r.button] ELSE drawer
    /\ UNCHANGED <<outcome, skeleton, nRetries>>

\* The message that was enqueued again fails again.
FailsAgain(m) ==
    /\ ~outcome[m].failed /\ outcome[m].failures < MaxFailures
    /\ outcome' = [outcome EXCEPT ![m].failed = TRUE, ![m].failures = @ + 1]
    /\ UNCHANGED <<skeleton, drawer, drawerCalls, nRetries>>

\* What the drawer held is gone when the skeleton comes; it starts anew, for
\* the same campaign, when the list is back.
SkeletonShown ==
    /\ ~skeleton /\ skeleton' = TRUE
    /\ drawer' = [ShutDrawer EXCEPT !.campaign = drawer.campaign]
    /\ drawerCalls' = {[r EXCEPT !.mounted = FALSE] : r \in RetryCalls}
    /\ UNCHANGED <<outcome, nRetries>>
ListBack ==
    /\ skeleton /\ skeleton' = FALSE
    /\ drawerCalls' = drawerCalls \cup
         IF drawer.campaign = "none" THEN {} ELSE {FetchRecipients(drawer.campaign, 0)}
    /\ UNCHANGED <<outcome, drawer, nRetries>>

DrawerNext ==
    \/ \E c \in Campaigns : OpenDrawer(c)
    \/ CloseDrawer \/ ToggleSelectAllFailed \/ RetrySelected \/ RetryAllFailed
    \/ SkeletonShown \/ ListBack
    \/ \E p \in {0, 1} : TurnPage(p)
    \/ \E r \in ReadCalls : RecipientsRead(r)
    \/ \E r \in RetryCalls : \/ RetryReads(r) \/ RetryDone(r) \/ RetryFails(r)
                           \/ RetryEnqueues(r, r.left)
                           \/ \E m \in r.left : RetryEnqueues(r, {m})
    \/ \E m \in Message : ToggleSelect(m) \/ RetrySingle(m) \/ FailsAgain(m)

DrawerSpec == DrawerInit /\ [][DrawerNext]_drawerVars

----------------------------------------------------------------------------
(* Retry Selected asks for messages the drawer shows, as failed: ticks do   *)
(* not outlive the rows they were made on, when the page is turned, another *)
(* campaign is opened, or a late answer replaces the rows.                  *)
TickedAreShown == RowsOffered => drawer.ticked \subseteq FailedRows(drawer.rows)

(* However the retry buttons, stale rows, late answers and the commits of   *)
(* requests combine, a message is enqueued again at most once for each time *)
(* that it failed, and once more for each request that read its failure     *)
(* while another had it in hand: the server tests and writes in two steps.  *)
RetriedOncePerFailure ==
    \A m \in Message : outcome[m].retries <= outcome[m].failures + outcome[m].overlaps
=============================================================================
