------------------------------- MODULE Pages -------------------------------
(***************************************************************************)
(* The pages that show what the server answered for a key the user sets: a *)
(* range of dates, a tab and its page, a search.  One of them is mounted;  *)
(* its reads are answered in any order, and the answer of a read that the  *)
(* page has left behind is shown all the same.                             *)
(***************************************************************************)
EXTENDS Naturals

CONSTANTS
    PageKeys,      \* page |-> keys <<what, number>> the user may set
    OpensWith,     \* page |-> the key it opens with
    MaxPageReads,  \* bound: reads of one key under way
    MaxActs        \* bound: changes asked for

VARIABLES
    list,      \* the page: its key, the key its rows were read for, its dialog
    listReads, \* key |-> reads under way
    acts,      \* changes under way: the endpoint, the kind of row, the closure's key
    erased,    \* server: the [endpoint, row] deleted
    nActs,
    raced,     \* history: a read of another key is, or was, under way
    failed     \* history: the last read failed
pageVars == <<list, listReads, acts, erased, nActs, raced, failed>>

NoRows == <<"none", 0>>
AllKeys == UNION {PageKeys[p] : p \in DOMAIN PageKeys}
ByHand == {"palette", "search"}  \* those that read nothing when they are opened
NoDialog == [open |-> FALSE]

PageMounted(p) ==
    [page |-> p, key |-> OpensWith[p], shown |-> NoRows, loading |-> p \notin ByHand,
     drawn |-> FALSE, error |-> FALSE, open |-> p # "palette", timer |-> NoRows,
     dialog |-> NoDialog]

PageInit ==
    /\ list \in {PageMounted(p) : p \in DOMAIN PageKeys}
    /\ listReads = [k \in AllKeys |-> IF list.loading /\ k = list.key THEN 1 ELSE 0]
    /\ acts = {} /\ erased = {} /\ nActs = 0 /\ raced = FALSE /\ failed = FALSE

NoAct == UNCHANGED <<acts, erased, nActs>>
OtherReads(k) == \E q \in AllKeys : q # k /\ listReads[q] > 0

\* A read for k, which the page is set to or a closure still holds.
Begin(k) ==
    /\ listReads[k] < MaxPageReads /\ listReads' = [listReads EXCEPT ![k] = @ + 1]
    /\ raced' = (OtherReads(k) \/ k # list'.key \/ (raced /\ listReads[k] > 0))
    /\ UNCHANGED failed
Loads(k) == [list EXCEPT !.key = k, !.loading = TRUE, !.error = FALSE, !.drawn = FALSE]
ReadFor(k) == list' = Loads(k) /\ Begin(k) /\ NoAct

----------------------------------------------------------------------------
(* Setting the key.                                                         *)

\* The user's dashboard and the business overview are replaced by a
\* placeholder while they load, with the control of the dates.
DashboardShown == list.page = "home" /\ ~list.loading
OverviewShown == list.page = "overview" /\ ~list.loading
SetDateRange(k) == DashboardShown /\ k # list.key /\ ReadFor(k)
HandleSelect(k) == OverviewShown /\ ReadFor(k)

\* The filters and tabs of the others stay.
SetTimeFilter(k) == list.page = "transactions" /\ k # list.key /\ ReadFor(k)
\* Mutant: the effect that reads does not depend on the tab.
SetTabOnly(k) ==
    /\ list.page = "approvals" /\ k # list.key /\ list' = [list EXCEPT !.key = k]
    /\ UNCHANGED <<listReads, raced, failed>> /\ NoAct
SetTab(k) == list.page = "approvals" /\ k # list.key /\ ReadFor(k)
OpenTab(k) ==
    list.page = "management" /\ k[1] # list.key[1] /\ k[2] = 0 /\ ReadFor(k)
HandlePageChange(k) ==
    /\ list.page = "management" /\ ~list.loading
    /\ k[1] = list.key[1] /\ k # list.key /\ ReadFor(k)

\* The trail of the administrators' actions is read once, and filtered by the
\* page itself.
AuditShown == list.page = "audit" /\ ~list.loading
FilterLogs(k) ==
    /\ AuditShown /\ list' = [list EXCEPT !.key = k, !.shown = IF @ = NoRows THEN @ ELSE k]
    /\ UNCHANGED <<listReads, raced, failed>> /\ NoAct

\* The search over everything: what is typed is read for 300 ms later, unless
\* it has changed by then; nothing is read for when it is empty.
QueryTyped(k) ==
    [list EXCEPT !.key = k, !.loading = k # NoRows, !.timer = k,
                 !.shown = IF k = NoRows THEN NoRows ELSE @]
QueryChanges(k) == /\ raced' = (OtherReads(k) \/ (raced /\ k # NoRows /\ listReads[k] > 0))
                   /\ UNCHANGED <<listReads, failed>> /\ NoAct
TypeQuery(k) ==
    /\ list.page = "palette" /\ list.open /\ k # list.key
    /\ list' = QueryTyped(k) /\ QueryChanges(k)
OpenPalette ==
    /\ list.page = "palette" /\ ~list.open /\ list' = [list EXCEPT !.open = TRUE]
    /\ UNCHANGED <<listReads, raced, failed>> /\ NoAct
ClosePalette ==
    /\ list.page = "palette" /\ list.open
    /\ list' = [QueryTyped(NoRows) EXCEPT !.open = FALSE] /\ QueryChanges(NoRows)
FetchResults ==
    /\ list.timer # NoRows /\ list' = [list EXCEPT !.timer = NoRows]
    /\ listReads[list.timer] < MaxPageReads
    /\ listReads' = [listReads EXCEPT ![list.timer] = @ + 1]
    /\ raced' = (raced \/ OtherReads(list.timer)) /\ UNCHANGED failed /\ NoAct

\* The administrators' search reads when it is submitted, one at a time.
TypeSearch(k) ==
    /\ list.page = "search" /\ list' = [list EXCEPT !.key = k]
    /\ UNCHANGED <<listReads, raced, failed>> /\ NoAct
HandleSearch ==
    /\ list.page = "search" /\ ~list.loading /\ list.key # NoRows /\ ReadFor(list.key)

\* Reading again: an update's event, or a button.
HandlePulse == list.page = "home" /\ ReadFor(list.key)
FetchTransactions == list.page = "transactions" /\ ReadFor(list.key)
FetchBugs == list.page = "bugs" /\ ReadFor(list.key)
FetchHealth ==
    /\ list.page = "health" /\ ~list.loading /\ UNCHANGED list /\ Begin(list.key) /\ NoAct

----------------------------------------------------------------------------
(* Answers.                                                                 *)
Ends(k) == /\ listReads[k] > 0 /\ listReads' = [listReads EXCEPT ![k] = @ - 1]
           /\ UNCHANGED raced /\ NoAct
\* Mutant: the charts are drawn when the page is mounted.
ListAnsweredOnce(k) ==
    /\ Ends(k) /\ failed' = FALSE
    /\ list' = [list EXCEPT !.shown = IF list.page = "audit" THEN list.key ELSE k,
                            !.loading = FALSE, !.drawn = list.page = "home" /\ list.shown = NoRows]
ListAnswered(k) ==
    /\ Ends(k) /\ failed' = FALSE
    /\ list' = [list EXCEPT !.shown = IF list.page = "audit" THEN list.key ELSE k,
                            !.loading = FALSE, !.drawn = list.page = "home"]
ListFails(k) ==
    /\ Ends(k) /\ failed' = TRUE
    /\ list' = [list EXCEPT !.loading = FALSE, !.error = list.page = "transactions"]

----------------------------------------------------------------------------
(* Changing a row.                                                          *)

\* A row is changed or deleted at the address of the tab that is open.
RowsShown ==
    /\ list.page \in {"approvals", "management", "bugs"}
    /\ ~list.loading /\ list.shown # NoRows
ActOf(kind) == [kind |-> kind, endpoint |-> list.key[1], row |-> list.shown[1], key |-> list.key]
AsksTo(a) == nActs < MaxActs /\ nActs' = nActs + 1 /\ acts' = acts \cup {a}
HandleAction ==
    /\ RowsShown /\ AsksTo(ActOf("change"))
    /\ UNCHANGED <<list, listReads, erased, raced, failed>>
HandleDelete ==
    /\ RowsShown /\ list.page = "management" /\ ~list.dialog.open
    /\ list' = [list EXCEPT !.dialog = [open |-> TRUE, act |-> ActOf("delete")]]
    /\ UNCHANGED <<listReads, raced, failed>> /\ NoAct
ConfirmDelete ==
    /\ list.dialog.open /\ AsksTo(list.dialog.act)
    /\ UNCHANGED <<list, listReads, erased, raced, failed>>
CloseDialog ==
    /\ list.dialog.open /\ list' = [list EXCEPT !.dialog = NoDialog]
    /\ UNCHANGED <<listReads, raced, failed>> /\ NoAct

Erases(a) == erased' = IF a.kind = "delete"
                       THEN erased \cup {[endpoint |-> a.endpoint, row |-> a.row]} ELSE erased
\* What was asked is done, and the page reads again, for the key it had when
\* the button was pressed; or the answer is an error, whatever was done.
ActDone(a) ==
    /\ acts' = acts \ {a} /\ Erases(a) /\ UNCHANGED nActs
    /\ list' = [list EXCEPT !.loading = TRUE,
                            !.dialog = IF a.kind = "delete" THEN NoDialog ELSE @]
    /\ Begin(a.key)
ActFails(a) ==
    /\ acts' = acts \ {a} /\ (Erases(a) \/ UNCHANGED erased)
    /\ UNCHANGED <<list, listReads, nActs, raced, failed>>

PageNext ==
    \/ OpenPalette \/ ClosePalette \/ FetchResults \/ HandleSearch
    \/ HandlePulse \/ FetchTransactions \/ FetchBugs \/ FetchHealth
    \/ HandleAction \/ HandleDelete \/ ConfirmDelete \/ CloseDialog
    \/ \E k \in PageKeys[list.page] :
         \/ SetDateRange(k) \/ HandleSelect(k) \/ SetTimeFilter(k) \/ SetTab(k)
         \/ OpenTab(k) \/ HandlePageChange(k) \/ FilterLogs(k)
         \/ TypeQuery(k) \/ TypeSearch(k)
    \/ \E k \in AllKeys : ListAnswered(k) \/ ListFails(k)
    \/ \E a \in acts : ActDone(a) \/ ActFails(a)
PageSpec == PageInit /\ [][PageNext]_pageVars

----------------------------------------------------------------------------
(* A page that shows rows shows those of the range, tab, page or search it  *)
(* is set to, unless its last read failed, or reads for two keys were under *)
(* way at once: the pages that hide their controls while they load need     *)
(* that excuse only when an event makes them read again.  (The results of   *)
(* the administrators' search are those of what was searched for.)          *)
ShowsWhatItSays ==
    list.shown # NoRows /\ ~list.loading /\ ~list.error /\ list.page # "search" =>
        \/ list.shown = list.key \/ failed
        \/ raced /\ list.page \notin {"overview", "audit", "health", "bugs"}

(* The dashboard's charts are drawn for the figures it shows, although its  *)
(* canvases go and come with every read; only after a read that failed are  *)
(* they left blank.                                                         *)
ChartsDrawn == list.page = "home" /\ ~list.loading /\ list.shown # NoRows => list.drawn \/ failed

(* "Are you absolutely sure you want to delete ${name}?": what is deleted   *)
(* is what the dialog named (PlatformManagementPage.js).                    *)
DeletesWhatItNames == \A e \in erased : e.endpoint = e.row
=============================================================================
