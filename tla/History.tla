------------------------------ MODULE History ------------------------------
(***************************************************************************)
(* The dashboard's message history: the list of campaigns behind a filter, *)
(* a search and a pager, which changes of these, the search's timer, the   *)
(* server's updates, an interval and a deletion read again.  Each of them   *)
(* reads with the filter, term and page that its own closure holds.        *)
(***************************************************************************)
EXTENDS Naturals

CONSTANTS
    Filters,     \* what the filter buttons select
    Terms,       \* what may be searched for
    PageNumber,       \* pages of the list
    MaxReads     \* bound: reads of the list

Key == [filter : Filters, term : Terms, page : PageNumber]
FirstKey == [filter |-> "all", term |-> "", page |-> 0]
ASSUME HistoryAssumption == FirstKey \in Key /\ MaxReads \in Nat

VARIABLES
    key,       \* filter, search term and page the list is set to
    rows,      \* the list shown: the key it was read with, and whether that was
               \* the list's when the read began
    listing,   \* the list is replaced by a skeleton
    reads,     \* reads of the list under way
    nReads,    \* reads of the list so far: their order
    timer,     \* the search's debounce: the keys its closures hold
    closures,  \* the key the update listener and the interval read with
    deletes    \* deletions under way: the key each reads with when it is done
histVars == <<key, rows, listing, reads, nReads, timer, closures, deletes>>

\* The first render reads the list, and starts the search's timer too.
HistInit ==
    /\ key = FirstKey /\ listing = TRUE
    /\ rows = [key |-> FirstKey, held |-> "older", n |-> 0]
    /\ reads = {[key |-> FirstKey, held |-> "current", n |-> 1]} /\ nReads = 1
    /\ timer = {FirstKey}
    /\ closures = [update |-> FirstKey, interval |-> FirstKey] /\ deletes = {}

\* A read is judged by the key the list is set to when it begins.
Held(k) == IF k = key' THEN "current" ELSE "older"
Reads(k) == /\ nReads < MaxReads /\ nReads' = nReads + 1
            /\ reads' = reads \cup {[key |-> k, held |-> Held(k), n |-> nReads + 1]}
            /\ listing' = TRUE
ListOffered == ~listing

\* Mutant: the effect forgets the page.
SetKeyFilterOnly(k) ==
    /\ ListOffered /\ key' = k
    /\ IF k.filter # key.filter
       THEN Reads(k) ELSE UNCHANGED <<reads, nReads, listing>>
    /\ UNCHANGED <<rows, timer, closures, deletes>>

\* The effect on [filter, page] reads the list when either changed.
SetKey(k) ==
    /\ ListOffered /\ key' = k
    /\ IF k.filter # key.filter \/ k.page # key.page
       THEN Reads(k) ELSE UNCHANGED <<reads, nReads, listing>>
    /\ UNCHANGED <<rows, timer, closures, deletes>>

SetFilter(f) == SetKey([key EXCEPT !.filter = f, !.page = 0])
SetPage(p) == p # key.page /\ SetKey([key EXCEPT !.page = p])

\* Typing starts the timer again; it holds the filter and page of this render.
Type(t) ==
    /\ ListOffered /\ t # key.term
    /\ key' = [key EXCEPT !.term = t] /\ timer' = {[key EXCEPT !.term = t]}
    /\ UNCHANGED <<rows, listing, reads, nReads, closures, deletes>>

ClearFilters ==
    /\ ListOffered /\ key.term # ""
    /\ key' = [key EXCEPT !.filter = "all", !.term = ""]
    /\ timer' = {[key EXCEPT !.term = ""]}
    /\ IF key.filter # "all" THEN Reads(key')
                             ELSE UNCHANGED <<reads, nReads, listing>>
    /\ UNCHANGED <<rows, closures, deletes>>

\* When it fires it reads with what it holds, and goes back to page 0, which
\* reads a second time when the page was another.
TimerFires ==
    \E k \in timer :
       /\ timer' = {} /\ listing' = TRUE
       /\ key' = [key EXCEPT !.page = 0]
       /\ nReads + 2 <= MaxReads
       /\ LET first  == [key |-> k, held |-> Held(k), n |-> nReads + 1]
              second == [key |-> key', held |-> "current", n |-> nReads + 2]
          IN IF key.page # 0 THEN reads' = reads \cup {first, second} /\ nReads' = nReads + 2
                             ELSE reads' = reads \cup {first} /\ nReads' = nReads + 1
       /\ UNCHANGED <<rows, closures, deletes>>

\* An update from the server, or the interval that runs while a campaign is
\* active: each reads with the key its own effect captured.
Refresh(by) ==
    /\ UNCHANGED <<key, rows, timer, closures, deletes>>
    /\ Reads(closures[by])

\* The list shown is new: the interval's effect on [campaigns] captures the key.
ListRead(r) ==
    /\ reads' = reads \ {r} /\ listing' = FALSE
    /\ \/ rows' = r /\ closures' = [closures EXCEPT !.interval = key]
       \/ UNCHANGED <<rows, closures>>              \* it failed
    /\ UNCHANGED <<key, nReads, timer, deletes>>

\* Expanding a campaign reads its statistics, and the listener's effect on
\* [expandedId] captures the key.
Expand ==
    /\ ListOffered /\ closures.update # key
    /\ closures' = [closures EXCEPT !.update = key]
    /\ UNCHANGED <<key, rows, listing, reads, nReads, timer, deletes>>

\* A deletion, one at a time, is awaited with the key of the render in which
\* it was confirmed, whatever the list is set to meanwhile: when it is done the
\* list is read with that key, and when it failed it is not read.
DeleteCampaign ==
    /\ ListOffered /\ rows.n > 0 /\ deletes = {} /\ deletes' = {key}
    /\ UNCHANGED <<key, rows, listing, reads, nReads, timer, closures>>
Deleted(k) ==
    /\ deletes' = {} /\ UNCHANGED <<key, rows, timer, closures>>
    /\ Reads(k)
DeleteFails ==
    /\ deletes # {} /\ deletes' = {}
    /\ UNCHANGED <<key, rows, listing, reads, nReads, timer, closures>>

HistNext ==
    \/ \E f \in Filters : SetFilter(f)
    \/ \E p \in PageNumber : SetPage(p)
    \/ \E t \in Terms : Type(t)
    \/ ClearFilters \/ TimerFires \/ Expand \/ DeleteCampaign \/ DeleteFails
    \/ \E k \in deletes : Deleted(k)
    \/ \E by \in {"update", "interval"} : Refresh(by)
    \/ \E r \in reads : ListRead(r)
HistSpec == HistInit /\ [][HistNext]_histVars

(* With no read under way the list shows what its filter, search and page  *)
(* say, if the answer shown is that of the read begun last, and that one    *)
(* held the key the list was set to then: no change of the filter, the term *)
(* or the page goes without a read that follows it.  Nothing is said of a   *)
(* list whose last read held an older key already when it began, as those   *)
(* of a timer, an update, an interval or a deletion may, nor of one that an *)
(* overtaken answer replaced: the code shows those under the wrong key.     *)
ListMatchesItsFilter ==
    (reads = {} /\ timer = {} /\ ~listing /\ rows.held = "current" /\ rows.n = nReads)
      => rows.key = key
=============================================================================
