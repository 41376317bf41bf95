-------------------------------- MODULE Rows --------------------------------
(***************************************************************************)
(* Changing what a list shows: the administrators' buttons on a member of  *)
(* staff, an account, a gateway, a bug report and a request for a sender    *)
(* ID, and the user's notifications.  What a button sends is computed from  *)
(* the row as it was read; the server takes it, and the list is read again. *)
(***************************************************************************)
EXTENDS Naturals

CONSTANTS
    Row,         \* the kinds of rows
    MaxClicks,   \* bound: buttons pressed
    MaxRowReads  \* bound: reads of the list

ASSUME RowAssumption ==
    Row \subseteq {"permission", "account", "gateway", "bug", "request", "notification"}

VARIABLES
    site,    \* server: the row's kind, field |-> value
    row,     \* the row shown: values, the read they are of, the request's drawer
    updates, \* updates under way: what they set, and whether they are applied
    rowReads,\* reads under way, and what the server read for them
    clicks,  \* numbers of buttons pressed and of reads
    wanted,  \* history: field |-> what the user last asked it to be, or "any"
    hasty,   \* history: a button was pressed while an update or a change was unseen
    blind    \* history: a change the page cannot know of, or an answer overtaken
rowVars == <<site, row, updates, rowReads, clicks, wanted, hasty, blind>>

Switch == {"on", "off"}
Other(v) == IF v = "on" THEN "off" ELSE "on"
FirstOf(kind) ==
    CASE kind = "permission" -> [manage_sender_ids |-> "off", manage_platform |-> "off"]
      [] kind \in {"account", "gateway"} -> [is_active |-> "on"]
      [] kind = "bug" -> [status |-> "open"]
      [] kind = "request" -> [status |-> "pending"]
      [] kind = "notification" -> [first |-> "unread", second |-> "unread"]
Field(kind) == DOMAIN FirstOf(kind)
ValuesOf(kind) ==
    CASE kind \in {"permission", "account", "gateway"} -> Switch
      [] kind = "bug" -> {"open", "in_progress", "resolved", "closed"}
      [] kind = "request" -> {"pending", "need_verification", "rejected", "approved"}
      [] kind = "notification" -> {"unread", "read"}

RowInit ==
    /\ site \in {[kind |-> k, is |-> FirstOf(k)] : k \in Row}
    /\ row = [is |-> site.is, of |-> 0, drawer |-> FALSE]
    /\ updates = {} /\ rowReads = {} /\ clicks = [buttons |-> 0, reads |-> 0, taken |-> 0]
    /\ wanted = [f \in Field(site.kind) |-> "any"] /\ hasty = FALSE /\ blind = FALSE

----------------------------------------------------------------------------
(* Buttons.                                                                 *)
Pending == updates # {} \/ row.is # site.is
Clicks(sets, asked) ==
    /\ clicks.buttons < MaxClicks /\ clicks' = [clicks EXCEPT !.buttons = @ + 1]
    /\ updates' = updates \cup {[n |-> clicks'.buttons, sets |-> sets, done |-> FALSE]}
    /\ wanted' = [f \in DOMAIN wanted |-> IF f \in DOMAIN asked THEN asked[f] ELSE wanted[f]]
    /\ hasty' = (hasty \/ Pending)
    /\ UNCHANGED <<site, row, rowReads, blind>>
Only(f, v) == [g \in {f} |-> v]

\* Mutant: only the permission pressed is sent on; the others are off.
HandleTogglePermissionAlone(f) ==
    /\ site.kind = "permission"
    /\ Clicks([g \in DOMAIN row.is |-> IF g = f THEN Other(row.is[f]) ELSE "off"],
              Only(f, Other(row.is[f])))

\* The whole map of permissions is sent, with the one pressed changed.
HandleTogglePermission(f) ==
    /\ site.kind = "permission"
    /\ Clicks([row.is EXCEPT ![f] = Other(@)], Only(f, Other(row.is[f])))
HandleToggleStatus ==
    LET v == Other(row.is.is_active)
    IN site.kind = "account" /\ Clicks([is_active |-> v], [is_active |-> v])
\* The server itself changes a gateway to what it is not.
HandleToggleGateway ==
    /\ site.kind = "gateway"
    /\ Clicks([is_active |-> "flip"], [is_active |-> Other(row.is.is_active)])

BugOffered == [open |-> {"resolved", "in_progress", "closed"},
               in_progress |-> {"resolved", "closed"}, resolved |-> {"closed"}, closed |-> {}]
HandleUpdateStatus(v) ==
    /\ site.kind = "bug" /\ v \in BugOffered[row.is.status]
    /\ Clicks(Only("status", v), Only("status", v))

\* A request is decided on its card while that is pending, or in its drawer.
DecisionOffered == row.is.status = "pending" \/ row.drawer
DecideRequest(v) ==
    /\ site.kind = "request" /\ DecisionOffered /\ v # "pending"
    /\ Clicks(Only("status", v), Only("status", v))
SetDetailRequest(open) ==
    /\ site.kind = "request" /\ row.drawer # open /\ row' = [row EXCEPT !.drawer = open]
    /\ UNCHANGED <<site, updates, rowReads, clicks, wanted, hasty, blind>>

HandleMarkRead(f) ==
    /\ site.kind = "notification" /\ row.is[f] = "unread"
    /\ Clicks(Only(f, "read"), Only(f, "read"))
HandleMarkAllRead ==
    LET all == [f \in Field("notification") |-> "read"]
    IN site.kind = "notification" /\ Clicks(all, all)

----------------------------------------------------------------------------
(* The server, and the list.                                                *)
After(sets) == [f \in DOMAIN site.is |->
                  IF f \notin DOMAIN sets THEN site.is[f]
                  ELSE IF sets[f] = "flip" THEN Other(site.is[f]) ELSE sets[f]]
Applied(u) ==
    /\ ~u.done /\ site' = [site EXCEPT !.is = After(u.sets)]
    /\ updates' = (updates \ {u}) \cup {[u EXCEPT !.done = TRUE]}
    /\ UNCHANGED <<row, rowReads, clicks, wanted, hasty, blind>>

\* The number a read gets is the order in which the server read for it.
ReadRows == /\ clicks.reads < MaxRowReads /\ clicks' = [clicks EXCEPT !.reads = @ + 1]
            /\ rowReads' = rowReads \cup {[id |-> clicks'.reads, n |-> 0, is |-> site.is]}
\* Mutant: an update is not followed by a read.
UpdateAnsweredQuietly(u) ==
    /\ u.done /\ updates' = updates \ {u}
    /\ row' = [row EXCEPT !.drawer = FALSE]
    /\ UNCHANGED <<site, rowReads, clicks, wanted, hasty, blind>>
UpdateAnswered(u) ==
    /\ u.done /\ updates' = updates \ {u} /\ ReadRows
    /\ row' = [row EXCEPT !.drawer = FALSE]
    /\ UNCHANGED <<site, wanted, hasty, blind>>
UpdateFails(u) ==
    /\ updates' = updates \ {u} /\ blind' = (blind \/ u.done)
    /\ wanted' = [f \in DOMAIN wanted |-> "any"]
    /\ UNCHANGED <<site, row, rowReads, clicks, hasty>>

RefreshRows ==
    /\ site.kind \in {"gateway", "bug", "notification"} /\ ReadRows
    /\ UNCHANGED <<site, row, updates, wanted, hasty, blind>>
ServerReads(r) ==
    /\ r.n = 0 /\ clicks' = [clicks EXCEPT !.taken = @ + 1]
    /\ rowReads' = (rowReads \ {r}) \cup {[r EXCEPT !.n = clicks'.taken, !.is = site.is]}
    /\ UNCHANGED <<site, row, updates, wanted, hasty, blind>>
RowsRead(r) ==
    /\ r.n > 0 /\ rowReads' = rowReads \ {r}
    /\ row' = [row EXCEPT !.is = r.is, !.of = r.n]
    /\ blind' = (blind \/ r.n < row.of)
    /\ UNCHANGED <<site, updates, clicks, wanted, hasty>>
RowsReadFails(r) ==
    /\ rowReads' = rowReads \ {r} /\ blind' = TRUE
    /\ UNCHANGED <<site, row, updates, clicks, wanted, hasty>>

\* Another member of staff, or whatever else writes the row.
SomeoneElse(f, v) ==
    /\ ~blind /\ v # site.is[f] /\ site' = [site EXCEPT !.is[f] = v] /\ blind' = TRUE
    /\ wanted' = [wanted EXCEPT ![f] = "any"] /\ hasty' = (hasty \/ updates # {})
    /\ UNCHANGED <<row, updates, rowReads, clicks>>

RowNext ==
    \/ HandleToggleStatus \/ HandleToggleGateway \/ HandleMarkAllRead \/ RefreshRows
    \/ \E open \in BOOLEAN : SetDetailRequest(open)
    \/ \E f \in Field(site.kind) :
         \/ HandleTogglePermission(f) \/ HandleMarkRead(f)
         \/ \E v \in ValuesOf(site.kind) : SomeoneElse(f, v)
    \/ \E v \in ValuesOf(site.kind) : HandleUpdateStatus(v) \/ DecideRequest(v)
    \/ \E u \in updates : Applied(u) \/ UpdateAnswered(u) \/ UpdateFails(u)
    \/ \E r \in rowReads : ServerReads(r) \/ RowsRead(r) \/ RowsReadFails(r)
RowSpec == RowInit /\ [][RowNext]_rowVars

----------------------------------------------------------------------------
(* What a button was last pressed for is what the server holds once its     *)
(* answer is there: a permission is not taken back by the button of another *)
(* one, a gateway is not enabled by its button "Disable"; unless a button   *)
(* was pressed on a row that an update under way, or a change not yet read, *)
(* had made old.                                                            *)
UpdatesStick ==
    updates = {} /\ ~hasty =>
        \A f \in DOMAIN wanted : wanted[f] \in {"any", site.is[f]}

(* A list at rest shows what the server holds, unless someone else changed  *)
(* it, an answer was lost or a later read was answered first.               *)
RowsCatchUp == updates = {} /\ rowReads = {} /\ ~blind => row.is = site.is
=============================================================================
