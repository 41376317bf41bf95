----------------------------- MODULE MCFrontend -----------------------------
(***************************************************************************)
(* The two applications of the dashboard for TLC.  They show one thing at a *)
(* time, and share nothing between their pages but the server: a behaviour  *)
(* is one part's, chosen in the initial state, and the others stand still.  *)
(***************************************************************************)
EXTENDS ContactBook, Wizard, History, Drawer, Outbox, Payments, SenderIds,
        Session, Pages, Forms, Rows, Shell, TLC

CONSTANTS Area,                     \* the parts whose behaviours are checked
          p1, p2, m1, m2, c1, c2

VARIABLE area
allVars == <<area, bookVars, wizVars, histVars, drawerVars, outVars, payVars, senderVars,
             sessionVars, pageVars, formVars, rowVars, shellVars>>

MCNumberOf == [c \in Contact |-> 1]
MCGroupMembers == [g \in Group |-> {p1, p2}]
MCWallets == {[payg_org |-> TRUE, sub |-> 0, payg |-> 3],
              [payg_org |-> FALSE, sub |-> 1, payg |-> 1]}
MCDrafts == {[step |-> 4, len |-> 161, scheduled |-> FALSE,
              contacts |-> {}, groups |-> Group, raw |-> {}]}
MCMessagesOf == [c \in Campaigns |-> IF c = "a" THEN 0 :> {m1} @@ 1 :> {m2} ELSE 0 :> {}]
MCFirstCards == {<<>>, c1 :> "scheduled", c1 :> "draft"}
Keyed(names) == {<<n, 0>> : n \in names}
MCPageKeys ==
    [home         |-> Keyed({"7d", "all"}),
     overview     |-> Keyed({"all", "week"}),
     transactions |-> Keyed({"month", "week"}),
     approvals    |-> Keyed({"pending", "history"}),
     management   |-> {<<"users", 0>>, <<"users", 1>>, <<"orgs", 0>>},
     audit        |-> Keyed({"any", "login"}),
     palette      |-> {NoRows} \cup Keyed({"ann", "bob"}),
     search       |-> {NoRows} \cup Keyed({"ann", "bob"}),
     bugs         |-> Keyed({"bugs"}),
     health       |-> Keyed({"health"})]
MCOpensWith ==
    [home |-> <<"7d", 0>>, overview |-> <<"all", 0>>, transactions |-> <<"month", 0>>,
     approvals |-> <<"pending", 0>>, management |-> <<"users", 0>>, audit |-> <<"any", 0>>,
     palette |-> NoRows, search |-> NoRows, bugs |-> <<"bugs", 0>>, health |-> <<"health", 0>>]

\* What a part may start with in several ways is fixed while others move.
Fixed(parts, choice) == area \in parts \/ choice
Init ==
    /\ area \in Area
    /\ BookInit /\ HistInit /\ DrawerInit /\ PayInit
    /\ WizInit    /\ Fixed({"wizard"}, stored = EmptyForm)
    /\ OutInit    /\ IF area = "cards" THEN board # <<>> ELSE board = <<>>
    /\ SenderInit /\ Fixed({"senders"}, ~requests.super)
    /\ SessionInit /\ Fixed({"session"}, \A t \in Tab : tabs[t].app = "user")
    /\ PageInit   /\ Fixed({"pages"}, list.page = "home")
    /\ FormInit   /\ Fixed({"forms"}, form.rules = RulesOf("report"))
    /\ RowInit    /\ Fixed({"rows"}, site.kind = "account")
    /\ ShellInit  /\ Fixed({"route"}, route.role = "user")

Part(parts, next, vars) == IF area \in parts THEN next ELSE UNCHANGED vars
\* The wizard with every kind of recipient, opened once; and opened again, to
\* edit a campaign or not, with contacts only, two campaigns and no schedule
\* (the list of segments, of which none is chosen there, never comes).
WizMoves ==
    /\ WizNext
    /\ area = "wizard" => mounts' <= 1
    /\ area = "reopened" => /\ wiz'.form.groups \cup wiz'.form.raw = {} /\ ~wiz'.form.scheduled
                            /\ Len(camps') <= 2 /\ wiz'.segments # "read"
\* The drawer with one retry; and with two retries, of its first page.
DrawerMoves ==
    /\ DrawerNext
    /\ area = "drawer" => nRetries' <= 1
    /\ area = "retries" => drawer'.page = 0 /\ drawer'.campaign # "b"
\* Two payments, registered once each; and one, registered again and again.
PayMoves ==
    /\ PayNext
    /\ area = "payments" => ~\E r \in Reference : RegisterAgain(r)
    /\ area = "renewals" => Cardinality(minted') <= 1
\* The cards without the form of quick send, and the form without checkouts.
OutMoves ==
    /\ OutNext
    /\ area = "cards" => ~quick'.open
    /\ area = "quick" => cards'.checkout = Nothing /\ cards'.deleting = Nothing
ShellMoves ==
    \/ area = "route" /\ RouteNext
    \/ area = "banner" /\ BannerNext
    \/ area = "tour" /\ TourNext
    \/ area = "theme" /\ ThemeNext
    \/ area = "toasts" /\ ToastNext
Next ==
    /\ UNCHANGED area
    /\ Part({"contacts"}, BookNext, bookVars)
    /\ Part({"wizard", "reopened"}, WizMoves, wizVars)
    /\ Part({"history"}, HistNext, histVars)
    /\ Part({"drawer", "retries"}, DrawerMoves, drawerVars)
    /\ Part({"cards", "quick"}, OutMoves, outVars)
    /\ Part({"payments", "renewals"}, PayMoves, payVars)
    /\ Part({"senders"}, SenderNext, senderVars)
    /\ Part({"session"}, SessionNext, sessionVars)
    /\ Part({"pages"}, PageNext, pageVars)
    /\ Part({"forms"}, FormNext, formVars)
    /\ Part({"rows"}, RowNext, rowVars)
    /\ Part({"route", "banner", "tour", "theme", "toasts"}, ShellMoves, shellVars)
Spec == Init /\ [][Next]_allVars
=============================================================================
