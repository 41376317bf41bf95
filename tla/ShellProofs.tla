---------------------------- MODULE ShellProofs ----------------------------
(***************************************************************************)
(* What surrounds the pages, for any windows, tabs, announcements and       *)
(* accounts.  Menus lead to pages because the address is always an entry    *)
(* that was offered (Followed).  What was dismissed, and the tour, are      *)
(* judged by what localStorage keeps (Remembered, OfferedOnce).  That a tab *)
(* acts as the account it shows follows from what its call for /auth/me     *)
(* will show (Asked), and from its showing nobody until it is answered      *)
(* (Waiting).                                                               *)
(***************************************************************************)
EXTENDS Session, Shell, TLAPS

-----------------------------------------------------------------------------
(* The menus.                                                               *)

\* The address is what an entry of the role's menus asked for.
Followed ==
    /\ route = [role |-> route.role, hash |-> route.hash, asked |-> route.asked,
                drawer |-> route.drawer]
    /\ route.role \in Roles
    /\ route.asked # "none" =>
         route.hash = route.asked /\ route.asked \in Offered(route.role, TRUE)
                                                        \cup Offered(route.role, FALSE)

\* Each application's router knows every entry of its menus, and heads it so.
LEMMA UserMenusLead ==
    ASSUME NEW hash \in Offered("user", FALSE), hash # "notifications"
    PROVE  /\ RenderPage("user", hash) = hash
           /\ PageInfo(hash) = hash \/ hash = "campaigns/create"
  BY DEF Offered, Sidebar, MobileNav, PhoneAccountMenu, AccountMenu, Notifications, PageLinks,
         RenderPage, UserRoutes, PageInfo

LEMMA AdminMenusLead ==
    ASSUME NEW role \in Roles \ {"user"}, NEW drawer \in BOOLEAN, NEW hash \in Offered(role, drawer)
    PROVE  RenderPage(role, hash) = hash /\ PageTitle(hash) = hash
  BY DEF Roles, Offered, MobileMenu, AdminSidebar, BottomNav, RenderPage, AdminRoutes, PageTitle

LEMMA FollowedAlways == ShellSpec => []Followed
<1>1. ASSUME ShellInit PROVE Followed
  <2>1. PICK r \in Roles : route = [role |-> r, hash |-> "login", asked |-> "none",
                                   drawer |-> FALSE]
      BY Zenon, <1>1 DEF ShellInit, RouteInit
  <2>2. route.role = r /\ route.hash = "login" /\ route.asked = "none" /\ route.drawer = FALSE
      BY Zenon, <2>1
  <2> QED
      BY Zenon, <2>1, <2>2 DEF Followed
<1>2. Followed /\ [ShellNext]_shellVars => Followed'
  <2> SUFFICES ASSUME Followed, [ShellNext]_shellVars PROVE Followed'
      OBVIOUS
  <2>1. CASE UNCHANGED route
      BY <2>1 DEF Followed
  <2>2. CASE SetMenuOpen
      BY <2>2 DEF Followed, SetMenuOpen
  <2>3. ASSUME NEW hash \in Offered(route.role, route.drawer), OnNavigate(hash) PROVE Followed'
    <3>1. /\ route' = [role |-> route.role, hash |-> hash, asked |-> hash, drawer |-> FALSE]
        BY <2>3 DEF Followed, OnNavigate
    <3>2. hash \in Offered(route.role, TRUE) \cup Offered(route.role, FALSE)
        BY DEF Offered
    <3> QED
        BY <3>1, <3>2 DEF Followed
  <2> QED
      BY <2>1, <2>2, <2>3 DEF ShellNext, RouteNext, BannerNext, TourNext, ThemeNext, ToastNext,
         shellVars, routeVars
<1> QED
    BY <1>1, <1>2, PTL DEF ShellSpec

(* Every entry of every menu leads to the page it names (AppRoutes, menus). *)
THEOREM MenusLeadCorrect == ShellSpec => []MenusLeadWhereTheySay
<1>1. Followed => MenusLeadWhereTheySay
  <2> SUFFICES ASSUME Followed, route.asked \notin {"none", "notifications"}
               PROVE  /\ RenderPage(route.role, route.hash) = route.asked
                      /\ IF route.role = "user"
                         THEN \/ PageInfo(route.hash) = route.asked
                              \/ route.asked = "campaigns/create"
                         ELSE PageTitle(route.hash) = route.asked
      BY DEF MenusLeadWhereTheySay
  <2>1. /\ route.hash = route.asked /\ route.role \in Roles
        /\ \/ route.asked \in Offered(route.role, TRUE)
           \/ route.asked \in Offered(route.role, FALSE)
      BY DEF Followed
  <2>2. CASE route.role = "user"
    <3>1. route.asked \in Offered("user", FALSE)
        BY <2>1, <2>2 DEF Offered
    <3> QED
        BY <2>1, <2>2, <3>1, UserMenusLead
  <2>3. CASE route.role # "user"
      BY <2>1, <2>3, AdminMenusLead
  <2> QED
      BY <2>2, <2>3
<1> QED
    BY <1>1, FollowedAlways, PTL

-----------------------------------------------------------------------------
(* The banner and the tour.                                                 *)

\* The records of localStorage, of the windows, and of the histories.
Themes == {"none", "dark", "light"}
Ids == SUBSET Announcement
ShellTypes ==
    /\ kept \in [dismissed : Ids, tour : BOOLEAN, theme : Themes] /\ active \in Ids
    /\ said \in [dismissed : Ids, clobbered : Ids, tour : BOOLEAN]
    /\ elsewhere \in [Window -> [dismissed : Ids, tour : BOOLEAN]]
    /\ banner \in [Window -> [mounted : BOOLEAN, dismissed : Ids, listed : Ids]]
    /\ tour \in [Window -> [mounted : BOOLEAN, timer : BOOLEAN, open : BOOLEAN, step : Nat]]

\* What was dismissed is in localStorage, and every window has read so, but
\* for what was written over and what another window has dismissed since.
Remembered ==
    /\ said.dismissed \subseteq kept.dismissed \cup said.clobbered
    /\ \A w \in Window :
         said.dismissed \subseteq
           banner[w].dismissed \cup elsewhere[w].dismissed \cup said.clobbered

\* A tour that is open, or about to open, started before it was completed.
OfferedOnce ==
    /\ said.tour => kept.tour
    /\ \A w \in Window : tour[w].open \/ tour[w].timer =>
         /\ said.tour => elsewhere[w].tour
         /\ ~(tour[w].open /\ tour[w].timer)

ShellInv == ShellTypes /\ Remembered /\ OfferedOnce

LEMMA ShellStarts == ShellInit => ShellInv
<1> SUFFICES ASSUME ShellInit PROVE ShellInv
    OBVIOUS
<1>1. ShellTypes
  <2>1. kept = [dismissed |-> {}, tour |-> FALSE, theme |-> "none"] /\ active = {}
      BY DEF ShellInit, BannerInit
  <2>2. /\ said = [dismissed |-> {}, clobbered |-> {}, tour |-> FALSE]
        /\ elsewhere = [w \in Window |-> NoChange]
        /\ banner = [w \in Window |-> [mounted |-> FALSE, dismissed |-> {}, listed |-> {}]]
      BY DEF ShellInit, BannerInit
  <2>3. tour = [w \in Window |-> [mounted |-> FALSE, timer |-> FALSE, open |-> FALSE, step |-> 1]]
      BY DEF ShellInit, BannerInit
  <2>4. {} \in Ids /\ 1 \in Nat
      BY DEF Ids
  <2>5. FALSE \in BOOLEAN /\ "none" \in Themes
    <3>1. "none" \in Themes
        BY DEF Themes
    <3> QED
        BY Zenon, <3>1
  <2>6. kept \in [dismissed : Ids, tour : BOOLEAN, theme : Themes] /\ active \in Ids
      BY Zenon, <2>1, <2>4, <2>5
  <2>7. NoChange \in [dismissed : Ids, tour : BOOLEAN]
      BY Zenon, <2>4, <2>5 DEF NoChange
  <2>8. said \in [dismissed : Ids, clobbered : Ids, tour : BOOLEAN]
      BY Zenon, <2>2, <2>4, <2>5
  <2>9. banner \in [Window -> [mounted : BOOLEAN, dismissed : Ids, listed : Ids]]
      BY Zenon, <2>2, <2>4, <2>5
  <2>10. tour \in [Window -> [mounted : BOOLEAN, timer : BOOLEAN, open : BOOLEAN, step : Nat]]
      BY Zenon, <2>3, <2>4, <2>5
  <2> QED
      BY Zenon, <2>2, <2>6, <2>7, <2>8, <2>9, <2>10 DEF ShellTypes
<1>2. Remembered
    BY DEF ShellInit, BannerInit, Remembered
<1>3. OfferedOnce
    BY DEF ShellInit, BannerInit, OfferedOnce
<1> QED
    BY <1>1, <1>2, <1>3 DEF ShellInv

\* A step of a banner leaves the tour's part alone.
LEMMA BannerKept == ShellInv /\ BannerNext => ShellInv'
<1> SUFFICES ASSUME ShellInv, BannerNext PROVE ShellInv'
    OBVIOUS
<1>1. UNCHANGED tour
    BY DEF BannerNext
<1>2. ASSUME NEW a \in Announcement, Publish(a) PROVE ShellInv'
  <2>1. active' \in Ids /\ UNCHANGED <<kept, banner, said, elsewhere>>
    <3>1. active \in Ids
        BY DEF ShellInv, ShellTypes
    <3> QED
        BY <1>2, <3>1 DEF Publish, Ids
  <2> QED
      BY Zenon, <1>1, <2>1 DEF ShellInv, ShellTypes, Remembered, OfferedOnce
<1>3. ASSUME NEW w \in Window, MountBanner(w) PROVE ShellInv'
  <2>1. /\ banner' = [banner EXCEPT ![w] = [mounted |-> TRUE, dismissed |-> kept.dismissed,
                                           listed |-> {}]]
        /\ elsewhere' = [elsewhere EXCEPT ![w].dismissed = {}]
        /\ UNCHANGED <<kept, active, said>>
      BY <1>3 DEF MountBanner
  <2>2. ShellTypes'
    <3>1. {} \in Ids
        BY DEF Ids
    <3> QED
        BY Zenon, <1>1, <2>1, <3>1 DEF ShellInv, ShellTypes
  <2>3. Remembered'
      BY <2>1 DEF ShellInv, ShellTypes, Remembered
  <2>4. OfferedOnce'
    <3>1. \A v \in Window : elsewhere'[v].tour = elsewhere[v].tour
        BY Zenon, <2>1 DEF ShellInv, ShellTypes
    <3> QED
        BY Zenon, <1>1, <2>1, <3>1 DEF ShellInv, OfferedOnce
  <2> QED
      BY <2>2, <2>3, <2>4 DEF ShellInv
<1>4. ASSUME NEW w \in Window, FetchAnnouncements(w) PROVE ShellInv'
  <2>1. /\ banner' = [banner EXCEPT ![w].listed = active]
        /\ UNCHANGED <<kept, active, said, elsewhere>>
      BY <1>4 DEF FetchAnnouncements
  <2>2. ShellTypes'
      BY Zenon, <1>1, <2>1 DEF ShellInv, ShellTypes
  <2>3. Remembered'
    <3>1. \A v \in Window : banner'[v].dismissed = banner[v].dismissed
        BY Zenon, <2>1 DEF ShellInv, ShellTypes
    <3> QED
        BY Zenon, <2>1, <3>1 DEF ShellInv, Remembered
  <2> QED
      BY Zenon, <1>1, <2>1, <2>2, <2>3 DEF ShellInv, OfferedOnce
<1>5. ASSUME NEW w \in Window, NEW a \in Announcement, HandleDismiss(w, a) PROVE ShellInv'
  <2> DEFINE next == banner[w].dismissed \cup {a}
             clobbered == (said.clobbered \cup kept.dismissed) \ next
  <2>1. /\ banner' = [banner EXCEPT ![w].dismissed = next]
        /\ kept' = [kept EXCEPT !.dismissed = next] /\ UNCHANGED active
        /\ elsewhere' = [v \in Window |-> IF v = w THEN elsewhere[v]
                          ELSE [elsewhere[v] EXCEPT !.dismissed = @ \cup next]]
      BY Zenon, <1>5 DEF HandleDismiss
  <2>2. said' = [said EXCEPT !.dismissed = said.dismissed \cup {a}, !.clobbered = clobbered]
      BY <1>5 DEF HandleDismiss, ShellInv, ShellTypes
  <2>3. /\ next \in Ids /\ said.dismissed \cup {a} \in Ids /\ clobbered \in Ids
        /\ \A v \in Window : elsewhere[v].dismissed \cup next \in Ids
      BY DEF ShellInv, ShellTypes, Ids
  <2> HIDE DEF next, clobbered
  <2>4. ShellTypes'
      BY Zenon, <1>1, <2>1, <2>2, <2>3 DEF ShellInv, ShellTypes
  <2>5. /\ said'.dismissed = said.dismissed \cup {a} /\ said'.clobbered = clobbered
        /\ said'.tour = said.tour /\ kept'.dismissed = next /\ kept'.tour = kept.tour
      BY Zenon, <2>1, <2>2 DEF ShellInv, ShellTypes
  <2>6. \A v \in Window : elsewhere'[v].tour = elsewhere[v].tour
      BY Zenon, <2>1 DEF ShellInv, ShellTypes
  <2>7. \A v \in Window :
          \/ v = w /\ banner'[v].dismissed = next
          \/ /\ banner'[v].dismissed = banner[v].dismissed
             /\ elsewhere'[v].dismissed = elsewhere[v].dismissed \cup next
      BY Zenon, <2>1 DEF ShellInv, ShellTypes
  <2>8. Remembered'
    <3>1. said'.dismissed \subseteq kept'.dismissed \cup said'.clobbered
        BY <2>5 DEF ShellInv, Remembered, next, clobbered
    <3>2. ASSUME NEW v \in Window
          PROVE  said'.dismissed \subseteq
                   banner'[v].dismissed \cup elsewhere'[v].dismissed \cup said'.clobbered
      <4>1. CASE v = w /\ banner'[v].dismissed = next
          BY <2>5, <3>1, <4>1
      <4>2. CASE /\ banner'[v].dismissed = banner[v].dismissed
                 /\ elsewhere'[v].dismissed = elsewhere[v].dismissed \cup next
          BY <2>5, <4>2, <3>1
      <4> QED
          BY <2>7, <4>1, <4>2
    <3> QED
        BY <3>1, <3>2 DEF Remembered
  <2>9. OfferedOnce'
      BY Zenon, <1>1, <2>5, <2>6 DEF ShellInv, OfferedOnce
  <2> QED
      BY <2>4, <2>8, <2>9 DEF ShellInv
<1> QED
    BY <1>2, <1>3, <1>4, <1>5 DEF BannerNext

\* A step of the tour leaves what was dismissed alone.
LEMMA TourKept == ShellInv /\ TourNext => ShellInv'
<1> SUFFICES ASSUME ShellInv, TourNext PROVE ShellInv'
    OBVIOUS
<1>1. UNCHANGED <<banner, active>>
    BY DEF TourNext
<1>2. ASSUME NEW w \in Window, MountTour(w) PROVE ShellInv'
  <2>1. /\ tour' = [tour EXCEPT ![w] = [mounted |-> TRUE, timer |-> ~kept.tour, open |-> FALSE,
                                       step |-> 1]]
        /\ elsewhere' = [elsewhere EXCEPT ![w].tour = FALSE] /\ UNCHANGED <<kept, said>>
      BY <1>2 DEF MountTour
  <2>2. ShellTypes'
    <3>1. 1 \in Nat
        OBVIOUS
    <3>2. (~kept.tour) \in BOOLEAN
        BY Zenon
    <3> QED
        BY Zenon, <1>1, <2>1, <3>1, <3>2 DEF ShellInv, ShellTypes
  <2>3. \A v \in Window : elsewhere'[v].dismissed = elsewhere[v].dismissed
      BY Zenon, <2>1 DEF ShellInv, ShellTypes
  <2>4. \A v \in Window : \/ v = w /\ ~tour'[v].open /\ (tour'[v].timer <=> ~kept.tour)
                          \/ tour'[v] = tour[v] /\ elsewhere'[v] = elsewhere[v]
      BY Zenon, <2>1 DEF ShellInv, ShellTypes
  <2> QED
      BY Zenon, <1>1, <2>1, <2>2, <2>3, <2>4 DEF ShellInv, Remembered, OfferedOnce
<1>3. ASSUME NEW w \in Window, UnmountTour(w) PROVE ShellInv'
  <2>1. /\ tour' = [tour EXCEPT ![w] = [mounted |-> FALSE, timer |-> FALSE, open |-> FALSE,
                                       step |-> 1]]
        /\ UNCHANGED <<kept, said, elsewhere>>
      BY <1>3 DEF UnmountTour
  <2>2. 1 \in Nat
      OBVIOUS
  <2>3. ShellTypes'
      BY Zenon, <1>1, <2>1, <2>2 DEF ShellInv, ShellTypes
  <2>4. \A v \in Window : (~tour'[v].open /\ ~tour'[v].timer) \/ tour'[v] = tour[v]
      BY Zenon, <2>1 DEF ShellInv, ShellTypes
  <2> QED
      BY Zenon, <1>1, <2>1, <2>3, <2>4 DEF ShellInv, Remembered, OfferedOnce
<1>4. ASSUME NEW w \in Window, TourTimer(w) PROVE ShellInv'
  <2>1. /\ tour[w].timer /\ tour' = [tour EXCEPT ![w] = [@ EXCEPT !.timer = FALSE, !.open = TRUE]]
        /\ UNCHANGED <<kept, said, elsewhere>>
      BY Zenon, <1>4 DEF TourTimer, ShellInv, ShellTypes
  <2>2. ShellTypes'
      BY Zenon, <1>1, <2>1 DEF ShellInv, ShellTypes
  <2>3. \A v \in Window : (v = w /\ tour'[v].open /\ ~tour'[v].timer) \/ tour'[v] = tour[v]
      BY Zenon, <2>1 DEF ShellInv, ShellTypes
  <2> QED
      BY Zenon, <1>1, <2>1, <2>2, <2>3 DEF ShellInv, Remembered, OfferedOnce
<1>5. ASSUME NEW w \in Window, CompleteTour(w) PROVE ShellInv'
  <2>1. /\ tour[w].open /\ tour' = [tour EXCEPT ![w].open = FALSE]
        /\ kept' = [kept EXCEPT !.tour = TRUE] /\ said' = [said EXCEPT !.tour = TRUE]
        /\ elsewhere' = [v \in Window |-> [elsewhere[v] EXCEPT !.tour = @ \/ v # w]]
      BY <1>5 DEF CompleteTour
  <2>2. ShellTypes'
      BY ZenonT(60), <1>1, <2>1 DEF ShellInv, ShellTypes
  <2>3. /\ kept'.tour /\ kept'.dismissed = kept.dismissed
        /\ said'.dismissed = said.dismissed /\ said'.clobbered = said.clobbered
      BY Zenon, <2>1 DEF ShellInv, ShellTypes
  <2>4. \A v \in Window : elsewhere'[v].dismissed = elsewhere[v].dismissed
      BY Zenon, <2>1 DEF ShellInv, ShellTypes
  <2>5. \A v \in Window : \/ v = w /\ ~tour'[v].open /\ (tour'[v].timer = tour[v].timer)
                          \/ tour'[v] = tour[v] /\ elsewhere'[v].tour
      BY ZenonT(60), <2>1 DEF ShellInv, ShellTypes
  <2>6. ~tour[w].timer
      BY Zenon, <2>1 DEF ShellInv, OfferedOnce, ShellTypes
  <2> QED
      BY Zenon, <1>1, <2>2, <2>3, <2>4, <2>5, <2>6 DEF ShellInv, Remembered, OfferedOnce
<1>6. ASSUME NEW w \in Window, NEW to \in 1..TourSteps, TurnStep(w, to) PROVE ShellInv'
  <2>1. tour' = [tour EXCEPT ![w].step = to] /\ UNCHANGED <<kept, said, elsewhere>>
      BY <1>6 DEF TurnStep
  <2>2. to \in Nat
      OBVIOUS
  <2>3. ShellTypes'
      BY Zenon, <1>1, <2>1, <2>2 DEF ShellInv, ShellTypes
  <2>4. \A v \in Window : tour'[v].open = tour[v].open /\ tour'[v].timer = tour[v].timer
      BY Zenon, <2>1 DEF ShellInv, ShellTypes
  <2> QED
      BY Zenon, <1>1, <2>1, <2>3, <2>4 DEF ShellInv, Remembered, OfferedOnce
<1> QED
    BY <1>2, <1>3, <1>4, <1>5, <1>6 DEF TourNext

LEMMA ThemeKept == ShellInv /\ ThemeNext => ShellInv'
<1> SUFFICES ASSUME ShellInv, ThemeNext PROVE ShellInv'
    OBVIOUS
<1>1. UNCHANGED <<active, banner, said, elsewhere, tour>>
    BY DEF ThemeNext
<1>2. PICK saved \in Themes : kept' = [kept EXCEPT !.theme = saved]
  <2>1. kept.theme \in Themes /\ "dark" \in Themes /\ "light" \in Themes
    <3>1. kept.theme \in Themes
        BY Zenon DEF ShellInv, ShellTypes
    <3> QED
        BY <3>1 DEF Themes
  <2>2. ASSUME NEW w \in Window, OpenAdmin(w)
        PROVE  \E saved \in Themes : kept' = [kept EXCEPT !.theme = saved]
      BY Zenon, <2>1, <2>2 DEF OpenAdmin
  <2>3. ASSUME NEW w \in Window, NEW b, ToggleTheme(w, b)
        PROVE  \E saved \in Themes : kept' = [kept EXCEPT !.theme = saved]
      BY Zenon, <2>1, <2>3 DEF ToggleTheme
  <2> QED
      BY <2>2, <2>3 DEF ThemeNext
<1>3. /\ kept' \in [dismissed : Ids, tour : BOOLEAN, theme : Themes]
      /\ kept'.dismissed = kept.dismissed /\ kept'.tour = kept.tour
    BY Zenon, <1>2 DEF ShellInv, ShellTypes
<1> QED
    BY Zenon, <1>1, <1>3 DEF ShellInv, ShellTypes, Remembered, OfferedOnce

LEMMA ShellAlways == ShellSpec => []ShellInv
<1>1. ShellInv /\ [ShellNext]_shellVars => ShellInv'
  <2> SUFFICES ASSUME ShellInv, [ShellNext]_shellVars PROVE ShellInv'
      OBVIOUS
  <2>1. CASE UNCHANGED <<kept, active, banner, said, elsewhere, tour>>
      BY Zenon, <2>1 DEF ShellInv, ShellTypes, Remembered, OfferedOnce
  <2> QED
      BY <2>1, BannerKept, TourKept, ThemeKept
         DEF ShellNext, RouteNext, ToastNext, shellVars, bannerVars, tourVars
<1> QED
    BY <1>1, ShellStarts, PTL DEF ShellSpec

(* An announcement dismissed in any of any number of windows stays so, but  *)
(* for lists written over each other (AnnouncementBanner.js).               *)
THEOREM DismissedCorrect == ShellSpec => []DismissedStaysDismissed
<1>1. ShellInv => DismissedStaysDismissed
    BY DEF ShellInv, Remembered, DismissedStaysDismissed, Visible
<1> QED
    BY <1>1, ShellAlways, PTL

(* The tour does not offer itself again once completed (OnboardingTour.js). *)
THEOREM TourCorrect == ShellSpec => []TourOffersItselfOnce
<1>1. ShellInv => TourOffersItselfOnce
    BY DEF ShellInv, OfferedOnce, TourOffersItselfOnce
<1> QED
    BY <1>1, ShellAlways, PTL

-----------------------------------------------------------------------------
(* Toasts.                                                                  *)

\* A toast's id is the millisecond it was made in.
NamedByClock == \A t \in toasts \cup timers : t.id = t.born

(* A toast lasts until its timer, its button, or a toast of the same        *)
(* millisecond, for any number of toasts (ToastContext.js).                 *)
THEOREM ToastsCorrect == ShellSpec => []ToastsLast
<1>1. ShellInit => NamedByClock /\ ToastsLast
    BY DEF ShellInit, ToastInit, NamedByClock, ToastsLast
<1>2. NamedByClock /\ ToastsLast /\ [ShellNext]_shellVars => NamedByClock' /\ ToastsLast'
  <2> SUFFICES ASSUME NamedByClock, ToastsLast, [ShellNext]_shellVars
               PROVE  NamedByClock' /\ ToastsLast'
      OBVIOUS
  <2> USE DEF NamedByClock, ToastsLast, Without
  <2>1. CASE UNCHANGED <<toasts, timers, ended>>
      BY <2>1
  <2>2. CASE ShowToast
      BY <2>2 DEF ShowToast
  <2>3. ASSUME NEW t \in toasts, RemoveToast(t) PROVE NamedByClock' /\ ToastsLast'
      BY <2>3 DEF RemoveToast
  <2>4. ASSUME NEW t \in timers, ToastTimer(t) PROVE NamedByClock' /\ ToastsLast'
      BY <2>4 DEF ToastTimer
  <2> QED
      BY <2>1, <2>2, <2>3, <2>4 DEF ShellNext, RouteNext, BannerNext, TourNext, ThemeNext,
         ToastNext, Tick, shellVars, toastVars
<1> QED
    BY <1>1, <1>2, PTL DEF ShellSpec

-----------------------------------------------------------------------------
(* Sessions.                                                                *)

\* A tab that waits, or is loading, shows no account.
Waiting == \A t \in Tab : tabs[t].loading \/ tabs[t].call # "none" => tabs[t].shown = NoAccount

\* A call that will show an account was made with the token there is, unless
\* another tab has stored one since.
Asked ==
    \A t \in Tab : tabs[t].call = "me" /\ tabs[t].who # NoAccount =>
        token.who \in {NoAccount, tabs[t].who} \/ t \in foreign

SessionInv == SessionTypeOK /\ Waiting /\ Asked /\ ActsAsShown

USE SessionAssumption

-----------------------------------------------------------------------------
LEMMA SessionStarts == SessionInit => SessionInv
<1> SUFFICES ASSUME SessionInit PROVE SessionInv
    OBVIOUS
<1>1. \A t \in Tab : tabs[t] \in {StartedTab("user"), StartedTab("admin")}
    BY DEF SessionInit
<1>2. SessionTypeOK
  <2>1. \A app \in {"user", "admin"} : StartedTab(app) \in
          [app : {"user", "admin"}, shown : Account \cup {NoAccount}, loading : BOOLEAN,
           call : CallKinds, who : Account \cup {NoAccount}]
    BY DEF StartedTab, CallKinds
  <2>2. tabs \in [Tab -> {StartedTab("user"), StartedTab("admin")}]
    BY DEF SessionInit
  <2>3. token = NoToken /\ signIns = 0 /\ foreign = {}
    BY DEF SessionInit
  <2> QED
    BY <2>1, <2>2, <2>3 DEF SessionTypeOK, NoToken
<1>3. Waiting /\ Asked /\ ActsAsShown
    BY <1>1 DEF Waiting, Asked, ActsAsShown, StartedTab
<1> QED
    BY <1>2, <1>3 DEF SessionInv

\* Asking for an account, and the end of a session, keep the types.
LEMMA AsksTyped ==
    ASSUME SessionTypeOK, NEW t \in Tab, NEW app, NEW call \in CallKinds, NEW who \in Account,
           AsksFor(t, app, call, who)
    PROVE  SessionTypeOK'
<1>1. tabs' = [tabs EXCEPT ![t] = [@ EXCEPT !.call = call, !.who = who]]
    BY DEF AsksFor
<1>2. UNCHANGED <<token, signIns, foreign>>
    BY DEF AsksFor, Keeps
<1> QED
    BY ZenonT(60), <1>1, <1>2 DEF SessionTypeOK

LEMMA EndsTyped ==
    ASSUME SessionTypeOK, NEW t \in Tab, SessionEnds(t)
    PROVE  SessionTypeOK'
<1>1. token' = NoToken /\ foreign' \subseteq Tab /\ UNCHANGED signIns
    BY DEF SessionTypeOK, SessionEnds, WritesToken
<1>2. CASE tabs[t].app = "admin"
  <2>1. tabs' = [tabs EXCEPT ![t].call = "none"]
    BY <1>2 DEF SessionEnds
  <2> QED
    BY <1>1, <2>1 DEF SessionTypeOK, NoToken, CallKinds
<1>3. CASE tabs[t].app # "admin"
  <2>1. tabs' = [tabs EXCEPT ![t] = StartedTab("admin")]
    BY <1>3 DEF SessionEnds, Opens
  <2> QED
    BY <1>1, <2>1 DEF SessionTypeOK, NoToken, CallKinds, StartedTab
<1> QED
    BY <1>2, <1>3

\* Every step keeps the types.
LEMMA SessionTypeKept == SessionInv /\ [SessionNext]_sessionVars => SessionTypeOK'
<1> SUFFICES ASSUME SessionInv, [SessionNext]_sessionVars PROVE SessionTypeOK'
    OBVIOUS
<1> USE DEF SessionInv, SessionTypeOK, sessionVars, CallKinds
<1>1. CASE Expires
    BY <1>1 DEF Expires
<1>2. ASSUME NEW t \in Tab, Mounts(t) PROVE SessionTypeOK'
  <2>1. CASE token = NoToken
    <3>1. tabs' = [tabs EXCEPT ![t] = [@ EXCEPT !.loading = FALSE]]
      BY <1>2, <2>1 DEF Mounts
    <3>2. foreign' = foreign \ {t} /\ UNCHANGED <<token, signIns>>
      BY <1>2 DEF Mounts
    <3> QED
      BY ZenonT(60), <3>1, <3>2
  <2>2. CASE token # NoToken
    <3>1. tabs' = [tabs EXCEPT ![t] = [@ EXCEPT !.call = "me", !.who = Sends]]
      BY <1>2, <2>2 DEF Mounts
    <3>2. Sends \in Account \cup {NoAccount}
      BY DEF Sends
    <3>3. foreign' = foreign \ {t} /\ UNCHANGED <<token, signIns>>
      BY <1>2 DEF Mounts
    <3> QED
      BY ZenonT(60), <3>1, <3>2, <3>3
  <2> QED
    BY <2>1, <2>2
<1>3. ASSUME NEW t \in Tab, ReloadTab(t) PROVE SessionTypeOK'
    BY <1>3 DEF ReloadTab, Opens, Keeps, StartedTab
<1>4. ASSUME NEW t \in Tab, FetchUser(t) PROVE SessionTypeOK'
    BY ZenonT(60), <1>4 DEF FetchUser, Keeps
<1>5. ASSUME NEW t \in Tab, FetchRefused(t) PROVE SessionTypeOK'
    BY ZenonT(60), <1>5 DEF FetchRefused, WritesToken, SignedOut, NoToken
<1>6. ASSUME NEW t \in Tab, FetchFails(t) PROVE SessionTypeOK'
    BY ZenonT(60), <1>6 DEF FetchFails, WritesToken, NoToken
<1>7. ASSUME NEW t \in Tab, LoggedIn(t) PROVE SessionTypeOK'
    BY <1>7 DEF LoggedIn, Issue, WritesToken
<1>8. ASSUME NEW t \in Tab, RegistrationRefused(t) PROVE SessionTypeOK'
    BY <1>8 DEF RegistrationRefused, Keeps
<1>9. ASSUME NEW t \in Tab, LoginRefused(t) PROVE SessionTypeOK'
    BY <1>9, EndsTyped DEF LoginRefused
<1>10. ASSUME NEW t \in Tab, HandleGoogleLogin(t) PROVE SessionTypeOK'
    BY <1>10 DEF HandleGoogleLogin, SignInShown, Keeps, StartedTab
<1>11. ASSUME NEW t \in Tab, GoogleRefused(t) PROVE SessionTypeOK'
    BY <1>11 DEF GoogleRefused, ReloadTab, Opens, Keeps, StartedTab
<1>12. ASSUME NEW t \in Tab, Logout(t) PROVE SessionTypeOK'
    BY ZenonT(60), <1>12 DEF Logout, WritesToken, NoToken, SignedOut
<1>13. ASSUME NEW t \in Tab, Unauthorized(t) PROVE SessionTypeOK'
    BY <1>13, EndsTyped DEF Unauthorized
<1>14. ASSUME NEW t \in Tab, NEW who \in Account, LoginPage(t, who) PROVE SessionTypeOK'
    BY <1>14, AsksTyped DEF LoginPage, CallKinds
<1>15. ASSUME NEW t \in Tab, NEW who \in Account, RegisterPage(t, who) PROVE SessionTypeOK'
    BY <1>15, AsksTyped DEF RegisterPage, CallKinds
<1>16. ASSUME NEW t \in Tab, NEW who \in Account, AdminLoginPage(t, who) PROVE SessionTypeOK'
    BY <1>16, AsksTyped DEF AdminLoginPage, CallKinds
<1>17. ASSUME NEW t \in Tab, NEW who \in Account, AdminRegisterPage(t, who) PROVE SessionTypeOK'
    BY <1>17, AsksTyped DEF AdminRegisterPage, CallKinds
<1>18. ASSUME NEW t \in Tab, NEW who \in Account, ProcessToken(t, who) PROVE SessionTypeOK'
  <2>1. tabs' = [tabs EXCEPT ![t] = [@ EXCEPT !.call = "me", !.who = who]]
    BY <1>18 DEF ProcessToken
  <2>2. /\ token' = [who |-> who, good |-> TRUE] /\ signIns' = signIns + 1
        /\ foreign' \subseteq Tab
    BY <1>18 DEF ProcessToken, Issue, WritesToken
  <2>3. tabs' \in [Tab -> [app : {"user", "admin"}, shown : Account \cup {NoAccount},
                          loading : BOOLEAN, call : CallKinds, who : Account \cup {NoAccount}]]
    BY ZenonT(60), <2>1
  <2>4. token' \in [who : Account \cup {NoAccount}, good : BOOLEAN] /\ signIns' \in Nat
    BY <2>2
  <2> QED
    BY <2>2, <2>3, <2>4
<1>19. ASSUME NEW t \in Tab, NEW who \in Account, NEW u \in Tab, Impersonate(t, u, who)
       PROVE SessionTypeOK'
    BY <1>19 DEF Impersonate, Issue, WritesToken, Opens, StartedTab
<1>20. CASE UNCHANGED sessionVars
    BY <1>20
<1> QED
    BY <1>1, <1>2, <1>3, <1>4, <1>5, <1>6, <1>7, <1>8, <1>9, <1>10, <1>11, <1>12, <1>13,
       <1>14, <1>15, <1>16, <1>17, <1>18, <1>19, <1>20 DEF SessionNext

\* An account is shown when its answer is there, and no call waits with it.
LEMMA WaitingKept == SessionInv /\ [SessionNext]_sessionVars => Waiting'
<1> SUFFICES ASSUME SessionInv, [SessionNext]_sessionVars PROVE Waiting'
    OBVIOUS
<1> USE DEF SessionInv, SessionTypeOK, sessionVars, Waiting
<1>1. CASE Expires
    BY <1>1 DEF Expires
<1>2. ASSUME NEW t \in Tab, Mounts(t) PROVE Waiting'
    BY <1>2 DEF Mounts, Sends, NoToken
<1>3. ASSUME NEW t \in Tab, ReloadTab(t) PROVE Waiting'
    BY <1>3 DEF ReloadTab, Opens, Keeps, StartedTab
<1>4. ASSUME NEW t \in Tab, FetchUser(t) PROVE Waiting'
    BY <1>4 DEF FetchUser, Keeps
<1>5. ASSUME NEW t \in Tab, FetchRefused(t) PROVE Waiting'
    BY <1>5 DEF FetchRefused, WritesToken, SignedOut, NoToken
<1>6. ASSUME NEW t \in Tab, FetchFails(t) PROVE Waiting'
    BY <1>6 DEF FetchFails, WritesToken, NoToken
<1>7. ASSUME NEW t \in Tab, LoggedIn(t) PROVE Waiting'
    BY <1>7 DEF LoggedIn, Issue, WritesToken
<1>8. ASSUME NEW t \in Tab, RegistrationRefused(t) PROVE Waiting'
    BY <1>8 DEF RegistrationRefused, Keeps
<1>9. ASSUME NEW t \in Tab, LoginRefused(t) PROVE Waiting'
    BY <1>9 DEF LoginRefused, SessionEnds, WritesToken, NoToken, Opens, StartedTab
<1>10. ASSUME NEW t \in Tab, HandleGoogleLogin(t) PROVE Waiting'
    BY <1>10 DEF HandleGoogleLogin, SignInShown, Keeps, StartedTab
<1>11. ASSUME NEW t \in Tab, GoogleRefused(t) PROVE Waiting'
    BY <1>11 DEF GoogleRefused, ReloadTab, Opens, Keeps, StartedTab
<1>12. ASSUME NEW t \in Tab, Logout(t) PROVE Waiting'
    BY <1>12 DEF Logout, WritesToken, NoToken, SignedOut
<1>13. ASSUME NEW t \in Tab, Unauthorized(t) PROVE Waiting'
    BY <1>13 DEF Unauthorized, SessionEnds, WritesToken, NoToken, Opens, StartedTab
<1>14. ASSUME NEW t \in Tab, NEW who \in Account, LoginPage(t, who) PROVE Waiting'
    BY <1>14 DEF LoginPage, AsksFor, SignInShown, Keeps
<1>15. ASSUME NEW t \in Tab, NEW who \in Account, RegisterPage(t, who) PROVE Waiting'
    BY <1>15 DEF RegisterPage, AsksFor, SignInShown, Keeps
<1>16. ASSUME NEW t \in Tab, NEW who \in Account, AdminLoginPage(t, who) PROVE Waiting'
    BY <1>16 DEF AdminLoginPage, AsksFor, SignInShown, Keeps
<1>17. ASSUME NEW t \in Tab, NEW who \in Account, AdminRegisterPage(t, who) PROVE Waiting'
    BY <1>17 DEF AdminRegisterPage, AsksFor, SignInShown, Keeps
<1>18. ASSUME NEW t \in Tab, NEW who \in Account, ProcessToken(t, who) PROVE Waiting'
    BY <1>18 DEF ProcessToken, Issue, WritesToken
<1>19. ASSUME NEW t \in Tab, NEW who \in Account, NEW u \in Tab, Impersonate(t, u, who)
       PROVE Waiting'
    BY <1>19 DEF Impersonate, Issue, WritesToken, Opens, StartedTab
<1>20. CASE UNCHANGED sessionVars
    BY <1>20
<1> QED
    BY <1>1, <1>2, <1>3, <1>4, <1>5, <1>6, <1>7, <1>8, <1>9, <1>10, <1>11, <1>12, <1>13,
       <1>14, <1>15, <1>16, <1>17, <1>18, <1>19, <1>20 DEF SessionNext

\* Who stores a token makes the calls of the other tabs foreign.
LEMMA AskedKept == SessionInv /\ [SessionNext]_sessionVars => Asked'
<1> SUFFICES ASSUME SessionInv, [SessionNext]_sessionVars PROVE Asked'
    OBVIOUS
<1> USE DEF SessionInv, SessionTypeOK, sessionVars, Waiting, Asked
<1>1. CASE Expires
    BY <1>1 DEF Expires
<1>2. ASSUME NEW t \in Tab, Mounts(t) PROVE Asked'
    BY <1>2 DEF Mounts, Sends, NoToken
<1>3. ASSUME NEW t \in Tab, ReloadTab(t) PROVE Asked'
    BY <1>3 DEF ReloadTab, Opens, Keeps, StartedTab
<1>4. ASSUME NEW t \in Tab, FetchUser(t) PROVE Asked'
    BY <1>4 DEF FetchUser, Keeps
<1>5. ASSUME NEW t \in Tab, FetchRefused(t) PROVE Asked'
    BY <1>5 DEF FetchRefused, WritesToken, SignedOut, NoToken
<1>6. ASSUME NEW t \in Tab, FetchFails(t) PROVE Asked'
    BY <1>6 DEF FetchFails, WritesToken, NoToken
<1>7. ASSUME NEW t \in Tab, LoggedIn(t) PROVE Asked'
    BY <1>7 DEF LoggedIn, Issue, WritesToken, NoToken
<1>8. ASSUME NEW t \in Tab, RegistrationRefused(t) PROVE Asked'
    BY <1>8 DEF RegistrationRefused, Keeps
<1>9. ASSUME NEW t \in Tab, LoginRefused(t) PROVE Asked'
    BY <1>9 DEF LoginRefused, SessionEnds, WritesToken, NoToken, Opens, StartedTab
<1>10. ASSUME NEW t \in Tab, HandleGoogleLogin(t) PROVE Asked'
    BY <1>10 DEF HandleGoogleLogin, SignInShown, Keeps, StartedTab
<1>11. ASSUME NEW t \in Tab, GoogleRefused(t) PROVE Asked'
    BY <1>11 DEF GoogleRefused, ReloadTab, Opens, Keeps, StartedTab
<1>12. ASSUME NEW t \in Tab, Logout(t) PROVE Asked'
    BY <1>12 DEF Logout, WritesToken, NoToken, SignedOut
<1>13. ASSUME NEW t \in Tab, Unauthorized(t) PROVE Asked'
    BY <1>13 DEF Unauthorized, SessionEnds, WritesToken, NoToken, Opens, StartedTab
<1>14. ASSUME NEW t \in Tab, NEW who \in Account, LoginPage(t, who) PROVE Asked'
    BY <1>14 DEF LoginPage, AsksFor, SignInShown, Keeps
<1>15. ASSUME NEW t \in Tab, NEW who \in Account, RegisterPage(t, who) PROVE Asked'
    BY <1>15 DEF RegisterPage, AsksFor, SignInShown, Keeps
<1>16. ASSUME NEW t \in Tab, NEW who \in Account, AdminLoginPage(t, who) PROVE Asked'
    BY <1>16 DEF AdminLoginPage, AsksFor, SignInShown, Keeps
<1>17. ASSUME NEW t \in Tab, NEW who \in Account, AdminRegisterPage(t, who) PROVE Asked'
    BY <1>17 DEF AdminRegisterPage, AsksFor, SignInShown, Keeps
<1>18. ASSUME NEW t \in Tab, NEW who \in Account, ProcessToken(t, who) PROVE Asked'
    BY <1>18 DEF ProcessToken, Issue, WritesToken, NoToken
<1>19. ASSUME NEW t \in Tab, NEW who \in Account, NEW u \in Tab, Impersonate(t, u, who) PROVE Asked'
    BY <1>19 DEF Impersonate, Issue, WritesToken, NoToken, Opens, StartedTab
<1>20. CASE UNCHANGED sessionVars
    BY <1>20
<1> QED
    BY <1>1, <1>2, <1>3, <1>4, <1>5, <1>6, <1>7, <1>8, <1>9, <1>10, <1>11, <1>12, <1>13,
       <1>14, <1>15, <1>16, <1>17, <1>18, <1>19, <1>20 DEF SessionNext

\* What an answer shows is what its call was made with.
LEMMA ActsAsShownKept == SessionInv /\ [SessionNext]_sessionVars => ActsAsShown'
<1> SUFFICES ASSUME SessionInv, [SessionNext]_sessionVars PROVE ActsAsShown'
    OBVIOUS
<1> USE DEF SessionInv, SessionTypeOK, sessionVars, Waiting, Asked, ActsAsShown
<1>1. CASE Expires
    BY <1>1 DEF Expires
<1>2. ASSUME NEW t \in Tab, Mounts(t) PROVE ActsAsShown'
    BY <1>2 DEF Mounts, Sends, NoToken
<1>3. ASSUME NEW t \in Tab, ReloadTab(t) PROVE ActsAsShown'
    BY <1>3 DEF ReloadTab, Opens, Keeps, StartedTab
<1>4. ASSUME NEW t \in Tab, FetchUser(t) PROVE ActsAsShown'
    BY <1>4 DEF FetchUser, Keeps
<1>5. ASSUME NEW t \in Tab, FetchRefused(t) PROVE ActsAsShown'
    BY <1>5 DEF FetchRefused, WritesToken, SignedOut, NoToken
<1>6. ASSUME NEW t \in Tab, FetchFails(t) PROVE ActsAsShown'
    BY <1>6 DEF FetchFails, WritesToken, NoToken
<1>7. ASSUME NEW t \in Tab, LoggedIn(t) PROVE ActsAsShown'
    BY <1>7 DEF LoggedIn, Issue, WritesToken, NoToken
<1>8. ASSUME NEW t \in Tab, RegistrationRefused(t) PROVE ActsAsShown'
    BY <1>8 DEF RegistrationRefused, Keeps
<1>9. ASSUME NEW t \in Tab, LoginRefused(t) PROVE ActsAsShown'
    BY <1>9 DEF LoginRefused, SessionEnds, WritesToken, NoToken, Opens, StartedTab
<1>10. ASSUME NEW t \in Tab, HandleGoogleLogin(t) PROVE ActsAsShown'
    BY <1>10 DEF HandleGoogleLogin, SignInShown, Keeps, StartedTab
<1>11. ASSUME NEW t \in Tab, GoogleRefused(t) PROVE ActsAsShown'
    BY <1>11 DEF GoogleRefused, ReloadTab, Opens, Keeps, StartedTab
<1>12. ASSUME NEW t \in Tab, Logout(t) PROVE ActsAsShown'
    BY <1>12 DEF Logout, WritesToken, NoToken, SignedOut
<1>13. ASSUME NEW t \in Tab, Unauthorized(t) PROVE ActsAsShown'
    BY <1>13 DEF Unauthorized, SessionEnds, WritesToken, NoToken, Opens, StartedTab
<1>14. ASSUME NEW t \in Tab, NEW who \in Account, LoginPage(t, who) PROVE ActsAsShown'
    BY <1>14 DEF LoginPage, AsksFor, SignInShown, Keeps
<1>15. ASSUME NEW t \in Tab, NEW who \in Account, RegisterPage(t, who) PROVE ActsAsShown'
    BY <1>15 DEF RegisterPage, AsksFor, SignInShown, Keeps
<1>16. ASSUME NEW t \in Tab, NEW who \in Account, AdminLoginPage(t, who) PROVE ActsAsShown'
    BY <1>16 DEF AdminLoginPage, AsksFor, SignInShown, Keeps
<1>17. ASSUME NEW t \in Tab, NEW who \in Account, AdminRegisterPage(t, who) PROVE ActsAsShown'
    BY <1>17 DEF AdminRegisterPage, AsksFor, SignInShown, Keeps
<1>18. ASSUME NEW t \in Tab, NEW who \in Account, ProcessToken(t, who) PROVE ActsAsShown'
    BY <1>18 DEF ProcessToken, Issue, WritesToken, NoToken
<1>19. ASSUME NEW t \in Tab, NEW who \in Account, NEW u \in Tab, Impersonate(t, u, who)
       PROVE ActsAsShown'
    BY <1>19 DEF Impersonate, Issue, WritesToken, NoToken, Opens, StartedTab
<1>20. CASE UNCHANGED sessionVars
    BY <1>20
<1> QED
    BY <1>1, <1>2, <1>3, <1>4, <1>5, <1>6, <1>7, <1>8, <1>9, <1>10, <1>11, <1>12, <1>13,
       <1>14, <1>15, <1>16, <1>17, <1>18, <1>19, <1>20 DEF SessionNext

-----------------------------------------------------------------------------
LEMMA SessionAlways == SessionSpec => []SessionInv
<1>1. SessionInit => SessionInv
    BY SessionStarts
<1>2. SessionInv /\ [SessionNext]_sessionVars => SessionInv'
  <2> SUFFICES ASSUME SessionInv, [SessionNext]_sessionVars PROVE SessionInv'
    OBVIOUS
  <2> QED
    BY SessionTypeKept, WaitingKept, AskedKept, ActsAsShownKept DEF SessionInv
<1> QED
    BY <1>1, <1>2, PTL DEF SessionSpec

(* Every reachable state of the tabs and of localStorage is well typed.     *)
THEOREM SessionTypeCorrect == SessionSpec => []SessionTypeOK
<1>1. SessionInv => SessionTypeOK
    BY DEF SessionInv
<1> QED
    BY <1>1, SessionAlways, PTL

(* A tab acts as the account it shows, for any number of tabs that sign in, *)
(* sign out, expire and impersonate under each other's feet, unless another *)
(* tab has replaced the token (AuthContext.js, client.js).                  *)
THEOREM ActsAsShownCorrect == SessionSpec => []ActsAsShown
<1>1. SessionInv => ActsAsShown
    BY DEF SessionInv
<1> QED
    BY <1>1, SessionAlways, PTL
=============================================================================
