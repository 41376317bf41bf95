------------------------------- MODULE Shell -------------------------------
(***************************************************************************)
(* What surrounds the pages of the two applications: the menus and the     *)
(* address they set, the announcements' banner, the tour, the theme, and   *)
(* the toasts.  Windows of one browser share what localStorage keeps.       *)
(***************************************************************************)
EXTENDS Naturals, FiniteSets

CONSTANTS
    Window,       \* windows of the browser
    Announcement, \* announcements the platform may publish
    MaxClock,     \* bound: ticks of the clock
    MaxToasts     \* bound: toasts shown

VARIABLES
    route,     \* the address, the role it is seen in, what was asked for
    kept,      \* localStorage
    active,    \* server: announcements that are active
    banner,    \* window |-> the banner: mounted, ids dismissed, ids listed
    tour,      \* window |-> the dashboard's tour
    theme,     \* window |-> the document's theme, and what the two buttons show
    toasts,    \* toasts shown, by the clock they were made at
    timers,    \* timers that remove them
    clock,
    said,      \* history: announcements dismissed, tour completed
    elsewhere, \* history: window |-> what another window has changed since
    ended      \* history: toasts that timed out or were closed
routeVars == <<route>>
bannerVars == <<kept, active, banner, said, elsewhere>>
tourVars == <<tour>>
toastVars == <<toasts, timers, clock, ended>>
shellVars == <<route, bannerVars, tour, theme, toastVars>>

----------------------------------------------------------------------------
(* The menus, and the routers of the applications.                          *)

Roles == {"user", "staff", "manager", "superadmin"}
Sidebar == {"dashboard", "campaigns", "contacts", "messages", "pricing", "settings",
            "sender-ids", "help", "api-docs"}
MobileNav == {"dashboard", "campaigns", "contacts", "sender-ids", "messages"}
PhoneAccountMenu == {"pricing", "sender-ids", "api-docs", "settings", "help"}
AccountMenu == {"pricing", "api-docs", "settings", "help"}
\* A notification may lead to the verification of a sender ID.
Notifications == {"notifications", "sender-ids/verify"}
PageLinks == {"campaigns/create", "templates"}
AdminSidebar(role) ==
    {"overview", "admin-transactions", "approvals", "search", "audit", "announcements", "health"}
      \cup (IF role \in {"manager", "superadmin"} THEN {"management", "bugs"} ELSE {})
      \cup (IF role = "superadmin" THEN {"staff", "users"} ELSE {})
BottomNav(role) ==
    {"overview", "admin-transactions", "approvals",
     IF role \in {"manager", "superadmin"} THEN "management" ELSE "search"}
MobileMenu(role) == AdminSidebar(role) \cup {"settings"}
Offered(role, drawer) ==
    IF role = "user"
    THEN Sidebar \cup MobileNav \cup PhoneAccountMenu \cup AccountMenu \cup Notifications
           \cup PageLinks
    ELSE IF drawer THEN MobileMenu(role) ELSE AdminSidebar(role) \cup BottomNav(role)

UserRoutes == {"campaigns", "campaigns/create", "contacts", "messages", "pricing", "sender-ids",
               "sender-ids/verify", "templates", "settings", "help", "api-docs", "docs"}
\* Mutant: the router does not know the list of users.
AdminRoutesUnlisted == {"overview", "admin-transactions", "approvals", "management", "staff",
                        "search", "audit", "announcements", "health", "bugs", "settings"}
AdminRoutes == {"overview", "admin-transactions", "approvals", "management", "staff", "users",
                "search", "audit", "announcements", "health", "bugs", "settings"}
RenderPage(role, hash) ==
    IF role = "user" THEN IF hash \in UserRoutes THEN hash ELSE "dashboard"
                     ELSE IF hash \in AdminRoutes THEN hash ELSE "approvals"
\* The heading goes by the first part of the address, but for verifications.
PageInfo(hash) ==
    CASE hash = "campaigns/create" -> "campaigns" [] hash = "docs" -> "dashboard"
      [] OTHER -> RenderPage("user", hash)
PageTitle(hash) == IF hash \in AdminRoutes THEN hash ELSE "console"

RouteInit ==
    route \in {[role |-> r, hash |-> "login", asked |-> "none", drawer |-> FALSE] : r \in Roles}
\* Choosing from the drawer closes it too.
OnNavigate(hash) ==
    route' = [route EXCEPT !.hash = hash, !.asked = hash, !.drawer = FALSE]
SetMenuOpen == route.role # "user" /\ route' = [route EXCEPT !.drawer = ~route.drawer]
RouteNext == /\ SetMenuOpen \/ \E hash \in Offered(route.role, route.drawer) : OnNavigate(hash)
             /\ UNCHANGED <<bannerVars, tour, theme, toastVars>>

----------------------------------------------------------------------------
(* Announcements and the tour: what was dismissed or completed is kept.     *)

NoChange == [dismissed |-> {}, tour |-> FALSE]
BannerInit ==
    /\ kept = [dismissed |-> {}, tour |-> FALSE, theme |-> "none"] /\ active = {}
    /\ banner = [w \in Window |-> [mounted |-> FALSE, dismissed |-> {}, listed |-> {}]]
    /\ tour = [w \in Window |-> [mounted |-> FALSE, timer |-> FALSE, open |-> FALSE, step |-> 1]]
    /\ said = [dismissed |-> {}, clobbered |-> {}, tour |-> FALSE]
    /\ elsewhere = [w \in Window |-> NoChange]

\* Mutant: what was dismissed is not read when the application is opened.
MountBannerFresh(w) ==
    /\ banner' = [banner EXCEPT ![w] = [mounted |-> TRUE, dismissed |-> {}, listed |-> {}]]
    /\ elsewhere' = [elsewhere EXCEPT ![w].dismissed = {}]
    /\ UNCHANGED <<kept, active, said>>

\* Opening the application, or reloading it, reads the ids dismissed once.
MountBanner(w) ==
    /\ banner' = [banner EXCEPT
                     ![w] = [mounted |-> TRUE, dismissed |-> kept.dismissed, listed |-> {}]]
    /\ elsewhere' = [elsewhere EXCEPT ![w].dismissed = {}]
    /\ UNCHANGED <<kept, active, said>>
FetchAnnouncements(w) ==
    /\ banner[w].mounted /\ banner' = [banner EXCEPT ![w].listed = active]
    /\ UNCHANGED <<kept, active, said, elsewhere>>
Visible(w) == banner[w].listed \ banner[w].dismissed
HandleDismiss(w, a) ==
    LET next == banner[w].dismissed \cup {a}
    IN /\ a \in Visible(w)
       /\ banner' = [banner EXCEPT ![w].dismissed = next]
       /\ kept' = [kept EXCEPT !.dismissed = next]
       /\ said' = [said EXCEPT !.dismissed = @ \cup {a},
                               !.clobbered = (@ \cup kept.dismissed) \ next]
       /\ elsewhere' = [v \in Window |-> IF v = w THEN elsewhere[v]
                          ELSE [elsewhere[v] EXCEPT !.dismissed = @ \cup next]]
       /\ UNCHANGED active
Publish(a) ==
    /\ active' = IF a \in active THEN active \ {a} ELSE active \cup {a}
    /\ UNCHANGED <<kept, banner, said, elsewhere>>
BannerNext == /\ \/ \E a \in Announcement : Publish(a) \/ \E w \in Window : HandleDismiss(w, a)
                 \/ \E w \in Window : MountBanner(w) \/ FetchAnnouncements(w)
              /\ UNCHANGED <<route, tour, theme, toastVars>>

\* The dashboard's page mounts the tour, and starts its timer if it was never
\* completed; leaving the page unmounts it.
TourSteps == 4
\* Mutant: the timer starts whether the tour was completed or not.
MountTourAlways(w) ==
    /\ ~tour[w].mounted
    /\ tour' = [tour EXCEPT ![w] = [mounted |-> TRUE, timer |-> TRUE, open |-> FALSE, step |-> 1]]
    /\ elsewhere' = [elsewhere EXCEPT ![w].tour = FALSE] /\ UNCHANGED <<kept, said>>
MountTour(w) ==
    /\ ~tour[w].mounted
    /\ tour' = [tour EXCEPT
                   ![w] = [mounted |-> TRUE, timer |-> ~kept.tour, open |-> FALSE, step |-> 1]]
    /\ elsewhere' = [elsewhere EXCEPT ![w].tour = FALSE] /\ UNCHANGED <<kept, said>>
UnmountTour(w) ==
    /\ tour[w].mounted
    /\ tour' = [tour EXCEPT ![w] = [mounted |-> FALSE, timer |-> FALSE, open |-> FALSE, step |-> 1]]
    /\ UNCHANGED <<kept, said, elsewhere>>
TourTimer(w) ==
    /\ tour[w].timer /\ tour' = [tour EXCEPT ![w].timer = FALSE, ![w].open = TRUE]
    /\ UNCHANGED <<kept, said, elsewhere>>
CompleteTour(w) ==
    /\ tour[w].open /\ tour' = [tour EXCEPT ![w].open = FALSE]
    /\ kept' = [kept EXCEPT !.tour = TRUE] /\ said' = [said EXCEPT !.tour = TRUE]
    /\ elsewhere' = [v \in Window |-> [elsewhere[v] EXCEPT !.tour = @ \/ v # w]]
TurnStep(w, to) ==
    /\ tour[w].open /\ to \in 1..TourSteps /\ to \in {tour[w].step - 1, tour[w].step + 1}
    /\ tour' = [tour EXCEPT ![w].step = to] /\ UNCHANGED <<kept, said, elsewhere>>
TourNext ==
    /\ \E w \in Window : \/ MountTour(w) \/ UnmountTour(w) \/ TourTimer(w) \/ CompleteTour(w)
                         \/ \E to \in 1..TourSteps : TurnStep(w, to)
    /\ UNCHANGED <<route, active, banner, theme, toastVars>>

----------------------------------------------------------------------------
(* The administrators' theme: a button in the sidebar, one in the header.   *)

Dark(saved) == saved # "light"
ThemeInit ==
    theme = [w \in Window |->
               [open |-> FALSE, dark |-> FALSE, sidebar |-> FALSE, header |-> FALSE]]
\* The application sets the document's theme before it shows the buttons.
OpenAdmin(w) ==
    LET d == Dark(kept.theme)
    IN /\ theme' = [theme EXCEPT ![w] = [open |-> TRUE, dark |-> d, sidebar |-> d, header |-> d]]
       /\ kept' = [kept EXCEPT !.theme = IF @ = "none" THEN "dark" ELSE @]
\* A button goes by the document, and tells the other one.
ThemeChange(t) == [t EXCEPT !.sidebar = t.dark, !.header = t.dark]
ToggleTheme(w, button) ==
    LET d == ~theme[w].dark
    IN /\ theme[w].open
       /\ theme' = [theme EXCEPT ![w] = ThemeChange([@ EXCEPT !.dark = d, ![button] = d])]
       /\ kept' = [kept EXCEPT !.theme = IF d THEN "dark" ELSE "light"]
ThemeNext == /\ \E w \in Window : OpenAdmin(w) \/ \E b \in {"sidebar", "header"} : ToggleTheme(w, b)
             /\ UNCHANGED <<route, active, banner, said, elsewhere, tour, toastVars>>

----------------------------------------------------------------------------
(* Toasts, which go by the millisecond they were made in.                   *)

Lifetime == 2
ToastInit == toasts = {} /\ timers = {} /\ clock = 0 /\ ended = {}
Made == {t.n : t \in timers} \cup {t.n : t \in ended}
\* Mutant: ids are coarser than the clock.
ShowToastCoarse ==
    LET t == [id |-> clock \div 2, n |-> Cardinality(Made) + 1, born |-> clock]
    IN /\ Cardinality(Made) < MaxToasts
       /\ toasts' = toasts \cup {t} /\ timers' = timers \cup {t}
       /\ UNCHANGED <<clock, ended>>
ShowToast ==
    LET t == [id |-> clock, n |-> Cardinality(Made) + 1, born |-> clock]
    IN /\ Cardinality(Made) < MaxToasts
       /\ toasts' = toasts \cup {t} /\ timers' = timers \cup {t}
       /\ UNCHANGED <<clock, ended>>
Without(id) == {t \in toasts : t.id # id}
RemoveToast(t) ==
    /\ toasts' = Without(t.id) /\ ended' = ended \cup {t} /\ UNCHANGED <<timers, clock>>
ToastTimer(t) ==
    /\ clock >= t.born + Lifetime /\ timers' = timers \ {t}
    /\ toasts' = Without(t.id) /\ ended' = ended \cup {t} /\ UNCHANGED clock
Tick == clock < MaxClock /\ clock' = clock + 1 /\ UNCHANGED <<toasts, timers, ended>>
ToastNext == /\ \/ ShowToast \/ Tick
                \/ \E t \in toasts : RemoveToast(t)
                \/ \E t \in timers : ToastTimer(t)
             /\ UNCHANGED <<route, bannerVars, tour, theme>>

ShellInit == RouteInit /\ BannerInit /\ ThemeInit /\ ToastInit
ShellNext == RouteNext \/ BannerNext \/ TourNext \/ ThemeNext \/ ToastNext
ShellSpec == ShellInit /\ [][ShellNext]_shellVars

----------------------------------------------------------------------------
(* Every entry of the nine menus leads to the page it names, under its own  *)
(* heading: the menus and the two routers are lists kept apart.  The        *)
(* notifications' "View All Updates" leads to the dashboard, and the        *)
(* campaign wizard has the heading of the list of campaigns.                *)
MenusLeadWhereTheySay ==
    LET page == RenderPage(route.role, route.hash)
    IN route.asked \notin {"none", "notifications"} =>
         /\ page = route.asked
         /\ IF route.role = "user" THEN PageInfo(route.hash) = page \/ page = "campaigns/create"
                                   ELSE PageTitle(route.hash) = page

(* An announcement that was dismissed is not shown again, in no window that *)
(* was opened since, unless another window, which had not read that it was, *)
(* dismissed something itself and wrote its own list over the one kept.     *)
DismissedStaysDismissed ==
    \A w \in Window :
        Visible(w) \cap said.dismissed \subseteq said.clobbered \cup elsewhere[w].dismissed

(* The tour is offered until it was completed or skipped in any window; it  *)
(* opens once more only on a dashboard that was there before.               *)
TourOffersItselfOnce == \A w \in Window : tour[w].open /\ said.tour => elsewhere[w].tour

(* A toast is seen until its time is over or it is closed; a toast made in  *)
(* the same millisecond, which has the same id, takes it away with itself.  *)
ToastsLast ==
    \A t \in timers : t \in toasts \/ \E u \in ended : u.born = t.born
=============================================================================
