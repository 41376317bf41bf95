------------------------------ MODULE Session ------------------------------
(***************************************************************************)
(* Who is signed in: the two applications of the dashboard, for users and  *)
(* for the platform's staff, in tabs of one browser.  They share one token *)
(* in localStorage, which signing in, signing out, impersonation, a Google  *)
(* sign-in and the rejection of a call change under each other's feet.      *)
(***************************************************************************)
EXTENDS Naturals, FiniteSets

CONSTANTS
    Tab,       \* tabs of the browser
    Account,   \* accounts
    Platform,  \* those of staff and superadmins
    NoAccount,
    MaxSignIns \* bound: tokens issued

ASSUME SessionAssumption == Platform \subseteq Account /\ NoAccount \notin Account

VARIABLES
    token,    \* localStorage: the account, and whether the token is still good
    tabs,     \* tab |-> application, the account it shows, what it waits for
    signIns,
    foreign   \* history: tabs that have not read the token since another stored one
sessionVars == <<token, tabs, signIns, foreign>>

NoToken == [who |-> NoAccount, good |-> TRUE]
CallKinds == {"none", "me", "login", "register", "google"}

\* Mutant: the provider starts with an account that is nobody's.
StartedTabUndefined(app) ==
    [app |-> app, shown |-> "undefined", loading |-> TRUE, call |-> "none", who |-> NoAccount]

StartedTab(app) ==
    [app |-> app, shown |-> NoAccount, loading |-> TRUE, call |-> "none", who |-> NoAccount]

SessionInit ==
    /\ token = NoToken /\ signIns = 0 /\ foreign = {}
    /\ tabs \in [Tab -> {StartedTab("user"), StartedTab("admin")}]

\* A tab stores a token, or removes it: what the others show is then of
\* another token, or of none.
WritesToken(t, tk) ==
    /\ token' = tk
    /\ foreign' = (IF tk = NoToken THEN foreign ELSE Tab) \ {t}
Issue(t, who) == /\ signIns < MaxSignIns /\ signIns' = signIns + 1
                 /\ WritesToken(t, [who |-> who, good |-> TRUE])
Keeps == UNCHANGED <<token, signIns, foreign>>

----------------------------------------------------------------------------
\* The account a call is made as, if the server takes the token.
Sends == IF token.good THEN token.who ELSE NoAccount

\* The provider's effect reads the token: with one it asks who that is, without
\* it shows the sign-in page.
Mounts(t) ==
    /\ tabs[t].loading /\ tabs[t].call = "none"
    /\ tabs' = [tabs EXCEPT ![t] = IF token = NoToken THEN [@ EXCEPT !.loading = FALSE]
                                   ELSE [@ EXCEPT !.call = "me", !.who = Sends]]
    /\ foreign' = foreign \ {t} /\ UNCHANGED <<token, signIns>>

\* A tab that is loaded again, at its own application or, from a link or a
\* redirect, at the other.
Opens(t, app) == tabs' = [tabs EXCEPT ![t] = StartedTab(app)]
ReloadTab(t) == Opens(t, tabs[t].app) /\ Keeps

\* The sign-in page, in a tab that is not loaded again for it.
SignedOut(t) ==
    tabs' = [tabs EXCEPT ![t] = [@ EXCEPT !.shown = NoAccount, !.loading = FALSE, !.call = "none"]]

\* /auth/me was asked with the token of its time.  The administrators'
\* application turns away an account that is not the platform's.
Welcome(t) == tabs[t].app = "user" \/ tabs[t].who \in Platform
FetchUser(t) ==
    /\ tabs[t].call = "me" /\ tabs[t].who # NoAccount /\ Welcome(t)
    /\ tabs' = [tabs EXCEPT ![t] = [@ EXCEPT !.shown = tabs[t].who, !.loading = FALSE,
                                             !.call = "none"]]
    /\ Keeps
FetchRefused(t) ==
    /\ tabs[t].call = "me" /\ tabs[t].who # NoAccount /\ ~Welcome(t)
    /\ WritesToken(t, NoToken) /\ SignedOut(t) /\ UNCHANGED signIns
\* Any failure, of an expired token or of the network, removes the token
\* there is by then.
FetchFails(t) ==
    /\ tabs[t].call = "me"
    /\ tabs' = [tabs EXCEPT ![t] = [@ EXCEPT !.loading = FALSE, !.call = "none"]]
    /\ WritesToken(t, NoToken) /\ UNCHANGED signIns

SignInShown(t) == ~tabs[t].loading /\ tabs[t].shown = NoAccount /\ tabs[t].call = "none"
\* The four pages that ask for an account: a registration makes a user of an
\* organisation, at the administrators' application one of the staff.
AsksFor(t, app, call, who) ==
    /\ SignInShown(t) /\ tabs[t].app = app /\ Keeps
    /\ tabs' = [tabs EXCEPT ![t] = [@ EXCEPT !.call = call, !.who = who]]
LoginPage(t, who) == AsksFor(t, "user", "login", who)
RegisterPage(t, who) == who \notin Platform /\ AsksFor(t, "user", "register", who)
AdminLoginPage(t, who) == AsksFor(t, "admin", "login", who)
AdminRegisterPage(t, who) == who \in Platform /\ AsksFor(t, "admin", "register", who)
\* Signing in, or registering, stores the token and asks who that is.
LoggedIn(t) ==
    /\ tabs[t].call \in {"login", "register"} /\ Issue(t, tabs[t].who)
    /\ tabs' = [tabs EXCEPT ![t] = [@ EXCEPT !.call = "me"]]
\* A registration is refused with a reason; a wrong password is a 401, which
\* the client takes for the end of the session: it removes the token and goes
\* to the administrators' sign-in page, which in their own application is the
\* same document at another address.
RegistrationRefused(t) ==
    /\ tabs[t].call = "register"
    /\ tabs' = [tabs EXCEPT ![t] = [@ EXCEPT !.call = "none"]]
    /\ Keeps
SessionEnds(t) ==
    /\ WritesToken(t, NoToken) /\ UNCHANGED signIns
    /\ IF tabs[t].app = "admin" THEN tabs' = [tabs EXCEPT ![t].call = "none"]
                                ELSE Opens(t, "admin")
LoginRefused(t) == tabs[t].call = "login" /\ SessionEnds(t)

\* Google comes back to the user's sign-in page with a token in the address.
HandleGoogleLogin(t) ==
    /\ SignInShown(t) /\ tabs[t].app = "user"
    /\ tabs' = [tabs EXCEPT ![t] = [StartedTab("user") EXCEPT !.loading = FALSE, !.call = "google"]]
    /\ Keeps
ProcessToken(t, who) ==
    /\ tabs[t].call = "google" /\ Issue(t, who)
    /\ tabs' = [tabs EXCEPT ![t] = [@ EXCEPT !.call = "me", !.who = who]]
GoogleRefused(t) == tabs[t].call = "google" /\ ReloadTab(t)

\* Mutant: impersonation stays in the tab, which is not loaded again.
ImpersonateHere(t, u, who) ==
    /\ t # u /\ tabs[t].app = "admin" /\ tabs[t].shown # NoAccount
    /\ token.who \in Platform /\ token.good /\ who \notin Platform
    /\ Issue(t, who) /\ UNCHANGED tabs

\* An administrator impersonates a user: the user's application opens in
\* another tab, with a token that replaces the administrator's.
Impersonate(t, u, who) ==
    /\ t # u /\ tabs[t].app = "admin" /\ tabs[t].shown # NoAccount
    /\ token.who \in Platform /\ token.good /\ who \notin Platform
    /\ Issue(u, who) /\ Opens(u, "user")

Logout(t) ==
    /\ tabs[t].shown # NoAccount /\ WritesToken(t, NoToken) /\ SignedOut(t)
    /\ UNCHANGED signIns

\* Any other call: without a token it is a 401, which ends the session; an
\* expired token is a 403, which the client passes on, and nothing changes.
Unauthorized(t) == tabs[t].shown # NoAccount /\ token = NoToken /\ SessionEnds(t)

Expires == /\ token # NoToken /\ token' = [token EXCEPT !.good = FALSE]
           /\ UNCHANGED <<tabs, signIns, foreign>>

SessionNext ==
    \/ Expires
    \/ \E t \in Tab :
         \/ Mounts(t) \/ ReloadTab(t) \/ FetchUser(t) \/ FetchRefused(t) \/ FetchFails(t)
         \/ LoggedIn(t) \/ RegistrationRefused(t) \/ LoginRefused(t)
         \/ HandleGoogleLogin(t) \/ GoogleRefused(t) \/ Logout(t) \/ Unauthorized(t)
         \/ \E who \in Account :
              \/ LoginPage(t, who) \/ RegisterPage(t, who)
              \/ AdminLoginPage(t, who) \/ AdminRegisterPage(t, who)
              \/ ProcessToken(t, who)
              \/ \E u \in Tab : Impersonate(t, u, who)

SessionSpec == SessionInit /\ [][SessionNext]_sessionVars

----------------------------------------------------------------------------
SessionTypeOK ==
    /\ token \in [who : Account \cup {NoAccount}, good : BOOLEAN]
    /\ tabs \in [Tab -> [app : {"user", "admin"}, shown : Account \cup {NoAccount},
                         loading : BOOLEAN, call : CallKinds, who : Account \cup {NoAccount}]]
    /\ signIns \in Nat /\ foreign \subseteq Tab

(* What a tab does, it does as the account it shows: the token it would     *)
(* send is that account's, or there is none; unless another tab has stored  *)
(* a token since this one last stored its own or read it, which it does     *)
(* when it is loaded, to ask who it is, and never again.  Impersonation     *)
(* stores one: the administrator's own tab goes on as the user until it is  *)
(* loaded again.                                                            *)
ActsAsShown ==
    \A t \in Tab : tabs[t].shown # NoAccount =>
        token.who \in {NoAccount, tabs[t].shown} \/ t \in foreign
=============================================================================
