------------------------------ MODULE Wizard ------------------------------
(***************************************************************************)
(* The dashboard's campaign wizard: four steps that fill a form, the       *)
(* draft of it kept in the tab's session storage, the save that makes or   *)
(* updates a campaign, and the checkout that prices a broadcast against    *)
(* the wallet before it is confirmed.                                      *)
(***************************************************************************)
EXTENDS Integers, FiniteSets, Sequences

CONSTANTS
    Person,       \* contacts, by the number they are reached at
    Group,        \* segments
    GroupMembers, \* segment |-> the contacts in it
    Approved,     \* sender IDs the organization has approved
    Raw,          \* numbers typed in or taken from the phone's own contacts
    TextLength,   \* the lengths of message the user may write
    Edited,       \* number of recipients of the draft campaign that exists already
    Wallets,      \* the balances it may have then, in SMS: [payg_org, sub, payg]
    Drafts,       \* forms that a page which was left before may have stored
    MaxSaved,     \* bound: campaigns
    MaxMounts     \* bound: times the page is opened

Forms ==
    [step : 1..4, len : Nat, scheduled : BOOLEAN,
     contacts : SUBSET Person, groups : SUBSET Group, raw : SUBSET Raw]

ASSUME WizAssumption ==
    /\ IsFiniteSet(Person) /\ IsFiniteSet(Raw) /\ IsFiniteSet(Group)
    /\ IsFiniteSet(UNION {GroupMembers[g] : g \in Group})
    /\ TextLength \subseteq Nat /\ Edited \in Nat
    /\ \A f \in Drafts : f \in Forms
    /\ Wallets \subseteq [payg_org : BOOLEAN, sub : Nat, payg : Nat]

VARIABLES
    camps,     \* server: the organization's campaigns, by id
    stored,    \* session storage: the draft's form
    wiz,       \* the page
    wizCalls,  \* saves and broadcasts under way
    mounts,    \* number of times the page was opened
    draft,     \* history: the number of the draft that is stored
    doubt      \* history: the outcome of a broadcast never reached the page
wizVars == <<camps, stored, wiz, wizCalls, mounts, draft, doubt>>

NoBalance == [payg_org |-> FALSE, sub |-> 0, payg |-> 0]
Checkout(id, total, uncounted, len) ==
    [id |-> id, total |-> total, uncounted |-> uncounted, len |-> len,
     read |-> FALSE, balance |-> NoBalance]
NoCheckout == Checkout(0, 0, {}, 0)
EmptyForm == [step |-> 1, len |-> 0, scheduled |-> FALSE,
              contacts |-> {}, groups |-> {}, raw |-> {}]

\* Messages over 160 characters are billed in parts of 153.
Parts(len) == IF len > 160 THEN (len + 152) \div 153 ELSE IF len = 0 THEN 0 ELSE 1
SmsLimit == 612

\* Whom a saved form reaches: the server joins the three kinds of recipient.
Recipients(f) ==
    f.contacts \cup f.raw \cup UNION {GroupMembers[g] : g \in f.groups}

\* segments: what the page has of the list of segments.
Closed == [form |-> EmptyForm, edit |-> 0, shown |-> FALSE, segments |-> "unread",
           loading |-> FALSE, modal |-> "none", checkout |-> NoCheckout]

WizInit ==
    /\ camps = <<[size |-> Edited, len |-> 1, status |-> "draft", draft |-> 0]>>
    /\ stored \in {EmptyForm} \cup Drafts
    /\ wiz = Closed
    /\ wizCalls = {} /\ mounts = 0 /\ draft = 1 /\ doubt = FALSE

----------------------------------------------------------------------------
(* Opening and leaving the page.                                            *)

\* Step 2 and its dialogs ask for the list of segments; one that is there is
\* kept until the next answer, which says the same.
Asked(segments) == IF segments = "unread" THEN "reading" ELSE segments

\* The form starts from the stored draft, in edit mode too; the list of
\* segments starts empty.
Mount(edit) ==
    /\ ~wiz.shown /\ mounts < MaxMounts /\ mounts' = mounts + 1
    /\ edit \in {0} \cup {i \in 1..Len(camps) : camps[i].status = "draft"}
    /\ wiz' = [form |-> stored, edit |-> edit, shown |-> TRUE,
               segments |-> IF stored.step = 2 THEN "reading" ELSE "unread",
               loading |-> FALSE, modal |-> "none", checkout |-> NoCheckout]
    /\ UNCHANGED <<camps, stored, wizCalls, draft, doubt>>

\* The answer to the read of the segments, whenever it comes; an error is
\* logged, and no more.
SegmentsRead ==
    /\ wiz.segments = "reading"
    /\ wiz' = [wiz EXCEPT !.segments = "read"]
    /\ UNCHANGED <<camps, stored, wizCalls, mounts, draft, doubt>>
SegmentsFail ==
    /\ wiz.segments = "reading"
    /\ wiz' = [wiz EXCEPT !.segments = "unread"]
    /\ UNCHANGED <<camps, stored, wizCalls, mounts, draft, doubt>>

\* Another page is opened, or this one is reloaded: the calls go on.
Unheard(calls) == {[c EXCEPT !.mounted = FALSE] : c \in calls}
LeavePage ==
    /\ wiz.shown
    /\ wiz' = Closed
    /\ wizCalls' = Unheard(wizCalls)
    /\ doubt' = (doubt \/ \E c \in wizCalls : c.op = "broadcast")
    /\ UNCHANGED <<camps, stored, mounts, draft>>

\* The answer to the read of the campaign fills the form, not the recipients.
FetchCampaignToEdit ==
    /\ wiz.shown /\ wiz.edit # 0
    /\ wiz' = [wiz EXCEPT !.form.len = camps[wiz.edit].len,
                          !.form.scheduled = FALSE]
    /\ UNCHANGED <<camps, stored, wizCalls, mounts, draft, doubt>>

----------------------------------------------------------------------------
(* The steps of the form.                                                   *)

\* Every change of the form is stored, except in edit mode.
Kept(w) == IF w.edit = 0 THEN w.form ELSE stored

Fills(w) ==
    /\ wiz.shown /\ wiz.checkout = NoCheckout
    /\ wiz' = w /\ stored' = Kept(w)
    /\ UNCHANGED <<camps, wizCalls, mounts, draft, doubt>>

Step(s) == wiz.form.step = s /\ wiz.modal = "none"
GoTo(s) ==
    Fills([wiz EXCEPT !.form.step = s, !.segments = IF s = 2 THEN Asked(@) ELSE @])

\* Only sender IDs that are approved can be selected, and one must be.
SenderChosen == Step(1) /\ Approved # {}
NextFromName == SenderChosen /\ GoTo(2)

OpenModal(m) == Step(2) /\ Fills([wiz EXCEPT !.modal = m, !.segments = Asked(@)])
CloseModal ==
    wiz.modal # "none" /\ Fills([wiz EXCEPT !.modal = "none", !.segments = Asked(@)])

\* The check boxes and chips of segments come with their list.  (The list of
\* contacts has a read of its own; nothing is counted from it.)
Choosable(kind) == kind = "groups" => wiz.segments = "read"

\* The check boxes of the two dialogs.
Toggle(kind, x) ==
    /\ wiz.modal = kind /\ Choosable(kind)
    /\ Fills([wiz EXCEPT !.form[kind] = IF x \in @ THEN @ \ {x} ELSE @ \cup {x}])
SelectAll(checked) ==
    /\ wiz.modal = "contacts"
    /\ Fills([wiz EXCEPT !.form.contacts = IF checked THEN Person ELSE {}])

\* The selector's own list of numbers, and its chips that drop a recipient.
AddRaw(r) == Step(2) /\ Fills([wiz EXCEPT !.form.raw = @ \cup {r}])
Drop(kind, x) ==
    Step(2) /\ Choosable(kind) /\ Fills([wiz EXCEPT !.form[kind] = @ \ {x}])
NextFromRecipients ==
    /\ Step(2) /\ (wiz.form.contacts # {} \/ wiz.form.groups # {} \/ wiz.form.raw # {})
    /\ GoTo(3)

\* The text is typed, or taken from a stored template.
WriteTemplate(n) == Step(3) /\ Fills([wiz EXCEPT !.form.len = n])
SelectTemplate(n) == WriteTemplate(n)
NextFromTemplate ==
    Step(3) /\ wiz.form.len > 0 /\ wiz.form.len <= SmsLimit /\ GoTo(4)
StepBack == wiz.modal = "none" /\ wiz.form.step > 1 /\ GoTo(wiz.form.step - 1)
SetSchedule(b) == Step(4) /\ Fills([wiz EXCEPT !.form.scheduled = b])

----------------------------------------------------------------------------
(* Saving, checking out and broadcasting.                                   *)

\* Mutant: the buttons stay enabled while the form is saved.
SaveOfferedAlways == wiz.shown /\ Step(4) /\ wiz.checkout = NoCheckout
SaveOffered == wiz.shown /\ Step(4) /\ ~wiz.loading /\ wiz.checkout = NoCheckout
BroadcastOffered == SaveOffered /\ ~wiz.form.scheduled

\* The members of each segment, one by one: as many as the counts add up to.
Memberships(selected) == UNION {{g} \X GroupMembers[g] : g \in selected}

\* What the checkout will count: the segments the page has read, and the rest.
Counted(w) == IF w.segments = "read" THEN w.form.groups ELSE {}
TotalRecipients(w) ==
    Cardinality(w.form.contacts) + Cardinality(w.form.raw)
      + Cardinality(Memberships(Counted(w)))

HandleSubmit(then) ==
    /\ IF then = "checkout" THEN BroadcastOffered ELSE SaveOffered
    /\ wiz' = [wiz EXCEPT !.loading = TRUE]
    /\ wizCalls' = wizCalls \cup
         {[op |-> "save", then |-> then, size |-> Cardinality(Recipients(wiz.form)),
           len |-> wiz.form.len, id |-> wiz.edit, total |-> TotalRecipients(wiz),
           uncounted |-> wiz.form.groups \ Counted(wiz), draft |-> draft, mounted |-> TRUE]}
    /\ UNCHANGED <<camps, stored, mounts, draft, doubt>>

\* Every save outside edit mode makes a campaign; in edit mode the server
\* updates the name, the text and the schedule of the one there is, which is
\* a campaign of its own from then on.
Stores(c) ==
    IF c.id = 0
    THEN Append(camps, [size |-> c.size, len |-> c.len, status |-> "draft",
                         draft |-> c.draft])
    ELSE [camps EXCEPT ![c.id].len = c.len, ![c.id].draft = 0]
MayStore(c) == c.id = 0 => Len(camps) < MaxSaved

\* A redirect leaves the page, and clears the stored draft, of whichever
\* campaign it is, even when the page that asked for it was left before.
Redirects(c) ==
    /\ stored' = EmptyForm /\ draft' = draft + 1
    /\ wiz' = Closed /\ wizCalls' = Unheard(wizCalls \ {c})

Saved(c) ==
    /\ MayStore(c) /\ camps' = Stores(c)
    /\ IF c.then = "redirect" THEN Redirects(c)
       ELSE /\ wiz' = IF c.mounted
                      THEN [wiz EXCEPT !.loading = FALSE, !.checkout =
                              Checkout(IF c.id = 0 THEN Len(camps) + 1 ELSE c.id,
                                       c.total, c.uncounted, c.len)]
                      ELSE wiz
            /\ wizCalls' = wizCalls \ {c}
            /\ UNCHANGED <<stored, draft>>
    /\ UNCHANGED <<mounts, doubt>>

\* The form is there to be saved again, also when it was saved and the answer
\* was lost.
SaveFails(c) ==
    /\ wizCalls' = wizCalls \ {c}
    /\ wiz' = IF c.mounted THEN [wiz EXCEPT !.loading = FALSE] ELSE wiz
    /\ \/ UNCHANGED camps
       \/ MayStore(c) /\ camps' = Stores(c)
    /\ UNCHANGED <<stored, mounts, draft, doubt>>

CheckoutOpen == wiz.shown /\ wiz.checkout # NoCheckout

\* The balance is read when the checkout opens, and not again.
FetchBalance ==
    /\ CheckoutOpen /\ ~wiz.checkout.read
    /\ \E w \in Wallets :
         wiz' = [wiz EXCEPT !.checkout.balance = w, !.checkout.read = TRUE]
    /\ UNCHANGED <<camps, stored, wizCalls, mounts, draft, doubt>>

\* Mutant: the checkout charges a long message once.
NeededOnce(k) == k.total

\* The checkout's cases: what it calls covered, and what it lets be confirmed
\* (with the flag use_payg).
Needed(k) == k.total * Parts(k.len)
PaygOrgCovered(k) == k.balance.payg_org /\ k.balance.payg >= Needed(k)
PaygOrgPartly(k) ==
    k.balance.payg_org /\ ~PaygOrgCovered(k) /\ Parts(k.len) > 0 /\ k.balance.payg >= Parts(k.len)
PlanCovered(k) == ~k.balance.payg_org /\ k.balance.sub >= Needed(k)
FallbackCovered(k) == ~k.balance.payg_org /\ ~PlanCovered(k)
                        /\ k.balance.payg >= Needed(k) - k.balance.sub
PlanPartly(k) == ~k.balance.payg_org /\ ~PlanCovered(k) /\ ~FallbackCovered(k)
                   /\ k.balance.sub + k.balance.payg > 0
SaysCovered(k) ==
    k.read /\ (PaygOrgCovered(k) \/ PlanCovered(k) \/ FallbackCovered(k))
CheckoutOffers(use_payg) ==
    LET k == wiz.checkout
    IN /\ CheckoutOpen /\ k.read
       /\ IF use_payg
          THEN PaygOrgCovered(k) \/ PaygOrgPartly(k) \/ FallbackCovered(k) \/ PlanPartly(k)
          ELSE PlanCovered(k) \/ FallbackCovered(k)

CancelCheckout ==
    /\ CheckoutOpen
    /\ wiz' = [wiz EXCEPT !.checkout = NoCheckout]
    /\ UNCHANGED <<camps, stored, wizCalls, mounts, draft, doubt>>

ConfirmBroadcast(use_payg) ==
    /\ CheckoutOffers(use_payg)
    /\ wiz' = [wiz EXCEPT !.checkout = NoCheckout, !.loading = TRUE]
    /\ wizCalls' = wizCalls \cup
         {[op |-> "broadcast", then |-> "redirect", id |-> wiz.checkout.id, mounted |-> TRUE]}
    /\ UNCHANGED <<camps, stored, mounts, draft, doubt>>

Starts(id) == camps[id].status = "draft"

Broadcast(c) ==
    /\ Starts(c.id) /\ camps' = [camps EXCEPT ![c.id].status = "sending"]
    /\ Redirects(c)
    /\ UNCHANGED <<mounts, doubt>>

BroadcastFails(c) ==
    /\ wizCalls' = wizCalls \ {c}
    /\ wiz' = IF c.mounted THEN [wiz EXCEPT !.loading = FALSE] ELSE wiz
    /\ \/ UNCHANGED <<camps, doubt>>
       \/ /\ Starts(c.id) /\ doubt' = TRUE
          /\ camps' = [camps EXCEPT ![c.id].status = "sending"]
    /\ UNCHANGED <<stored, mounts, draft>>

SaveCalls == {c \in wizCalls : c.op = "save"}
BroadcastCalls == wizCalls \ SaveCalls

WizNext ==
    \/ \E i \in 0..MaxSaved : Mount(i)
    \/ LeavePage \/ FetchCampaignToEdit \/ SegmentsRead \/ SegmentsFail \/ CloseModal
    \/ NextFromName \/ NextFromRecipients \/ NextFromTemplate \/ StepBack
    \/ \E m \in {"contacts", "groups"} : OpenModal(m)
    \/ \E b \in BOOLEAN : SelectAll(b) \/ SetSchedule(b) \/ ConfirmBroadcast(b)
    \/ \E p \in Person : Toggle("contacts", p) \/ Drop("contacts", p)
    \/ \E g \in Group : Toggle("groups", g) \/ Drop("groups", g)
    \/ \E r \in Raw : AddRaw(r) \/ Drop("raw", r)
    \/ \E n \in TextLength : WriteTemplate(n) \/ SelectTemplate(n)
    \/ \E then \in {"redirect", "checkout"} : HandleSubmit(then)
    \/ \E c \in SaveCalls : Saved(c) \/ SaveFails(c)
    \/ FetchBalance \/ CancelCheckout
    \/ \E c \in BroadcastCalls : Broadcast(c) \/ BroadcastFails(c)
WizSpec == WizInit /\ [][WizNext]_wizVars

----------------------------------------------------------------------------
(* A broadcast the checkout calls covered is covered by the balance it      *)
(* shows, but for the members of segments whose list had not come when the  *)
(* button was pressed: the campaign that was saved needs no more.  The      *)
(* count is the page's own, made before the save, of the form of a draft    *)
(* that may be restored at any step, with reads that are slow or fail.  In  *)
(* edit mode nothing is said: the campaign keeps the recipients it was made *)
(* with, whatever the form counts.                                          *)
Needs(k) == camps[k.id].size * Parts(camps[k.id].len)
Has(k) == k.balance.payg + (IF k.balance.payg_org THEN 0 ELSE k.balance.sub)
Missed(k) == Cardinality(Memberships(k.uncounted)) * Parts(k.len)
CoveredIsCovered ==
    (CheckoutOpen /\ SaysCovered(wiz.checkout) /\ wiz.edit = 0)
      => Needs(wiz.checkout) <= Has(wiz.checkout) + Missed(wiz.checkout)

(* The comment at the checkout's plan case reads "Subscription covers the   *)
(* entire broadcast": what it then offers is paid by the plan and balance.  *)
CoversTheEntireBroadcast ==
    (CheckoutOpen /\ SaysCovered(wiz.checkout)) => Needs(wiz.checkout) <= Has(wiz.checkout)

(* One draft is broadcast once: every press of Broadcast Now saves another  *)
(* campaign, so only the page's state keeps the second from being confirmed *)
(* too.  It does, unless the outcome of a broadcast never reached the page: *)
(* its answer was lost, or the page was left before it came.  A campaign    *)
(* that was saved from the form and not broadcast stays behind as a draft:  *)
(* who opens it to edit it, and saves it, has another draft.                *)
OneBroadcastPerDraft ==
    \A i, j \in 1..Len(camps) :
       (/\ i # j /\ camps[i].draft = camps[j].draft /\ camps[i].draft # 0
        /\ camps[i].status = "sending" /\ camps[j].status = "sending") => doubt
=============================================================================
