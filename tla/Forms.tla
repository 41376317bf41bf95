------------------------------- MODULE Forms -------------------------------
(***************************************************************************)
(* The dialogs of both applications that post what was typed into them:    *)
(* which of them wait for their answer before they can post again, what    *)
(* closing them does to the draft, and what the answer does, which comes    *)
(* when the dialog may have been closed, and opened for another draft.      *)
(***************************************************************************)
EXTENDS Naturals, FiniteSets

CONSTANTS
    Form,      \* the forms
    MaxDrafts, \* bound: drafts typed
    MaxPosts   \* bound: posts of one draft

ASSUME FormsAssumption ==
    /\ MaxDrafts \in Nat \ {0} /\ MaxPosts \in Nat
    /\ Form \subseteq {"report", "template", "announcement", "adjustment", "grant", "plan",
                      "export", "invite", "profile"}

VARIABLES
    form,     \* the form: its rules, whether it is open, its draft, its guard
    posts,    \* draft |-> posts under way
    sent,     \* draft |-> posts so far
    applied,  \* server: draft |-> times it was done
    lost,     \* history: drafts done without the page knowing
    repeated, \* history: drafts posted while they were being posted
    late,     \* history: drafts begun before the last answer, or its timer, had come
    dismissed \* history: drafts closed by an answer or its timer
formVars == <<form, posts, sent, applied, lost, repeated, late, dismissed>>

Draft == 1..MaxDrafts

\* guarded: the button is disabled while it posts; clears: closing it, or
\* opening it, begins a new draft; frees: closing it lifts the guard as well;
\* lasts: a success is shown until a timer closes it; held: it has no way out.
Rules(guarded, clears, frees, lasts, held) ==
    [guarded |-> guarded, clears |-> clears, frees |-> frees, lasts |-> lasts, held |-> held]
ReportBug == Rules(TRUE, TRUE, TRUE, TRUE, FALSE)
NewTemplate == Rules(FALSE, FALSE, FALSE, FALSE, FALSE)
NewAnnouncement == Rules(FALSE, FALSE, FALSE, FALSE, FALSE)
AdjustBalance == Rules(TRUE, TRUE, FALSE, FALSE, FALSE)
GrantCredits == Rules(TRUE, FALSE, FALSE, FALSE, FALSE)
AssignPlan == Rules(TRUE, TRUE, FALSE, FALSE, FALSE)
ExportUsers == Rules(FALSE, FALSE, FALSE, FALSE, FALSE)
StaffInvite == Rules(TRUE, TRUE, FALSE, FALSE, TRUE)
CompleteProfile == Rules(TRUE, FALSE, FALSE, FALSE, TRUE)
RulesOf(f) ==
    CASE f = "report" -> ReportBug [] f = "template" -> NewTemplate
      [] f = "announcement" -> NewAnnouncement [] f = "adjustment" -> AdjustBalance
      [] f = "grant" -> GrantCredits [] f = "plan" -> AssignPlan
      [] f = "export" -> ExportUsers [] f = "invite" -> StaffInvite
      [] f = "profile" -> CompleteProfile

FormInit ==
    /\ form \in {[rules |-> RulesOf(f), open |-> RulesOf(f).held, draft |-> 1,
                  posting |-> FALSE, done |-> FALSE, timers |-> 0] : f \in Form}
    /\ posts = [d \in Draft |-> 0] /\ sent = [d \in Draft |-> 0]
    /\ applied = [d \in Draft |-> 0]
    /\ lost = {} /\ repeated = {} /\ late = {} /\ dismissed = {}

PostsKept == UNCHANGED <<posts, sent, applied, lost, repeated, dismissed>>

\* A new draft; it is late if something of an earlier one is still to come.
NewDraft(f) ==
    /\ f.draft < MaxDrafts
    /\ late' = IF (\E d \in Draft : posts'[d] > 0) \/ f.timers > 0
               THEN late \cup {f.draft + 1} ELSE late
    /\ form' = [f EXCEPT !.draft = @ + 1]

OpenForm ==
    /\ ~form.open /\ PostsKept
    /\ IF form.rules.clears /\ sent[form.draft] > 0 THEN NewDraft([form EXCEPT !.open = TRUE])
       ELSE form' = [form EXCEPT !.open = TRUE] /\ UNCHANGED late
CloseForm ==
    /\ form.open /\ ~form.rules.held /\ PostsKept /\ UNCHANGED late
    /\ form' = [form EXCEPT !.open = FALSE, !.done = FALSE,
                            !.posting = @ /\ ~form.rules.frees]

\* Mutant: no button is disabled while its form posts.
SubmitOfferAlways == form.open /\ ~form.done
SubmitOffer == form.open /\ ~form.done /\ (form.rules.guarded => ~form.posting)
SubmitForm ==
    LET d == form.draft
    IN /\ SubmitOffer /\ sent[d] < MaxPosts
       /\ posts' = [posts EXCEPT ![d] = @ + 1] /\ sent' = [sent EXCEPT ![d] = @ + 1]
       /\ repeated' = IF posts[d] > 0 THEN repeated \cup {d} ELSE repeated
       /\ form' = [form EXCEPT !.posting = TRUE]
       /\ UNCHANGED <<applied, lost, late, dismissed>>

Ended(d) == /\ posts[d] > 0 /\ posts' = [posts EXCEPT ![d] = @ - 1] /\ UNCHANGED <<sent, repeated>>
\* A success closes the form and clears it, whatever draft it holds by then.
FormClosed == [form EXCEPT !.open = FALSE, !.posting = FALSE, !.done = FALSE]
FormDone(d) ==
    /\ Ended(d) /\ ~form.rules.lasts
    /\ applied' = [applied EXCEPT ![d] = @ + 1]
    /\ dismissed' = IF form.open THEN dismissed \cup {form.draft} ELSE dismissed
    /\ NewDraft(FormClosed) /\ UNCHANGED lost
\* Or it is shown, and a timer closes the form.
ReportDone(d) ==
    /\ Ended(d) /\ form.rules.lasts
    /\ applied' = [applied EXCEPT ![d] = @ + 1]
    /\ form' = [form EXCEPT !.done = TRUE, !.posting = TRUE, !.timers = @ + 1]
    /\ late' = IF form.draft # d THEN late \cup {form.draft} ELSE late
    /\ UNCHANGED <<lost, dismissed>>
FormTimer ==
    /\ form.timers > 0 /\ UNCHANGED <<posts, sent, applied, lost, repeated>>
    /\ dismissed' = IF form.open THEN dismissed \cup {form.draft} ELSE dismissed
    /\ NewDraft([FormClosed EXCEPT !.timers = @ - 1])
\* Mutant: a failure closes the form.
FormFailsAndCloses(d) ==
    /\ Ended(d) /\ UNCHANGED <<applied, lost>> /\ NewDraft(FormClosed)
    /\ dismissed' = IF form.open THEN dismissed \cup {form.draft} ELSE dismissed
\* A failure leaves the form, and the draft may have been done.
FormFails(d) ==
    /\ Ended(d) /\ form' = [form EXCEPT !.posting = FALSE]
    /\ \/ UNCHANGED <<applied, lost>>
       \/ applied' = [applied EXCEPT ![d] = @ + 1] /\ lost' = lost \cup {d}
    /\ UNCHANGED <<late, dismissed>>

FormNext ==
    \/ OpenForm \/ CloseForm \/ SubmitForm \/ FormTimer
    \/ \E d \in Draft : FormDone(d) \/ ReportDone(d) \/ FormFails(d)

FormSpec == FormInit /\ [][FormNext]_formVars

----------------------------------------------------------------------------
(* What was typed once is done once: credits are not granted twice, nor an  *)
(* invitation made twice, unless an answer was lost and the user posted     *)
(* again, or the answer of an earlier draft lifted the guard of this one.   *)
(* Templates and announcements, whose buttons stay enabled, are done twice  *)
(* when they are posted again while they are being posted.                  *)
DoneOncePerDraft ==
    \A d \in Draft : applied[d] > 1 =>
        d \in lost \/ (d \in repeated /\ (form.rules.guarded => d \in late))

(* A form that closes by itself has done what was in it, unless it was      *)
(* opened again before the last answer or its timer had come: then it loses *)
(* what was typed.                                                          *)
ClosesWhenDone == \A d \in dismissed : applied[d] > 0 \/ d \in late
=============================================================================
