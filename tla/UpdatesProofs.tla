--------------------------- MODULE UpdatesProofs ----------------------------
(***************************************************************************)
(* What holds of what the pages post, for any forms, requests and rows.     *)
(* Dialogs: a post answered late meets another draft, which is then late    *)
(* itself (Behind); a draft that is not late is guarded by its own posts    *)
(* (Guarded), and is out of reach once it was done (OverWhenDone).  Sender  *)
(* IDs: what a page that was not misled reads, shows and submits is of the  *)
(* address it has (NotMisled).  Rows: the one update under way does what    *)
(* was last asked for (Wanting), and an answer or a read that is still to   *)
(* come will show it (Catching, Numbered).                                  *)
(***************************************************************************)
EXTENDS Forms, SenderIds, Rows, TLAPS

-----------------------------------------------------------------------------
(* Dialogs.                                                                 *)

FormRules == [guarded : BOOLEAN, clears : BOOLEAN, frees : BOOLEAN, lasts : BOOLEAN,
              held : BOOLEAN]
FormStates == [rules : FormRules, open : BOOLEAN, draft : Draft, posting : BOOLEAN,
               done : BOOLEAN, timers : Nat]
FormTypeOK ==
    /\ form \in FormStates
    /\ posts \in [Draft -> Nat] /\ sent \in [Draft -> Nat] /\ applied \in [Draft -> Nat]
    /\ lost \subseteq Draft /\ repeated \subseteq Draft
    /\ late \subseteq Draft /\ dismissed \subseteq Draft

\* The nine forms have these in common: where closing lifts the guard, or a
\* success is shown, opening the form again begins a new draft.
RulesOK == form.rules.frees \/ form.rules.lasts => form.rules.clears

\* No draft is ahead of the form's; one whose predecessors are still under way
\* is late; whoever was posted was sent.
Behind ==
    /\ \A d \in Draft : d > form.draft =>
         posts[d] = 0 /\ sent[d] = 0 /\ applied[d] = 0 /\ d \notin repeated
    /\ \A d \in Draft : d < form.draft /\ posts[d] > 0 => form.draft \in late
    /\ \A d \in Draft : posts[d] > 0 \/ applied[d] > 0 => sent[d] > 0

\* Unless it is late, a guarded draft is posted once at a time, and its guard
\* is up, or only a new draft can be opened.
Guarded ==
    \A d \in Draft : form.rules.guarded /\ d \notin late =>
      /\ posts[d] <= 1 /\ d \notin repeated
      /\ d = form.draft /\ posts[d] > 0 =>
           form.posting \/ (form.rules.clears /\ ~form.open)

\* What was done is out of the form, or shown as done until it closes.
OverWhenDone ==
    \A d \in Draft \ lost :
      /\ d \notin repeated => applied[d] + posts[d] <= 1
      /\ d = form.draft /\ applied[d] > 0 =>
           form.rules.lasts /\ (form.done \/ ~form.open)

\* A timer runs for the draft that was done, or for an earlier one.
TimedWhenDone == form.timers > 0 => applied[form.draft] > 0 \/ form.draft \in late

FormInv == FormTypeOK /\ RulesOK /\ Behind /\ Guarded /\ OverWhenDone /\ TimedWhenDone
             /\ ClosesWhenDone

USE FormsAssumption

-----------------------------------------------------------------------------
LEMMA FormStarts == FormInit => FormInv
<1> SUFFICES ASSUME FormInit PROVE FormInv
    OBVIOUS
<1>1. PICK f \in Form : form = [rules |-> RulesOf(f), open |-> RulesOf(f).held, draft |-> 1,
                               posting |-> FALSE, done |-> FALSE, timers |-> 0]
    BY DEF FormInit
<1>2. RulesOf(f) \in FormRules /\ (RulesOf(f).frees \/ RulesOf(f).lasts => RulesOf(f).clears)
    BY DEF RulesOf, FormRules, Rules, ReportBug, NewTemplate, NewAnnouncement, AdjustBalance,
           GrantCredits, AssignPlan, ExportUsers, StaffInvite, CompleteProfile
<1>3. form \in FormStates
    BY <1>1, <1>2 DEF FormStates, FormRules, Draft
<1>4. FormTypeOK /\ RulesOK
    BY <1>1, <1>2, <1>3 DEF FormTypeOK, FormInit, RulesOK
<1>5. Behind /\ Guarded /\ OverWhenDone /\ TimedWhenDone /\ ClosesWhenDone
    BY <1>1 DEF FormInit, Behind, Guarded, OverWhenDone, TimedWhenDone, ClosesWhenDone
<1> QED
    BY <1>4, <1>5 DEF FormInv

\* What a new draft is, and what is late of it.
LEMMA DraftBegun ==
    ASSUME FormTypeOK, NEW f \in FormStates, NewDraft(f)
    PROVE  /\ form' \in FormStates /\ late' \subseteq Draft
           /\ form'.draft = f.draft + 1 /\ form'.draft \in Draft
           /\ form'.rules = f.rules /\ form'.open = f.open /\ form'.posting = f.posting
           /\ form'.done = f.done /\ form'.timers = f.timers
           /\ late \subseteq late' /\ late' \subseteq late \cup {f.draft + 1}
           /\ (\E d \in Draft : posts'[d] > 0) \/ f.timers > 0 => f.draft + 1 \in late'
<1>1. form' = [f EXCEPT !.draft = f.draft + 1]
    BY DEF NewDraft
<1>2. f.draft + 1 \in Draft
    BY DEF NewDraft, FormStates, Draft
<1>3. form' \in FormStates
    BY Zenon, <1>1, <1>2 DEF FormStates
<1> QED
    BY <1>1, <1>2, <1>3 DEF NewDraft, FormStates, FormTypeOK

\* What an answer, a timer, or closing make of the form.
LEMMA FormEdits ==
    ASSUME NEW f \in FormStates, NEW b \in BOOLEAN, NEW n \in Nat
    PROVE  /\ [f EXCEPT !.open = b] \in FormStates
           /\ [f EXCEPT !.posting = b] \in FormStates
           /\ [f EXCEPT !.open = FALSE, !.done = FALSE, !.posting = b] \in FormStates
           /\ [f EXCEPT !.done = TRUE, !.posting = TRUE, !.timers = n] \in FormStates
           /\ [f EXCEPT !.timers = n] \in FormStates
    BY Zenon DEF FormStates

LEMMA ClosedForm ==
    ASSUME FormTypeOK
    PROVE  /\ FormClosed \in FormStates /\ FormClosed.draft = form.draft
           /\ FormClosed.rules = form.rules /\ FormClosed.timers = form.timers
           /\ form.draft \in Draft /\ form.timers \in Nat
<1>1. FormClosed \in FormStates
    BY Zenon DEF FormTypeOK, FormStates, FormClosed
<1> QED
    BY <1>1 DEF FormTypeOK, FormStates, FormClosed

LEMMA FormTypeKept == FormInv /\ [FormNext]_formVars => FormTypeOK'
<1> SUFFICES ASSUME FormInv, [FormNext]_formVars PROVE FormTypeOK'
    OBVIOUS
<1> USE DEF FormInv, FormTypeOK
<1>1. CASE OpenForm
  <2>1. [form EXCEPT !.open = TRUE] \in FormStates
      BY FormEdits
  <2> QED
      BY <1>1, <2>1, DraftBegun DEF OpenForm, PostsKept
<1>2. CASE CloseForm
  <2>1. (form.posting /\ ~form.rules.frees) \in BOOLEAN
      OBVIOUS
  <2>2. form' \in FormStates
      BY <1>2, <2>1, FormEdits DEF CloseForm
  <2> QED
      BY <1>2, <2>2 DEF CloseForm, PostsKept
<1>3. CASE SubmitForm
  <2>1. form' \in FormStates /\ form.draft \in Draft
      BY <1>3, FormEdits DEF SubmitForm, FormStates
  <2> QED
      BY <1>3, <2>1 DEF SubmitForm
<1>4. CASE FormTimer
  <2>1. FormClosed \in FormStates /\ form.timers - 1 \in Nat
      BY <1>4, ClosedForm DEF FormTimer
  <2>2. [FormClosed EXCEPT !.timers = form.timers - 1] \in FormStates
      BY <2>1, FormEdits
  <2>3. FormClosed.timers = form.timers
      BY ClosedForm
  <2>4. NewDraft([FormClosed EXCEPT !.timers = form.timers - 1])
      BY <1>4, <2>3 DEF FormTimer
  <2>5. form' \in FormStates /\ late' \subseteq Draft
      BY <2>2, <2>4, DraftBegun
  <2>6. form.draft \in Draft
      BY DEF FormStates
  <2> QED
      BY <1>4, <2>5, <2>6 DEF FormTimer
<1>5. ASSUME NEW d \in Draft, FormDone(d) PROVE FormTypeOK'
  <2>1. FormClosed \in FormStates /\ form.draft \in Draft
      BY ClosedForm
  <2>2. form' \in FormStates /\ late' \subseteq Draft
      BY <1>5, <2>1, DraftBegun DEF FormDone
  <2>3. posts' \in [Draft -> Nat] /\ UNCHANGED <<sent, repeated>>
      BY <1>5 DEF FormDone, Ended
  <2>4. applied' \in [Draft -> Nat]
      BY <1>5 DEF FormDone
  <2>5. UNCHANGED lost /\ dismissed' \subseteq Draft /\ late' \subseteq Draft
      BY <1>5, <2>1, <2>2 DEF FormDone
  <2> QED
      BY <2>2, <2>3, <2>4, <2>5
<1>6. ASSUME NEW d \in Draft, ReportDone(d) PROVE FormTypeOK'
  <2>1. form.timers + 1 \in Nat /\ form.draft \in Draft
      BY DEF FormStates
  <2>2. form' \in FormStates
      BY <1>6, <2>1, FormEdits DEF ReportDone
  <2>3. posts' \in [Draft -> Nat] /\ UNCHANGED <<sent, repeated>>
      BY <1>6 DEF ReportDone, Ended
  <2>4. applied' \in [Draft -> Nat]
      BY <1>6 DEF ReportDone
  <2>5. UNCHANGED lost /\ dismissed' \subseteq Draft /\ late' \subseteq Draft
      BY <1>6, <2>1, <2>2 DEF ReportDone
  <2> QED
      BY <2>2, <2>3, <2>4, <2>5
<1>7. ASSUME NEW d \in Draft, FormFails(d) PROVE FormTypeOK'
  <2>1. form' \in FormStates
      BY <1>7, FormEdits DEF FormFails
  <2>2. posts' \in [Draft -> Nat] /\ UNCHANGED <<sent, repeated>>
      BY <1>7 DEF FormFails, Ended
  <2> QED
      BY <1>7, <2>1, <2>2 DEF FormFails
<1>8. CASE UNCHANGED formVars
    BY <1>8 DEF formVars
<1> QED
    BY <1>1, <1>2, <1>3, <1>4, <1>5, <1>6, <1>7, <1>8 DEF FormNext

\* Beginning a draft keeps what is known of drafts, once every post that is
\* under way is accounted for.
LEMMA BegunKeeps ==
    ASSUME FormInv, FormTypeOK', NEW f \in FormStates, NewDraft(f),
           f.draft = form.draft, f.rules = form.rules,
           f.timers > 0 => form.timers > 0,
           UNCHANGED <<sent, repeated>>,
           \A d \in Draft : posts'[d] <= posts[d],
           \A d \in Draft : applied'[d] > 0 => sent[d] > 0,
           lost \subseteq lost',
           \A d \in Draft : d \notin lost' => applied'[d] + posts'[d] <= applied[d] + posts[d]
    PROVE  RulesOK' /\ Behind' /\ Guarded' /\ OverWhenDone' /\ TimedWhenDone'
<1> USE DEF FormInv, FormTypeOK
<1>1. /\ form'.draft = form.draft + 1 /\ form'.draft \in Draft /\ form'.rules = form.rules
      /\ form'.timers = f.timers
      /\ late \subseteq late' /\ late' \subseteq late \cup {form.draft + 1}
      /\ (\E d \in Draft : posts'[d] > 0) \/ f.timers > 0 => form.draft + 1 \in late'
    BY DraftBegun
<1>2. form.draft \in Nat /\ Draft \subseteq Nat
  <2>1. form.draft \in Draft
      BY ClosedForm
  <2>2. Draft \subseteq Nat
      BY DEF Draft
  <2> QED
      BY <2>1, <2>2
<1>3. RulesOK' /\ TimedWhenDone'
    BY <1>1 DEF RulesOK, TimedWhenDone
<1>4. \A d \in Draft : posts'[d] \in Nat /\ applied'[d] \in Nat /\ sent'[d] \in Nat
                        /\ posts[d] \in Nat /\ applied[d] \in Nat /\ sent[d] \in Nat
    OBVIOUS
<1>5. Behind'
    BY <1>1, <1>2, <1>4 DEF Behind
<1>6. Guarded'
    BY <1>1, <1>2, <1>4 DEF Guarded, Behind
<1>7. OverWhenDone'
    BY <1>1, <1>2, <1>4 DEF OverWhenDone, Behind
<1> QED
    BY <1>3, <1>5, <1>6, <1>7

LEMMA DraftsKept ==
    FormInv /\ FormTypeOK' /\ [FormNext]_formVars =>
        RulesOK' /\ Behind' /\ Guarded' /\ OverWhenDone' /\ TimedWhenDone' /\ ClosesWhenDone'
<1> DEFINE Goal == RulesOK /\ Behind /\ Guarded /\ OverWhenDone /\ TimedWhenDone
<1> SUFFICES ASSUME FormInv, FormTypeOK', [FormNext]_formVars PROVE Goal' /\ ClosesWhenDone'
    OBVIOUS
<1> USE DEF FormInv, FormTypeOK
<1>0. /\ form.draft \in Nat /\ form.draft \in Draft /\ form.timers \in Nat /\ Draft \subseteq Nat
      /\ \A d \in Draft : posts[d] \in Nat /\ applied[d] \in Nat /\ sent[d] \in Nat
  <2>1. form.draft \in Draft /\ form.timers \in Nat
      BY ClosedForm
  <2>2. Draft \subseteq Nat
      BY DEF Draft
  <2>3. \A d \in Draft : posts[d] \in Nat /\ applied[d] \in Nat /\ sent[d] \in Nat
      OBVIOUS
  <2> QED
      BY <2>1, <2>2, <2>3
<1>1. CASE OpenForm
  <2>1. ClosesWhenDone'
    <3>1. late \subseteq late' /\ UNCHANGED <<applied, dismissed>>
        BY <1>1 DEF OpenForm, PostsKept, NewDraft
    <3> QED
        BY <3>1 DEF ClosesWhenDone
  <2>2. CASE form.rules.clears /\ sent[form.draft] > 0
    <3> DEFINE f == [form EXCEPT !.open = TRUE]
    <3>1. f \in FormStates /\ f.draft = form.draft /\ f.rules = form.rules
            /\ f.timers = form.timers
        BY FormEdits DEF FormStates
    <3>2. NewDraft(f) /\ PostsKept
        BY <1>1, <2>2 DEF OpenForm
    <3> HIDE DEF f
    <3>3. \A d \in Draft : applied[d] > 0 => sent[d] > 0
        BY DEF Behind
    <3> QED
        BY <1>0, <2>1, <3>1, <3>2, <3>3, BegunKeeps DEF PostsKept
  <2>3. CASE ~(form.rules.clears /\ sent[form.draft] > 0)
    <3>1. /\ form' = [form EXCEPT !.open = TRUE] /\ UNCHANGED late /\ PostsKept
        BY <1>1, <2>3 DEF OpenForm
    <3>2. /\ form'.rules = form.rules /\ form'.draft = form.draft /\ form'.posting = form.posting
          /\ form'.done = form.done /\ form'.timers = form.timers
        BY <3>1 DEF FormStates
    <3>3. RulesOK' /\ Behind' /\ TimedWhenDone'
        BY <3>1, <3>2 DEF RulesOK, Behind, TimedWhenDone, PostsKept
    <3>4. Guarded'
        BY <1>0, <2>3, <3>1, <3>2 DEF Guarded, Behind, PostsKept
    <3>5. OverWhenDone'
        BY <1>0, <2>3, <3>1, <3>2 DEF OverWhenDone, Behind, RulesOK, PostsKept
    <3> QED
        BY <2>1, <3>3, <3>4, <3>5
  <2> QED
      BY <2>2, <2>3
<1>2. CASE CloseForm
  <2>1. /\ form' = [form EXCEPT !.open = FALSE, !.done = FALSE,
                                !.posting = form.posting /\ ~form.rules.frees]
        /\ UNCHANGED <<posts, sent, applied, lost, repeated, late, dismissed>>
      BY <1>2 DEF CloseForm, PostsKept
  <2>2. /\ form'.rules = form.rules /\ form'.draft = form.draft /\ ~form'.open
        /\ form'.posting = (form.posting /\ ~form.rules.frees) /\ form'.timers = form.timers
      BY <2>1 DEF FormStates
  <2>3. RulesOK' /\ Behind' /\ TimedWhenDone' /\ ClosesWhenDone'
      BY <2>1, <2>2 DEF RulesOK, Behind, TimedWhenDone, ClosesWhenDone
  <2>4. Guarded'
      BY <2>1, <2>2 DEF Guarded, RulesOK
  <2>5. OverWhenDone'
      BY <2>1, <2>2 DEF OverWhenDone
  <2> QED
      BY <2>3, <2>4, <2>5
<1>3. CASE SubmitForm
  <2> DEFINE e == form.draft
  <2>1. /\ form.open /\ ~form.done /\ (form.rules.guarded => ~form.posting)
        /\ posts' = [posts EXCEPT ![e] = @ + 1] /\ sent' = [sent EXCEPT ![e] = @ + 1]
        /\ repeated' = IF posts[e] > 0 THEN repeated \cup {e} ELSE repeated
        /\ form' = [form EXCEPT !.posting = TRUE]
        /\ UNCHANGED <<applied, lost, late, dismissed>>
      BY <1>3 DEF SubmitForm, SubmitOffer
  <2>2. /\ form'.rules = form.rules /\ form'.draft = e /\ form'.open /\ form'.posting
        /\ ~form'.done /\ form'.timers = form.timers
      BY <2>1 DEF FormStates
  <2>3. RulesOK' /\ TimedWhenDone' /\ ClosesWhenDone'
      BY <2>1, <2>2 DEF RulesOK, TimedWhenDone, ClosesWhenDone
  <2>4. /\ posts'[e] = posts[e] + 1 /\ sent'[e] = sent[e] + 1
        /\ \A d \in Draft \ {e} : posts'[d] = posts[d] /\ sent'[d] = sent[d]
      BY <1>0, <2>1
  <2>5. Behind'
      BY <1>0, <2>1, <2>2, <2>4 DEF Behind
  <2>6. Guarded'
      BY <1>0, <2>1, <2>2, <2>4 DEF Guarded
  <2>7. OverWhenDone'
      BY <1>0, <2>1, <2>2, <2>4 DEF OverWhenDone
  <2> QED
      BY <2>3, <2>5, <2>6, <2>7
<1>4. CASE FormTimer
  <2> DEFINE f == [FormClosed EXCEPT !.timers = @ - 1]
  <2>1. /\ f \in FormStates /\ f.draft = form.draft /\ f.rules = form.rules
        /\ f.timers = form.timers - 1
    <3>1. FormClosed \in FormStates /\ FormClosed.timers = form.timers
        BY ClosedForm
    <3>2. form.timers - 1 \in Nat
        BY <1>0, <1>4 DEF FormTimer
    <3>3. f \in FormStates
        BY <3>1, <3>2, FormEdits
    <3> QED
        BY <3>1, <3>2, <3>3, ClosedForm DEF FormStates
  <2>2. NewDraft(f) /\ UNCHANGED <<posts, sent, applied, lost, repeated>> /\ form.timers > 0
      BY <1>4 DEF FormTimer
  <2> HIDE DEF f
  <2>3. \A d \in Draft : applied[d] > 0 => sent[d] > 0
      BY DEF Behind
  <2>4. Goal'
      BY <1>0, <2>1, <2>2, <2>3, BegunKeeps
  <2>5. late \subseteq late' /\ dismissed' \subseteq dismissed \cup {form.draft}
      BY <1>4, <2>2 DEF FormTimer, NewDraft
  <2>6. ClosesWhenDone'
      BY <2>2, <2>5 DEF ClosesWhenDone, TimedWhenDone
  <2> QED
      BY <2>4, <2>6
<1>5. ASSUME NEW d \in Draft, Ended(d)
      PROVE  /\ posts[d] > 0 /\ posts'[d] = posts[d] - 1 /\ UNCHANGED <<sent, repeated>>
             /\ \A c \in Draft \ {d} : posts'[c] = posts[c]
             /\ sent[d] > 0 /\ d <= form.draft /\ (d # form.draft => form.draft \in late)
    BY <1>0, <1>5 DEF Ended, Behind
<1>6. ASSUME NEW d \in Draft, FormDone(d) PROVE Goal' /\ ClosesWhenDone'
  <2> DEFINE f == FormClosed
  <2>1. f \in FormStates /\ f.draft = form.draft /\ f.rules = form.rules /\ f.timers = form.timers
      BY ClosedForm
  <2>2. /\ NewDraft(f) /\ Ended(d) /\ UNCHANGED lost
        /\ applied' = [applied EXCEPT ![d] = @ + 1]
        /\ dismissed' \subseteq dismissed \cup {form.draft}
      BY <1>6 DEF FormDone
  <2> HIDE DEF f
  <2>3. applied'[d] = applied[d] + 1 /\ \A c \in Draft \ {d} : applied'[c] = applied[c]
      BY <2>2
  <2>4. \A c \in Draft : applied'[c] > 0 => sent[c] > 0
      BY <1>0, <1>5, <2>2, <2>3 DEF Behind
  <2>5. \A c \in Draft : posts'[c] <= posts[c]
                          /\ applied'[c] + posts'[c] <= applied[c] + posts[c]
      BY <1>0, <1>5, <2>2, <2>3
  <2>6. Goal'
      BY <1>0, <1>5, <2>1, <2>2, <2>4, <2>5, BegunKeeps
  <2>7. late \subseteq late'
      BY <2>2 DEF NewDraft
  <2>8. ClosesWhenDone'
      BY <1>0, <1>5, <2>2, <2>3, <2>7 DEF ClosesWhenDone
  <2> QED
      BY <2>6, <2>8
<1>7. ASSUME NEW d \in Draft, ReportDone(d) PROVE Goal' /\ ClosesWhenDone'
  <2>1. /\ Ended(d) /\ form.rules.lasts /\ UNCHANGED <<lost, dismissed>>
        /\ applied' = [applied EXCEPT ![d] = @ + 1]
        /\ late \subseteq late' /\ (form.draft # d => form.draft \in late')
        /\ late' \subseteq late \cup {form.draft} /\ (form.draft = d => late' = late)
      BY <1>7 DEF ReportDone
  <2>2. /\ form'.rules = form.rules /\ form'.draft = form.draft /\ form'.open = form.open
        /\ form'.posting /\ form'.done
      BY <1>7 DEF ReportDone, FormStates
  <2>3. applied'[d] = applied[d] + 1 /\ \A c \in Draft \ {d} : applied'[c] = applied[c]
      BY <2>1
  <2>4. RulesOK' /\ TimedWhenDone' /\ ClosesWhenDone'
      BY <1>0, <2>1, <2>2, <2>3 DEF RulesOK, TimedWhenDone, ClosesWhenDone
  <2>5. Behind'
      BY <1>0, <1>5, <2>1, <2>2, <2>3 DEF Behind
  <2>6. Guarded'
      BY <1>0, <1>5, <2>1, <2>2, <2>3 DEF Guarded
  <2>7. OverWhenDone'
      BY <1>0, <1>5, <2>1, <2>2, <2>3 DEF OverWhenDone
  <2> QED
      BY <2>4, <2>5, <2>6, <2>7
<1>8. ASSUME NEW d \in Draft, FormFails(d) PROVE Goal' /\ ClosesWhenDone'
  <2>1. Ended(d) /\ UNCHANGED <<late, dismissed>>
      BY <1>8 DEF FormFails
  <2>2. /\ form'.rules = form.rules /\ form'.draft = form.draft /\ form'.open = form.open
        /\ form'.done = form.done /\ form'.timers = form.timers
      BY <1>8 DEF FormFails, FormStates
  <2>3. /\ \A c \in Draft \ {d} : applied'[c] = applied[c] /\ (c \in lost' <=> c \in lost)
        /\ applied'[d] >= applied[d] /\ lost \subseteq lost'
        /\ d \notin lost' => applied'[d] = applied[d]
      BY <1>0, <1>8 DEF FormFails
  <2>4. RulesOK' /\ TimedWhenDone' /\ ClosesWhenDone'
      BY <1>0, <2>1, <2>2, <2>3 DEF RulesOK, TimedWhenDone, ClosesWhenDone
  <2>5. Behind'
      BY <1>0, <1>5, <2>1, <2>2, <2>3 DEF Behind
  <2>6. Guarded'
      BY <1>0, <1>5, <2>1, <2>2, <2>3 DEF Guarded
  <2>7. OverWhenDone'
      BY <1>0, <1>5, <2>1, <2>2, <2>3 DEF OverWhenDone
  <2> QED
      BY <2>4, <2>5, <2>6, <2>7
<1>9. CASE UNCHANGED formVars
    BY <1>9 DEF formVars, RulesOK, Behind, Guarded, OverWhenDone, TimedWhenDone, ClosesWhenDone
<1> QED
    BY <1>1, <1>2, <1>3, <1>4, <1>6, <1>7, <1>8, <1>9 DEF FormNext

-----------------------------------------------------------------------------
LEMMA FormAlways == FormSpec => []FormInv
<1>1. FormInit => FormInv
    BY FormStarts
<1>2. FormInv /\ [FormNext]_formVars => FormInv'
  <2> SUFFICES ASSUME FormInv, [FormNext]_formVars PROVE FormInv'
    OBVIOUS
  <2> QED
    BY FormTypeKept, DraftsKept DEF FormInv
<1> QED
    BY <1>1, <1>2, PTL DEF FormSpec

(* What was typed once is done once by each of the nine dialogs, however    *)
(* many drafts and posts, unless an answer was lost, or the draft was       *)
(* posted again while it was being posted by a dialog with no guard, or one *)
(* whose guard the answer of an earlier draft had lifted.                   *)
THEOREM DoneOnceCorrect == FormSpec => []DoneOncePerDraft
<1>1. FormInv => DoneOncePerDraft
  <2> SUFFICES ASSUME FormInv, NEW d \in Draft, applied[d] > 1, d \notin lost
               PROVE  d \in repeated /\ (form.rules.guarded => d \in late)
      BY DEF DoneOncePerDraft
  <2>1. applied[d] \in Nat /\ posts[d] \in Nat
      BY DEF FormInv, FormTypeOK
  <2>2. d \in repeated
      BY <2>1 DEF FormInv, OverWhenDone
  <2> QED
      BY <2>2 DEF FormInv, Guarded
<1> QED
    BY <1>1, FormAlways, PTL

(* A dialog that closes by itself has done what was in it, unless it was    *)
(* begun before an earlier answer, or its timer, had come.                  *)
THEOREM ClosesCorrect == FormSpec => []ClosesWhenDone
<1>1. FormInv => ClosesWhenDone
    BY DEF FormInv
<1> QED
    BY <1>1, FormAlways, PTL

-----------------------------------------------------------------------------
(* Sender IDs.                                                              *)

\* What a call and the verification page are made of.
CallShaped(c) == c = [op |-> c.op, name |-> c.name, arg |-> c.arg, live |-> c.live]
SenderShape ==
    /\ \A c \in senderCalls : CallShaped(c)
    /\ verifying = [route |-> verifying.route, found |-> verifying.found,
                    loading |-> verifying.loading, busy |-> verifying.busy]

\* A page that no answer has misled: what it reads, shows and has submitted is
\* the request its address named.
Led(c) == /\ c.op = "verify" => c.name = verifying.route
          /\ c.op = "documents" => c.name = c.arg
NotMisled ==
    ~misled => /\ ~astray
               /\ \A c \in senderCalls : Led(c)
               /\ ~verifying.loading => verifying.found \in {NoName, verifying.route}

SenderInv == SenderShape /\ NotMisled

LEMMA SenderCallShaped ==
    ASSUME NEW op, NEW n, NEW a
    PROVE  /\ CallShaped(SenderCall(op, n, a)) /\ SenderCall(op, n, a).op = op
           /\ SenderCall(op, n, a).name = n /\ SenderCall(op, n, a).arg = a
  BY Zenon DEF CallShaped, SenderCall

\* A page that is left takes no read with it, and changes no call it leaves.
LEMMA LeftShaped ==
    ASSUME SenderShape, NEW c \in Left
    PROVE  /\ CallShaped(c) /\ c.op \notin {"mine", "verify"}
           /\ \E d \in senderCalls : c.op = d.op /\ c.name = d.name /\ c.arg = d.arg
<1>1. PICK d \in senderCalls : d.op \notin {"mine", "verify"} /\ c = [d EXCEPT !.live = FALSE]
    BY Zenon DEF Left
<1>2. d = [op |-> d.op, name |-> d.name, arg |-> d.arg, live |-> d.live]
    BY <1>1 DEF SenderShape, CallShaped
<1>3. c = [op |-> d.op, name |-> d.name, arg |-> d.arg, live |-> FALSE]
    BY Zenon, <1>1, <1>2
<1>4. c.op = d.op /\ c.name = d.name /\ c.arg = d.arg /\ c.live = FALSE
    BY Zenon, <1>3
<1> QED
    BY Zenon, <1>1, <1>3, <1>4 DEF CallShaped

LEMMA OpenedShaped ==
    ASSUME NEW n
    PROVE  OpenedVerifying(n) = [route |-> n, found |-> NoName, loading |-> TRUE, busy |-> FALSE]
  BY Zenon DEF OpenedVerifying

LEMMA NoneShaped ==
    ASSUME NEW v, v = [OpenedVerifying(NoName) EXCEPT !.loading = FALSE]
    PROVE  v = [route |-> NoName, found |-> NoName, loading |-> FALSE, busy |-> FALSE]
  BY Zenon, OpenedShaped

LEMMA SenderStarts == SenderInit => SenderInv
<1> SUFFICES ASSUME SenderInit PROVE SenderInv
    OBVIOUS
<1>1. /\ senderCalls = {SenderCall("mine", NoName, "none")} /\ ~astray
      /\ verifying = [route |-> NoName, found |-> NoName, loading |-> FALSE, busy |-> FALSE]
    BY Zenon, NoneShaped DEF SenderInit
<1>2. SenderShape
  <2>1. \A c \in senderCalls : CallShaped(c)
      BY <1>1, SenderCallShaped
  <2>2. /\ verifying.route = NoName /\ verifying.found = NoName /\ verifying.loading = FALSE
        /\ verifying.busy = FALSE
      BY Zenon, <1>1
  <2> QED
      BY Zenon, <1>1, <2>1, <2>2 DEF SenderShape
<1>3. verifying.found = NoName
    BY Zenon, <1>1
<1> QED
    BY <1>1, <1>2, <1>3, SenderCallShaped DEF SenderInv, NotMisled, Led

\* Most steps only take a call away or add one that names nothing of the page.
LEMMA CallsKept ==
    ASSUME SenderInv, UNCHANGED <<verifying, astray>>, misled' = misled,
           \A c \in senderCalls' : \/ c \in senderCalls
                                   \/ CallShaped(c) /\ c.op \notin {"verify", "documents"}
    PROVE  SenderInv'
<1>1. SenderShape'
    BY DEF SenderInv, SenderShape
<1>2. NotMisled'
    BY DEF SenderInv, NotMisled, Led
<1> QED
    BY <1>1, <1>2 DEF SenderInv

\* To the requests: no read of the page's is left.
LEMMA ToRequestsKept ==
    ASSUME SenderInv, NEW calls \in SUBSET Left, ToRequests(calls),
           ~misled /\ astray' => astray, misled' = misled
    PROVE  SenderInv'
<1>1. /\ verifying' = [route |-> NoName, found |-> NoName, loading |-> FALSE, busy |-> FALSE]
      /\ senderCalls' = calls \cup {SenderCall("mine", NoName, "none")}
    BY Zenon, NoneShaped DEF ToRequests
<1>2. verifying'.found = NoName /\ verifying'.route = NoName /\ ~verifying'.loading
      /\ ~verifying'.busy
    BY Zenon, <1>1
<1>3. \A c \in senderCalls' : CallShaped(c)
    BY <1>1, LeftShaped, SenderCallShaped DEF SenderInv
<1>4. SenderShape'
    BY Zenon, <1>1, <1>2, <1>3 DEF SenderShape
<1>5. \A c \in senderCalls' : ~misled => Led(c)'
  <2> SUFFICES ASSUME NEW c \in senderCalls', ~misled PROVE Led(c)'
      OBVIOUS
  <2>1. CASE c \in calls
    <3>1. PICK d \in senderCalls : c.op = d.op /\ c.name = d.name /\ c.arg = d.arg
        BY <2>1, LeftShaped DEF SenderInv
    <3>2. c.op # "verify"
        BY <2>1, LeftShaped DEF SenderInv
    <3> QED
        BY <3>1, <3>2 DEF Led, SenderInv, NotMisled
  <2>2. CASE c = SenderCall("mine", NoName, "none")
      BY <2>2, SenderCallShaped DEF Led
  <2> QED
      BY <1>1, <2>1, <2>2
<1> QED
    BY <1>2, <1>4, <1>5 DEF SenderInv, NotMisled

LEMMA OpenVerificationKept ==
    ASSUME SenderInv, NEW n \in Name, OpenVerification(n)
    PROVE  SenderInv'
<1> DEFINE read == SenderCall("verify", n, "none")
<1>1. astray' = astray /\ misled' = (misled \/ SenderAnswers("verify") # {})
    BY DEF OpenVerification
<1>2. CallShaped(read) /\ read.op = "verify" /\ read.name = n
    BY SenderCallShaped
<1>3. CASE verifying.route = NoName
  <2>1. /\ verifying' = [route |-> n, found |-> NoName, loading |-> TRUE, busy |-> FALSE]
        /\ senderCalls' = Left \cup {read}
      BY <1>3, OpenedShaped DEF OpenVerification
  <2>2. /\ verifying'.found = NoName /\ verifying'.route = n /\ verifying'.loading
        /\ ~verifying'.busy
      BY Zenon, <2>1
  <2>3. SenderShape'
    <3>1. \A c \in senderCalls' : CallShaped(c)
        BY <1>2, <2>1, LeftShaped DEF SenderInv
    <3> QED
        BY Zenon, <2>1, <2>2, <3>1 DEF SenderShape
  <2>4. ASSUME NEW c \in senderCalls', ~misled PROVE Led(c)'
    <3>1. CASE c \in Left
      <4>1. PICK d \in senderCalls : c.op = d.op /\ c.name = d.name /\ c.arg = d.arg
          BY <3>1, LeftShaped DEF SenderInv
      <4>2. c.op # "verify"
          BY <3>1, LeftShaped DEF SenderInv
      <4> QED
          BY <4>1, <4>2, <2>4 DEF Led, SenderInv, NotMisled
    <3>2. CASE c = read
        BY <1>2, <2>2, <3>2 DEF Led
    <3> QED
        BY <2>1, <3>1, <3>2
  <2> QED
      BY <1>1, <2>2, <2>3, <2>4 DEF SenderInv, NotMisled
<1>4. CASE verifying.route # NoName
  <2>1. /\ verifying' = [verifying EXCEPT !.route = n, !.loading = TRUE]
        /\ senderCalls' = senderCalls \cup {read}
      BY <1>4 DEF OpenVerification
  <2>2. /\ verifying' = [route |-> n, found |-> verifying.found, loading |-> TRUE,
                         busy |-> verifying.busy]
      BY Zenon, <2>1 DEF SenderInv, SenderShape
  <2>3. /\ verifying'.found = verifying.found /\ verifying'.route = n /\ verifying'.loading
        /\ verifying'.busy = verifying.busy
      BY Zenon, <2>2
  <2>4. SenderShape'
    <3>1. \A c \in senderCalls' : CallShaped(c)
        BY <1>2, <2>1 DEF SenderInv, SenderShape
    <3> QED
        BY Zenon, <2>2, <2>3, <3>1 DEF SenderShape
  <2>5. ASSUME NEW c \in senderCalls', ~misled' PROVE Led(c)'
    <3>1. CASE c \in senderCalls
        BY <1>1, <2>5, <3>1 DEF Led, SenderAnswers, SenderInv, NotMisled
    <3>2. CASE c = read
        BY <1>2, <2>3, <3>2 DEF Led
    <3> QED
        BY <2>1, <3>1, <3>2
  <2> QED
      BY <1>1, <2>3, <2>4, <2>5 DEF SenderInv, NotMisled
<1> QED
    BY <1>3, <1>4

LEMMA RequestFetchedKept ==
    ASSUME SenderInv, NEW c \in SenderAnswers("verify"), RequestFetched(c)
    PROVE  SenderInv'
<1>1. senderCalls' = senderCalls \ {c} /\ astray' = astray
    BY DEF RequestFetched
<1>2. PICK found : /\ verifying' = [route |-> verifying.route, found |-> found, loading |-> FALSE,
                                    busy |-> verifying.busy]
                   /\ \/ found = c.name /\ misled' = misled
                      \/ found = verifying.found /\ misled' = (misled \/ verifying.found # NoName)
  <2>1. CASE verifying' = [verifying EXCEPT !.loading = FALSE, !.found = c.name] /\ misled' = misled
    <3>1. verifying' = [route |-> verifying.route, found |-> c.name, loading |-> FALSE,
                        busy |-> verifying.busy]
        BY Zenon, <2>1 DEF SenderInv, SenderShape
    <3> QED
        BY Zenon, <2>1, <3>1
  <2>2. CASE /\ verifying' = [verifying EXCEPT !.loading = FALSE]
             /\ misled' = (misled \/ verifying.found # NoName)
    <3>1. verifying' = [route |-> verifying.route, found |-> verifying.found, loading |-> FALSE,
                        busy |-> verifying.busy]
        BY Zenon, <2>2 DEF SenderInv, SenderShape
    <3> QED
        BY Zenon, <2>2, <3>1
  <2> QED
      BY Zenon, <2>1, <2>2 DEF RequestFetched
<1>3. verifying'.route = verifying.route /\ verifying'.found = found /\ ~verifying'.loading
      /\ verifying'.busy = verifying.busy
    BY Zenon, <1>2
<1>4. SenderShape'
  <2>1. \A d \in senderCalls' : CallShaped(d)
      BY <1>1 DEF SenderInv, SenderShape
  <2>2. verifying' = [route |-> verifying'.route, found |-> verifying'.found,
                      loading |-> verifying'.loading, busy |-> verifying'.busy]
      BY Zenon, <1>2
  <2> QED
      BY Zenon, <2>1, <2>2 DEF SenderShape
<1>5. NotMisled'
    BY <1>1, <1>2, <1>3 DEF SenderInv, NotMisled, Led, SenderAnswers
<1> QED
    BY <1>4, <1>5 DEF SenderInv

\* The button changes nothing of the page but whether it is busy.
LEMMA BusyShaped ==
    ASSUME SenderShape, NEW b, NEW v, v = [verifying EXCEPT !.busy = b]
    PROVE  /\ v = [route |-> v.route, found |-> v.found, loading |-> v.loading, busy |-> v.busy]
           /\ v.route = verifying.route /\ v.found = verifying.found
           /\ v.loading = verifying.loading
<1>1. v = [route |-> verifying.route, found |-> verifying.found,
           loading |-> verifying.loading, busy |-> b]
    BY Zenon DEF SenderShape
<1> QED
    BY Zenon, <1>1

LEMMA SubmitKept ==
    ASSUME SenderInv, SubmitDocuments
    PROVE  SenderInv'
<1> DEFINE call == SenderCall("documents", verifying.found, verifying.route)
<1>1. /\ verifying.found # NoName /\ ~verifying.loading
      /\ senderCalls' = senderCalls \cup {call} /\ verifying' = [verifying EXCEPT !.busy = TRUE]
      /\ UNCHANGED <<astray, misled>>
    BY DEF SubmitDocuments, SubmitOffered, Ask, histories
<1>2. /\ CallShaped(call) /\ call.op = "documents" /\ call.name = verifying.found
      /\ call.arg = verifying.route
    BY SenderCallShaped
<1>3. /\ verifying' = [route |-> verifying'.route, found |-> verifying'.found,
                       loading |-> verifying'.loading, busy |-> verifying'.busy]
      /\ verifying'.route = verifying.route /\ verifying'.found = verifying.found
      /\ verifying'.loading = verifying.loading
    BY Zenon, <1>1, BusyShaped DEF SenderInv
<1> HIDE DEF call
<1>4. SenderShape'
  <2>1. \A d \in senderCalls' : CallShaped(d)
      BY <1>1, <1>2 DEF SenderInv, SenderShape
  <2> QED
      BY Zenon, <1>3, <2>1 DEF SenderShape
<1>5. NotMisled'
  <2>1. ASSUME ~misled' PROVE \A c \in senderCalls' : Led(c)'
      BY <1>1, <1>2, <1>3, <2>1 DEF SenderInv, NotMisled, Led
  <2> QED
      BY <1>1, <1>3, <2>1 DEF SenderInv, NotMisled
<1> QED
    BY <1>4, <1>5 DEF SenderInv

LEMMA DocumentsKept ==
    ASSUME SenderInv, NEW c \in SenderAnswers("documents"), DocumentsAnswered(c)
    PROVE  SenderInv'
<1>1. c \in senderCalls /\ c.op = "documents" /\ misled' = misled
    BY DEF SenderAnswers, DocumentsAnswered
<1>2. CASE astray' = (astray \/ c.name # c.arg) /\ senderCalls' = senderCalls \ {c}
           /\ UNCHANGED verifying
  <2>1. SenderShape'
      BY <1>2 DEF SenderInv, SenderShape
  <2> QED
      BY <1>1, <1>2, <2>1 DEF SenderInv, NotMisled, Led
<1>3. CASE astray' = (astray \/ c.name # c.arg) /\ ToRequests(Left \ {c, [c EXCEPT !.live = FALSE]})
  <2>1. ~misled /\ astray' => astray
      BY <1>1, <1>3 DEF SenderInv, NotMisled, Led
  <2> QED
      BY <1>1, <1>3, <2>1, ToRequestsKept
<1>4. CASE /\ verifying' = IF c.live THEN [verifying EXCEPT !.busy = FALSE] ELSE verifying
           /\ senderCalls' = senderCalls \ {c} /\ astray' = astray
  <2>1. /\ verifying' = [route |-> verifying'.route, found |-> verifying'.found,
                         loading |-> verifying'.loading, busy |-> verifying'.busy]
        /\ verifying'.route = verifying.route /\ verifying'.found = verifying.found
        /\ verifying'.loading = verifying.loading
      BY Zenon, <1>4, BusyShaped DEF SenderInv, SenderShape
  <2>2. \A d \in senderCalls' : CallShaped(d)
      BY <1>4 DEF SenderInv, SenderShape
  <2>3. SenderShape'
      BY Zenon, <2>1, <2>2 DEF SenderShape
  <2> QED
      BY <1>1, <1>4, <2>1, <2>3 DEF SenderInv, NotMisled, Led
<1> QED
    BY Zenon, <1>2, <1>3, <1>4 DEF DocumentsAnswered

LEMMA SenderKept == SenderInv /\ [SenderNext]_senderVars => SenderInv'
<1> SUFFICES ASSUME SenderInv, [SenderNext]_senderVars PROVE SenderInv'
    OBVIOUS
<1> USE DEF histories
<1>1. CASE UNCHANGED senderVars
    BY <1>1, CallsKept DEF senderVars
<1>2. CASE RefreshRequests
    BY <1>2, CallsKept, SenderCallShaped DEF RefreshRequests, AskRead, Ask
<1>3. CASE CloseRequestDetails
    BY <1>3, CallsKept DEF CloseRequestDetails, OnRequests
<1>4. CASE RetryRequest
    BY <1>4, CallsKept DEF RetryRequest, OnRequests
<1>5. CASE HandleRequest
    BY <1>5, CallsKept, SenderCallShaped DEF HandleRequest, Ask
<1>6. CASE HandleAdminAdd
    BY <1>6, CallsKept, SenderCallShaped DEF HandleAdminAdd, Ask
<1>7. CASE BackToRequests
    BY <1>7, ToRequestsKept DEF BackToRequests
<1>8. CASE SubmitDocuments
    BY <1>8, SubmitKept
<1>9. ASSUME NEW f \in StatusFilters, SetStatusFilter(f) PROVE SenderInv'
    BY <1>9, CallsKept DEF SetStatusFilter, OnRequests
<1>10. ASSUME NEW n \in Name, OpenRequestDetails(n) PROVE SenderInv'
    BY <1>10, CallsKept DEF OpenRequestDetails, OnRequests
<1>11. ASSUME NEW n \in Name, FillRequest(n) PROVE SenderInv'
    BY <1>11, CallsKept DEF FillRequest, OnRequests
<1>12. ASSUME NEW n \in Name, OpenVerification(n) PROVE SenderInv'
    BY <1>12, OpenVerificationKept
<1>13. ASSUME NEW n \in Name, NEW decision \in Decision, StaffDecides(n, decision) PROVE SenderInv'
    BY <1>13, CallsKept DEF StaffDecides
<1>14. ASSUME NEW c \in SenderAnswers("mine"), MyRequestsFetched(c) PROVE SenderInv'
    BY <1>14, CallsKept DEF MyRequestsFetched
<1>15. ASSUME NEW c \in SenderAnswers("request"), RequestAnswered(c) PROVE SenderInv'
  <2>1. \A d \in senderCalls' : d \in senderCalls \/ d = SenderCall("mine", NoName, "none")
      BY <1>15 DEF RequestAnswered
  <2>2. UNCHANGED <<verifying, astray>> /\ misled' = misled
      BY <1>15 DEF RequestAnswered
  <2> QED
      BY <2>1, <2>2, CallsKept, SenderCallShaped
<1>16. ASSUME NEW c \in SenderAnswers("verify"), RequestFetched(c) PROVE SenderInv'
    BY <1>16, RequestFetchedKept
<1>17. ASSUME NEW c \in SenderAnswers("documents"), DocumentsAnswered(c) PROVE SenderInv'
    BY <1>17, DocumentsKept
<1> QED
    BY <1>1, <1>2, <1>3, <1>4, <1>5, <1>6, <1>7, <1>8, <1>9, <1>10, <1>11, <1>12, <1>13,
       <1>14, <1>15, <1>16, <1>17 DEF SenderNext

(* Documents go to the request the address named, for any requests and any  *)
(* order of links followed and answers, unless the address changed during a *)
(* read or its read failed (VerifySenderIDPage.js).                         *)
THEOREM VerifiesTheOneNamedCorrect == SenderSpec => []VerifiesTheOneNamed
<1>1. SenderInv => VerifiesTheOneNamed
    BY DEF SenderInv, NotMisled, VerifiesTheOneNamed
<1> QED
    BY <1>1, SenderStarts, SenderKept, PTL DEF SenderSpec

-----------------------------------------------------------------------------
(* Rows.                                                                    *)

\* What an update, a read and the row are made of; "flip" is no value.
UpdateShaped(u) == u = [n |-> u.n, sets |-> u.sets, done |-> u.done]
ReadShaped(r) == r = [id |-> r.id, n |-> r.n, is |-> r.is] /\ r.n \in Nat
RowShape ==
    /\ site = [kind |-> site.kind, is |-> site.is] /\ site.kind \in Row
    /\ DOMAIN site.is = Field(site.kind) /\ DOMAIN wanted = DOMAIN site.is
    /\ site.is = [f \in DOMAIN site.is |-> site.is[f]]
    /\ \A f \in DOMAIN site.is : site.is[f] # "flip"
    /\ row = [is |-> row.is, of |-> row.of, drawer |-> row.drawer] /\ row.of \in Nat
    /\ clicks \in [buttons : Nat, reads : Nat, taken : Nat]
    /\ \A u \in updates : UpdateShaped(u)
    /\ \A r \in rowReads : ReadShaped(r)

\* One update at a time, and it does what was last asked for.
WantedIs(values) == \A f \in DOMAIN wanted : wanted[f] \in {"any", values[f]}
Wanting ==
    ~hasty => /\ \A u, v \in updates : u = v
              /\ (\A u \in updates : u.done) => WantedIs(site.is)
              /\ \A u \in updates : ~u.done => WantedIs(After(u.sets))

\* What the server holds is shown, or will be: an answer, a read or what the
\* last read took is still to come.
Catching ==
    ~blind => \/ \E u \in updates : u.done
              \/ \E r \in rowReads : r.n = 0
              \/ \E r \in rowReads : r.n > 0 /\ r.n = clicks.taken /\ r.is = site.is
              \/ row.of = clicks.taken /\ row.is = site.is
\* Reads are numbered as the server took them, and answered once.
Numbered ==
    /\ row.of <= clicks.taken
    /\ \A r \in rowReads : r.n > 0 => r.n <= clicks.taken /\ r.n # row.of
    /\ \A r, s \in rowReads : r.n > 0 /\ r.n = s.n => r = s

RowInv == RowShape /\ Wanting /\ Catching /\ Numbered

USE RowAssumption

LEMMA NoKindFlips ==
    ASSUME NEW k \in Row
    PROVE  /\ "flip" \notin ValuesOf(k)
           /\ FirstOf(k) = [f \in Field(k) |-> FirstOf(k)[f]]
           /\ \A f \in Field(k) : FirstOf(k)[f] # "flip"
<1>1. "flip" \notin ValuesOf(k)
    BY DEF ValuesOf, Switch
<1>2. CASE k = "permission"
  <2>1. FirstOf(k) = [manage_sender_ids |-> "off", manage_platform |-> "off"]
      BY <1>2 DEF FirstOf
  <2>2. Field(k) = {"manage_sender_ids", "manage_platform"}
      BY <2>1 DEF Field
  <2> QED
      BY <1>1, <2>1, <2>2
<1>3. CASE k \in {"account", "gateway"}
  <2>1. FirstOf(k) = [is_active |-> "on"]
      BY <1>3 DEF FirstOf
  <2>2. Field(k) = {"is_active"}
      BY <2>1 DEF Field
  <2> QED
      BY <1>1, <2>1, <2>2
<1>4. CASE k = "bug"
  <2>1. FirstOf(k) = [status |-> "open"]
      BY <1>4 DEF FirstOf
  <2>2. Field(k) = {"status"}
      BY <2>1 DEF Field
  <2> QED
      BY <1>1, <2>1, <2>2
<1>5. CASE k = "request"
  <2>1. FirstOf(k) = [status |-> "pending"]
      BY <1>5 DEF FirstOf
  <2>2. Field(k) = {"status"}
      BY <2>1 DEF Field
  <2> QED
      BY <1>1, <2>1, <2>2
<1>6. CASE k = "notification"
  <2>1. FirstOf(k) = [first |-> "unread", second |-> "unread"]
      BY <1>6 DEF FirstOf
  <2>2. Field(k) = {"first", "second"}
      BY <2>1 DEF Field
  <2> QED
      BY <1>1, <2>1, <2>2
<1> QED
    BY <1>1, <1>2, <1>3, <1>4, <1>5, <1>6

LEMMA RowStarts == RowInit => RowInv
<1> SUFFICES ASSUME RowInit PROVE RowInv
    OBVIOUS
<1>1. PICK k \in Row : site = [kind |-> k, is |-> FirstOf(k)]
    BY DEF RowInit
<1>2. site.kind = k /\ site.is = FirstOf(k)
    BY <1>1
<1>3. row = [is |-> site.is, of |-> 0, drawer |-> FALSE]
    BY DEF RowInit
<1>4. row.is = site.is /\ row.of = 0 /\ row.drawer = FALSE
    BY Zenon, <1>3
<1>5. updates = {} /\ rowReads = {} /\ clicks = [buttons |-> 0, reads |-> 0, taken |-> 0]
    BY DEF RowInit
<1>6. wanted = [f \in Field(site.kind) |-> "any"]
    BY DEF RowInit
<1>7. RowShape
  <2>1. DOMAIN FirstOf(k) = Field(k)
      BY DEF Field
  <2>2. row = [is |-> row.is, of |-> row.of, drawer |-> row.drawer]
      BY Zenon, <1>3, <1>4
  <2>3. /\ site = [kind |-> site.kind, is |-> site.is] /\ site.kind \in Row
        /\ DOMAIN site.is = Field(site.kind) /\ DOMAIN wanted = DOMAIN site.is
      BY <1>1, <1>2, <1>6, <2>1
  <2>4. /\ site.is = [f \in DOMAIN site.is |-> site.is[f]]
        /\ \A f \in DOMAIN site.is : site.is[f] # "flip"
      BY <1>2, <2>1, NoKindFlips
  <2>5. clicks \in [buttons : Nat, reads : Nat, taken : Nat]
      BY <1>5
  <2> QED
      BY <1>4, <1>5, <2>2, <2>3, <2>4, <2>5 DEF RowShape
<1>8. Wanting
    BY <1>5, <1>6 DEF Wanting, WantedIs
<1>9. Catching /\ Numbered
    BY <1>4, <1>5 DEF Catching, Numbered
<1> QED
    BY <1>7, <1>8, <1>9 DEF RowInv

\* A button: what it sends does what it asks for, on a row that is not old.
LEMMA ClickKept ==
    ASSUME RowInv, NEW sets, NEW asked, Clicks(sets, asked),
           row.is = site.is => \A f \in DOMAIN site.is :
              After(sets)[f] = IF f \in DOMAIN asked THEN asked[f] ELSE site.is[f]
    PROVE  RowInv'
<1>1. PICK u : u = [n |-> clicks'.buttons, sets |-> sets, done |-> FALSE]
    OBVIOUS
<1>2. /\ clicks' = [clicks EXCEPT !.buttons = @ + 1] /\ updates' = updates \cup {u}
      /\ wanted' = [f \in DOMAIN wanted |-> IF f \in DOMAIN asked THEN asked[f] ELSE wanted[f]]
      /\ hasty' = (hasty \/ Pending)
      /\ UNCHANGED <<site, row, rowReads, blind>>
    BY Zenon, <1>1 DEF Clicks
<1>3. clicks' \in [buttons : Nat, reads : Nat, taken : Nat] /\ clicks'.taken = clicks.taken
    BY <1>2 DEF RowInv, RowShape
<1>4. u.sets = sets /\ ~u.done /\ UpdateShaped(u)
    BY Zenon, <1>1 DEF UpdateShaped
<1>5. RowShape'
  <2>1. \A v \in updates' : UpdateShaped(v)
      BY <1>2, <1>4 DEF RowInv, RowShape
  <2>2. DOMAIN wanted' = DOMAIN site'.is
      BY <1>2 DEF RowInv, RowShape
  <2> QED
      BY <1>2, <1>3, <2>1, <2>2 DEF RowInv, RowShape
<1>6. Wanting'
  <2> SUFFICES ASSUME ~hasty' PROVE /\ updates' = {u} /\ WantedIs(After(u.sets))'
      BY <1>4 DEF Wanting
  <2>1. ~hasty /\ updates = {} /\ row.is = site.is
      BY <1>2 DEF Pending
  <2>2. \A f \in DOMAIN wanted : wanted[f] \in {"any", site.is[f]}
      BY <2>1 DEF RowInv, Wanting, WantedIs
  <2>3. After(u.sets)' = After(sets)
      BY <1>2, <1>4 DEF After
  <2>4. \A f \in DOMAIN wanted' : wanted'[f] \in {"any", After(sets)[f]}
      BY <1>2, <2>1, <2>2 DEF RowInv, RowShape
  <2> QED
      BY <1>2, <2>1, <2>3, <2>4 DEF WantedIs
<1>7. Catching' /\ Numbered'
    BY <1>2, <1>3 DEF RowInv, Catching, Numbered
<1> QED
    BY <1>5, <1>6, <1>7 DEF RowInv

\* Each of the buttons.
LEMMA ButtonsKept ==
    ASSUME RowInv,
           \/ HandleToggleStatus \/ HandleToggleGateway \/ HandleMarkAllRead
           \/ \E f \in Field(site.kind) : HandleTogglePermission(f) \/ HandleMarkRead(f)
           \/ \E v \in ValuesOf(site.kind) : HandleUpdateStatus(v) \/ DecideRequest(v)
    PROVE  RowInv'
<1>1. /\ DOMAIN site.is = Field(site.kind) /\ site.kind \in Row
      /\ \A f \in DOMAIN site.is : site.is[f] # "flip"
      /\ site.is = [f \in DOMAIN site.is |-> site.is[f]]
    BY DEF RowInv, RowShape
<1>2. CASE HandleToggleStatus
  <2> DEFINE sets == [is_active |-> Other(row.is.is_active)]
  <2>1. DOMAIN sets = {"is_active"} /\ sets["is_active"] \in Switch
      BY DEF Other, Switch
  <2>2. \A f \in DOMAIN site.is :
          After(sets)[f] = IF f \in DOMAIN sets THEN sets[f] ELSE site.is[f]
      BY <2>1 DEF After, Switch
  <2>3. Clicks(sets, sets)
      BY <1>2 DEF HandleToggleStatus
  <2> QED
      BY <2>2, <2>3, ClickKept
<1>3. CASE HandleToggleGateway
  <2> DEFINE sets == [is_active |-> "flip"]
             asked == [is_active |-> Other(row.is.is_active)]
  <2>1. row.is = site.is => \A f \in DOMAIN site.is :
          After(sets)[f] = IF f \in DOMAIN asked THEN asked[f] ELSE site.is[f]
      BY DEF After
  <2>2. Clicks(sets, asked)
      BY <1>3 DEF HandleToggleGateway
  <2> QED
      BY <2>1, <2>2, ClickKept
<1>4. CASE HandleMarkAllRead
  <2> DEFINE sets == [f \in Field("notification") |-> "read"]
  <2>1. \A f \in DOMAIN site.is :
          After(sets)[f] = IF f \in DOMAIN sets THEN sets[f] ELSE site.is[f]
      BY DEF After
  <2>2. Clicks(sets, sets)
      BY <1>4 DEF HandleMarkAllRead
  <2> QED
      BY <2>1, <2>2, ClickKept
<1>5. ASSUME NEW f \in Field(site.kind), HandleTogglePermission(f) PROVE RowInv'
  <2> DEFINE sets == [row.is EXCEPT ![f] = Other(row.is[f])]
             asked == Only(f, Other(row.is[f]))
  <2>1. row.is = site.is => \A g \in DOMAIN site.is :
          After(sets)[g] = IF g \in DOMAIN asked THEN asked[g] ELSE site.is[g]
      BY <1>1 DEF After, Only, Other
  <2>2. Clicks(sets, asked)
      BY <1>5 DEF HandleTogglePermission
  <2> QED
      BY <2>1, <2>2, ClickKept
<1>6. ASSUME NEW f, NEW v, v # "flip", Clicks(Only(f, v), Only(f, v)) PROVE RowInv'
  <2>1. \A g \in DOMAIN site.is :
          After(Only(f, v))[g] = IF g \in DOMAIN Only(f, v) THEN Only(f, v)[g] ELSE site.is[g]
      BY <1>6 DEF After, Only
  <2> QED
      BY <1>6, <2>1, ClickKept
<1>7. ASSUME NEW v \in ValuesOf(site.kind), HandleUpdateStatus(v) \/ DecideRequest(v) PROVE RowInv'
  <2>1. v # "flip"
      BY <1>1, NoKindFlips
  <2>2. Clicks(Only("status", v), Only("status", v))
      BY <1>7 DEF HandleUpdateStatus, DecideRequest
  <2> QED
      BY <1>6, <2>1, <2>2
<1>8. ASSUME NEW f \in Field(site.kind), HandleMarkRead(f) PROVE RowInv'
  <2>1. Clicks(Only(f, "read"), Only(f, "read"))
      BY <1>8 DEF HandleMarkRead
  <2> QED
      BY <1>6, <2>1
<1> QED
    BY <1>2, <1>3, <1>4, <1>5, <1>7, <1>8

LEMMA DoneShaped ==
    ASSUME NEW u, UpdateShaped(u), NEW v, v = [u EXCEPT !.done = TRUE]
    PROVE  UpdateShaped(v) /\ v.done /\ v.sets = u.sets
<1>1. v = [n |-> u.n, sets |-> u.sets, done |-> TRUE]
    BY Zenon DEF UpdateShaped
<1> QED
    BY Zenon, <1>1 DEF UpdateShaped

LEMMA AppliedKept ==
    ASSUME RowInv, NEW u \in updates, Applied(u)
    PROVE  RowInv'
<1> DEFINE v == [u EXCEPT !.done = TRUE]
<1>1. /\ ~u.done /\ site' = [site EXCEPT !.is = After(u.sets)]
      /\ updates' = (updates \ {u}) \cup {v}
      /\ UNCHANGED <<row, rowReads, clicks, wanted, hasty, blind>>
    BY DEF Applied
<1>2. UpdateShaped(v) /\ v.done /\ v.sets = u.sets
    BY DoneShaped DEF RowInv, RowShape
<1> HIDE DEF v
<1>3. site' = [kind |-> site.kind, is |-> After(u.sets)]
    BY <1>1 DEF RowInv, RowShape
<1>4. site'.kind = site.kind /\ site'.is = After(u.sets)
    BY <1>3
<1>5. /\ DOMAIN After(u.sets) = DOMAIN site.is
      /\ After(u.sets) = [f \in DOMAIN site.is |-> After(u.sets)[f]]
      /\ \A f \in DOMAIN site.is : After(u.sets)[f] # "flip"
    BY DEF After, Other, RowInv, RowShape
<1>6. RowShape'
  <2>1. \A w \in updates' : UpdateShaped(w)
      BY <1>1, <1>2 DEF RowInv, RowShape
  <2> QED
      BY <1>1, <1>3, <1>4, <1>5, <2>1 DEF RowInv, RowShape
<1>7. Wanting'
    BY <1>1, <1>2, <1>4 DEF RowInv, Wanting, WantedIs
<1>8. Catching' /\ Numbered'
    BY <1>1, <1>2 DEF RowInv, Catching, Numbered
<1> QED
    BY <1>6, <1>7, <1>8 DEF RowInv

\* The page reads its list again.
LEMMA ReadKept ==
    ASSUME RowInv, ReadRows, updates' \in SUBSET updates, UNCHANGED <<site, wanted, hasty, blind>>,
           \A u \in updates \ updates' : u.done,
           NEW b, row' = [is |-> row.is, of |-> row.of, drawer |-> b]
    PROVE  RowInv'
<1> DEFINE r == [id |-> clicks'.reads, n |-> 0, is |-> site.is]
<1>1. clicks' = [clicks EXCEPT !.reads = @ + 1] /\ rowReads' = rowReads \cup {r}
    BY DEF ReadRows
<1>2. clicks' \in [buttons : Nat, reads : Nat, taken : Nat] /\ clicks'.taken = clicks.taken
    BY <1>1 DEF RowInv, RowShape
<1>3. ReadShaped(r) /\ r.n = 0
    BY DEF ReadShaped
<1>4. row'.is = row.is /\ row'.of = row.of /\ row'.drawer = b
    BY Zenon
<1> HIDE DEF r
<1>5. RowShape'
  <2>1. \A s \in rowReads' : ReadShaped(s)
      BY <1>1, <1>3 DEF RowInv, RowShape
  <2>2. row' = [is |-> row'.is, of |-> row'.of, drawer |-> row'.drawer]
      BY Zenon, <1>4
  <2> QED
      BY <1>2, <1>4, <2>1, <2>2 DEF RowInv, RowShape
<1>6. Wanting'
  <2>1. \A u \in updates : After(u.sets)' = After(u.sets)
      BY DEF After
  <2> QED
      BY <2>1 DEF RowInv, Wanting, WantedIs
<1>7. Catching' /\ Numbered'
    BY <1>1, <1>2, <1>3, <1>4 DEF RowInv, Catching, Numbered
<1> QED
    BY <1>5, <1>6, <1>7 DEF RowInv

\* The server takes a read, which is then the last one it took.
LEMMA ServerReadsKept ==
    ASSUME RowInv, NEW r \in rowReads, ServerReads(r)
    PROVE  RowInv'
<1> DEFINE s == [id |-> r.id, n |-> clicks.taken + 1, is |-> site.is]
<1>1. /\ r.n = 0 /\ clicks' = [clicks EXCEPT !.taken = @ + 1]
      /\ rowReads' = (rowReads \ {r}) \cup {[r EXCEPT !.n = clicks'.taken, !.is = site.is]}
      /\ UNCHANGED <<site, row, updates, wanted, hasty, blind>>
    BY DEF ServerReads
<1>2. /\ clicks' \in [buttons : Nat, reads : Nat, taken : Nat] /\ clicks'.taken = clicks.taken + 1
      /\ clicks.taken \in Nat
    BY <1>1 DEF RowInv, RowShape
<1>3. rowReads' = (rowReads \ {r}) \cup {s}
  <2>1. ASSUME NEW v, v = [r EXCEPT !.n = clicks'.taken, !.is = site.is] PROVE v = s
    <3>1. r = [id |-> r.id, n |-> r.n, is |-> r.is]
        BY DEF RowInv, RowShape, ReadShaped
    <3>2. v = [id |-> r.id, n |-> clicks'.taken, is |-> site.is]
        BY Zenon, <2>1, <3>1
    <3> QED
        BY Zenon, <1>2, <3>2
  <2> QED
      BY <1>1, <2>1
<1>4. ReadShaped(s) /\ s.n = clicks'.taken /\ s.is = site.is
    BY <1>2 DEF ReadShaped
<1> HIDE DEF s
<1>5. RowShape'
    BY <1>1, <1>2, <1>3, <1>4 DEF RowInv, RowShape
<1>6. Wanting'
  <2>1. \A u \in updates : After(u.sets)' = After(u.sets)
      BY <1>1 DEF After
  <2> QED
      BY <1>1, <2>1 DEF RowInv, Wanting, WantedIs
<1>7. Catching'
    BY <1>1, <1>2, <1>3, <1>4 DEF Catching
<1>8. Numbered'
  <2>1. \A q \in rowReads : q.n \in Nat /\ (q.n > 0 => q.n <= clicks.taken) /\ row.of \in Nat
      BY DEF RowInv, RowShape, ReadShaped, Numbered
  <2> QED
      BY <1>1, <1>2, <1>3, <1>4, <2>1 DEF RowInv, Numbered
<1> QED
    BY <1>5, <1>6, <1>7, <1>8 DEF RowInv

\* An answer is shown; the last read the server took is not overtaken unseen.
LEMMA RowsReadKept ==
    ASSUME RowInv, NEW r \in rowReads, RowsRead(r)
    PROVE  RowInv'
<1>1. /\ r.n > 0 /\ rowReads' = rowReads \ {r}
      /\ row' = [row EXCEPT !.is = r.is, !.of = r.n] /\ blind' = (blind \/ r.n < row.of)
      /\ UNCHANGED <<site, updates, clicks, wanted, hasty>>
    BY DEF RowsRead
<1>2. row' = [is |-> r.is, of |-> r.n, drawer |-> row.drawer]
    BY Zenon, <1>1 DEF RowInv, RowShape
<1>3. row'.is = r.is /\ row'.of = r.n /\ row'.drawer = row.drawer
    BY Zenon, <1>2
<1>4. RowShape'
  <2>1. row' = [is |-> row'.is, of |-> row'.of, drawer |-> row'.drawer]
      BY Zenon, <1>2, <1>3
  <2>2. row'.of \in Nat
      BY <1>3 DEF RowInv, RowShape, ReadShaped
  <2> QED
      BY <1>1, <2>1, <2>2 DEF RowInv, RowShape
<1>5. Wanting'
  <2>1. \A u \in updates : After(u.sets)' = After(u.sets)
      BY <1>1 DEF After
  <2> QED
      BY <1>1, <2>1 DEF RowInv, Wanting, WantedIs
<1>6. Numbered'
    BY <1>1, <1>3 DEF RowInv, Numbered
<1>7. Catching'
  <2> SUFFICES ASSUME ~blind' PROVE Catching'
      BY DEF Catching
  <2>1. ~blind /\ ~(r.n < row.of) /\ r.n \in Nat /\ row.of \in Nat /\ clicks.taken \in Nat
      BY <1>1 DEF RowInv, RowShape, ReadShaped
  <2>2. r.n <= clicks.taken /\ r.n # row.of
      BY <1>1 DEF RowInv, Numbered
  <2>3. \/ \E u \in updates : u.done
        \/ \E q \in rowReads : q.n = 0
        \/ \E q \in rowReads : q.n > 0 /\ q.n = clicks.taken /\ q.is = site.is
      BY <2>1, <2>2 DEF RowInv, Catching
  <2> QED
      BY <1>1, <1>3, <2>3 DEF Catching
<1> QED
    BY <1>4, <1>5, <1>6, <1>7 DEF RowInv

\* Another writer is not followed.
LEMMA SomeoneElseKept ==
    ASSUME RowInv, NEW f \in Field(site.kind), NEW v \in ValuesOf(site.kind), SomeoneElse(f, v)
    PROVE  RowInv'
<1>1. /\ site' = [site EXCEPT !.is[f] = v] /\ blind' = TRUE
      /\ wanted' = [wanted EXCEPT ![f] = "any"] /\ hasty' = (hasty \/ updates # {})
      /\ UNCHANGED <<row, updates, rowReads, clicks>>
    BY DEF SomeoneElse
<1>2. site' = [kind |-> site.kind, is |-> [site.is EXCEPT ![f] = v]]
    BY Zenon, <1>1 DEF RowInv, RowShape
<1>3. site'.kind = site.kind /\ site'.is = [site.is EXCEPT ![f] = v]
    BY Zenon, <1>2
<1>4. v # "flip" /\ f \in DOMAIN site.is /\ DOMAIN wanted = DOMAIN site.is
    BY NoKindFlips DEF RowInv, RowShape
<1>5. RowShape'
  <2>1. /\ DOMAIN site'.is = DOMAIN site.is /\ DOMAIN wanted' = DOMAIN wanted
        /\ \A g \in DOMAIN site.is : site'.is[g] # "flip"
        /\ site'.is = [g \in DOMAIN site.is |-> site'.is[g]]
      BY <1>1, <1>3, <1>4 DEF RowInv, RowShape
  <2> QED
      BY <1>1, <1>2, <1>3, <1>4, <2>1 DEF RowInv, RowShape
<1>6. Wanting'
  <2> SUFFICES ASSUME ~hasty' PROVE updates' = {} /\ WantedIs(site.is)'
      BY DEF Wanting
  <2>1. ~hasty /\ updates = {}
      BY <1>1
  <2>2. \A g \in DOMAIN wanted : wanted[g] \in {"any", site.is[g]}
      BY <2>1 DEF RowInv, Wanting, WantedIs
  <2> QED
      BY <1>1, <1>3, <1>4, <2>1, <2>2 DEF WantedIs
<1>7. Catching' /\ Numbered'
    BY <1>1 DEF RowInv, Catching, Numbered
<1> QED
    BY <1>5, <1>6, <1>7 DEF RowInv

\* The drawer of a request.
LEMMA DrawerShaped ==
    ASSUME RowShape, NEW b, NEW v, v = [row EXCEPT !.drawer = b]
    PROVE  /\ v = [is |-> row.is, of |-> row.of, drawer |-> b]
           /\ v = [is |-> v.is, of |-> v.of, drawer |-> v.drawer] /\ v.is = row.is /\ v.of = row.of
<1>1. v = [is |-> row.is, of |-> row.of, drawer |-> b]
    BY Zenon DEF RowShape
<1> QED
    BY Zenon, <1>1

LEMMA RowKept == RowInv /\ [RowNext]_rowVars => RowInv'
<1> SUFFICES ASSUME RowInv, [RowNext]_rowVars PROVE RowInv'
    OBVIOUS
<1>1. CASE UNCHANGED rowVars
    BY <1>1 DEF rowVars, RowInv, RowShape, UpdateShaped, ReadShaped, Wanting, WantedIs, After,
       Catching, Numbered
<1>2. CASE RefreshRows
  <2>1. row' = [is |-> row.is, of |-> row.of, drawer |-> row.drawer]
      BY <1>2 DEF RefreshRows, RowInv, RowShape
  <2> QED
      BY <1>2, <2>1, ReadKept DEF RefreshRows
<1>3. ASSUME NEW open \in BOOLEAN, SetDetailRequest(open) PROVE RowInv'
  <2>1. /\ row' = [row EXCEPT !.drawer = open]
        /\ UNCHANGED <<site, updates, rowReads, clicks, wanted, hasty, blind>>
      BY <1>3 DEF SetDetailRequest
  <2>2. /\ row' = [is |-> row'.is, of |-> row'.of, drawer |-> row'.drawer]
        /\ row'.is = row.is /\ row'.of = row.of
      BY Zenon, <2>1, DrawerShaped DEF RowInv
  <2>3. RowShape'
      BY <2>1, <2>2 DEF RowInv, RowShape
  <2>4. Wanting'
    <3>1. \A u \in updates : After(u.sets)' = After(u.sets)
        BY <2>1 DEF After
    <3> QED
        BY <2>1, <3>1 DEF RowInv, Wanting, WantedIs
  <2> QED
      BY <2>1, <2>2, <2>3, <2>4 DEF RowInv, Catching, Numbered
<1>4. ASSUME NEW u \in updates, Applied(u) PROVE RowInv'
    BY <1>4, AppliedKept
<1>5. ASSUME NEW u \in updates, UpdateAnswered(u) PROVE RowInv'
  <2>1. row' = [row EXCEPT !.drawer = FALSE] /\ u.done /\ updates' = updates \ {u} /\ ReadRows
        /\ UNCHANGED <<site, wanted, hasty, blind>>
      BY <1>5 DEF UpdateAnswered
  <2>2. row' = [is |-> row.is, of |-> row.of, drawer |-> FALSE]
      BY Zenon, <2>1, DrawerShaped DEF RowInv
  <2> QED
      BY <2>1, <2>2, ReadKept
<1>6. ASSUME NEW u \in updates, UpdateFails(u) PROVE RowInv'
  <2>1. /\ updates' = updates \ {u} /\ blind' = (blind \/ u.done)
        /\ wanted' = [f \in DOMAIN wanted |-> "any"]
        /\ UNCHANGED <<site, row, rowReads, clicks, hasty>>
      BY <1>6 DEF UpdateFails
  <2>2. RowShape'
      BY <2>1 DEF RowInv, RowShape
  <2>3. Wanting'
      BY <2>1 DEF RowInv, Wanting, WantedIs
  <2>4. Catching' /\ Numbered'
      BY <2>1 DEF RowInv, Catching, Numbered
  <2> QED
      BY <2>2, <2>3, <2>4 DEF RowInv
<1>7. ASSUME NEW r \in rowReads, ServerReads(r) PROVE RowInv'
    BY <1>7, ServerReadsKept
<1>8. ASSUME NEW r \in rowReads, RowsRead(r) PROVE RowInv'
    BY <1>8, RowsReadKept
<1>9. ASSUME NEW r \in rowReads, RowsReadFails(r) PROVE RowInv'
  <2>1. /\ rowReads' = rowReads \ {r} /\ blind' = TRUE
        /\ UNCHANGED <<site, row, updates, clicks, wanted, hasty>>
      BY <1>9 DEF RowsReadFails
  <2>2. Wanting'
    <3>1. \A u \in updates : After(u.sets)' = After(u.sets)
        BY <2>1 DEF After
    <3> QED
        BY <2>1, <3>1 DEF RowInv, Wanting, WantedIs
  <2> QED
      BY <2>1, <2>2 DEF RowInv, RowShape, Catching, Numbered
<1>10. ASSUME NEW f \in Field(site.kind), NEW v \in ValuesOf(site.kind), SomeoneElse(f, v)
       PROVE RowInv'
    BY <1>10, SomeoneElseKept
<1> QED
    BY <1>1, <1>2, <1>3, <1>4, <1>5, <1>6, <1>7, <1>8, <1>9, <1>10, ButtonsKept DEF RowNext

(* What a button was last pressed for is what the server holds, for any     *)
(* number of presses, reads and answers (AdminStaffPage.js,                 *)
(* AdminUsersPage.js, AdminManagementPage.js, BugReportsPage.js).           *)
THEOREM UpdatesStickCorrect == RowSpec => []UpdatesStick
<1>1. RowInv => UpdatesStick
    BY DEF RowInv, Wanting, WantedIs, UpdatesStick
<1> QED
    BY <1>1, RowStarts, RowKept, PTL DEF RowSpec

(* A list at rest shows what the server holds, in whatever order the server *)
(* read for its reads and they were answered, unless a later one was        *)
(* answered first, one failed or someone else wrote.                        *)
THEOREM RowsCatchUpCorrect == RowSpec => []RowsCatchUp
<1>1. RowInv => RowsCatchUp
    BY DEF RowInv, Catching, RowsCatchUp
<1> QED
    BY <1>1, RowStarts, RowKept, PTL DEF RowSpec
=============================================================================
