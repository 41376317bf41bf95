--------------------------- MODULE SendingProofs ----------------------------
(***************************************************************************)
(* What holds of what the pages send, for any campaigns, contacts, balances *)
(* and submits.  Cards and quick send: each start, made or let pass, has a  *)
(* reason of its own (Covered); a form has one submit under way             *)
(* (OneSubmit), and what was sent is gone from it (SentIsGone).  Wizard:    *)
(* the page waits for one call at a time (OneAtATime), the campaign in its  *)
(* checkout is as it was counted (Priced), and of a draft one campaign is   *)
(* busy (OneBusy).                                                          *)
(***************************************************************************)
EXTENDS Outbox, Wizard, FiniteSetTheorems, TLAPS

-----------------------------------------------------------------------------
(* The campaign cards and quick send.                                       *)

QuickForm == [open : BOOLEAN, loading : BOOLEAN, filled : BOOLEAN, composed : Nat]
Tallied(t) ==
    /\ t = [f \in {"starts", "fails", "again", "passed"} |-> t[f]]
    /\ t.starts \in Nat /\ t.fails \in Nat /\ t.again \in Nat /\ IsFiniteSet(t.passed)
OutTypeOK ==
    /\ tally = [c \in Card |-> tally[c]] /\ \A c \in Card : Tallied(tally[c])
    /\ board \in [DOMAIN board -> Statuses]
    /\ DOMAIN board \subseteq made /\ made \subseteq Card
    /\ quick \in QuickForm
    /\ sentFor \in [1..MaxSubmits -> SUBSET Card]

\* The starts of a campaign, those that were let pass, and one more while it
\* may be started for the first time or has failed and none was let pass, have
\* a reason each.
IsFree(c) == c \notin made \/ (MayStart(c) /\ board[c] # "delivering")
Free(c) == IF IsFree(c) THEN 1 ELSE 0
Covers(t, free) ==
    t.starts + Cardinality(t.passed) + (IF t.passed = {} THEN free ELSE 0)
      <= 1 + t.fails + t.again
Covered == \A c \in Card : Covers(tally[c], Free(c))

\* The calls of a submit, and the one it has under way: for what is composed.
SubmitCalls == {x \in outCalls : x.op \in {"create", "transmit"}}
OneSubmit ==
    /\ \A x \in SubmitCalls : quick.loading /\ quick.filled /\ x.msg = quick.composed
    /\ \A x, y \in SubmitCalls : x = y

\* A message that was sent is no longer in the form, unless it is unsure.
SentIsGone ==
    /\ quick.filled => quick.composed \in 1..MaxSubmits
    /\ \A m \in 1..MaxSubmits :
         /\ m > quick.composed => sentFor[m] = {}
         /\ m \notin unsure =>
              /\ sentFor[m] = {} \/ \E c \in Card : sentFor[m] = {c}
              /\ m = quick.composed /\ quick.filled => sentFor[m] = {}

StartInv == OutTypeOK /\ Covered
SubmitInv == OutTypeOK /\ OneSubmit /\ SentIsGone

-----------------------------------------------------------------------------
LEMMA OutStarts == OutInit => StartInv /\ SubmitInv
<1> SUFFICES ASSUME OutInit PROVE StartInv /\ SubmitInv
    OBVIOUS
<1>1. OutTypeOK
    BY FS_EmptySet, OutboxAssumption DEF OutInit, OutTypeOK, Statuses, QuickForm, Tallied
<1>2. Covered
  <2>1. \A c \in Card : tally[c].starts = 0 /\ tally[c].passed = {} /\ Free(c) \in {0, 1}
                         /\ tally[c].fails = 0 /\ tally[c].again = 0
      BY DEF OutInit, Free
  <2> QED
      BY <2>1, FS_EmptySet DEF Covered, Covers
<1>3. OneSubmit
    BY DEF OutInit, OneSubmit, SubmitCalls, OutCall
<1>4. SentIsGone
    BY OutboxAssumption DEF OutInit, SentIsGone
<1> QED
    BY <1>1, <1>2, <1>3, <1>4 DEF StartInv, SubmitInv

\* What becomes of a campaign's tally leaves it one ...
LEMMA TallyTyped ==
    ASSUME NEW t, Tallied(t), NEW x
    PROVE  /\ \A n \in {0, 1} : Tallied([t EXCEPT !.passed = @ \cup {x}, !.again = @ + n])
           /\ Tallied([t EXCEPT !.starts = @ + 1, !.passed = @ \ {x}])
           /\ Tallied([t EXCEPT !.passed = @ \ {x}])
           /\ Tallied([t EXCEPT !.fails = @ + 1])
<1>1. IsFiniteSet(t.passed \cup {x}) /\ IsFiniteSet(t.passed \ {x})
    BY FS_AddElement, FS_RemoveElement DEF Tallied
<1>2. ASSUME NEW n \in {0, 1} PROVE Tallied([t EXCEPT !.passed = @ \cup {x}, !.again = @ + n])
  <2> DEFINE u == [t EXCEPT !.passed = @ \cup {x}, !.again = @ + n]
  <2>1. u = [f \in {"starts", "fails", "again", "passed"} |->
               IF f = "passed" THEN t.passed \cup {x}
               ELSE IF f = "again" THEN t.again + n ELSE t[f]]
      BY DEF Tallied
  <2>2. /\ u.starts = t.starts /\ u.fails = t.fails
        /\ u.again = t.again + n /\ u.passed = t.passed \cup {x}
      BY <2>1
  <2> HIDE DEF u
  <2>3. Tallied(u)
      BY <1>1, <2>1, <2>2 DEF Tallied
  <2> QED
      BY <2>3 DEF u
<1>3. Tallied([t EXCEPT !.starts = @ + 1, !.passed = @ \ {x}])
  <2> DEFINE u == [t EXCEPT !.starts = @ + 1, !.passed = @ \ {x}]
  <2>1. u = [f \in {"starts", "fails", "again", "passed"} |->
               IF f = "passed" THEN t.passed \ {x}
               ELSE IF f = "starts" THEN t.starts + 1 ELSE t[f]]
      BY DEF Tallied
  <2>2. /\ u.starts = t.starts + 1 /\ u.fails = t.fails
        /\ u.again = t.again /\ u.passed = t.passed \ {x}
      BY <2>1
  <2> HIDE DEF u
  <2>3. Tallied(u)
      BY <1>1, <2>1, <2>2 DEF Tallied
  <2> QED
      BY <2>3 DEF u
<1>4. Tallied([t EXCEPT !.passed = @ \ {x}]) /\ Tallied([t EXCEPT !.fails = @ + 1])
    BY <1>1 DEF Tallied
<1> QED
    BY <1>2, <1>3, <1>4

\* ... with a reason for each start: when a request passes, commits or is
\* dropped, and when the campaign fails.
LEMMA PassCovered ==
    ASSUME NEW t, Tallied(t), NEW x, x \notin t.passed, NEW f \in {0, 1}, NEW g \in {0, 1},
           Covers(t, f), NEW n \in {0, 1}, n = 0 => f = 1 /\ t.passed = {}
    PROVE  Covers([t EXCEPT !.passed = @ \cup {x}, !.again = @ + n], g)
<1> DEFINE u == [t EXCEPT !.passed = @ \cup {x}, !.again = @ + n]
<1>1. /\ u.starts = t.starts /\ u.fails = t.fails /\ u.again = t.again + n
      /\ u.passed = t.passed \cup {x} /\ u.passed # {}
    BY DEF Tallied
<1>2. /\ Cardinality(t.passed \cup {x}) = Cardinality(t.passed) + 1
      /\ Cardinality(t.passed) \in Nat
    BY FS_AddElement, FS_CardinalityType DEF Tallied
<1> HIDE DEF u
<1>3. Covers(u, g)
    BY <1>1, <1>2 DEF Covers, Tallied
<1> QED
    BY <1>3 DEF u
LEMMA StartCovered ==
    ASSUME NEW t, Tallied(t), NEW x, x \in t.passed, NEW f \in {0, 1}, Covers(t, f)
    PROVE  Covers([t EXCEPT !.starts = @ + 1, !.passed = @ \ {x}], 0)
<1> DEFINE u == [t EXCEPT !.starts = @ + 1, !.passed = @ \ {x}]
<1>1. /\ u.starts = t.starts + 1 /\ u.fails = t.fails /\ u.again = t.again
      /\ u.passed = t.passed \ {x} /\ t.passed # {}
    BY DEF Tallied
<1>2. /\ Cardinality(t.passed \ {x}) = Cardinality(t.passed) - 1
      /\ Cardinality(t.passed) \in Nat
    BY FS_RemoveElement, FS_CardinalityType DEF Tallied
<1> HIDE DEF u
<1>3. Covers(u, 0)
    BY <1>1, <1>2 DEF Covers, Tallied
<1> QED
    BY <1>3 DEF u
LEMMA DropCovered ==
    ASSUME NEW t, Tallied(t), NEW x, NEW f \in {0, 1}, NEW g \in {0, 1}, Covers(t, f),
           x \in t.passed \/ g <= f
    PROVE  Covers([t EXCEPT !.passed = @ \ {x}], g)
<1> DEFINE u == [t EXCEPT !.passed = @ \ {x}]
<1>1. /\ u.starts = t.starts /\ u.fails = t.fails /\ u.again = t.again
      /\ u.passed = t.passed \ {x}
    BY DEF Tallied
<1>2. /\ x \in t.passed => Cardinality(t.passed \ {x}) = Cardinality(t.passed) - 1
      /\ x \notin t.passed => t.passed \ {x} = t.passed
      /\ Cardinality(t.passed) \in Nat
    BY FS_RemoveElement, FS_CardinalityType DEF Tallied
<1> HIDE DEF u
<1>3. CASE x \in t.passed
  <2>1. Covers(u, g)
      BY <1>1, <1>2, <1>3 DEF Covers, Tallied
  <2> QED
      BY <2>1 DEF u
<1>4. CASE x \notin t.passed
  <2>1. Covers(t, g)
      BY <1>2, <1>4 DEF Covers, Tallied
  <2>2. Covers(u, g)
      BY <1>1, <1>2, <1>4, <2>1 DEF Covers
  <2> QED
      BY <2>2 DEF u
<1> QED
    BY <1>3, <1>4
LEMMA FailCovered ==
    ASSUME NEW t, Tallied(t), NEW f \in {0, 1}, NEW g \in {0, 1}, Covers(t, f)
    PROVE  Covers([t EXCEPT !.fails = @ + 1], g)
<1> DEFINE u == [t EXCEPT !.fails = @ + 1]
<1>1. /\ u.starts = t.starts /\ u.fails = t.fails + 1 /\ u.again = t.again
      /\ u.passed = t.passed /\ Cardinality(t.passed) \in Nat
    BY FS_CardinalityType DEF Tallied
<1> HIDE DEF u
<1>2. Covers(u, g)
    BY <1>1 DEF Covers, Tallied
<1> QED
    BY <1>2 DEF u

LEMMA QuickTyped ==
    ASSUME NEW q \in QuickForm
    PROVE  /\ q.composed \in Nat
           /\ [q EXCEPT !.open = ~q.open] \in QuickForm
           /\ [q EXCEPT !.filled = TRUE, !.composed = @ + 1] \in QuickForm
           /\ [q EXCEPT !.loading = TRUE] \in QuickForm
           /\ [q EXCEPT !.loading = FALSE] \in QuickForm
           /\ [q EXCEPT !.loading = FALSE, !.open = FALSE, !.filled = FALSE] \in QuickForm
<1>1. q.composed \in Nat /\ q.composed + 1 \in Nat
    BY DEF QuickForm
<1>2. [q EXCEPT !.filled = TRUE, !.composed = @ + 1] \in QuickForm
    BY Zenon, <1>1 DEF QuickForm
<1> QED
    BY Zenon, <1>1, <1>2 DEF QuickForm

LEMMA FreeTyped == \A c : Free(c) \in {0, 1} /\ Free(c)' \in {0, 1}
    BY DEF Free
\* Less to spare is covered all the more.
LEMMA LessCovered ==
    ASSUME NEW t, Tallied(t), NEW f \in {0, 1}, NEW g \in {0, 1}, Covers(t, f), g <= f
    PROVE  Covers(t, g)
    BY FS_CardinalityType DEF Covers, Tallied
TallyInv ==
    /\ tally = [c \in Card |-> tally[c]] /\ \A c \in Card : Tallied(tally[c])
    /\ Covered

\* A step that changes one campaign's tally, and one that changes none.
LEMMA OneTallied ==
    ASSUME StartInv, NEW c \in Card, NEW t, tally' = [tally EXCEPT ![c] = t], Tallied(t),
           Covers(t, Free(c)'), \A d \in Card \ {c} : Free(d)' <= Free(d)
    PROVE  TallyInv'
<1>1. tally'[c] = t /\ \A d \in Card \ {c} : tally'[d] = tally[d]
    BY DEF StartInv, OutTypeOK
<1>2. tally' = [d \in Card |-> tally'[d]] /\ \A d \in Card : Tallied(tally'[d])
    BY <1>1 DEF StartInv, OutTypeOK
<1>3. ASSUME NEW d \in Card PROVE Covers(tally'[d], Free(d)')
  <2>1. CASE d = c
      BY <1>1, <2>1
  <2>2. CASE d # c
      BY <1>1, <2>2, FreeTyped, LessCovered DEF StartInv, OutTypeOK, Covered
  <2> QED
      BY <2>1, <2>2
<1> QED
    BY <1>2, <1>3 DEF TallyInv, Covered
LEMMA NoneTallied ==
    ASSUME StartInv, UNCHANGED tally, \A d \in Card : Free(d)' <= Free(d)
    PROVE  TallyInv'
<1>1. ASSUME NEW d \in Card PROVE Covers(tally[d], Free(d)')
    BY FreeTyped, LessCovered DEF StartInv, OutTypeOK, Covered
<1> QED
    BY <1>1 DEF StartInv, OutTypeOK, TallyInv, Covered

\* A request that passes, commits or is dropped, and a campaign that moves.
LEMMA PassKeeps ==
    ASSUME StartInv, NEW x, Passes(x), UNCHANGED <<board, made>>
    PROVE  TallyInv'
<1> DEFINE c == x.card
           n == IF board[c] = "delivering" \/ tally[c].passed # {} THEN 1 ELSE 0
           t == [tally[c] EXCEPT !.passed = @ \cup {x}, !.again = @ + n]
<1>1. c \in Card /\ MayStart(c) /\ x \notin tally[c].passed /\ n \in {0, 1}
    BY DEF Passes, MayStart, StartInv, OutTypeOK
<1>2. Tallied(tally[c]) /\ Covers(tally[c], Free(c))
    BY <1>1 DEF StartInv, OutTypeOK, Covered
<1>3. tally' = [tally EXCEPT ![c] = t]
    BY <1>1, <1>2 DEF Passes, Tallied
<1>4. n = 0 => Free(c) = 1 /\ tally[c].passed = {}
    BY <1>1 DEF Free, IsFree
<1> HIDE DEF n
<1>5. Tallied(t) /\ Covers(t, Free(c)')
    BY <1>1, <1>2, <1>4, TallyTyped, FreeTyped, PassCovered
<1>6. \A d \in Card : Free(d)' <= Free(d)
    BY DEF Free, IsFree, MayStart
<1> HIDE DEF t
<1> QED
    BY <1>1, <1>3, <1>5, <1>6, OneTallied
LEMMA StartKeeps ==
    ASSUME StartInv, NEW x, Started(x), UNCHANGED made
    PROVE  TallyInv' /\ x.card \in Card /\ board' \in [DOMAIN board -> Statuses]
<1> DEFINE c == x.card
           t == [tally[c] EXCEPT !.starts = @ + 1, !.passed = @ \ {x}]
<1>1. c \in Card /\ c \in DOMAIN board /\ x \in tally[c].passed
      /\ board' = [board EXCEPT ![c] = "sending"] /\ board \in [DOMAIN board -> Statuses]
    BY DEF Started, StartInv, OutTypeOK
<1>2. Tallied(tally[c]) /\ Covers(tally[c], Free(c))
    BY <1>1 DEF StartInv, OutTypeOK, Covered
<1>3. tally' = [tally EXCEPT ![c] = t]
    BY <1>1, <1>2 DEF Started, Tallied
<1>4. Tallied(t) /\ Covers(t, 0)
    BY <1>1, <1>2, TallyTyped, FreeTyped, StartCovered
<1>5. Free(c)' = 0 /\ \A d \in Card \ {c} : Free(d)' <= Free(d)
    BY <1>1 DEF Free, IsFree, MayStart, StartInv, OutTypeOK
<1> HIDE DEF t
<1>6. Covers(t, Free(c)')
    BY <1>4, <1>5
<1>7. "sending" \in Statuses
    BY DEF Statuses
<1> QED
    BY <1>1, <1>3, <1>4, <1>5, <1>6, <1>7, OneTallied
LEMMA DropKeeps ==
    ASSUME StartInv, NEW x, x.card \in Card, Dropped(x), UNCHANGED made,
           \A d \in Card : d # x.card \/ x \notin tally[d].passed => Free(d)' <= Free(d)
    PROVE  TallyInv'
<1> DEFINE c == x.card
           t == [tally[c] EXCEPT !.passed = @ \ {x}]
<1>1. Tallied(tally[c]) /\ Covers(tally[c], Free(c))
    BY DEF StartInv, OutTypeOK, Covered
<1>2. tally' = [tally EXCEPT ![c] = t]
    BY <1>1 DEF Dropped, Tallied
<1>3. Tallied(t) /\ Covers(t, Free(c)')
    BY <1>1, TallyTyped, FreeTyped, DropCovered
<1> HIDE DEF t
<1> QED
    BY <1>2, <1>3, OneTallied
LEMMA RefusedKeeps ==
    ASSUME StartInv, NEW x, Refused(x), UNCHANGED made
    PROVE  TallyInv'
<1>1. \A d \in Card : Free(d)' <= Free(d)
    BY DEF Refused, Free, IsFree, MayStart
<1>2. CASE x.card \in Card
    BY <1>1, <1>2, DropKeeps DEF Refused
<1>3. CASE x.card \notin Card
  <2>1. UNCHANGED tally
      BY <1>3 DEF Refused, Dropped, StartInv, OutTypeOK
  <2> QED
      BY <1>1, <2>1, NoneTallied
<1> QED
    BY <1>2, <1>3
LEMMA ScheduledKeeps ==
    ASSUME StartInv, NEW x, Scheduled(x), UNCHANGED made
    PROVE  TallyInv' /\ board' \in [DOMAIN board -> Statuses]
<1>1. /\ x.card \in Card /\ x.card \in DOMAIN board /\ x \in tally[x.card].passed
      /\ board' = [board EXCEPT ![x.card] = "scheduled"] /\ Dropped(x)
      /\ board \in [DOMAIN board -> Statuses]
    BY DEF Scheduled, StartInv, OutTypeOK
<1>2. \A d \in Card : d # x.card => Free(d)' <= Free(d)
    BY <1>1 DEF Free, IsFree, MayStart, StartInv, OutTypeOK
<1>3. "scheduled" \in Statuses
    BY DEF Statuses
<1> QED
    BY <1>1, <1>2, <1>3, DropKeeps
LEMMA MoveKeeps ==
    ASSUME StartInv, NEW c \in Card, CampaignMoves(c)
    PROVE  TallyInv' /\ board' \in [DOMAIN board -> Statuses]
<1>1. c \in DOMAIN board /\ UNCHANGED made /\ board \in [DOMAIN board -> Statuses]
    BY DEF CampaignMoves, StartInv, OutTypeOK
<1>2. ASSUME NEW s \in {"sending", "delivering", "completed"},
             board' = [board EXCEPT ![c] = s], UNCHANGED tally
      PROVE  TallyInv' /\ board' \in [DOMAIN board -> Statuses]
  <2>1. \A d \in Card : Free(d)' <= Free(d)
      BY <1>1, <1>2 DEF Free, IsFree, MayStart
  <2>2. s \in Statuses
      BY <1>2 DEF Statuses
  <2> QED
      BY <1>1, <1>2, <2>1, <2>2, NoneTallied
<1>3. ASSUME board' = [board EXCEPT ![c] = "failed"], tally' = [tally EXCEPT ![c].fails = @ + 1]
      PROVE  TallyInv' /\ board' \in [DOMAIN board -> Statuses]
  <2> DEFINE t == [tally[c] EXCEPT !.fails = @ + 1]
  <2>1. Tallied(tally[c]) /\ Covers(tally[c], Free(c))
      BY DEF StartInv, OutTypeOK, Covered
  <2>2. tally' = [tally EXCEPT ![c] = t]
      BY <1>3, <2>1 DEF Tallied
  <2>3. Tallied(t) /\ Covers(t, Free(c)')
      BY <2>1, TallyTyped, FreeTyped, FailCovered
  <2>4. \A d \in Card \ {c} : Free(d)' <= Free(d)
      BY <1>1, <1>3 DEF Free, IsFree, MayStart
  <2>5. "failed" \in Statuses
      BY DEF Statuses
  <2> HIDE DEF t
  <2> QED
      BY <1>1, <1>3, <2>2, <2>3, <2>4, <2>5, OneTallied
<1> QED
    BY <1>2, <1>3 DEF CampaignMoves

\* What leaves the campaigns and the tallies alone keeps what was shown of them.
LEMMA StartKept ==
    ASSUME StartInv, UNCHANGED <<board, made, tally>>
    PROVE  TallyInv'
    BY NoneTallied DEF Free, IsFree, MayStart

LEMMA TalliesKept == StartInv /\ [OutNext]_outVars => TallyInv'
<1> SUFFICES ASSUME StartInv, [OutNext]_outVars PROVE TallyInv'
    OBVIOUS
<1>1. CASE UNCHANGED <<board, made, tally>>
    BY <1>1, StartKept
<1>2. ASSUME NEW x, BroadcastPasses(x) PROVE TallyInv'
    BY <1>2, PassKeeps DEF BroadcastPasses
<1>3. ASSUME NEW x \in Answered("broadcast"), CardBroadcast(x) PROVE TallyInv'
    BY <1>3, StartKeeps, ScheduledKeeps, RefusedKeeps DEF CardBroadcast
<1>4. ASSUME NEW x \in Answered("transmit"), QuickBroadcast(x) PROVE TallyInv'
    BY <1>4, StartKeeps, RefusedKeeps DEF QuickBroadcast
<1>5. ASSUME NEW x \in Answered("delete"), CardDeleted(x) PROVE TallyInv'
  <2>1. \A d \in Card : Free(d)' <= Free(d)
      BY <1>5 DEF CardDeleted, Free, IsFree, MayStart
  <2> QED
      BY <1>5, <2>1, NoneTallied DEF CardDeleted
<1>6. ASSUME NEW x \in Answered("create"), QuickCreated(x) PROVE TallyInv'
  <2>1. ASSUME NEW d \in Card PROVE Free(d)' <= Free(d)
    <3>1. d \in made => (IsFree(d)' <=> IsFree(d))
      <4>1. CASE UNCHANGED <<board, made>>
          BY <4>1 DEF IsFree, MayStart
      <4>2. CASE ~UNCHANGED <<board, made>>
        <5>1. PICK c \in Card \ made :
                /\ board' = [e \in DOMAIN board \cup {c} |-> IF e = c THEN "draft" ELSE board[e]]
                /\ made' = made \cup {c}
            BY <1>6, <4>2, made # Card => Card \ made # {} DEF QuickCreated, StartInv, OutTypeOK
        <5> QED
            BY <5>1 DEF IsFree, MayStart
      <4> QED
          BY <4>1, <4>2
    <3>2. d \notin made => Free(d) = 1
        BY DEF Free, IsFree
    <3> QED
        BY <3>1, <3>2, FreeTyped DEF Free
  <2> QED
      BY <1>6, <2>1, NoneTallied DEF QuickCreated
<1>7. ASSUME NEW c \in Card, CampaignMoves(c) PROVE TallyInv'
    BY <1>7, MoveKeeps
<1>8. ASSUME NEW c \in Card, SchedulerSelects(c) PROVE TallyInv'
    BY <1>8, PassKeeps DEF SchedulerSelects
<1>9. ASSUME NEW c \in Card, SchedulerStarts(c) PROVE TallyInv'
  <2>1. Scheduling(c).card = c
      BY DEF Scheduling, OutCall
  <2> QED
      BY <1>9, <2>1, StartKeeps, RefusedKeeps DEF SchedulerStarts
<1>10. ASSUME OutNext PROVE TallyInv'
  <2>1. CASE AutoRefresh \/ ConfirmCheckout \/ HandleDeleteCampaign
               \/ ToggleQuickSend \/ Compose \/ HandleTransmit
      BY <1>1, <2>1 DEF AutoRefresh, ConfirmCheckout, HandleDeleteCampaign, ToggleQuickSend,
                        Compose, HandleTransmit, Asking
  <2>2. CASE \/ \E x \in Answered("list") : CardsRead(x)
             \/ \E x \in Answered("retry") : CardRetried(x)
             \/ \E c \in Card : HandleBatchRetry(c) \/ HandleBroadcast(c) \/ AskDelete(c)
      BY <1>1, <2>2 DEF CardsRead, CardRetried, HandleBatchRetry, HandleBroadcast, AskDelete,
                        Asking
  <2> QED
      BY <1>2, <1>3, <1>4, <1>5, <1>6, <1>7, <1>8, <1>9, <1>10, <2>1, <2>2 DEF OutNext
<1> QED
    BY <1>1, <1>10 DEF outVars

LEMMA OutTypeKept == StartInv /\ [OutNext]_outVars => OutTypeOK'
<1> SUFFICES ASSUME StartInv, [OutNext]_outVars PROVE OutTypeOK'
    OBVIOUS
<1> DEFINE Goal ==
      /\ board \in [DOMAIN board -> Statuses]
      /\ DOMAIN board \subseteq made /\ made \subseteq Card
      /\ quick \in QuickForm
      /\ sentFor \in [1..MaxSubmits -> SUBSET Card]
<1>0. Goal /\ TallyInv'
    BY TalliesKept DEF StartInv, OutTypeOK
<1> SUFFICES Goal'
    BY <1>0 DEF TallyInv, OutTypeOK
<1>1. CASE AutoRefresh
    BY <1>0, <1>1 DEF AutoRefresh
<1>2. CASE ConfirmCheckout
    BY <1>0, <1>2 DEF ConfirmCheckout, Asking
<1>3. CASE HandleDeleteCampaign
    BY <1>0, <1>3 DEF HandleDeleteCampaign, Asking
<1>4. CASE ToggleQuickSend
    BY <1>0, <1>4, QuickTyped DEF ToggleQuickSend
<1>5. CASE Compose
    BY <1>0, <1>5, QuickTyped DEF Compose
<1>6. CASE HandleTransmit
    BY <1>0, <1>6, QuickTyped DEF HandleTransmit
<1>7. ASSUME NEW x \in Answered("list"), CardsRead(x) PROVE Goal'
    BY <1>0, <1>7 DEF CardsRead
<1>8. ASSUME NEW x \in Answered("broadcast"), CardBroadcast(x) PROVE Goal'
    BY <1>0, <1>8, StartKeeps, ScheduledKeeps DEF CardBroadcast, Refused
<1>9. ASSUME NEW x \in Answered("retry"), CardRetried(x) PROVE Goal'
    BY <1>0, <1>9 DEF CardRetried
<1>10. ASSUME NEW x \in Answered("delete"), CardDeleted(x) PROVE Goal'
    BY <1>0, <1>10 DEF CardDeleted
<1>11. ASSUME NEW x \in Answered("create"), QuickCreated(x) PROVE Goal'
  <2>1. quick' \in QuickForm /\ UNCHANGED sentFor
      BY <1>0, <1>11, QuickTyped DEF QuickCreated, TransmitFails
  <2>2. /\ board' \in [DOMAIN board' -> Statuses]
        /\ DOMAIN board' \subseteq made' /\ made' \subseteq Card
      BY <1>0, <1>11 DEF QuickCreated, Statuses
  <2> QED
      BY <1>0, <2>1, <2>2
<1>12. ASSUME NEW x \in Answered("transmit"), QuickBroadcast(x) PROVE Goal'
  <2>1. quick' \in QuickForm /\ UNCHANGED made
      BY <1>0, <1>12, QuickTyped DEF QuickBroadcast, TransmitFails
  <2>2. CASE Started(x)
    <3>1. x.card \in Card /\ board' \in [DOMAIN board -> Statuses]
        BY <2>1, <2>2, StartKeeps
    <3>2. sentFor' \in [1..MaxSubmits -> SUBSET Card]
        BY <1>0, <1>12, <3>1 DEF QuickBroadcast
    <3> QED
        BY <1>0, <2>1, <3>1, <3>2
  <2>3. CASE Refused(x) /\ UNCHANGED sentFor
      BY <1>0, <2>1, <2>3 DEF Refused
  <2> QED
      BY <1>12, <2>2, <2>3 DEF QuickBroadcast
<1>13. ASSUME NEW c \in Card, HandleBatchRetry(c) PROVE Goal'
    BY <1>0, <1>13 DEF HandleBatchRetry, Asking
<1>14. ASSUME NEW c \in Card, HandleBroadcast(c) PROVE Goal'
    BY <1>0, <1>14 DEF HandleBroadcast
<1>15. ASSUME NEW c \in Card, AskDelete(c) PROVE Goal'
    BY <1>0, <1>15 DEF AskDelete
<1>16. ASSUME NEW c \in Card, CampaignMoves(c) PROVE Goal'
    BY <1>0, <1>16, MoveKeeps DEF CampaignMoves
<1>17. ASSUME NEW c \in Card, SchedulerStarts(c) PROVE Goal'
    BY <1>0, <1>17, StartKeeps DEF SchedulerStarts, Refused
<1>18. ASSUME NEW c \in Card, SchedulerSelects(c) PROVE Goal'
    BY <1>0, <1>18 DEF SchedulerSelects
<1>19. ASSUME NEW x, BroadcastPasses(x) PROVE Goal'
    BY <1>0, <1>19 DEF BroadcastPasses
<1>20. CASE UNCHANGED outVars
    BY <1>0, <1>20 DEF outVars
<1> QED
    BY <1>1, <1>2, <1>3, <1>4, <1>5, <1>6, <1>7, <1>8, <1>9, <1>10, <1>11, <1>12, <1>13,
       <1>14, <1>15, <1>16, <1>17, <1>18, <1>19, <1>20 DEF OutNext

-----------------------------------------------------------------------------
\* What adds no call of a submit, and leaves the form's submit and what was
\* sent alone, keeps both.
LEMMA SubmitKept ==
    ASSUME SubmitInv, SubmitCalls' \subseteq SubmitCalls, UNCHANGED <<sentFor, unsure>>,
           quick'.loading = quick.loading, quick'.filled = quick.filled,
           quick'.composed = quick.composed
    PROVE  OneSubmit' /\ SentIsGone'
    BY DEF SubmitInv, OneSubmit, SentIsGone

LEMMA SubmitsKept == SubmitInv /\ [OutNext]_outVars => OneSubmit' /\ SentIsGone'
<1> SUFFICES ASSUME SubmitInv, [OutNext]_outVars PROVE OneSubmit' /\ SentIsGone'
    OBVIOUS
<1> DEFINE Goal == OneSubmit /\ SentIsGone
<1>1. CASE UNCHANGED quick /\ UNCHANGED <<sentFor, unsure>> /\ SubmitCalls' \subseteq SubmitCalls
    BY <1>1, SubmitKept
<1>2. CASE ToggleQuickSend
  <2>1. /\ quick'.loading = quick.loading /\ quick'.filled = quick.filled
        /\ quick'.composed = quick.composed
      BY <1>2 DEF ToggleQuickSend, SubmitInv, OutTypeOK, QuickForm
  <2> QED
      BY <1>2, <2>1, SubmitKept DEF ToggleQuickSend, SubmitCalls
<1>3. CASE Compose
  <2>1. /\ quick'.filled /\ quick'.composed = quick.composed + 1
        /\ quick.composed \in Nat /\ quick.composed < MaxSubmits /\ ~quick.filled
        /\ UNCHANGED <<outCalls, sentFor, unsure>>
      BY <1>3 DEF Compose, SubmitInv, OutTypeOK, QuickForm
  <2>2. SubmitCalls = {} /\ SubmitCalls' = {}
      BY <2>1 DEF SubmitInv, OneSubmit, SubmitCalls
  <2>3. SentIsGone'
      BY <2>1, OutboxAssumption DEF SubmitInv, SentIsGone
  <2> QED
      BY <2>2, <2>3 DEF OneSubmit
<1>4. CASE HandleTransmit
  <2>1. /\ quick.filled /\ ~quick.loading
        /\ quick'.loading /\ quick'.filled /\ quick'.composed = quick.composed
        /\ outCalls' = outCalls \cup {OutCall("create", Nothing, quick.composed)}
        /\ UNCHANGED <<sentFor, unsure>>
      BY <1>4 DEF HandleTransmit, TransmitOffered, SubmitInv, OutTypeOK, QuickForm
  <2>2. SubmitCalls' = {OutCall("create", Nothing, quick.composed)}
      BY <2>1 DEF SubmitInv, OneSubmit, SubmitCalls, OutCall
  <2>3. OneSubmit'
      BY <2>1, <2>2 DEF OneSubmit, OutCall
  <2> QED
      BY <2>1, <2>3 DEF SubmitInv, SentIsGone
<1>5. ASSUME NEW x \in Answered("create"), QuickCreated(x) PROVE Goal'
  <2>1. /\ SubmitCalls = {x} /\ x.msg = quick.composed /\ quick.loading /\ quick.filled
        /\ UNCHANGED <<sentFor, unsure>>
      BY <1>5 DEF Answered, SubmitCalls, SubmitInv, OneSubmit, QuickCreated
  <2>2. CASE UNCHANGED quick
    <3>1. PICK c : outCalls' = (outCalls \ {x}) \cup {OutCall("transmit", c, x.msg)}
                     \/ outCalls' = outCalls \ {x}
        BY <1>5 DEF QuickCreated
    <3>2. SubmitCalls' \subseteq {OutCall("transmit", c, x.msg)}
        BY <2>1, <3>1 DEF SubmitCalls
    <3>3. OneSubmit'
        BY <2>1, <2>2, <3>2 DEF OneSubmit, OutCall
    <3> QED
        BY <2>1, <2>2, <3>3 DEF SubmitInv, SentIsGone
  <2>3. CASE outCalls' = outCalls \ {x} /\ TransmitFails
    <3>1. SubmitCalls' = {}
        BY <2>1, <2>3 DEF SubmitCalls
    <3>2. quick'.filled = quick.filled /\ quick'.composed = quick.composed
        BY <2>3 DEF TransmitFails, SubmitInv, OutTypeOK, QuickForm
    <3> QED
        BY <2>1, <3>1, <3>2 DEF OneSubmit, SubmitInv, SentIsGone
  <2> QED
      BY <1>5, <2>2, <2>3 DEF QuickCreated
<1>6. ASSUME NEW x \in Answered("transmit"), QuickBroadcast(x) PROVE Goal'
  <2>1. /\ SubmitCalls = {x} /\ x.msg = quick.composed /\ quick.filled
        /\ quick.composed \in 1..MaxSubmits /\ outCalls' = outCalls \ {x}
      BY <1>6 DEF Answered, SubmitCalls, SubmitInv, OneSubmit, QuickBroadcast, SentIsGone
  <2>2. SubmitCalls' = {}
      BY <2>1 DEF SubmitCalls
  <2>3. OneSubmit'
      BY <2>2 DEF OneSubmit
  <2>4. quick'.composed = quick.composed
      BY <1>6 DEF QuickBroadcast, TransmitFails, SubmitInv, OutTypeOK, QuickForm
  <2>5. CASE UNCHANGED <<sentFor, unsure>> /\ TransmitFails
    <3>1. quick'.filled = quick.filled
        BY <2>5 DEF TransmitFails, SubmitInv, OutTypeOK, QuickForm
    <3> QED
        BY <2>3, <2>4, <2>5, <3>1 DEF SubmitInv, SentIsGone
  <2>6. CASE /\ x.card \in DOMAIN board
             /\ sentFor' = [sentFor EXCEPT ![x.msg] = @ \cup {x.card}]
             /\ \/ ~quick'.filled /\ UNCHANGED unsure
                \/ quick'.filled = quick.filled /\ unsure' = unsure \cup {x.msg}
    <3>1. x.card \in Card
        BY <2>6 DEF SubmitInv, OutTypeOK
    <3>2. \A m \in (1..MaxSubmits) \ {x.msg} :
            sentFor'[m] = sentFor[m] /\ (m \in unsure' <=> m \in unsure)
        BY <2>1, <2>6 DEF SubmitInv, OutTypeOK
    <3>3. x.msg \notin unsure' =>
            ~quick'.filled /\ x.msg \notin unsure /\ sentFor'[x.msg] = {x.card}
        BY <2>1, <2>6 DEF SubmitInv, OutTypeOK, SentIsGone
    <3>4. SentIsGone'
        BY <2>1, <2>4, <2>6, <3>1, <3>2, <3>3 DEF SubmitInv, SentIsGone
    <3> QED
        BY <2>3, <3>4
  <2>7. /\ TransmitFails => quick'.filled = quick.filled
        /\ quick' = [quick EXCEPT !.loading = FALSE, !.open = FALSE, !.filled = FALSE]
             => ~quick'.filled
      BY DEF TransmitFails, SubmitInv, OutTypeOK, QuickForm
  <2> QED
      BY <1>6, <2>5, <2>6, <2>7 DEF QuickBroadcast, Started
<1>7. ASSUME OutNext PROVE Goal'
  <2>1. CASE AutoRefresh \/ ConfirmCheckout \/ HandleDeleteCampaign
    <3>1. UNCHANGED <<quick, sentFor, unsure>>
        BY <2>1 DEF AutoRefresh, ConfirmCheckout, HandleDeleteCampaign, Asking
    <3>2. SubmitCalls' \subseteq SubmitCalls
        BY <2>1 DEF AutoRefresh, ConfirmCheckout, HandleDeleteCampaign, Asking, SubmitCalls,
                    OutCall, FetchCampaigns
    <3> QED
        BY <1>1, <3>1, <3>2
  <2>2. CASE \/ \E x \in Answered("list") : CardsRead(x)
             \/ \E x \in Answered("retry") : CardRetried(x)
             \/ \E x \in Answered("broadcast") : CardBroadcast(x)
             \/ \E x \in Answered("delete") : CardDeleted(x)
    <3>1. UNCHANGED <<quick, sentFor, unsure>>
        BY <2>2 DEF CardsRead, CardRetried, CardBroadcast, CardDeleted
    <3>2. outCalls' \subseteq outCalls \cup {FetchCampaigns}
        BY <2>2 DEF CardsRead, CardRetried, CardBroadcast, CardDeleted
    <3>3. SubmitCalls' \subseteq SubmitCalls
        BY <3>2 DEF SubmitCalls, OutCall, FetchCampaigns
    <3> QED
        BY <1>1, <3>1, <3>3
  <2>3. CASE \E c \in Card : \/ HandleBatchRetry(c) \/ HandleBroadcast(c) \/ AskDelete(c)
                           \/ CampaignMoves(c) \/ SchedulerSelects(c) \/ SchedulerStarts(c)
    <3>1. UNCHANGED <<quick, sentFor, unsure>>
        BY <2>3 DEF HandleBatchRetry, HandleBroadcast, AskDelete, CampaignMoves,
                    SchedulerSelects, SchedulerStarts, Asking
    <3>2. SubmitCalls' \subseteq SubmitCalls
        BY <2>3 DEF HandleBatchRetry, HandleBroadcast, AskDelete, CampaignMoves,
                    SchedulerSelects, SchedulerStarts, Asking, SubmitCalls, OutCall
    <3> QED
        BY <1>1, <3>1, <3>2
  <2>4. CASE \E x : BroadcastPasses(x)
      BY <1>1, <2>4 DEF BroadcastPasses, SubmitCalls
  <2> QED
      BY <1>2, <1>3, <1>4, <1>5, <1>6, <1>7, <2>1, <2>2, <2>3, <2>4 DEF OutNext
<1>8. CASE UNCHANGED outVars
    BY <1>1, <1>8 DEF outVars, SubmitCalls
<1> QED
    BY <1>7, <1>8

-----------------------------------------------------------------------------
LEMMA OutAlways == OutSpec => [](StartInv /\ SubmitInv)
<1>1. OutInit => StartInv /\ SubmitInv
    BY OutStarts
<1>2. StartInv /\ SubmitInv /\ [OutNext]_outVars => (StartInv /\ SubmitInv)'
    BY OutTypeKept, TalliesKept, SubmitsKept DEF StartInv, SubmitInv, TallyInv
<1> QED
    BY <1>1, <1>2, PTL DEF OutSpec

(* A campaign is started once, once more each time that it failed, and once *)
(* more for each request that passed while it was DELIVERING or beside      *)
(* another that had passed, for any cards, whatever they show and however   *)
(* late the answers are (CampaignsPage.js, and the service's broadcast).    *)
THEOREM StartedCorrect == OutSpec => []StartedOncePerFailure
<1>1. StartInv => StartedOncePerFailure
  <2> SUFFICES ASSUME StartInv, NEW c \in Card
               PROVE  tally[c].starts <= 1 + tally[c].fails + tally[c].again
      BY DEF StartedOncePerFailure
  <2>1. Tallied(tally[c]) /\ Covers(tally[c], Free(c))
      BY DEF StartInv, OutTypeOK, Covered
  <2>2. Cardinality(tally[c].passed) \in Nat
      BY <2>1, FS_CardinalityType DEF Tallied
  <2> QED
      BY <2>1, <2>2, FreeTyped DEF Tallied, Covers
<1> QED
    BY <1>1, OutAlways, PTL

(* A message of the quick-send form is broadcast once, unless the answer of *)
(* a broadcast was lost (QuickSendModal.js).                                *)
THEOREM QuickSentCorrect == OutSpec => []QuickSentOnce
<1>1. SubmitInv => QuickSentOnce
  <2> SUFFICES ASSUME SubmitInv, NEW m \in 1..MaxSubmits, m \notin unsure
               PROVE  ~(Cardinality(sentFor[m]) > 1)
      BY DEF QuickSentOnce
  <2>1. sentFor[m] = {} \/ \E c \in Card : sentFor[m] = {c}
      BY DEF SubmitInv, SentIsGone
  <2>2. Cardinality({}) = 0 /\ \A c : Cardinality({c}) = 1
      BY Zenon, FS_EmptySet, FS_Singleton
  <2>3. Cardinality(sentFor[m]) \in {0, 1}
      BY Zenon, <2>1, <2>2
  <2> QED
      BY <2>3
<1> QED
    BY <1>1, OutAlways, PTL

-----------------------------------------------------------------------------
(* The campaign wizard.                                                     *)

\* Counting each segment's members by themselves counts everyone reached.
LEMMA CountsEveryone ==
    ASSUME NEW C \in SUBSET Person, NEW G \in SUBSET Group, NEW R \in SUBSET Raw
    PROVE  /\ Cardinality(C) \in Nat /\ Cardinality(R) \in Nat
           /\ Cardinality(Memberships(G)) \in Nat
           /\ Cardinality(C \cup R \cup UNION {GroupMembers[g] : g \in G}) \in Nat
           /\ Cardinality(C \cup R \cup UNION {GroupMembers[g] : g \in G})
                <= Cardinality(C) + Cardinality(R) + Cardinality(Memberships(G))
<1> DEFINE U == UNION {GroupMembers[g] : g \in G}
           M == Memberships(G)
           All == UNION {GroupMembers[g] : g \in Group}
<1>1. IsFiniteSet(C) /\ IsFiniteSet(R) /\ IsFiniteSet(G) /\ IsFiniteSet(U) /\ U \subseteq All
  <2>1. U \subseteq All
      OBVIOUS
  <2> QED
      BY <2>1, FS_Subset, WizAssumption
<1>2. IsFiniteSet(M)
  <2>1. M \subseteq G \X All
      BY DEF Memberships
  <2>2. IsFiniteSet(G \X All)
      BY <1>1, FS_Product, WizAssumption
  <2> QED
      BY <2>1, <2>2, FS_Subset
<1>3. Cardinality(U) <= Cardinality(M)
  <2> DEFINE second == [m \in M |-> m[2]]
  <2>1. \A m \in M : m[2] \in U
      BY DEF Memberships
  <2>2. \A u \in U : \E m \in M : m[2] = u
    <3>1. SUFFICES ASSUME NEW u \in U PROVE \E m \in M : m[2] = u
        OBVIOUS
    <3>2. PICK g \in G : u \in GroupMembers[g]
        BY <3>1
    <3>3. <<g, u>> \in M /\ <<g, u>>[2] = u
        BY <3>2 DEF Memberships
    <3> QED
        BY <3>3
  <2>3. second \in Surjection(M, U)
      BY <2>1, <2>2 DEF Surjection
  <2> QED
      BY <2>3, <1>2, FS_Surjection
<1>4. Cardinality((C \cup R) \cup U) <= Cardinality(C) + Cardinality(R) + Cardinality(U)
      /\ Cardinality((C \cup R) \cup U) \in Nat
  <2>1. /\ IsFiniteSet(C \cup R) /\ IsFiniteSet((C \cup R) \cup U)
        /\ Cardinality(C \cup R) = Cardinality(C) + Cardinality(R) - Cardinality(C \cap R)
        /\ Cardinality((C \cup R) \cup U)
             = Cardinality(C \cup R) + Cardinality(U) - Cardinality((C \cup R) \cap U)
      BY <1>1, FS_Union
  <2>2. IsFiniteSet(C \cap R) /\ IsFiniteSet((C \cup R) \cap U)
      BY <1>1, FS_Subset
  <2>3. Cardinality(C \cap R) \in Nat /\ Cardinality((C \cup R) \cap U) \in Nat
      BY <2>2, FS_CardinalityType
  <2>4. /\ Cardinality(C) \in Nat /\ Cardinality(R) \in Nat /\ Cardinality(U) \in Nat
        /\ Cardinality((C \cup R) \cup U) \in Nat
      BY <1>1, <2>1, FS_CardinalityType
  <2> QED
      BY <2>1, <2>3, <2>4
<1>5. /\ Cardinality(C) \in Nat /\ Cardinality(R) \in Nat
      /\ Cardinality(U) \in Nat /\ Cardinality(M) \in Nat
    BY <1>1, <1>2, FS_CardinalityType
<1> QED
    BY <1>3, <1>4, <1>5

LEMMA Multiplied ==
    ASSUME NEW a \in Nat, NEW b \in Nat, NEW c \in Nat, a <= b
    PROVE  a * c <= b * c /\ a * c \in Nat /\ b * c \in Nat
    OBVIOUS

LEMMA PartsCount ==
    ASSUME NEW len \in Nat PROVE Parts(len) \in Nat
    BY DEF Parts

-----------------------------------------------------------------------------
\* What forms, pages, campaigns and calls are made of.
FormFits(f) ==
    /\ {"step", "len", "scheduled", "contacts", "groups", "raw"} \subseteq DOMAIN f
    /\ f.len \in Nat /\ f.contacts \subseteq Person /\ f.groups \subseteq Group
    /\ f.raw \subseteq Raw
PageFields == {"form", "edit", "shown", "segments", "loading", "modal", "checkout"}
PageFits(w) ==
    /\ PageFields \subseteq DOMAIN w
    /\ w.edit \in 0..Len(camps) /\ FormFits(w.form)
SavedCampaign == [size : Nat, len : Nat, status : {"draft", "sending"}, draft : Nat]

\* A save counts whom it reaches, but for the segments it says, and is of the
\* page that waits for it and of its draft; what is broadcast was saved.
SaveFields == {"size", "len", "total", "uncounted", "draft"}
Missing(groups) == Cardinality(Memberships(groups))
SaveFits(c) ==
    /\ SaveFields \subseteq DOMAIN c
    /\ c.size \in Nat /\ c.len \in Nat /\ c.total \in Nat
    /\ c.uncounted \subseteq Group /\ c.size <= c.total + Missing(c.uncounted)
    /\ c.id \in 0..Len(camps) /\ c.draft \in 1..draft
    /\ c.mounted => c.id = wiz.edit /\ c.draft = draft
PostFits(c) ==
    /\ {"op", "id", "mounted"} \subseteq DOMAIN c /\ c.op \in {"save", "broadcast"}
    /\ c.op = "save" => SaveFits(c)
    /\ c.op # "save" => c.id \in 1..Len(camps)
WizTypes ==
    /\ camps \in Seq(SavedCampaign) /\ draft \in Nat \ {0}
    /\ \A i \in 1..Len(camps) : camps[i].draft <= draft
    /\ PageFits(wiz) /\ FormFits(stored)
    /\ \A c \in wizCalls : PostFits(c)

\* The page waits for one call at a time, and not while its checkout is open.
OneAtATime ==
    /\ \A c \in wizCalls : c.mounted => wiz.shown /\ wiz.loading /\ wiz.checkout = NoCheckout
    /\ \A c, d \in wizCalls : c.mounted /\ d.mounted => c = d

\* The campaign in the checkout is as it was counted: nobody else saves it.
Priced(k) ==
    /\ {"id", "total", "uncounted", "len", "read", "balance"} \subseteq DOMAIN k
    /\ k.id \in 1..Len(camps) /\ k.total \in Nat /\ k.len \in Nat
    /\ k.uncounted \subseteq Group
    /\ k.balance \in [payg_org : BOOLEAN, sub : Nat, payg : Nat]
    /\ camps[k.id].draft \in {0, draft}
    /\ wiz.edit = 0 =>
         /\ camps[k.id].len = k.len
         /\ camps[k.id].size <= k.total + Missing(k.uncounted)
         /\ \A c \in SaveCalls : c.id # k.id

\* A campaign is busy once its broadcast was asked for.  Of a draft one is, and
\* of the draft there is only the one the page waits for.
Busy(i) == camps[i].status = "sending" \/ \E c \in BroadcastCalls : c.id = i
OneBusy ==
    /\ \A i, j \in 1..Len(camps) :
         i # j /\ Busy(i) /\ Busy(j) /\ camps[i].draft = camps[j].draft => camps[i].draft = 0
    /\ \A i \in 1..Len(camps) : camps[i].draft = draft => camps[i].status = "draft"
    /\ \A c \in BroadcastCalls : camps[c.id].draft = draft => c.mounted

WizInv ==
    /\ WizTypes /\ OneAtATime
    /\ CheckoutOpen => Priced(wiz.checkout)
    /\ ~doubt => OneBusy

-----------------------------------------------------------------------------
USE DEF PageFields, SaveFields

LEMMA EmptyFits ==
    FormFits(EmptyForm)
<1>1. /\ EmptyForm.len = 0 /\ EmptyForm.contacts = {} /\ EmptyForm.groups = {}
      /\ EmptyForm.raw = {}
      /\ {"step", "len", "scheduled", "contacts", "groups", "raw"} \subseteq DOMAIN EmptyForm
    BY DEF EmptyForm
<1> QED
    BY <1>1 DEF FormFits

LEMMA ClosedIs ==
    /\ ~Closed.shown /\ Closed.edit = 0 /\ Closed.form = EmptyForm
    /\ PageFields \subseteq DOMAIN Closed
    BY DEF Closed

\* A form that is changed is a form.
LEMMA FormFilled ==
    ASSUME NEW f, FormFits(f), NEW g, NEW x,
           \/ g = [f EXCEPT !.step = x]
           \/ g = [f EXCEPT !.len = x] /\ x \in Nat
           \/ g = [f EXCEPT !.scheduled = x]
           \/ g = [f EXCEPT !.contacts = x] /\ x \subseteq Person
           \/ g = [f EXCEPT !.groups = x] /\ x \subseteq Group
           \/ g = [f EXCEPT !.raw = x] /\ x \subseteq Raw
    PROVE  FormFits(g)
<1>1. CASE g = [f EXCEPT !.step = x] \/ g = [f EXCEPT !.scheduled = x]
    BY <1>1, Zenon DEF FormFits
<1>2. CASE g = [f EXCEPT !.len = x] /\ x \in Nat
    BY <1>2, Zenon DEF FormFits
<1>3. CASE g = [f EXCEPT !.contacts = x] /\ x \subseteq Person
    BY <1>3, Zenon DEF FormFits
<1>4. CASE g = [f EXCEPT !.groups = x] /\ x \subseteq Group
    BY <1>4, Zenon DEF FormFits
<1>5. CASE g = [f EXCEPT !.raw = x] /\ x \subseteq Raw
    BY <1>5, Zenon DEF FormFits
<1> QED
    BY <1>1, <1>2, <1>3, <1>4, <1>5

\* Nothing but the form changes.
LEMMA FormOnly ==
    ASSUME WizInv, PageFits(wiz'), FormFits(stored'), wiz'.edit = wiz.edit,
           wiz'.shown = wiz.shown, wiz'.loading = wiz.loading, wiz'.checkout = wiz.checkout,
           UNCHANGED <<camps, wizCalls, draft, doubt>>
    PROVE  WizInv'
<1>1. WizTypes'
  <2>1. PageFits(wiz)'
      BY DEF PageFits
  <2>2. FormFits(stored)'
      BY DEF FormFits
  <2>3. \A c \in wizCalls : PostFits(c)'
      BY DEF WizInv, WizTypes, PostFits, SaveFits
  <2> QED
      BY <2>1, <2>2, <2>3 DEF WizInv, WizTypes
<1>2. OneAtATime'
    BY DEF WizInv, OneAtATime
<1>3. (CheckoutOpen => Priced(wiz.checkout))'
    BY DEF WizInv, CheckoutOpen, Priced, SaveCalls
<1>4. (~doubt => OneBusy)'
    BY DEF WizInv, OneBusy, Busy, BroadcastCalls, SaveCalls
<1> QED
    BY <1>1, <1>2, <1>3, <1>4 DEF WizInv

LEMMA FillsKeeps ==
    ASSUME WizInv, NEW w, Fills(w), PageFits(w), w.edit = wiz.edit,
           w.shown = wiz.shown, w.loading = wiz.loading, w.checkout = wiz.checkout
    PROVE  WizInv'
<1>1. FormFits(stored')
    BY DEF Fills, Kept, PageFits, WizInv, WizTypes
<1> QED
    BY <1>1, FormOnly DEF Fills

LEMMA GoToKeeps ==
    ASSUME WizInv, NEW s, GoTo(s) PROVE WizInv'
<1> DEFINE w == [wiz EXCEPT !.form.step = s, !.segments = IF s = 2 THEN Asked(@) ELSE @]
<1>1. PageFits(wiz)
    BY DEF WizInv, WizTypes
<1>2. PICK v : v = w
    OBVIOUS
<1>3. /\ PageFields \subseteq DOMAIN v
      /\ v.edit = wiz.edit /\ v.shown = wiz.shown /\ v.loading = wiz.loading
      /\ v.checkout = wiz.checkout /\ v.form = [wiz.form EXCEPT !.step = s]
    BY <1>1, <1>2, Zenon DEF PageFits
<1>4. FormFits(v.form)
    BY <1>1, <1>3, FormFilled DEF PageFits
<1>5. PageFits(v)
    BY <1>1, <1>3, <1>4 DEF PageFits
<1> QED
    BY <1>2, <1>3, <1>5, FillsKeeps DEF GoTo

LEMMA LengthKeeps ==
    ASSUME WizInv, NEW x \in Nat, Fills([wiz EXCEPT !.form.len = x]) PROVE WizInv'
<1>1. PageFits(wiz)
    BY DEF WizInv, WizTypes
<1>2. PICK v : v = [wiz EXCEPT !.form.len = x]
    OBVIOUS
<1>3. /\ PageFields \subseteq DOMAIN v
      /\ v.edit = wiz.edit /\ v.shown = wiz.shown /\ v.loading = wiz.loading
      /\ v.checkout = wiz.checkout /\ v.form = [wiz.form EXCEPT !.len = x]
    BY <1>1, <1>2, Zenon DEF PageFits
<1>4. FormFits(v.form)
    BY <1>1, <1>3, FormFilled DEF PageFits
<1>5. PageFits(v)
    BY <1>1, <1>3, <1>4 DEF PageFits
<1> QED
    BY <1>2, <1>3, <1>5, FillsKeeps

LEMMA ScheduleKeeps ==
    ASSUME WizInv, NEW x, Fills([wiz EXCEPT !.form.scheduled = x]) PROVE WizInv'
<1>1. PageFits(wiz)
    BY DEF WizInv, WizTypes
<1>2. PICK v : v = [wiz EXCEPT !.form.scheduled = x]
    OBVIOUS
<1>3. /\ PageFields \subseteq DOMAIN v
      /\ v.edit = wiz.edit /\ v.shown = wiz.shown /\ v.loading = wiz.loading
      /\ v.checkout = wiz.checkout /\ v.form = [wiz.form EXCEPT !.scheduled = x]
    BY <1>1, <1>2, Zenon DEF PageFits
<1>4. FormFits(v.form)
    BY <1>1, <1>3, FormFilled DEF PageFits
<1>5. PageFits(v)
    BY <1>1, <1>3, <1>4 DEF PageFits
<1> QED
    BY <1>2, <1>3, <1>5, FillsKeeps

LEMMA ContactsKeep ==
    ASSUME WizInv, NEW x \in SUBSET Person, Fills([wiz EXCEPT !.form.contacts = x]) PROVE WizInv'
<1>1. PageFits(wiz)
    BY DEF WizInv, WizTypes
<1>2. PICK v : v = [wiz EXCEPT !.form.contacts = x]
    OBVIOUS
<1>3. /\ PageFields \subseteq DOMAIN v
      /\ v.edit = wiz.edit /\ v.shown = wiz.shown /\ v.loading = wiz.loading
      /\ v.checkout = wiz.checkout /\ v.form = [wiz.form EXCEPT !.contacts = x]
    BY <1>1, <1>2, Zenon DEF PageFits
<1>4. FormFits(v.form)
    BY <1>1, <1>3, FormFilled DEF PageFits
<1>5. PageFits(v)
    BY <1>1, <1>3, <1>4 DEF PageFits
<1> QED
    BY <1>2, <1>3, <1>5, FillsKeeps

LEMMA GroupsKeep ==
    ASSUME WizInv, NEW x \in SUBSET Group, Fills([wiz EXCEPT !.form.groups = x]) PROVE WizInv'
<1>1. PageFits(wiz)
    BY DEF WizInv, WizTypes
<1>2. PICK v : v = [wiz EXCEPT !.form.groups = x]
    OBVIOUS
<1>3. /\ PageFields \subseteq DOMAIN v
      /\ v.edit = wiz.edit /\ v.shown = wiz.shown /\ v.loading = wiz.loading
      /\ v.checkout = wiz.checkout /\ v.form = [wiz.form EXCEPT !.groups = x]
    BY <1>1, <1>2, Zenon DEF PageFits
<1>4. FormFits(v.form)
    BY <1>1, <1>3, FormFilled DEF PageFits
<1>5. PageFits(v)
    BY <1>1, <1>3, <1>4 DEF PageFits
<1> QED
    BY <1>2, <1>3, <1>5, FillsKeeps

LEMMA RawKeeps ==
    ASSUME WizInv, NEW x \in SUBSET Raw, Fills([wiz EXCEPT !.form.raw = x]) PROVE WizInv'
<1>1. PageFits(wiz)
    BY DEF WizInv, WizTypes
<1>2. PICK v : v = [wiz EXCEPT !.form.raw = x]
    OBVIOUS
<1>3. /\ PageFields \subseteq DOMAIN v
      /\ v.edit = wiz.edit /\ v.shown = wiz.shown /\ v.loading = wiz.loading
      /\ v.checkout = wiz.checkout /\ v.form = [wiz.form EXCEPT !.raw = x]
    BY <1>1, <1>2, Zenon DEF PageFits
<1>4. FormFits(v.form)
    BY <1>1, <1>3, FormFilled DEF PageFits
<1>5. PageFits(v)
    BY <1>1, <1>3, <1>4 DEF PageFits
<1> QED
    BY <1>2, <1>3, <1>5, FillsKeeps

LEMMA ModalKeeps ==
    ASSUME WizInv, NEW m,
           OpenModal(m) \/ CloseModal
    PROVE  WizInv'
<1>1. PageFits(wiz)
    BY DEF WizInv, WizTypes
<1>2. PICK v : /\ Fills(v)
               /\ \/ v = [wiz EXCEPT !.modal = m, !.segments = Asked(@)]
                  \/ v = [wiz EXCEPT !.modal = "none", !.segments = Asked(@)]
    BY DEF OpenModal, CloseModal
<1>3. /\ PageFields \subseteq DOMAIN v
      /\ v.edit = wiz.edit /\ v.shown = wiz.shown /\ v.loading = wiz.loading
      /\ v.checkout = wiz.checkout /\ v.form = wiz.form
    BY <1>1, <1>2, Zenon DEF PageFits
<1>4. PageFits(v)
    BY <1>1, <1>3 DEF PageFits
<1> QED
    BY <1>2, <1>3, <1>4, FillsKeeps

\* The list of segments is no part of the form.
LEMMA SegmentsKeep ==
    ASSUME WizInv, SegmentsRead \/ SegmentsFail PROVE WizInv'
<1>1. PageFits(wiz) /\ FormFits(stored) /\ UNCHANGED <<camps, stored, wizCalls, draft, doubt>>
    BY DEF WizInv, WizTypes, SegmentsRead, SegmentsFail
<1>2. \/ wiz' = [wiz EXCEPT !.segments = "read"]
      \/ wiz' = [wiz EXCEPT !.segments = "unread"]
    BY DEF SegmentsRead, SegmentsFail
<1>3. /\ PageFields \subseteq DOMAIN wiz'
      /\ wiz'.edit = wiz.edit /\ wiz'.shown = wiz.shown /\ wiz'.loading = wiz.loading
      /\ wiz'.checkout = wiz.checkout /\ wiz'.form = wiz.form
    BY <1>1, <1>2, Zenon DEF PageFits
<1>4. PageFits(wiz') /\ FormFits(stored')
    BY <1>1, <1>3 DEF PageFits
<1> QED
    BY <1>1, <1>3, <1>4, FormOnly

LEMMA FormSets ==
    ASSUME WizInv
    PROVE  wiz.form.contacts \subseteq Person /\ wiz.form.groups \subseteq Group
           /\ wiz.form.raw \subseteq Raw
    BY DEF WizInv, WizTypes, PageFits, FormFits

LEMMA ChoosingKeeps ==
    ASSUME WizInv, NEW p, NEW g, NEW r,
           \/ p \in Person /\ (Toggle("contacts", p) \/ Drop("contacts", p))
           \/ g \in Group /\ (Toggle("groups", g) \/ Drop("groups", g))
           \/ r \in Raw /\ (AddRaw(r) \/ Drop("raw", r))
    PROVE  WizInv'
<1>1. CASE p \in Person /\ (Toggle("contacts", p) \/ Drop("contacts", p))
  <2>1. CASE Toggle("contacts", p)
      BY <1>1, <2>1, ContactsKeep, FormSets DEF Toggle
  <2>2. CASE Drop("contacts", p)
      BY <2>2, ContactsKeep, FormSets DEF Drop
  <2> QED
      BY <1>1, <2>1, <2>2
<1>2. CASE g \in Group /\ (Toggle("groups", g) \/ Drop("groups", g))
  <2>1. CASE Toggle("groups", g)
    <3>1. PICK x : x = IF g \in wiz.form.groups THEN wiz.form.groups \ {g}
                       ELSE wiz.form.groups \cup {g}
        OBVIOUS
    <3>2. x \in SUBSET Group
        BY <1>2, <3>1, FormSets
    <3>3. Fills([wiz EXCEPT !.form.groups = x])
        BY <2>1, <3>1 DEF Toggle
    <3> QED
        BY <3>2, <3>3, GroupsKeep
  <2>2. CASE Drop("groups", g)
      BY <2>2, GroupsKeep, FormSets DEF Drop
  <2> QED
      BY <1>2, <2>1, <2>2
<1>3. CASE r \in Raw /\ (AddRaw(r) \/ Drop("raw", r))
    BY <1>3, RawKeeps, FormSets DEF AddRaw, Drop
<1> QED
    BY <1>1, <1>2, <1>3

LEMMA WritingKeeps ==
    ASSUME WizInv, NEW n \in TextLength, WriteTemplate(n) \/ SelectTemplate(n)
    PROVE  WizInv'
<1>1. n \in Nat
    BY WizAssumption
<1> QED
    BY <1>1, LengthKeeps DEF SelectTemplate, WriteTemplate

-----------------------------------------------------------------------------
LEMMA UnheardPost ==
    ASSUME NEW c, PostFits(c), NEW d, d = [c EXCEPT !.mounted = FALSE]
    PROVE  /\ {"op", "id", "mounted"} \subseteq DOMAIN d
           /\ d.op = c.op /\ d.id = c.id /\ ~d.mounted
           /\ d.op = "save" =>
                /\ SaveFields \subseteq DOMAIN d
                /\ d.size = c.size /\ d.len = c.len /\ d.total = c.total
                /\ d.uncounted = c.uncounted /\ d.draft = c.draft
<1>1. {"op", "id", "mounted"} \subseteq DOMAIN c
    BY DEF PostFits
<1>2. /\ {"op", "id", "mounted"} \subseteq DOMAIN d
      /\ d.op = c.op /\ d.id = c.id /\ d.mounted = FALSE /\ DOMAIN d = DOMAIN c
    BY <1>1, Zenon
<1>3. ASSUME c.op = "save"
      PROVE  /\ SaveFields \subseteq DOMAIN d
             /\ d.size = c.size /\ d.len = c.len /\ d.total = c.total
             /\ d.uncounted = c.uncounted /\ d.draft = c.draft
  <2>1. SaveFields \subseteq DOMAIN c
      BY <1>3 DEF PostFits, SaveFits
  <2> QED
      BY <2>1, Zenon
<1> QED
    BY <1>2, <1>3

LEMMA UnheardPosts ==
    ASSUME WizTypes, NEW calls \in SUBSET wizCalls, wizCalls' = Unheard(calls)
    PROVE  \A d \in BroadcastCalls' : \E e \in BroadcastCalls : d.id = e.id
<1>1. ASSUME NEW d \in wizCalls', d.op # "save"
      PROVE  \E e \in wizCalls : e.op # "save" /\ d.id = e.id
  <2>1. PICK e \in calls : d = [e EXCEPT !.mounted = FALSE]
      BY DEF Unheard
  <2>2. PostFits(e)
      BY DEF WizTypes
  <2> QED
      BY <1>1, <2>1, <2>2, UnheardPost
<1> QED
    BY <1>1 DEF BroadcastCalls, SaveCalls

\* The page is closed: nobody waits, whatever else happened.
LEMMA ClosingTypes ==
    ASSUME WizTypes, wiz' = Closed, NEW calls \in SUBSET wizCalls,
           wizCalls' = Unheard(calls), FormFits(stored'), camps' \in Seq(SavedCampaign),
           Len(camps') >= Len(camps), draft' \in Nat, draft' >= draft,
           \A i \in 1..Len(camps') : camps'[i].draft <= draft'
    PROVE  WizTypes' /\ OneAtATime' /\ ~CheckoutOpen'
<1>1. /\ ~wiz'.shown /\ wiz'.edit = 0 /\ wiz'.form = EmptyForm
      /\ PageFields \subseteq DOMAIN wiz'
    BY ClosedIs
<1>2. Len(camps) \in Nat /\ Len(camps') \in Nat
    BY DEF WizTypes
<1>3. PageFits(wiz)' /\ FormFits(stored)'
    BY <1>1, <1>2, EmptyFits DEF PageFits, FormFits
<1>4. ASSUME NEW d \in wizCalls' PROVE PostFits(d)' /\ ~d.mounted
  <2>1. PICK c \in calls : d = [c EXCEPT !.mounted = FALSE]
      BY DEF Unheard
  <2>2. PostFits(c)
      BY DEF WizTypes
  <2>3. /\ {"op", "id", "mounted"} \subseteq DOMAIN d
        /\ d.op = c.op /\ d.id = c.id /\ ~d.mounted
        /\ d.op = "save" =>
                /\ SaveFields \subseteq DOMAIN d
                /\ d.size = c.size /\ d.len = c.len /\ d.total = c.total
                /\ d.uncounted = c.uncounted /\ d.draft = c.draft
      BY <2>1, <2>2, UnheardPost
  <2>4. d.op = "save" => SaveFits(d)'
      BY <2>2, <2>3, <1>2 DEF PostFits, SaveFits, WizTypes
  <2>5. d.op # "save" => d.id \in 1..Len(camps')
      BY <2>2, <2>3, <1>2 DEF PostFits
  <2> QED
      BY <2>2, <2>3, <2>4, <2>5 DEF PostFits
<1> QED
    BY <1>1, <1>3, <1>4 DEF WizTypes, OneAtATime, CheckoutOpen

\* Nothing became busy that was not, and a draft that ends takes its campaigns
\* along.
LEMMA BusyKeeps ==
    ASSUME WizTypes, OneBusy,
           \A i \in 1..Len(camps') : Busy(i)' => i \in 1..Len(camps) /\ Busy(i),
           \A i \in 1..Len(camps) : camps'[i].draft \in {0, camps[i].draft},
           \A i \in 1..Len(camps') : camps'[i].draft <= draft,
           \/ /\ draft' = draft
              /\ \A i \in 1..Len(camps') : camps'[i].draft = draft => camps'[i].status = "draft"
              /\ \A d \in BroadcastCalls' : camps'[d.id].draft = draft => d.mounted
           \/ /\ draft' = draft + 1
              /\ \A d \in BroadcastCalls' : d.id \in 1..Len(camps')
    PROVE  OneBusy'
<1>1. ASSUME NEW i \in 1..Len(camps'), NEW j \in 1..Len(camps'), i # j, Busy(i)', Busy(j)',
             camps'[i].draft = camps'[j].draft
      PROVE  camps'[i].draft = 0
    BY <1>1 DEF OneBusy
<1>2. /\ \A i \in 1..Len(camps') : camps'[i].draft = draft' => camps'[i].status = "draft"
      /\ \A d \in BroadcastCalls' : camps'[d.id].draft = draft' => d.mounted
  <2>1. CASE draft' = draft
    <3>1. draft' # draft + 1
        BY <2>1 DEF WizTypes
    <3> QED
        BY <2>1, <3>1
  <2>2. CASE draft' = draft + 1
    <3>1. draft \in Nat /\ \A i \in 1..Len(camps') : camps'[i].draft # draft + 1
        BY DEF WizTypes
    <3> QED
        BY <2>2, <3>1
  <2> QED
      BY <2>1, <2>2
<1> QED
    BY <1>1, <1>2 DEF OneBusy

NewCampaign(c) == [size |-> c.size, len |-> c.len, status |-> "draft", draft |-> c.draft]
LEMMA NewCampaignIs ==
    ASSUME NEW c
    PROVE  /\ NewCampaign(c).size = c.size /\ NewCampaign(c).len = c.len
           /\ NewCampaign(c).draft = c.draft /\ NewCampaign(c).status = "draft"
    BY DEF NewCampaign

\* What a save does to the campaigns.
LEMMA Storing ==
    ASSUME WizTypes, NEW c, SaveFits(c), camps' = Stores(c)
    PROVE  /\ camps' \in Seq(SavedCampaign) /\ Len(camps) \in Nat /\ Len(camps') >= Len(camps)
           /\ \A i \in 1..Len(camps) :
                /\ camps'[i].size = camps[i].size /\ camps'[i].status = camps[i].status
                /\ camps'[i].draft \in {0, camps[i].draft}
                /\ i # c.id => camps'[i] = camps[i]
           /\ \A i \in 1..Len(camps') : camps'[i].draft <= draft
           /\ c.id = 0 => /\ Len(camps') = Len(camps) + 1
                          /\ camps'[Len(camps) + 1] = NewCampaign(c)
           /\ c.id # 0 => Len(camps') = Len(camps) /\ camps'[c.id].draft = 0
<1>1. /\ camps \in Seq(SavedCampaign) /\ draft \in Nat
      /\ Len(camps) \in Nat /\ c.id \in 0..Len(camps)
      /\ c.size \in Nat /\ c.len \in Nat /\ c.draft \in Nat /\ c.draft <= draft
      /\ \A i \in 1..Len(camps) : camps[i] \in SavedCampaign /\ camps[i].draft <= draft
    BY DEF WizTypes, SaveFits
<1>2. CASE c.id = 0
  <2> DEFINE x == NewCampaign(c)
  <2>1. x \in SavedCampaign /\ x.draft = c.draft
      BY <1>1 DEF SavedCampaign, NewCampaign
  <2>2. camps' = Append(camps, x)
      BY <1>2 DEF Stores, NewCampaign
  <2> HIDE DEF x
  <2>3. /\ camps' \in Seq(SavedCampaign) /\ Len(camps') = Len(camps) + 1
        /\ camps'[Len(camps) + 1] = x
        /\ \A i \in 1..Len(camps) : camps'[i] = camps[i]
      BY <1>1, <2>1, <2>2
  <2>4. \A i \in 1..Len(camps') : camps'[i].draft <= draft
      BY <1>1, <2>1, <2>3
  <2> QED
      BY <1>1, <1>2, <2>3, <2>4 DEF x
<1>3. CASE c.id # 0
  <2>1. c.id \in 1..Len(camps)
      BY <1>1, <1>3
  <2>2. PICK y : y = [camps[c.id] EXCEPT !.len = c.len, !.draft = 0]
      OBVIOUS
  <2>3. /\ y \in SavedCampaign /\ y.draft = 0 /\ y.size = camps[c.id].size
        /\ y.status = camps[c.id].status
      BY <1>1, <2>1, <2>2 DEF SavedCampaign
  <2>4. camps' = [camps EXCEPT ![c.id] = y]
      BY <1>3, <1>1, <2>1, <2>2 DEF Stores, SavedCampaign
  <2>5. /\ camps' \in Seq(SavedCampaign) /\ Len(camps') = Len(camps) /\ camps'[c.id] = y
        /\ \A i \in 1..Len(camps) : i # c.id => camps'[i] = camps[i]
      BY <1>1, <2>1, <2>3, <2>4
  <2>6. ASSUME NEW i \in 1..Len(camps)
        PROVE  /\ camps'[i].size = camps[i].size /\ camps'[i].status = camps[i].status
               /\ camps'[i].draft \in {0, camps[i].draft} /\ camps'[i].draft <= draft
    <3>1. CASE i = c.id
        BY <1>1, <2>3, <2>5, <3>1
    <3>2. CASE i # c.id
        BY <1>1, <2>5, <3>2
    <3> QED
        BY <3>1, <3>2
  <2> QED
      BY <1>1, <1>3, <2>3, <2>5, <2>6
<1> QED
    BY <1>2, <1>3

\* Another page is opened, or this one.
LEMMA LeavePageKeeps ==
    ASSUME WizInv, LeavePage PROVE WizInv'
<1>1. WizTypes' /\ OneAtATime' /\ ~CheckoutOpen'
  <2>1. /\ wizCalls \in SUBSET wizCalls /\ wiz' = Closed /\ wizCalls' = Unheard(wizCalls)
        /\ UNCHANGED <<camps, stored, draft>>
      BY DEF LeavePage
  <2>2. WizTypes /\ FormFits(stored') /\ draft' \in Nat /\ draft' >= draft
        /\ camps' \in Seq(SavedCampaign) /\ Len(camps') >= Len(camps)
        /\ \A i \in 1..Len(camps') : camps'[i].draft <= draft'
      BY <2>1 DEF WizInv, WizTypes
  <2> QED
      BY <2>1, <2>2, ClosingTypes
<1>2. ASSUME ~doubt' PROVE OneBusy'
  <2>1. ~doubt /\ \A c \in wizCalls : c.op # "broadcast"
      BY <1>2 DEF LeavePage
  <2>2. UNCHANGED <<camps, draft>>
      BY DEF LeavePage
  <2>3. BroadcastCalls' = {}
    <3>1. ASSUME NEW d \in wizCalls' PROVE d.op = "save"
      <4>1. PICK c \in wizCalls : d = [c EXCEPT !.mounted = FALSE]
          BY DEF LeavePage, Unheard
      <4>2. PostFits(c)
          BY DEF WizInv, WizTypes
      <4>3. d.op = c.op
          BY <4>1, <4>2, UnheardPost
      <4> QED
          BY <2>1, <4>2, <4>3 DEF PostFits
    <3> QED
        BY <3>1 DEF BroadcastCalls, SaveCalls
  <2>4. OneBusy
      BY <2>1 DEF WizInv
  <2> QED
      BY <2>2, <2>3, <2>4 DEF OneBusy, Busy
<1> QED
    BY <1>1, <1>2 DEF WizInv

\* The page is opened: nobody was waiting for a call.
LEMMA MountKeeps ==
    ASSUME WizInv, NEW edit, Mount(edit) PROVE WizInv'
<1>1. /\ wiz' = [form |-> stored, edit |-> edit, shown |-> TRUE,
                 segments |-> IF stored.step = 2 THEN "reading" ELSE "unread",
                 loading |-> FALSE, modal |-> "none", checkout |-> NoCheckout]
      /\ UNCHANGED <<camps, stored, wizCalls, draft, doubt>> /\ ~wiz.shown
      /\ edit \in 0..Len(camps)
    BY DEF Mount, WizInv, WizTypes
<1>2. /\ wiz'.edit = edit /\ wiz'.form = stored /\ wiz'.checkout = NoCheckout
      /\ PageFields \subseteq DOMAIN wiz'
    BY <1>1
<1>3. \A c \in wizCalls : ~c.mounted
    BY <1>1 DEF WizInv, OneAtATime
<1>4. PageFits(wiz)' /\ FormFits(stored)'
    BY <1>1, <1>2 DEF PageFits, FormFits, WizInv, WizTypes
<1>5. \A c \in wizCalls : PostFits(c)'
    BY <1>1, <1>3 DEF PostFits, SaveFits, WizInv, WizTypes
<1>6. WizTypes' /\ OneAtATime' /\ ~CheckoutOpen'
    BY <1>1, <1>2, <1>3, <1>4, <1>5 DEF WizTypes, OneAtATime, CheckoutOpen, WizInv
<1>7. (~doubt => OneBusy)'
    BY <1>1 DEF WizInv, OneBusy, Busy, BroadcastCalls, SaveCalls
<1> QED
    BY <1>6, <1>7 DEF WizInv

LEMMA FetchCampaignToEditKeeps ==
    ASSUME WizInv, FetchCampaignToEdit PROVE WizInv'
<1>1. PageFits(wiz)
    BY DEF WizInv, WizTypes
<1>2. PICK n : n = camps[wiz.edit].len
    OBVIOUS
<1>3. n \in Nat
  <2>1. camps \in Seq(SavedCampaign) /\ wiz.edit \in 1..Len(camps)
      BY <1>1 DEF FetchCampaignToEdit, PageFits, WizInv, WizTypes
  <2>2. camps[wiz.edit] \in SavedCampaign
      BY <2>1
  <2> QED
      BY <1>2, <2>2 DEF SavedCampaign
<1>4. PICK f : f = [wiz.form EXCEPT !.len = n]
    OBVIOUS
<1>5. FormFits(f)
    BY <1>1, <1>3, <1>4, FormFilled DEF PageFits
<1>6. PICK g : g = [f EXCEPT !.scheduled = FALSE]
    OBVIOUS
<1>7. FormFits(g)
    BY <1>5, <1>6, FormFilled
<1>8. wiz' = [wiz EXCEPT !.form = g]
    BY <1>1, <1>2, <1>4, <1>6, Zenon DEF FetchCampaignToEdit, PageFits
<1>9. /\ PageFields \subseteq DOMAIN wiz'
      /\ wiz'.edit = wiz.edit /\ wiz'.shown = wiz.shown /\ wiz'.loading = wiz.loading
      /\ wiz'.checkout = wiz.checkout /\ wiz'.form = g
    BY <1>1, <1>8, Zenon DEF PageFits
<1>10. PageFits(wiz') /\ FormFits(stored') /\ UNCHANGED <<camps, wizCalls, draft, doubt>>
    BY <1>1, <1>7, <1>9 DEF PageFits, FetchCampaignToEdit, WizInv, WizTypes
<1> QED
    BY <1>9, <1>10, FormOnly

-----------------------------------------------------------------------------
\* The form is saved: it counts whom it reaches.
LEMMA HandleSubmitKeeps ==
    ASSUME WizInv, NEW then, HandleSubmit(then) PROVE WizInv'
<1>1. PageFits(wiz) /\ WizTypes /\ OneAtATime /\ draft \in Nat \ {0}
    BY DEF WizInv, WizTypes
<1>2. /\ SaveOffered /\ wiz' = [wiz EXCEPT !.loading = TRUE]
      /\ UNCHANGED <<camps, stored, draft, doubt>>
    BY DEF HandleSubmit, BroadcastOffered
<1>3. PICK c : /\ c = [op |-> "save", then |-> then, size |-> Cardinality(Recipients(wiz.form)),
                       len |-> wiz.form.len, id |-> wiz.edit, total |-> TotalRecipients(wiz),
                       uncounted |-> wiz.form.groups \ Counted(wiz), draft |-> draft,
                       mounted |-> TRUE]
               /\ wizCalls' = wizCalls \cup {c}
    BY DEF HandleSubmit
<1>4. /\ PageFields \subseteq DOMAIN wiz'
      /\ wiz'.edit = wiz.edit /\ wiz'.shown = wiz.shown /\ wiz'.loading = TRUE
      /\ wiz'.checkout = wiz.checkout /\ wiz'.form = wiz.form
    BY <1>1, <1>2, Zenon DEF PageFits
<1>5. wiz.shown /\ wiz.checkout = NoCheckout /\ \A d \in wizCalls : ~d.mounted
    BY <1>1, <1>2 DEF SaveOffered, OneAtATime
<1>6. /\ {"op", "id", "mounted"} \subseteq DOMAIN c
      /\ SaveFields \subseteq DOMAIN c
      /\ c.op = "save" /\ c.size = Cardinality(Recipients(wiz.form))
      /\ c.len = wiz.form.len /\ c.id = wiz.edit /\ c.total = TotalRecipients(wiz)
      /\ c.uncounted = wiz.form.groups \ Counted(wiz) /\ c.draft = draft /\ c.mounted
    BY <1>3
<1>7. /\ c.size \in Nat /\ c.total \in Nat /\ c.uncounted \subseteq Group
      /\ c.size <= c.total + Missing(c.uncounted)
  <2>1. /\ wiz.form.contacts \in SUBSET Person /\ wiz.form.groups \in SUBSET Group
        /\ wiz.form.raw \in SUBSET Raw
      BY <1>1 DEF PageFits, FormFits
  <2>2. /\ Cardinality(wiz.form.contacts) \in Nat /\ Cardinality(wiz.form.raw) \in Nat
        /\ Cardinality(Memberships(wiz.form.groups)) \in Nat
        /\ Cardinality(Recipients(wiz.form)) \in Nat
        /\ Cardinality(Recipients(wiz.form))
             <= Cardinality(wiz.form.contacts) + Cardinality(wiz.form.raw)
                  + Cardinality(Memberships(wiz.form.groups))
    <3>1. Recipients(wiz.form) = wiz.form.contacts \cup wiz.form.raw
                                   \cup UNION {GroupMembers[g] : g \in wiz.form.groups}
        BY DEF Recipients
    <3> QED
        BY <2>1, <3>1, CountsEveryone
  <2>3. Cardinality(Memberships({})) = 0
    <3>1. Memberships({}) = {}
        BY DEF Memberships
    <3> QED
        BY <3>1, FS_EmptySet
  <2>4. CASE wiz.segments = "read"
    <3>1. Counted(wiz) = wiz.form.groups /\ c.uncounted = {}
        BY <1>6, <2>4 DEF Counted
    <3>2. Missing(c.uncounted) = 0
        BY <2>3, <3>1, Zenon DEF Missing
    <3>3. c.total = Cardinality(wiz.form.contacts) + Cardinality(wiz.form.raw)
                      + Cardinality(Memberships(wiz.form.groups))
        BY <1>6, <3>1, Zenon DEF TotalRecipients
    <3> QED
        BY <1>6, <2>2, <3>1, <3>2, <3>3
  <2>5. CASE wiz.segments # "read"
    <3>1. Counted(wiz) = {} /\ c.uncounted = wiz.form.groups
        BY <1>6, <2>5 DEF Counted
    <3> QED
        BY <1>6, <2>1, <2>2, <2>3, <3>1 DEF TotalRecipients, Missing
  <2> QED
      BY <2>4, <2>5
<1>8. PostFits(c)'
  <2>1. SaveFits(c)'
      BY <1>1, <1>2, <1>4, <1>6, <1>7 DEF SaveFits, PageFits, FormFits
  <2> QED
      BY <1>6, <2>1 DEF PostFits
<1>9. ASSUME NEW d \in wizCalls PROVE PostFits(d)'
    BY <1>1, <1>2, <1>4 DEF PostFits, SaveFits, WizTypes
<1>10. WizTypes'
  <2>1. PageFits(wiz)' /\ FormFits(stored)'
      BY <1>1, <1>2, <1>4 DEF PageFits, FormFits, WizTypes
  <2> QED
      BY <1>1, <1>2, <1>3, <1>8, <1>9, <2>1 DEF WizTypes
<1>11. OneAtATime' /\ ~CheckoutOpen'
    BY <1>3, <1>4, <1>5, <1>6 DEF OneAtATime, CheckoutOpen
<1>12. ASSUME ~doubt' PROVE OneBusy'
  <2>1. BroadcastCalls' = BroadcastCalls
      BY <1>3, <1>6 DEF BroadcastCalls, SaveCalls
  <2> QED
      BY <1>2, <1>12, <2>1 DEF WizInv, OneBusy, Busy
<1> QED
    BY <1>10, <1>11, <1>12 DEF WizInv

\* A call that is answered is not under way, and the page may be told.
LEMMA AnsweredTypes ==
    ASSUME WizInv, NEW c, wizCalls' = wizCalls \ {c}, PageFits(wiz'), FormFits(stored'),
           wiz'.edit = wiz.edit, draft' = draft,
           camps' \in Seq(SavedCampaign), Len(camps') >= Len(camps),
           \A i \in 1..Len(camps') : camps'[i].draft <= draft
    PROVE  WizTypes'
<1>1. Len(camps) \in Nat /\ Len(camps') \in Nat
    BY DEF WizInv, WizTypes
<1>2. PageFits(wiz)' /\ FormFits(stored)'
    BY <1>1 DEF PageFits, FormFits
<1>3. ASSUME NEW d \in wizCalls PROVE PostFits(d)'
    BY <1>1 DEF PostFits, SaveFits, WizInv, WizTypes
<1> QED
    BY <1>2, <1>3 DEF WizInv, WizTypes

LEMMA SavedRedirects ==
    ASSUME WizInv, NEW c \in SaveCalls, camps' = Stores(c), Redirects(c), UNCHANGED doubt
    PROVE  WizInv'
<1>1. WizTypes /\ c \in wizCalls /\ SaveFits(c) /\ draft \in Nat /\ c.draft \in 1..draft
    BY DEF WizInv, WizTypes, SaveCalls, PostFits, SaveFits
<1>2. /\ camps' \in Seq(SavedCampaign) /\ Len(camps) \in Nat /\ Len(camps') >= Len(camps)
      /\ \A i \in 1..Len(camps) :
           camps'[i].status = camps[i].status /\ camps'[i].draft \in {0, camps[i].draft}
      /\ \A i \in 1..Len(camps') : camps'[i].draft <= draft
      /\ c.id = 0 => Len(camps') = Len(camps) + 1 /\ camps'[Len(camps) + 1].status = "draft"
      /\ c.id # 0 => Len(camps') = Len(camps)
  <2>1. camps' \in Seq(SavedCampaign) /\ Len(camps) \in Nat /\ Len(camps') >= Len(camps)
      BY <1>1, Storing
  <2>2. \A i \in 1..Len(camps) :
           camps'[i].status = camps[i].status /\ camps'[i].draft \in {0, camps[i].draft}
      BY <1>1, Storing
  <2>3. \A i \in 1..Len(camps') : camps'[i].draft <= draft
      BY <1>1, Storing
  <2>4. c.id = 0 => Len(camps') = Len(camps) + 1 /\ camps'[Len(camps) + 1].status = "draft"
      BY <1>1, NewCampaignIs, Storing
  <2>5. c.id # 0 => Len(camps') = Len(camps)
      BY <1>1, Storing
  <2> QED
      BY <2>1, <2>2, <2>3, <2>4, <2>5
<1>3. WizTypes' /\ OneAtATime' /\ ~CheckoutOpen'
  <2>1. /\ FormFits(stored') /\ draft' \in Nat /\ draft' >= draft /\ wiz' = Closed
        /\ wizCalls' = Unheard(wizCalls \ {c}) /\ wizCalls \ {c} \in SUBSET wizCalls
      BY <1>1, EmptyFits DEF Redirects
  <2>2. camps' \in Seq(SavedCampaign) /\ \A i \in 1..Len(camps') : camps'[i].draft <= draft'
    <3>1. \A i \in 1..Len(camps') : camps'[i] \in SavedCampaign
        BY <1>2
    <3>2. \A i \in 1..Len(camps') : camps'[i].draft \in Nat
        BY <3>1 DEF SavedCampaign
    <3> QED
        BY <1>1, <1>2, <3>2 DEF Redirects
  <2> QED
      BY <1>1, <1>2, <2>1, <2>2, ClosingTypes
<1>4. \A d \in BroadcastCalls' : \E e \in BroadcastCalls : d.id = e.id
    BY <1>1, UnheardPosts DEF Redirects
<1>5. ASSUME ~doubt' PROVE OneBusy'
  <2>1. OneBusy
      BY <1>5 DEF WizInv
  <2>2. \A e \in BroadcastCalls : e.id \in 1..Len(camps)
      BY <1>1 DEF WizTypes, PostFits, BroadcastCalls, SaveCalls
  <2>3. \A i \in 1..Len(camps') : Busy(i)' => i \in 1..Len(camps) /\ Busy(i)
    <3>1. SUFFICES ASSUME NEW i \in 1..Len(camps'), Busy(i)'
                   PROVE  i \in 1..Len(camps) /\ Busy(i)
        OBVIOUS
    <3>2. CASE camps'[i].status = "sending"
      <4>1. i \in 1..Len(camps)
          BY <1>2, <3>2
      <4> QED
          BY <1>2, <3>2, <4>1 DEF Busy
    <3>3. CASE \E d \in BroadcastCalls' : d.id = i
        BY <1>4, <2>2, <3>3 DEF Busy
    <3> QED
        BY <3>1, <3>2, <3>3 DEF Busy
  <2>4. draft' = draft + 1 /\ \A d \in BroadcastCalls' : d.id \in 1..Len(camps')
      BY <1>2, <1>4, <2>2 DEF Redirects
  <2> QED
      BY <1>1, <1>2, <2>1, <2>3, <2>4, BusyKeeps
<1> QED
    BY <1>3, <1>5 DEF WizInv

\* What a save leaves of the campaigns while its page stays.
LEMMA StoredBusy ==
    ASSUME WizTypes, OneBusy, NEW c \in SaveCalls, camps' = camps \/ camps' = Stores(c),
           wizCalls' = wizCalls \ {c}, draft' = draft
    PROVE  OneBusy'
<1>1. /\ WizTypes /\ c \in wizCalls /\ SaveFits(c) /\ draft \in Nat \ {0}
      /\ c.draft \in 1..draft
    BY DEF WizTypes, SaveCalls, PostFits, SaveFits
<1>2. /\ BroadcastCalls' = BroadcastCalls
      /\ \A d \in BroadcastCalls : d.id \in 1..Len(camps)
    BY <1>1 DEF BroadcastCalls, SaveCalls, WizTypes, PostFits
<1>3. CASE camps' = camps
    BY <1>2, <1>3 DEF OneBusy, Busy
<1>4. CASE camps' = Stores(c)
  <2>1. /\ Len(camps) \in Nat /\ Len(camps') >= Len(camps)
        /\ c.id = 0 \/ Len(camps') = Len(camps)
        /\ c.id = 0 => Len(camps') = Len(camps) + 1
      BY <1>1, <1>4, Storing
  <2>2. \A i \in 1..Len(camps) :
           camps'[i].status = camps[i].status /\ camps'[i].draft \in {0, camps[i].draft}
      BY <1>1, <1>4, Storing
  <2>3. \A i \in 1..Len(camps') : camps'[i].draft <= draft
      BY <1>1, <1>4, Storing
  <2>4. c.id = 0 => camps'[Len(camps) + 1].status = "draft"
      BY <1>1, <1>4, NewCampaignIs, Storing
  <2>5. \A i \in 1..Len(camps') : i \in 1..Len(camps) \/ camps'[i].status = "draft"
      BY <2>1, <2>4
  <2>6. \A i \in 1..Len(camps') : Busy(i)' => i \in 1..Len(camps) /\ Busy(i)
      BY <1>2, <2>2, <2>5 DEF Busy
  <2>7. \A i \in 1..Len(camps') : camps'[i].draft = draft => camps'[i].status = "draft"
    <3>1. SUFFICES ASSUME NEW i \in 1..Len(camps), camps'[i].draft = draft
                   PROVE  camps'[i].status = "draft"
        BY <2>5
    <3> QED
        BY <1>1, <2>2, <3>1 DEF OneBusy
  <2>8. \A d \in BroadcastCalls' : camps'[d.id].draft = draft => d.mounted
      BY <1>1, <1>2, <2>2 DEF OneBusy
  <2> QED
      BY <1>1, <2>2, <2>3, <2>6, <2>7, <2>8, BusyKeeps
<1> QED
    BY <1>3, <1>4

LEMMA StoredTypes ==
    ASSUME WizInv, NEW c \in SaveCalls, camps' = camps \/ camps' = Stores(c),
           wizCalls' = wizCalls \ {c}, draft' = draft, FormFits(stored'),
           wiz'.edit = wiz.edit, wiz'.form = wiz.form,
           PageFields \subseteq DOMAIN wiz'
    PROVE  WizTypes'
<1>1. WizTypes /\ SaveFits(c)
    BY DEF WizInv, WizTypes, SaveCalls, PostFits
<1>2. PageFits(wiz')
    BY <1>1 DEF PageFits, WizTypes
<1>3. CASE camps' = camps
  <2>1. /\ camps' \in Seq(SavedCampaign) /\ Len(camps') >= Len(camps)
        /\ \A i \in 1..Len(camps') : camps'[i].draft <= draft
      BY <1>1, <1>3 DEF WizTypes
  <2> QED
      BY <1>2, <2>1, AnsweredTypes
<1>4. CASE camps' = Stores(c)
  <2>1. camps' \in Seq(SavedCampaign) /\ Len(camps') >= Len(camps)
      BY <1>1, <1>4, Storing
  <2>2. \A i \in 1..Len(camps') : camps'[i].draft <= draft
      BY <1>1, <1>4, Storing
  <2> QED
      BY <1>2, <2>1, <2>2, AnsweredTypes
<1> QED
    BY <1>3, <1>4

\* A save that is not of this page leaves the campaign in its checkout alone.
LEMMA StoredPriced ==
    ASSUME WizTypes, NEW c \in SaveCalls, camps' = camps \/ camps' = Stores(c),
           wizCalls' = wizCalls \ {c}, draft' = draft, wiz'.edit = wiz.edit,
           NEW k, Priced(k)
    PROVE  Priced(k)'
<1>1. SaveFits(c)
    BY DEF WizTypes, SaveCalls, PostFits
<1>2. SaveCalls' \subseteq SaveCalls
    BY DEF SaveCalls
<1>3. CASE camps' = camps
    BY <1>2, <1>3 DEF Priced
<1>4. CASE camps' = Stores(c)
  <2>1. k.id \in 1..Len(camps)
      BY DEF Priced
  <2>2. Len(camps) \in Nat /\ Len(camps') >= Len(camps)
      BY <1>1, <1>4, Storing
  <2>3. camps'[k.id].draft \in {0, camps[k.id].draft} /\ (k.id # c.id => camps'[k.id] = camps[k.id])
      BY <1>1, <1>4, <2>1, Storing
  <2>4. k.id \in 1..Len(camps') /\ camps'[k.id].draft \in {0, draft}
      BY <2>1, <2>2, <2>3 DEF Priced
  <2>5. wiz.edit = 0 => camps'[k.id] = camps[k.id]
      BY <2>3 DEF Priced
  <2> QED
      BY <1>2, <2>4, <2>5 DEF Priced
<1> QED
    BY <1>3, <1>4

LEMMA CheckoutIs ==
    ASSUME NEW id, NEW total, NEW uncounted, NEW len
    PROVE  LET k == Checkout(id, total, uncounted, len)
           IN /\ {"id", "total", "uncounted", "len", "read", "balance"} \subseteq DOMAIN k
              /\ k.id = id /\ k.total = total /\ k.uncounted = uncounted /\ k.len = len
              /\ k.balance \in [payg_org : BOOLEAN, sub : Nat, payg : Nat]
    BY DEF Checkout, NoBalance

\* A call of the page is answered: the page waits for none.
LEMMA HeardOne ==
    ASSUME OneAtATime, NEW c \in wizCalls, c.mounted, wizCalls' = wizCalls \ {c}
    PROVE  OneAtATime' /\ \A d \in wizCalls' : ~d.mounted
    BY DEF OneAtATime

\* The answer to a save that was made to be checked out.
LEMMA SavedOpens ==
    ASSUME WizInv, NEW c \in SaveCalls, Saved(c), c.then # "redirect"
    PROVE  WizInv'
<1>1. /\ WizTypes /\ OneAtATime /\ c \in wizCalls /\ SaveFits(c) /\ PageFits(wiz)
      /\ draft \in Nat \ {0}
    BY DEF WizInv, WizTypes, SaveCalls, PostFits
<1>2. /\ camps' = Stores(c) /\ wizCalls' = wizCalls \ {c}
      /\ UNCHANGED <<stored, draft, doubt>> /\ FormFits(stored')
    BY <1>1 DEF Saved, WizTypes
<1>3. ~doubt' => OneBusy'
    BY <1>1, <1>2, StoredBusy DEF WizInv
<1>4. CASE ~c.mounted
  <2>1. wiz' = wiz
      BY <1>4 DEF Saved
  <2>2. WizTypes'
      BY <1>1, <1>2, <2>1, StoredTypes DEF PageFits
  <2>3. OneAtATime'
      BY <1>1, <1>2, <2>1 DEF OneAtATime
  <2>4. CheckoutOpen' => Priced(wiz.checkout)'
    <3>1. CheckoutOpen' => Priced(wiz.checkout)
        BY <2>1 DEF CheckoutOpen, WizInv
    <3>2. Priced(wiz.checkout) => Priced(wiz.checkout)'
        BY <1>1, <1>2, <2>1, StoredPriced DEF Priced
    <3> QED
        BY <3>1, <3>2
  <2> QED
      BY <1>3, <2>2, <2>3, <2>4 DEF WizInv
<1>5. CASE c.mounted
  <2>1. PICK id : id = IF c.id = 0 THEN Len(camps) + 1 ELSE c.id
      OBVIOUS
  <2>2. PICK k : k = Checkout(id, c.total, c.uncounted, c.len)
      OBVIOUS
  <2>3. wiz' = [wiz EXCEPT !.loading = FALSE, !.checkout = k]
      BY <1>5, <2>1, <2>2 DEF Saved
  <2>4. /\ PageFields \subseteq DOMAIN wiz'
        /\ wiz'.edit = wiz.edit /\ wiz'.form = wiz.form /\ wiz'.checkout = k
      BY <1>1, <2>3, Zenon DEF PageFits
  <2>5. WizTypes'
      BY <1>1, <1>2, <2>4, StoredTypes
  <2>6. OneAtATime'
      BY <1>1, <1>2, <1>5, HeardOne
  <2>7. wiz.edit = c.id /\ c.draft = draft /\ c.id \in 0..Len(camps)
      BY <1>1, <1>5 DEF SaveFits
  <2>8. /\ id \in 1..Len(camps') /\ camps'[id].draft \in {0, draft}
        /\ c.id = 0 => /\ id = Len(camps) + 1
                       /\ camps'[id].len = c.len /\ camps'[id].size = c.size
    <3>1. Len(camps) \in Nat
        BY <1>1 DEF WizTypes
    <3>2. CASE c.id = 0
      <4>1. Len(camps') = Len(camps) + 1 /\ camps'[Len(camps) + 1] = NewCampaign(c)
          BY <1>1, <1>2, <3>2, Storing
      <4> QED
          BY <2>1, <2>7, <3>1, <3>2, <4>1, NewCampaignIs
    <3>3. CASE c.id # 0
      <4>1. Len(camps') = Len(camps) /\ camps'[c.id].draft = 0
          BY <1>1, <1>2, <3>3, Storing
      <4> QED
          BY <2>1, <2>7, <3>1, <3>3, <4>1
    <3> QED
        BY <3>2, <3>3
  <2>9. /\ {"id", "total", "uncounted", "len", "read", "balance"} \subseteq DOMAIN k
        /\ k.id = id /\ k.total = c.total /\ k.uncounted = c.uncounted /\ k.len = c.len
        /\ k.balance \in [payg_org : BOOLEAN, sub : Nat, payg : Nat]
      BY <2>2, CheckoutIs
  <2>10. \A d \in SaveCalls' : d.id \in 0..Len(camps)
      BY <1>1, <1>2 DEF SaveCalls, WizTypes, PostFits, SaveFits
  <2>11. Priced(k)'
    <3>1. Len(camps) \in Nat
        BY <1>1 DEF WizTypes
    <3>2. wiz'.edit = 0 =>
            /\ camps'[k.id].len = k.len
            /\ camps'[k.id].size <= k.total + Missing(k.uncounted)
            /\ \A d \in SaveCalls' : d.id # k.id
        BY <1>1, <2>4, <2>7, <2>8, <2>9, <2>10, <3>1 DEF SaveFits
    <3> QED
        BY <1>1, <1>2, <2>8, <2>9, <3>2 DEF Priced, SaveFits
  <2>12. Priced(wiz.checkout)'
      BY <2>4, <2>11 DEF Priced
  <2> QED
      BY <1>3, <2>5, <2>6, <2>12 DEF WizInv
<1> QED
    BY <1>4, <1>5

LEMMA SaveFailsKeeps ==
    ASSUME WizInv, NEW c \in SaveCalls, SaveFails(c)
    PROVE  WizInv'
<1>1. /\ WizTypes /\ OneAtATime /\ c \in wizCalls /\ PageFits(wiz)
    BY DEF WizInv, WizTypes, SaveCalls
<1>2. /\ camps' = camps \/ camps' = Stores(c)
      /\ wizCalls' = wizCalls \ {c}
      /\ UNCHANGED <<stored, draft, doubt>> /\ FormFits(stored')
    BY <1>1 DEF SaveFails, WizTypes
<1>3. ~doubt' => OneBusy'
    BY <1>1, <1>2, StoredBusy DEF WizInv
<1>4. CASE ~c.mounted
  <2>1. wiz' = wiz
      BY <1>4 DEF SaveFails
  <2>2. WizTypes'
      BY <1>1, <1>2, <2>1, StoredTypes DEF PageFits
  <2>3. OneAtATime'
      BY <1>1, <1>2, <2>1 DEF OneAtATime
  <2>4. CheckoutOpen' => Priced(wiz.checkout)'
    <3>1. CheckoutOpen' => Priced(wiz.checkout)
        BY <2>1 DEF CheckoutOpen, WizInv
    <3>2. Priced(wiz.checkout) => Priced(wiz.checkout)'
        BY <1>1, <1>2, <2>1, StoredPriced DEF Priced
    <3> QED
        BY <3>1, <3>2
  <2> QED
      BY <1>3, <2>2, <2>3, <2>4 DEF WizInv
<1>5. CASE c.mounted
  <2>1. wiz' = [wiz EXCEPT !.loading = FALSE]
      BY <1>5 DEF SaveFails
  <2>2. /\ PageFields \subseteq DOMAIN wiz'
        /\ wiz'.edit = wiz.edit /\ wiz'.form = wiz.form /\ wiz'.checkout = wiz.checkout
      BY <1>1, <2>1, Zenon DEF PageFits
  <2>3. WizTypes'
      BY <1>1, <1>2, <2>2, StoredTypes
  <2>4. OneAtATime'
      BY <1>1, <1>2, <1>5, HeardOne
  <2>5. ~CheckoutOpen'
      BY <1>1, <1>5, <2>2 DEF CheckoutOpen, OneAtATime
  <2> QED
      BY <1>3, <2>3, <2>4, <2>5 DEF WizInv
<1> QED
    BY <1>4, <1>5

-----------------------------------------------------------------------------
\* The checkout: its campaign is nobody's to broadcast yet.
LEMMA SameServer ==
    ASSUME WizInv, UNCHANGED <<camps, stored, draft, doubt>>, wizCalls' = wizCalls,
           wiz'.edit = wiz.edit, wiz'.form = wiz.form,
           PageFields \subseteq DOMAIN wiz'
    PROVE  WizTypes' /\ (~doubt' => OneBusy')
<1>1. PageFits(wiz') /\ PageFits(wiz)' /\ FormFits(stored)'
    BY DEF PageFits, FormFits, WizInv, WizTypes
<1>2. \A c \in wizCalls : PostFits(c)'
    BY DEF PostFits, SaveFits, WizInv, WizTypes
<1> QED
    BY <1>1, <1>2 DEF WizInv, WizTypes, OneBusy, Busy, BroadcastCalls, SaveCalls

LEMMA FetchBalanceKeeps ==
    ASSUME WizInv, FetchBalance
    PROVE  WizInv'
<1>1. /\ PageFits(wiz) /\ CheckoutOpen /\ Priced(wiz.checkout) /\ OneAtATime
      /\ UNCHANGED <<camps, stored, draft, doubt>> /\ wizCalls' = wizCalls
    BY DEF WizInv, WizTypes, FetchBalance
<1>2. PICK w \in Wallets : wiz' = [wiz EXCEPT !.checkout.balance = w, !.checkout.read = TRUE]
    BY DEF FetchBalance
<1>3. PICK k : k = [wiz.checkout EXCEPT !.balance = w, !.read = TRUE]
    OBVIOUS
<1>4. wiz' = [wiz EXCEPT !.checkout = k]
    BY <1>1, <1>2, <1>3, Zenon DEF PageFits
<1>5. /\ PageFields \subseteq DOMAIN wiz'
      /\ wiz'.edit = wiz.edit /\ wiz'.form = wiz.form /\ wiz'.checkout = k
    BY <1>1, <1>4, Zenon DEF PageFits
<1>6. /\ {"id", "total", "uncounted", "len", "read", "balance"} \subseteq DOMAIN k
      /\ k.id = wiz.checkout.id /\ k.total = wiz.checkout.total
      /\ k.uncounted = wiz.checkout.uncounted /\ k.len = wiz.checkout.len /\ k.balance = w
    BY <1>1, <1>3, Zenon DEF Priced
<1>7. w \in [payg_org : BOOLEAN, sub : Nat, payg : Nat]
    BY WizAssumption
<1>8. \A c \in wizCalls : ~c.mounted
    BY <1>1 DEF OneAtATime, CheckoutOpen
<1>9. Priced(wiz.checkout)'
    BY <1>1, <1>5, <1>6, <1>7 DEF Priced, SaveCalls
<1>10. OneAtATime'
    BY <1>1, <1>8 DEF OneAtATime
<1> QED
    BY <1>1, <1>5, <1>9, <1>10, SameServer DEF WizInv

LEMMA CancelCheckoutKeeps ==
    ASSUME WizInv, CancelCheckout
    PROVE  WizInv'
<1>1. /\ PageFits(wiz) /\ CheckoutOpen /\ OneAtATime
      /\ UNCHANGED <<camps, stored, draft, doubt>> /\ wizCalls' = wizCalls
    BY DEF WizInv, WizTypes, CancelCheckout
<1>2. /\ PageFields \subseteq DOMAIN wiz'
      /\ wiz'.edit = wiz.edit /\ wiz'.form = wiz.form /\ wiz'.checkout = NoCheckout
    BY <1>1, Zenon DEF PageFits, CancelCheckout
<1>3. \A c \in wizCalls : ~c.mounted
    BY <1>1 DEF OneAtATime, CheckoutOpen
<1>4. OneAtATime' /\ ~CheckoutOpen'
    BY <1>1, <1>2, <1>3 DEF OneAtATime, CheckoutOpen
<1> QED
    BY <1>1, <1>2, <1>4, SameServer DEF WizInv

LEMMA ConfirmBroadcastKeeps ==
    ASSUME WizInv, NEW use_payg, ConfirmBroadcast(use_payg)
    PROVE  WizInv'
<1>1. /\ WizTypes /\ PageFits(wiz) /\ CheckoutOpen /\ Priced(wiz.checkout) /\ OneAtATime
      /\ UNCHANGED <<camps, stored, draft, doubt>> /\ draft \in Nat \ {0}
    BY DEF WizInv, WizTypes, ConfirmBroadcast, CheckoutOffers
<1>2. PICK id : id = wiz.checkout.id
    OBVIOUS
<1>3. id \in 1..Len(camps) /\ camps[id].draft \in {0, draft}
    BY <1>1, <1>2 DEF Priced
<1>4. PICK b : /\ b = [op |-> "broadcast", then |-> "redirect", id |-> id, mounted |-> TRUE]
               /\ wizCalls' = wizCalls \cup {b}
    BY <1>2 DEF ConfirmBroadcast
<1>5. /\ {"op", "id", "mounted"} \subseteq DOMAIN b
      /\ b.op = "broadcast" /\ b.id = id /\ b.mounted
    BY <1>4
<1>6. wiz' = [wiz EXCEPT !.checkout = NoCheckout, !.loading = TRUE]
    BY DEF ConfirmBroadcast
<1>7. /\ PageFields \subseteq DOMAIN wiz'
      /\ wiz'.edit = wiz.edit /\ wiz'.form = wiz.form /\ wiz'.checkout = NoCheckout
      /\ wiz'.shown = wiz.shown /\ wiz'.loading = TRUE
    BY <1>1, <1>6, Zenon DEF PageFits
<1>8. \A c \in wizCalls : ~c.mounted
    BY <1>1 DEF OneAtATime, CheckoutOpen
<1>9. OneAtATime' /\ ~CheckoutOpen'
    BY <1>1, <1>4, <1>7, <1>8 DEF OneAtATime, CheckoutOpen
<1>10. WizTypes'
  <2>1. PageFits(wiz)' /\ FormFits(stored)'
      BY <1>1, <1>7 DEF PageFits, FormFits, WizTypes
  <2>2. \A c \in wizCalls : PostFits(c)'
      BY <1>1, <1>7 DEF PostFits, SaveFits, WizTypes
  <2>3. PostFits(b)'
      BY <1>1, <1>3, <1>5 DEF PostFits
  <2> QED
      BY <1>1, <1>4, <2>1, <2>2, <2>3 DEF WizTypes
<1>11. ASSUME ~doubt' PROVE OneBusy'
  <2>1. OneBusy
      BY <1>1, <1>11 DEF WizInv
  <2>2. BroadcastCalls' = BroadcastCalls \cup {b}
      BY <1>4, <1>5 DEF BroadcastCalls, SaveCalls
  <2>3. \A i \in 1..Len(camps) : Busy(i)' <=> Busy(i) \/ i = id
      BY <1>1, <1>5, <2>2 DEF Busy
  <2>4. \A j \in 1..Len(camps) :
           Busy(j) /\ camps[j].draft = camps[id].draft => camps[j].draft = 0
    <3>1. SUFFICES ASSUME NEW j \in 1..Len(camps), Busy(j), camps[j].draft = draft
                   PROVE  FALSE
        BY <1>3
    <3>2. camps[j].status = "draft"
        BY <2>1, <3>1 DEF OneBusy
    <3>3. PICK c \in BroadcastCalls : c.id = j
        BY <3>1, <3>2 DEF Busy
    <3>4. c.mounted /\ c \in wizCalls
        BY <2>1, <3>1, <3>3 DEF OneBusy, BroadcastCalls
    <3> QED
        BY <1>8, <3>4
  <2>5. ASSUME NEW i \in 1..Len(camps), NEW j \in 1..Len(camps), i # j, Busy(i)', Busy(j)',
               camps[i].draft = camps[j].draft
        PROVE  camps[i].draft = 0
      BY <2>1, <2>3, <2>4, <2>5 DEF OneBusy
  <2>6. \A d \in BroadcastCalls' : camps[d.id].draft = draft => d.mounted
      BY <1>5, <2>1, <2>2 DEF OneBusy
  <2> QED
      BY <1>1, <2>1, <2>5, <2>6 DEF OneBusy
<1> QED
    BY <1>9, <1>10, <1>11 DEF WizInv

\* The server starts a campaign that is a draft.
LEMMA Starting ==
    ASSUME WizTypes, NEW id \in 1..Len(camps),
           camps' = [camps EXCEPT ![id].status = "sending"]
    PROVE  /\ camps' \in Seq(SavedCampaign) /\ Len(camps') = Len(camps)
           /\ \A i \in 1..Len(camps) :
                /\ camps'[i].draft = camps[i].draft /\ camps'[i].draft <= draft
                /\ i # id => camps'[i] = camps[i]
<1>1. /\ camps \in Seq(SavedCampaign) /\ Len(camps) \in Nat
      /\ \A i \in 1..Len(camps) : camps[i] \in SavedCampaign /\ camps[i].draft <= draft
    BY DEF WizTypes
<1>2. PICK y : y = [camps[id] EXCEPT !.status = "sending"]
    OBVIOUS
<1>3. y \in SavedCampaign /\ y.draft = camps[id].draft
    BY <1>1, <1>2 DEF SavedCampaign
<1>4. camps' = [camps EXCEPT ![id] = y]
    BY <1>1, <1>2
<1>5. /\ camps' \in Seq(SavedCampaign) /\ Len(camps') = Len(camps) /\ camps'[id] = y
      /\ \A i \in 1..Len(camps) : i # id => camps'[i] = camps[i]
    BY <1>1, <1>3, <1>4
<1> QED
    BY <1>1, <1>3, <1>5

LEMMA BroadcastKeeps ==
    ASSUME WizInv, NEW c \in BroadcastCalls, Broadcast(c)
    PROVE  WizInv'
<1>1. /\ WizTypes /\ c \in wizCalls /\ c.id \in 1..Len(camps) /\ draft \in Nat \ {0}
      /\ camps' = [camps EXCEPT ![c.id].status = "sending"] /\ UNCHANGED doubt
    BY DEF WizInv, WizTypes, BroadcastCalls, SaveCalls, PostFits, Broadcast
<1>2. /\ camps' \in Seq(SavedCampaign) /\ Len(camps') = Len(camps)
      /\ \A i \in 1..Len(camps) :
           /\ camps'[i].draft = camps[i].draft /\ camps'[i].draft <= draft
           /\ i # c.id => camps'[i] = camps[i]
    BY <1>1, Starting
<1>3. /\ FormFits(stored') /\ draft' = draft + 1 /\ wiz' = Closed
      /\ wizCalls' = Unheard(wizCalls \ {c}) /\ wizCalls \ {c} \in SUBSET wizCalls
    BY EmptyFits DEF Broadcast, Redirects
<1>4. WizTypes' /\ OneAtATime' /\ ~CheckoutOpen'
  <2>1. Len(camps) \in Nat /\ \A i \in 1..Len(camps) : camps[i].draft \in Nat
    <3>1. Len(camps) \in Nat /\ \A i \in 1..Len(camps) : camps[i] \in SavedCampaign
        BY <1>1 DEF WizTypes
    <3> QED
        BY <3>1 DEF SavedCampaign
  <2>2. /\ draft' \in Nat /\ draft' >= draft /\ Len(camps') >= Len(camps)
        /\ \A i \in 1..Len(camps') : camps'[i].draft <= draft'
      BY <1>1, <1>2, <1>3, <2>1
  <2> QED
      BY <1>1, <1>2, <1>3, <2>2, ClosingTypes
<1>5. ASSUME ~doubt' PROVE OneBusy'
  <2>1. OneBusy
      BY <1>1, <1>5 DEF WizInv
  <2>2. \A d \in BroadcastCalls' : \E e \in BroadcastCalls : d.id = e.id
      BY <1>1, <1>3, UnheardPosts
  <2>3. \A e \in BroadcastCalls : e.id \in 1..Len(camps)
      BY <1>1 DEF WizTypes, PostFits, BroadcastCalls, SaveCalls
  <2>4. \A i \in 1..Len(camps') : Busy(i)' => i \in 1..Len(camps) /\ Busy(i)
      BY <1>2, <2>2, <2>3 DEF Busy
  <2>5. \A d \in BroadcastCalls' : d.id \in 1..Len(camps')
      BY <1>2, <2>2, <2>3
  <2> QED
      BY <1>1, <1>2, <1>3, <2>1, <2>4, <2>5, BusyKeeps
<1> QED
    BY <1>4, <1>5 DEF WizInv

LEMMA BroadcastFailsKeeps ==
    ASSUME WizInv, NEW c \in BroadcastCalls, BroadcastFails(c)
    PROVE  WizInv'
<1>1. /\ WizTypes /\ OneAtATime /\ PageFits(wiz) /\ c \in wizCalls /\ c.id \in 1..Len(camps)
      /\ wizCalls' = wizCalls \ {c} /\ UNCHANGED <<stored, draft>> /\ FormFits(stored')
      /\ Len(camps) \in Nat
    BY DEF WizInv, WizTypes, BroadcastCalls, SaveCalls, PostFits, BroadcastFails
<1>2. \/ UNCHANGED <<camps, doubt>>
      \/ doubt' /\ camps' = [camps EXCEPT ![c.id].status = "sending"]
    BY DEF BroadcastFails
<1>3. /\ camps' \in Seq(SavedCampaign) /\ Len(camps') = Len(camps)
      /\ \A i \in 1..Len(camps) : /\ camps'[i].draft = camps[i].draft /\ camps'[i].draft <= draft
                                  /\ camps'[i].len = camps[i].len /\ camps'[i].size = camps[i].size
  <2>1. CASE UNCHANGED camps
      BY <1>1, <2>1 DEF WizTypes
  <2>2. CASE camps' = [camps EXCEPT ![c.id].status = "sending"]
    <3>1. /\ camps' \in Seq(SavedCampaign) /\ Len(camps') = Len(camps)
          /\ \A i \in 1..Len(camps) :
               /\ camps'[i].draft = camps[i].draft /\ camps'[i].draft <= draft
               /\ i # c.id => camps'[i] = camps[i]
        BY <1>1, <2>2, Starting
    <3>2. camps'[c.id].len = camps[c.id].len /\ camps'[c.id].size = camps[c.id].size
      <4>1. camps \in Seq(SavedCampaign) /\ camps[c.id] \in SavedCampaign
          BY <1>1 DEF WizTypes
      <4>2. camps'[c.id] = [camps[c.id] EXCEPT !.status = "sending"]
          BY <1>1, <2>2, <4>1
      <4> QED
          BY <4>1, <4>2 DEF SavedCampaign
    <3> QED
        BY <3>1, <3>2
  <2> QED
      BY <1>2, <2>1, <2>2
<1>4. /\ PageFields \subseteq DOMAIN wiz'
      /\ wiz'.edit = wiz.edit /\ wiz'.form = wiz.form /\ wiz'.checkout = wiz.checkout
      /\ wiz'.shown = wiz.shown /\ (~c.mounted => wiz' = wiz)
  <2>1. CASE c.mounted
      BY <1>1, <2>1, Zenon DEF BroadcastFails, PageFits
  <2>2. CASE ~c.mounted
      BY <1>1, <2>2 DEF BroadcastFails, PageFits
  <2> QED
      BY <2>1, <2>2
<1>5. WizTypes'
  <2>1. PageFits(wiz')
      BY <1>1, <1>4 DEF PageFits
  <2>2. Len(camps') >= Len(camps) /\ \A i \in 1..Len(camps') : camps'[i].draft <= draft
      BY <1>1, <1>3
  <2> QED
      BY <1>1, <1>3, <1>4, <2>1, <2>2, AnsweredTypes
<1>6. OneAtATime'
  <2>1. CASE c.mounted
      BY <1>1, <2>1, HeardOne
  <2>2. CASE ~c.mounted
      BY <1>1, <1>4, <2>2 DEF OneAtATime
  <2> QED
      BY <2>1, <2>2
<1>7. CheckoutOpen' => Priced(wiz.checkout)'
  <2>1. CheckoutOpen' => Priced(wiz.checkout)
      BY <1>4 DEF CheckoutOpen, WizInv
  <2>2. SaveCalls' \subseteq SaveCalls
      BY <1>1 DEF SaveCalls
  <2> QED
      BY <1>1, <1>3, <1>4, <2>1, <2>2 DEF Priced
<1>8. ASSUME ~doubt' PROVE OneBusy'
  <2>1. UNCHANGED <<camps, doubt>> /\ OneBusy
      BY <1>2, <1>8 DEF WizInv
  <2>2. BroadcastCalls' \subseteq BroadcastCalls
      BY <1>1 DEF BroadcastCalls, SaveCalls
  <2> QED
      BY <1>1, <2>1, <2>2 DEF OneBusy, Busy
<1> QED
    BY <1>5, <1>6, <1>7, <1>8 DEF WizInv

-----------------------------------------------------------------------------
LEMMA WizStarts ==
    ASSUME WizInit PROVE WizInv
<1>1. /\ camps = <<[size |-> Edited, len |-> 1, status |-> "draft", draft |-> 0]>>
      /\ stored \in {EmptyForm} \cup Drafts /\ wiz = Closed /\ wizCalls = {} /\ draft = 1
    BY DEF WizInit
<1>2. /\ camps \in Seq(SavedCampaign) /\ Len(camps) = 1 /\ camps[1].draft = 0
      /\ camps[1].status = "draft"
    BY <1>1, WizAssumption DEF SavedCampaign
<1>3. FormFits(stored)
  <2>1. ASSUME NEW f \in Forms PROVE FormFits(f)
      BY <2>1 DEF Forms, FormFits
  <2> QED
      BY <1>1, <2>1, EmptyFits, WizAssumption
<1>4. PageFits(wiz) /\ ~wiz.shown
    BY <1>1, <1>2, ClosedIs, EmptyFits DEF PageFits
<1>5. WizTypes
    BY <1>1, <1>2, <1>3, <1>4 DEF WizTypes
<1>6. OneAtATime /\ ~CheckoutOpen
    BY <1>1, <1>4 DEF OneAtATime, CheckoutOpen
<1>7. OneBusy
    BY <1>1, <1>2 DEF OneBusy, Busy, BroadcastCalls, SaveCalls
<1> QED
    BY <1>5, <1>6, <1>7 DEF WizInv

LEMMA WizSteps ==
    ASSUME WizInv, WizNext PROVE WizInv'
<1>1. CASE \/ (\E i \in 0..MaxSaved : Mount(i)) \/ LeavePage \/ FetchCampaignToEdit
           \/ SegmentsRead \/ SegmentsFail
    BY <1>1, MountKeeps, LeavePageKeeps, FetchCampaignToEditKeeps, SegmentsKeep
<1>2. CASE \/ NextFromName \/ NextFromRecipients \/ NextFromTemplate \/ StepBack
    BY <1>2, GoToKeeps DEF NextFromName, NextFromRecipients, NextFromTemplate, StepBack
<1>3. CASE (\E m \in {"contacts", "groups"} : OpenModal(m)) \/ CloseModal
    BY <1>3, ModalKeeps
<1>4. CASE \E b \in BOOLEAN : SelectAll(b) \/ SetSchedule(b) \/ ConfirmBroadcast(b)
  <2>1. ASSUME NEW b, SelectAll(b) PROVE WizInv'
      BY <2>1, ContactsKeep DEF SelectAll
  <2>2. ASSUME NEW b, SetSchedule(b) PROVE WizInv'
      BY <2>2, ScheduleKeeps DEF SetSchedule
  <2> QED
      BY <1>4, <2>1, <2>2, ConfirmBroadcastKeeps
<1>5. CASE \/ \E p \in Person : Toggle("contacts", p) \/ Drop("contacts", p)
           \/ \E g \in Group : Toggle("groups", g) \/ Drop("groups", g)
           \/ \E r \in Raw : AddRaw(r) \/ Drop("raw", r)
    BY <1>5, ChoosingKeeps
<1>6. CASE \E n \in TextLength : WriteTemplate(n) \/ SelectTemplate(n)
    BY <1>6, WritingKeeps
<1>7. CASE \/ \E then \in {"redirect", "checkout"} : HandleSubmit(then)
           \/ FetchBalance \/ CancelCheckout
    BY <1>7, HandleSubmitKeeps, FetchBalanceKeeps, CancelCheckoutKeeps
<1>8. CASE \E c \in SaveCalls : Saved(c) \/ SaveFails(c)
  <2>1. ASSUME NEW c \in SaveCalls, Saved(c) PROVE WizInv'
    <3>1. CASE c.then = "redirect"
      <4>1. camps' = Stores(c) /\ Redirects(c) /\ UNCHANGED doubt
          BY <2>1, <3>1 DEF Saved
      <4> QED
          BY <4>1, SavedRedirects
    <3>2. CASE c.then # "redirect"
        BY <2>1, <3>2, SavedOpens
    <3> QED
        BY <3>1, <3>2
  <2> QED
      BY <1>8, <2>1, SaveFailsKeeps
<1>9. CASE \E c \in BroadcastCalls : Broadcast(c) \/ BroadcastFails(c)
    BY <1>9, BroadcastKeeps, BroadcastFailsKeeps
<1> QED
    BY <1>1, <1>2, <1>3, <1>4, <1>5, <1>6, <1>7, <1>8, <1>9, Zenon DEF WizNext

LEMMA WizStays ==
    ASSUME WizInv, UNCHANGED wizVars PROVE WizInv'
<1>1. PageFits(wiz)' /\ PageFits(wiz') /\ FormFits(stored')
    BY DEF wizVars, PageFits, FormFits, WizInv, WizTypes
<1> QED
    BY <1>1, FormOnly DEF wizVars

\* What the balance covers at the price the checkout counts, it covers at the
\* price of the campaign.
LEMMA WizCovers ==
    ASSUME WizInv PROVE CoveredIsCovered
<1> SUFFICES ASSUME CheckoutOpen, SaysCovered(wiz.checkout), wiz.edit = 0
             PROVE  Needs(wiz.checkout) <= Has(wiz.checkout) + Missed(wiz.checkout)
    BY DEF CoveredIsCovered
<1> DEFINE k == wiz.checkout
<1>1. Priced(k) /\ camps \in Seq(SavedCampaign)
    BY DEF WizInv, WizTypes
<1>2. PICK missing : missing = Missing(k.uncounted)
    OBVIOUS
<1>3. /\ k.id \in 1..Len(camps) /\ k.total \in Nat /\ k.len \in Nat
      /\ camps[k.id].len = k.len /\ camps[k.id].size <= k.total + missing
    BY <1>1, <1>2 DEF Priced
<1>4. camps[k.id].size \in Nat
  <2>1. camps[k.id] \in SavedCampaign
      BY <1>1, <1>3
  <2> QED
      BY <2>1 DEF SavedCampaign
<1>5. missing \in Nat
    BY <1>1, <1>2, CountsEveryone DEF Priced, Missing
<1>6. k.balance.sub \in Nat /\ k.balance.payg \in Nat
    BY <1>1 DEF Priced
<1>7. PICK p \in Nat : p = Parts(k.len)
    BY <1>3, PartsCount
<1>8. PICK size \in Nat, total \in Nat : size = camps[k.id].size /\ total = k.total
    BY <1>3, <1>4
<1>9. /\ size * p <= total * p + missing * p
      /\ size * p \in Nat /\ total * p \in Nat /\ missing * p \in Nat
  <2> DEFINE all == total + missing
  <2>1. all \in Nat /\ size <= all
      BY <1>3, <1>5, <1>8
  <2>2. size * p <= all * p /\ size * p \in Nat
    <3> HIDE DEF all
    <3> QED
        BY <2>1, Multiplied
  <2>3. total * p \in Nat /\ missing * p \in Nat
      BY <1>5
  <2>4. all * p = total * p + missing * p
      BY <1>5
  <2> QED
      BY <2>2, <2>3, <2>4
<1>10. PICK needs \in Nat, shown \in Nat, missed \in Nat :
         needs = size * p /\ shown = total * p /\ missed = missing * p
    BY <1>9
<1>11. /\ Needs(k) = needs /\ Missed(k) = missed
       /\ needs <= shown + missed
    BY <1>2, <1>3, <1>7, <1>8, <1>9, <1>10 DEF Needs, Missed, Missing
<1>12. \/ k.balance.payg_org /\ k.balance.payg >= shown
       \/ ~k.balance.payg_org /\ k.balance.sub >= shown
       \/ ~k.balance.payg_org /\ k.balance.payg >= shown - k.balance.sub
    BY <1>7, <1>8, <1>10
    DEF SaysCovered, PaygOrgCovered, PlanCovered, FallbackCovered, Needed
<1>13. needs <= k.balance.payg + (IF k.balance.payg_org THEN 0 ELSE k.balance.sub) + missed
    BY <1>6, <1>11, <1>12
<1> QED
    BY <1>11, <1>13 DEF Has

LEMMA WizBroadcastsOnce ==
    ASSUME WizInv PROVE OneBroadcastPerDraft
    BY DEF WizInv, OneBusy, Busy, OneBroadcastPerDraft

\* CoveredIsCovered of src/nexra-dashboard/src/pages/CreateCampaignPage.js and
\* BroadcastCheckoutModal.js: for any contacts, segments, lengths and balances,
\* any number of pages opened, and reads that are slow or fail, what the
\* checkout calls covered is, but for the segments it could not count.
THEOREM CoveredCorrect == WizSpec => []CoveredIsCovered
<1> QED
    BY WizStarts, WizSteps, WizStays, WizCovers, PTL DEF WizSpec

\* OneBroadcastPerDraft of src/nexra-dashboard/src/pages/CreateCampaignPage.js:
\* however often the page is opened, saved and left, one draft is broadcast
\* once unless the outcome of a broadcast never reached the page.
THEOREM OneBroadcastCorrect == WizSpec => []OneBroadcastPerDraft
<1> QED
    BY WizStarts, WizSteps, WizStays, WizBroadcastsOnce, PTL DEF WizSpec
=============================================================================
