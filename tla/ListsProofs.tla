---------------------------- MODULE ListsProofs -----------------------------
(***************************************************************************)
(* What holds of what the pages show, for any messages, filters, pages and  *)
(* segments.  Drawer: a message is enqueued again once per failure because  *)
(* the server reads what failed when the retry arrives, whatever the drawer *)
(* showed (Spared); what is ticked is shown because ticks go when rows are  *)
(* replaced (TicksAmongRows).  History: the last read has the key there is  *)
(* but for a term the timer has still to read with (LastReadIsCurrent).     *)
(* Pages: unless two reads raced, those under way are of the key there is   *)
(* (Focused), and three pages never race (Steady).  Contacts: what the view *)
(* of a segment asked and still hears is of the segment that is open        *)
(* (CallFits), so the rows it shows are (RowsFit).                          *)
(***************************************************************************)
EXTENDS Drawer, History, Pages, ContactBook, FiniteSetTheorems, TLAPS

-----------------------------------------------------------------------------
(* The drawer of a campaign.                                                *)

\* Failures and retries are counted.
Outcomes == [failed : BOOLEAN, failures : Nat, retries : Nat, overlaps : Nat]

CallFields == {"op", "n", "campaign", "page", "ids", "button", "left", "mounted"}
\* Retries have numbers of their own; one that has not read holds nothing.
Numbered(r) ==
    /\ r.n \in 1..nRetries /\ (r.op = "retry" => r.left = {})
    /\ r = [x \in CallFields |-> r[x]]
Alone(C) == \A r, q \in C : r.n = q.n => r = q
CallsInv == /\ nRetries \in Nat /\ Alone(RetryCalls)
            /\ \A r \in RetryCalls : Numbered(r) /\ r.op # "read"

\* The numbers of the retries that hold a message.  Its retries so far, those
\* to come and one more while its failure is in nobody's hand have a failure
\* or an overlap each.
HandOf(C, m) == {r.n : r \in {x \in C : m \in x.left}}
Within(o, H) ==
    o.retries + Cardinality(H) + (IF o.failed /\ H = {} THEN 1 ELSE 0) <= o.failures + o.overlaps
Spared ==
    /\ outcome \in [Message -> Outcomes]
    /\ \A m \in Message : Within(outcome[m], HandOf(RetryCalls, m))

\* The drawer's fields, and its ticks: on rows it has, loading or not.
DrawerShape ==
    drawer = [campaign |-> drawer.campaign, page |-> drawer.page, rows |-> drawer.rows,
              ticked |-> drawer.ticked, loading |-> drawer.loading, busy |-> drawer.busy]
TicksAmongRows == drawer.ticked \subseteq FailedRows(drawer.rows)

DrawerInv == CallsInv /\ Spared /\ DrawerShape /\ TicksAmongRows

-----------------------------------------------------------------------------
LEMMA DrawerStarts == DrawerInit => DrawerInv
<1> SUFFICES ASSUME DrawerInit PROVE DrawerInv
    OBVIOUS
<1>1. RetryCalls = {} /\ CallsInv
    BY DEF DrawerInit, RetryCalls, CallsInv, Alone
<1>2. \A m \in Message : HandOf(RetryCalls, m) = {}
    BY <1>1 DEF HandOf
<1>3. Spared
    BY <1>2, FS_EmptySet DEF DrawerInit, Spared, Outcomes, Within
<1>4. DrawerShape /\ TicksAmongRows
    BY DEF DrawerInit, ShutDrawer, DrawerShape, TicksAmongRows
<1> QED
    BY <1>1, <1>3, <1>4 DEF DrawerInv

\* What happens to a message keeps the count of it typed ...
LEMMA OutcomeTyped ==
    ASSUME NEW o \in Outcomes
    PROVE  /\ [o EXCEPT !.failed = FALSE, !.retries = @ + 1] \in Outcomes
           /\ [o EXCEPT !.failed = TRUE, !.failures = @ + 1] \in Outcomes
           /\ [o EXCEPT !.overlaps = @ + 1] \in Outcomes
           /\ o.failures \in Nat /\ o.retries \in Nat /\ o.overlaps \in Nat
<1>1. /\ o.failures + 1 \in Nat /\ o.retries + 1 \in Nat /\ o.overlaps + 1 \in Nat
      /\ o.failures \in Nat /\ o.retries \in Nat /\ o.overlaps \in Nat
    BY DEF Outcomes
<1> QED
    BY Zenon, <1>1 DEF Outcomes

\* ... and within its failures and overlaps: when a retry takes it in hand,
\* enqueues it or lets it go, and when it fails.
LEMMA WithinKept ==
    ASSUME NEW o \in Outcomes, NEW H, IsFiniteSet(H), NEW n, Within(o, H)
    PROVE  /\ n \notin H /\ o.failed /\ H = {} => Within(o, H \cup {n})
           /\ n \notin H => Within([o EXCEPT !.overlaps = @ + 1], H \cup {n})
           /\ n \in H => Within([o EXCEPT !.failed = FALSE, !.retries = @ + 1], H \ {n})
           /\ n \in H => Within(o, H \ {n})
           /\ ~o.failed => Within([o EXCEPT !.failed = TRUE, !.failures = @ + 1], H)
<1>1. /\ o.failures \in Nat /\ o.retries \in Nat /\ o.overlaps \in Nat
      /\ Cardinality(H) \in Nat /\ (H = {} => Cardinality(H) = 0)
    BY OutcomeTyped, FS_CardinalityType, FS_EmptySet
<1>2. n \notin H => Cardinality(H \cup {n}) = Cardinality(H) + 1
    BY FS_AddElement
<1>3. n \in H => Cardinality(H \ {n}) = Cardinality(H) - 1
    BY FS_RemoveElement
<1>4. H \cup {n} # {}
    OBVIOUS
<1>5. n \notin H /\ o.failed /\ H = {} => Within(o, H \cup {n})
    BY <1>1, <1>2, <1>4 DEF Within
<1>6. ASSUME n \notin H PROVE Within([o EXCEPT !.overlaps = @ + 1], H \cup {n})
  <2> DEFINE c == [o EXCEPT !.overlaps = @ + 1]
  <2>1. c.overlaps = o.overlaps + 1 /\ c.failures = o.failures /\ c.retries = o.retries
      BY DEF Outcomes
  <2> HIDE DEF c
  <2>2. Within(c, H \cup {n})
      BY <1>1, <1>2, <1>4, <1>6, <2>1 DEF Within
  <2> QED
      BY <2>2 DEF c
<1>7. ASSUME n \in H
      PROVE  Within([o EXCEPT !.failed = FALSE, !.retries = @ + 1], H \ {n})
  <2> DEFINE c == [o EXCEPT !.failed = FALSE, !.retries = @ + 1]
  <2>1. /\ c.overlaps = o.overlaps /\ c.failures = o.failures /\ c.retries = o.retries + 1
        /\ ~c.failed
      BY DEF Outcomes
  <2> HIDE DEF c
  <2>2. Within(c, H \ {n})
      BY <1>1, <1>3, <1>7, <2>1 DEF Within
  <2> QED
      BY <2>2 DEF c
<1>8. n \in H => Within(o, H \ {n})
    BY <1>1, <1>3 DEF Within
<1>9. ASSUME ~o.failed PROVE Within([o EXCEPT !.failed = TRUE, !.failures = @ + 1], H)
  <2> DEFINE c == [o EXCEPT !.failed = TRUE, !.failures = @ + 1]
  <2>1. c.overlaps = o.overlaps /\ c.failures = o.failures + 1 /\ c.retries = o.retries
      BY DEF Outcomes
  <2> HIDE DEF c
  <2>2. Within(c, H)
      BY <1>1, <1>9, <2>1 DEF Within
  <2> QED
      BY <2>2 DEF c
<1> QED
    BY <1>5, <1>6, <1>7, <1>8, <1>9

\* The hands on a message are finitely many.
LEMMA HandsFinite ==
    ASSUME CallsInv, NEW m PROVE IsFiniteSet(HandOf(RetryCalls, m))
<1>1. HandOf(RetryCalls, m) \subseteq 1..nRetries
    BY DEF HandOf, CallsInv, Numbered
<1>2. IsFiniteSet(1..nRetries)
    BY FS_Interval DEF CallsInv
<1> QED
    BY <1>1, <1>2, FS_Subset

\* A retry that goes lets go of all it held; one that moves on holds what it
\* holds then.
LEMMA CallGone ==
    ASSUME Alone(RetryCalls), NEW r \in RetryCalls, RetryCalls' = RetryCalls \ {r}
    PROVE  /\ Alone(RetryCalls')
           /\ \A m : HandOf(RetryCalls', m) = HandOf(RetryCalls, m) \ {r.n}
    BY DEF Alone, HandOf
LEMMA CallMoved ==
    ASSUME Alone(RetryCalls), NEW r \in RetryCalls, NEW c, c.n = r.n,
           RetryCalls' = (RetryCalls \ {r}) \cup {c}
    PROVE  /\ Alone(RetryCalls')
           /\ \A m : m \in c.left => HandOf(RetryCalls', m) = HandOf(RetryCalls, m) \cup {r.n}
           /\ \A m : m \notin c.left => HandOf(RetryCalls', m) = HandOf(RetryCalls, m) \ {r.n}
           /\ \A m : m \in r.left <=> r.n \in HandOf(RetryCalls, m)
<1>1. Alone(RetryCalls')
    BY DEF Alone
<1>2. \A m : m \in c.left => HandOf(RetryCalls', m) = HandOf(RetryCalls, m) \cup {r.n}
    BY DEF Alone, HandOf
<1>3. \A m : m \notin c.left => HandOf(RetryCalls', m) = HandOf(RetryCalls, m) \ {r.n}
    BY DEF Alone, HandOf
<1>4. \A m : m \in r.left <=> r.n \in HandOf(RetryCalls, m)
    BY DEF Alone, HandOf
<1> QED
    BY <1>1, <1>2, <1>3, <1>4

\* Reads and presses leave what is in hand.
LEMMA HandsKept ==
    ASSUME DrawerInv, UNCHANGED outcome,
           RetryCalls' = RetryCalls /\ UNCHANGED nRetries
    PROVE  CallsInv' /\ Spared'
<1>1. CallsInv'
    BY DEF DrawerInv, CallsInv, Numbered, Alone
<1>2. \A m \in Message : HandOf(RetryCalls', m) = HandOf(RetryCalls, m)
    OBVIOUS
<1>3. Spared'
    BY <1>2 DEF DrawerInv, Spared, HandOf, Within
<1> QED
    BY <1>1, <1>3

LEMMA SparedKept == DrawerInv /\ [DrawerNext]_drawerVars => CallsInv' /\ Spared'
<1> SUFFICES ASSUME DrawerInv, [DrawerNext]_drawerVars PROVE CallsInv' /\ Spared'
    OBVIOUS
<1>0. /\ CallsInv /\ Spared /\ Alone(RetryCalls) /\ nRetries \in Nat
      /\ \A m \in Message : IsFiniteSet(HandOf(RetryCalls, m))
    BY HandsFinite DEF DrawerInv, CallsInv
<1>1. CASE UNCHANGED <<outcome, drawerCalls, nRetries>>
    BY <1>1, HandsKept DEF RetryCalls, ReadCalls
<1>2. ASSUME NEW c \in Campaigns, OpenDrawer(c) PROVE CallsInv' /\ Spared'
  <2>1. RetryCalls' = RetryCalls /\ UNCHANGED <<outcome, nRetries>>
      BY <1>2 DEF OpenDrawer, FetchRecipients, RetryCalls, ReadCalls
  <2> QED
      BY <2>1, HandsKept
<1>3. ASSUME NEW p \in {0, 1}, TurnPage(p) PROVE CallsInv' /\ Spared'
  <2>1. RetryCalls' = RetryCalls /\ UNCHANGED <<outcome, nRetries>>
      BY <1>3 DEF TurnPage, FetchRecipients, RetryCalls, ReadCalls
  <2> QED
      BY <2>1, HandsKept
<1>4. CASE ListBack
  <2>1. RetryCalls' = RetryCalls /\ UNCHANGED <<outcome, nRetries>>
      BY <1>4 DEF ListBack, FetchRecipients, RetryCalls, ReadCalls
  <2> QED
      BY <2>1, HandsKept
<1>5. ASSUME NEW r \in ReadCalls, RecipientsRead(r) PROVE CallsInv' /\ Spared'
  <2>1. RetryCalls' = RetryCalls /\ UNCHANGED <<outcome, nRetries>>
      BY <1>5 DEF RecipientsRead, RetryCalls, ReadCalls
  <2> QED
      BY <2>1, HandsKept
<1>6. ASSUME NEW ids, NEW button, Retry(ids, button) PROVE CallsInv' /\ Spared'
  <2> DEFINE c == [op |-> "retry", n |-> nRetries', campaign |-> drawer.campaign,
                   page |-> drawer.page, ids |-> ids, button |-> button, left |-> {},
                   mounted |-> TRUE]
  <2>1. /\ nRetries' = nRetries + 1 /\ UNCHANGED outcome
        /\ drawerCalls' = drawerCalls \cup {c} /\ c.op = "retry" /\ c.n = nRetries + 1
        /\ c.left = {} /\ c = [x \in CallFields |-> c[x]]
      BY <1>6 DEF Retry, CallFields
  <2>2. RetryCalls' = RetryCalls \cup {c}
      BY <2>1 DEF RetryCalls, ReadCalls
  <2> HIDE DEF c
  <2>3. c.n \in 1..(nRetries + 1)
      BY <1>0, <2>1
  <2>4. \A r \in RetryCalls : Numbered(r)' /\ r.n # c.n
      BY <1>0, <2>1 DEF CallsInv, Numbered
  <2>5. CallsInv'
      BY <1>0, <2>1, <2>2, <2>3, <2>4 DEF CallsInv, Alone, Numbered
  <2>6. \A m \in Message : HandOf(RetryCalls', m) = HandOf(RetryCalls, m)
      BY <2>1, <2>2 DEF HandOf
  <2>7. Spared'
      BY <1>0, <2>1, <2>6 DEF Spared
  <2> QED
      BY <2>5, <2>7
<1>7. CASE SkeletonShown
  <2>1. /\ RetryCalls' = {[r EXCEPT !.mounted = FALSE] : r \in RetryCalls}
        /\ UNCHANGED <<outcome, nRetries>>
    <3>1. drawerCalls' = {[r EXCEPT !.mounted = FALSE] : r \in RetryCalls}
        BY <1>7 DEF SkeletonShown
    <3>2. \A r \in RetryCalls : [r EXCEPT !.mounted = FALSE].op # "read"
      <4> SUFFICES ASSUME NEW r \in RetryCalls, NEW c, c = [r EXCEPT !.mounted = FALSE]
                   PROVE  c.op # "read"
          OBVIOUS
      <4>1. c.op = r.op
          BY <1>0 DEF CallsInv, Numbered, CallFields
      <4> QED
          BY <1>0, <4>1 DEF CallsInv
    <3> QED
        BY <1>7, <3>1, <3>2 DEF RetryCalls, ReadCalls, SkeletonShown
  <2>2. ASSUME NEW c \in RetryCalls'
        PROVE  \E r \in RetryCalls :
                 /\ Numbered(c) /\ c.n = r.n /\ c.left = r.left /\ c.op = r.op
                 /\ c = [r EXCEPT !.mounted = FALSE]
    <3>1. PICK r \in RetryCalls : c = [r EXCEPT !.mounted = FALSE]
        BY <2>1
    <3>2. c.n = r.n /\ c.left = r.left /\ c.op = r.op /\ c = [x \in CallFields |-> c[x]]
        BY <1>0, <3>1 DEF CallsInv, Numbered, CallFields
    <3> QED
        BY <1>0, <3>1, <3>2 DEF CallsInv, Numbered
  <2>3. CallsInv'
    <3>1. ASSUME NEW c \in RetryCalls', NEW d \in RetryCalls', c.n = d.n PROVE c = d
      <4>1. PICK r \in RetryCalls : c.n = r.n /\ c = [r EXCEPT !.mounted = FALSE]
          BY <2>2
      <4>2. PICK q \in RetryCalls : d.n = q.n /\ d = [q EXCEPT !.mounted = FALSE]
          BY <2>2
      <4>3. r = q
          BY <1>0, <3>1, <4>1, <4>2 DEF Alone
      <4> QED
          BY <4>1, <4>2, <4>3
    <3>2. \A c \in RetryCalls' : Numbered(c)' /\ c.op # "read"
        BY <1>0, <2>1, <2>2 DEF CallsInv, Numbered
    <3> QED
        BY <1>0, <2>1, <3>1, <3>2 DEF CallsInv, Alone
  <2>4. ASSUME NEW m \in Message PROVE HandOf(RetryCalls', m) = HandOf(RetryCalls, m)
    <3>1. HandOf(RetryCalls', m) \subseteq HandOf(RetryCalls, m)
        BY <2>2 DEF HandOf
    <3>2. ASSUME NEW r \in RetryCalls, m \in r.left PROVE r.n \in HandOf(RetryCalls', m)
      <4>1. PICK c \in RetryCalls' : c = [r EXCEPT !.mounted = FALSE]
          BY <2>1
      <4>2. c.n = r.n /\ c.left = r.left
          BY <1>0, <4>1 DEF CallsInv, Numbered, CallFields
      <4> QED
          BY <3>2, <4>1, <4>2 DEF HandOf
    <3> QED
        BY <3>1, <3>2 DEF HandOf
  <2>5. Spared'
      BY <1>0, <2>1, <2>4 DEF Spared
  <2> QED
      BY <2>3, <2>5
<1>8. ASSUME NEW r \in RetryCalls, RetryReads(r) PROVE CallsInv' /\ Spared'
  <2> DEFINE c == [r EXCEPT !.op = "retrying", !.left = Found(r)]
  <2>1. /\ UNCHANGED nRetries /\ drawerCalls' = (drawerCalls \ {r}) \cup {c} /\ r.op = "retry"
        /\ outcome' = [m \in Message |-> IF m \in Found(r) /\ Holders(m) # {}
             THEN [outcome[m] EXCEPT !.overlaps = @ + 1] ELSE outcome[m]]
      BY <1>8 DEF RetryReads, PutCall
  <2>0. c = [r EXCEPT !.op = "retrying", !.left = Found(r)]
      OBVIOUS
  <2> HIDE DEF c
  <2>2. c.n = r.n /\ c.left = Found(r) /\ c.op = "retrying" /\ Numbered(c) /\ r.left = {}
    <3>1. c.n = r.n /\ c.left = Found(r) /\ c.op = "retrying" /\ c = [x \in CallFields |-> c[x]]
        BY <1>0, <2>0, <2>1 DEF CallsInv, Numbered, CallFields
    <3> QED
        BY <1>0, <2>1, <3>1 DEF CallsInv, Numbered
  <2>3. RetryCalls' = (RetryCalls \ {r}) \cup {c}
      BY <2>1, <2>2 DEF RetryCalls, ReadCalls
  <2>4. Alone(RetryCalls')
      BY <1>0, <2>2, <2>3, CallMoved
  <2>5. CallsInv'
      BY <1>0, <2>1, <2>2, <2>3, <2>4 DEF CallsInv, Numbered
  <2>6. ASSUME NEW m \in Message PROVE Within(outcome'[m], HandOf(RetryCalls', m))
    <3>1. /\ outcome[m] \in Outcomes /\ Within(outcome[m], HandOf(RetryCalls, m))
          /\ IsFiniteSet(HandOf(RetryCalls, m)) /\ r.n \notin HandOf(RetryCalls, m)
        BY <1>0, <2>2, <2>3, CallMoved DEF Spared
    <3>2. CASE m \notin Found(r)
      <4>1. HandOf(RetryCalls', m) = HandOf(RetryCalls, m) \ {r.n}
          BY <1>0, <2>2, <2>3, <3>2, CallMoved
      <4>2. outcome'[m] = outcome[m]
          BY <2>1, <3>2
      <4>3. HandOf(RetryCalls, m) \ {r.n} = HandOf(RetryCalls, m)
          BY <3>1
      <4> QED
          BY <3>1, <4>1, <4>2, <4>3
    <3>3. CASE m \in Found(r)
      <4>1. HandOf(RetryCalls', m) = HandOf(RetryCalls, m) \cup {r.n} /\ outcome[m].failed
          BY <1>0, <2>2, <2>3, <3>3, CallMoved DEF Found
      <4>2. Holders(m) = {} <=> HandOf(RetryCalls, m) = {}
          BY DEF Holders, HandOf
      <4>3. CASE Holders(m) = {}
        <5>1. outcome'[m] = outcome[m] /\ HandOf(RetryCalls, m) = {}
            BY <2>1, <4>2, <4>3
        <5>2. Within(outcome[m], HandOf(RetryCalls, m) \cup {r.n})
            BY <3>1, <4>1, <5>1, WithinKept
        <5> QED
            BY <4>1, <5>1, <5>2
      <4>4. CASE Holders(m) # {}
        <5>1. outcome'[m] = [outcome[m] EXCEPT !.overlaps = @ + 1]
            BY <2>1, <3>3, <4>4
        <5>2. Within([outcome[m] EXCEPT !.overlaps = @ + 1], HandOf(RetryCalls, m) \cup {r.n})
            BY <3>1, WithinKept
        <5> QED
            BY <4>1, <5>1, <5>2
      <4> QED
          BY <4>3, <4>4
    <3> QED
        BY <3>2, <3>3
  <2>7. outcome' \in [Message -> Outcomes]
      BY <1>0, <2>1, OutcomeTyped DEF Spared
  <2> QED
      BY <2>5, <2>6, <2>7 DEF Spared
<1>9. ASSUME NEW r \in RetryCalls, NEW S \in SUBSET r.left, RetryEnqueues(r, S)
      PROVE  CallsInv' /\ Spared'
  <2> DEFINE c == [r EXCEPT !.left = @ \ S]
  <2>1. /\ UNCHANGED nRetries /\ drawerCalls' = (drawerCalls \ {r}) \cup {c} /\ r.op = "retrying"
        /\ outcome' = [m \in Message |-> IF m \in S
             THEN [outcome[m] EXCEPT !.failed = FALSE, !.retries = @ + 1] ELSE outcome[m]]
      BY <1>9 DEF RetryEnqueues, PutCall
  <2>0. c = [r EXCEPT !.left = r.left \ S]
      BY <1>0 DEF CallsInv, Numbered
  <2> HIDE DEF c
  <2>2. c.n = r.n /\ c.left = r.left \ S /\ c.op = "retrying" /\ Numbered(c)
    <3>1. /\ c.n = r.n /\ c.left = r.left \ S /\ c.op = "retrying"
          /\ c = [x \in CallFields |-> c[x]]
        BY <1>0, <2>0, <2>1 DEF CallsInv, Numbered, CallFields
    <3> QED
        BY <1>0, <2>1, <3>1 DEF CallsInv, Numbered
  <2>3. RetryCalls' = (RetryCalls \ {r}) \cup {c}
      BY <2>1, <2>2 DEF RetryCalls, ReadCalls
  <2>4. Alone(RetryCalls')
      BY <1>0, <2>2, <2>3, CallMoved
  <2>5. CallsInv'
      BY <1>0, <2>1, <2>2, <2>3, <2>4 DEF CallsInv, Numbered
  <2>6. ASSUME NEW m \in Message PROVE Within(outcome'[m], HandOf(RetryCalls', m))
    <3>1. /\ outcome[m] \in Outcomes /\ Within(outcome[m], HandOf(RetryCalls, m))
          /\ IsFiniteSet(HandOf(RetryCalls, m))
        BY <1>0 DEF Spared
    <3>2. CASE m \notin S
      <4>1. outcome'[m] = outcome[m]
          BY <2>1, <3>2
      <4>2. CASE m \in r.left
        <5>1. /\ HandOf(RetryCalls', m) = HandOf(RetryCalls, m) \cup {r.n}
              /\ r.n \in HandOf(RetryCalls, m)
            BY <1>0, <2>2, <2>3, <3>2, <4>2, CallMoved
        <5>2. HandOf(RetryCalls, m) \cup {r.n} = HandOf(RetryCalls, m)
            BY <5>1
        <5> QED
            BY <3>1, <4>1, <5>1, <5>2
      <4>3. CASE m \notin r.left
        <5>1. /\ HandOf(RetryCalls', m) = HandOf(RetryCalls, m) \ {r.n}
              /\ r.n \notin HandOf(RetryCalls, m)
            BY <1>0, <2>2, <2>3, <4>3, CallMoved
        <5>2. HandOf(RetryCalls, m) \ {r.n} = HandOf(RetryCalls, m)
            BY <5>1
        <5> QED
            BY <3>1, <4>1, <5>1, <5>2
      <4> QED
          BY <4>2, <4>3
    <3>3. CASE m \in S
      <4>1. /\ HandOf(RetryCalls', m) = HandOf(RetryCalls, m) \ {r.n}
            /\ r.n \in HandOf(RetryCalls, m)
          BY <1>0, <2>2, <2>3, <3>3, CallMoved
      <4> QED
        <5>1. outcome'[m] = [outcome[m] EXCEPT !.failed = FALSE, !.retries = @ + 1]
            BY <2>1, <3>3
        <5>2. Within([outcome[m] EXCEPT !.failed = FALSE, !.retries = @ + 1],
                     HandOf(RetryCalls, m) \ {r.n})
            BY <3>1, <4>1, WithinKept
        <5> QED
            BY <4>1, <5>1, <5>2
    <3> QED
        BY <3>2, <3>3
  <2>7. outcome' \in [Message -> Outcomes]
      BY <1>0, <2>1, OutcomeTyped DEF Spared
  <2> QED
      BY <2>5, <2>6, <2>7 DEF Spared
<1>10. ASSUME NEW r \in RetryCalls, RetryDone(r) \/ RetryFails(r) PROVE CallsInv' /\ Spared'
  <2>1. /\ RetryCalls' = RetryCalls \ {r} /\ UNCHANGED <<nRetries, outcome>>
    <3>1. UNCHANGED <<nRetries, outcome>>
        BY <1>10 DEF RetryDone, RetryFails
    <3>2. [FetchRecipients(r.campaign, r.page) EXCEPT !.ids = r.button].op = "read"
        BY DEF FetchRecipients
    <3>3. \/ drawerCalls' = (drawerCalls \ {r})
                 \cup {[FetchRecipients(r.campaign, r.page) EXCEPT !.ids = r.button]}
          \/ drawerCalls' = drawerCalls \ {r}
        BY <1>10 DEF RetryDone, RetryFails
    <3> QED
        BY <3>1, <3>2, <3>3 DEF RetryCalls, ReadCalls
  <2>2. CallsInv'
      BY <1>0, <2>1, CallGone DEF CallsInv, Numbered
  <2>3. ASSUME NEW m \in Message PROVE Within(outcome'[m], HandOf(RetryCalls', m))
    <3>1. /\ outcome[m] \in Outcomes /\ Within(outcome[m], HandOf(RetryCalls, m))
          /\ IsFiniteSet(HandOf(RetryCalls, m)) /\ outcome'[m] = outcome[m]
          /\ HandOf(RetryCalls', m) = HandOf(RetryCalls, m) \ {r.n}
        BY <1>0, <2>1, CallGone DEF Spared
    <3>2. CASE r.n \notin HandOf(RetryCalls, m)
      <4>1. HandOf(RetryCalls', m) = HandOf(RetryCalls, m)
          BY <3>1, <3>2
      <4> QED
          BY <3>1, <4>1
    <3>3. CASE r.n \in HandOf(RetryCalls, m)
      <4>1. Within(outcome[m], HandOf(RetryCalls, m) \ {r.n})
          BY <3>1, <3>3, WithinKept
      <4> QED
          BY <3>1, <4>1
    <3> QED
        BY <3>2, <3>3
  <2> QED
      BY <1>0, <2>1, <2>2, <2>3 DEF Spared
<1>11. ASSUME NEW m \in Message, FailsAgain(m) PROVE CallsInv' /\ Spared'
  <2>1. /\ outcome' = [outcome EXCEPT ![m] =
                         [outcome[m] EXCEPT !.failed = TRUE, !.failures = @ + 1]]
        /\ ~outcome[m].failed /\ UNCHANGED <<nRetries, drawerCalls>>
      BY <1>11 DEF FailsAgain
  <2>2. RetryCalls' = RetryCalls
      BY <2>1 DEF RetryCalls, ReadCalls
  <2>3. CallsInv'
      BY <1>0, <2>1, <2>2 DEF CallsInv, Numbered
  <2>4. ASSUME NEW x \in Message PROVE Within(outcome'[x], HandOf(RetryCalls, x))
    <3>1. /\ outcome[x] \in Outcomes /\ Within(outcome[x], HandOf(RetryCalls, x))
          /\ IsFiniteSet(HandOf(RetryCalls, x))
        BY <1>0 DEF Spared
    <3>2. CASE x # m
        BY <1>0, <2>1, <3>1, <3>2 DEF Spared
    <3>3. CASE x = m
      <4>1. outcome'[x] = [outcome[x] EXCEPT !.failed = TRUE, !.failures = @ + 1]
          BY <1>0, <2>1, <3>3 DEF Spared
      <4> QED
          BY <2>1, <3>1, <3>3, <4>1, WithinKept
    <3> QED
        BY <3>2, <3>3
  <2>5. outcome' \in [Message -> Outcomes]
      BY <1>0, <2>1, OutcomeTyped DEF Spared
  <2> QED
      BY <2>2, <2>3, <2>4, <2>5 DEF Spared
<1>12. ASSUME NEW m \in Message, ToggleSelect(m) PROVE CallsInv' /\ Spared'
    BY <1>1, <1>12 DEF ToggleSelect
<1>13. CASE CloseDrawer \/ ToggleSelectAllFailed \/ UNCHANGED drawerVars
    BY <1>1, <1>13 DEF CloseDrawer, ToggleSelectAllFailed, drawerVars
<1>14. CASE RetrySelected \/ RetryAllFailed \/ \E m \in Message : RetrySingle(m)
    BY <1>6, <1>14 DEF RetrySelected, RetryAllFailed, RetrySingle
<1> QED
    BY <1>2, <1>3, <1>4, <1>5, <1>7, <1>8, <1>9, <1>10, <1>11, <1>12, <1>13, <1>14
       DEF DrawerNext

\* Rows are replaced with the ticks undone, and ticks are put on rows there are.
LEMMA TicksKept == DrawerInv /\ [DrawerNext]_drawerVars => DrawerShape' /\ TicksAmongRows'
<1> DEFINE Goal == DrawerShape /\ TicksAmongRows
<1> SUFFICES ASSUME DrawerInv, [DrawerNext]_drawerVars PROVE Goal'
    OBVIOUS
<1> USE DEF DrawerInv, DrawerShape, TicksAmongRows, FailedRows
<1>1. CASE UNCHANGED drawer
    BY <1>1
<1>2. ASSUME NEW c \in Campaigns, OpenDrawer(c) PROVE Goal'
    BY <1>2 DEF OpenDrawer
<1>3. CASE CloseDrawer
    BY <1>3 DEF CloseDrawer
<1>4. ASSUME NEW p \in {0, 1}, TurnPage(p) PROVE Goal'
    BY <1>4 DEF TurnPage
<1>5. ASSUME NEW r \in ReadCalls, RecipientsRead(r) PROVE Goal'
    BY <1>5 DEF RecipientsRead
<1>6. ASSUME NEW m \in Message, ToggleSelect(m) PROVE Goal'
    BY <1>6 DEF ToggleSelect
<1>7. CASE ToggleSelectAllFailed
    BY <1>7 DEF ToggleSelectAllFailed
<1>8. CASE \/ RetrySelected \/ RetryAllFailed
           \/ \E m \in Message : RetrySingle(m)
    BY <1>8 DEF RetrySelected, RetryAllFailed, RetrySingle, Retry
<1>9. ASSUME NEW r \in RetryCalls, RetryDone(r) \/ RetryFails(r) \/ RetryReads(r) PROVE Goal'
    BY <1>9 DEF RetryDone, RetryFails, RetryReads
<1>10. CASE SkeletonShown \/ ListBack
    BY <1>10 DEF SkeletonShown, ListBack, ShutDrawer
<1>11. ASSUME NEW m \in Message, FailsAgain(m) PROVE Goal'
    BY <1>11 DEF FailsAgain
<1>12. ASSUME NEW r \in RetryCalls, NEW S, RetryEnqueues(r, S) PROVE Goal'
    BY <1>12 DEF RetryEnqueues
<1> QED
    BY <1>1, <1>2, <1>3, <1>4, <1>5, <1>6, <1>7, <1>8, <1>9, <1>10, <1>11, <1>12
       DEF DrawerNext, drawerVars

-----------------------------------------------------------------------------
LEMMA DrawerAlways == DrawerSpec => []DrawerInv
<1>1. DrawerInit => DrawerInv
    BY DrawerStarts
<1>2. DrawerInv /\ [DrawerNext]_drawerVars => DrawerInv'
    BY SparedKept, TicksKept DEF DrawerInv
<1> QED
    BY <1>1, <1>2, PTL DEF DrawerSpec

(* However many retries the drawer asks for, of whichever rows, a message   *)
(* is enqueued again at most once for each time that it failed and for each *)
(* request that read the failure while another had it in hand               *)
(* (RecipientsDrawer.js, and the service's three retries of failed ones).   *)
THEOREM RetriedCorrect == DrawerSpec => []RetriedOncePerFailure
<1>1. DrawerInv => RetriedOncePerFailure
  <2> SUFFICES ASSUME DrawerInv, NEW m \in Message
               PROVE  outcome[m].retries <= outcome[m].failures + outcome[m].overlaps
      BY DEF RetriedOncePerFailure
  <2>1. /\ outcome[m] \in Outcomes /\ Within(outcome[m], HandOf(RetryCalls, m))
        /\ IsFiniteSet(HandOf(RetryCalls, m))
      BY HandsFinite DEF DrawerInv, Spared
  <2> QED
    <3>1. /\ Cardinality(HandOf(RetryCalls, m)) \in Nat /\ outcome[m].retries \in Nat
          /\ outcome[m].failures \in Nat /\ outcome[m].overlaps \in Nat
        BY <2>1, OutcomeTyped, FS_CardinalityType
    <3> QED
        BY <2>1, <3>1 DEF Within
<1> QED
    BY <1>1, DrawerAlways, PTL

(* The ticked messages are among those shown as failed, whichever pages,    *)
(* campaigns and late answers come and go.                                  *)
THEOREM TickedCorrect == DrawerSpec => []TickedAreShown
<1>1. DrawerInv => TickedAreShown
    BY DEF DrawerInv, TicksAmongRows, TickedAreShown
<1> QED
    BY <1>1, DrawerAlways, PTL

-----------------------------------------------------------------------------
(* The message history.                                                     *)

\* Reads, and the list one of them was shown as, are numbered in order.
NumberedRead == [key : Key, held : {"current", "older"}, n : Nat]
HistTypes ==
    /\ key \in Key /\ nReads \in Nat /\ timer \subseteq Key
    /\ reads \subseteq NumberedRead /\ rows \in NumberedRead
    /\ closures \in [update : Key, interval : Key] /\ deletes \subseteq Key

\* The last read, if it began with the key there was, has the key there is but
\* for a term that the timer has still to read with.
LastReadIsCurrent(x) ==
    /\ x.n <= nReads
    /\ x.held = "current" /\ x.n = nReads =>
         /\ x.key.filter = key.filter /\ x.key.page = key.page
         /\ x.key.term = key.term \/ timer # {}

HistInv == HistTypes /\ \A x \in reads \cup {rows} : LastReadIsCurrent(x)

\* What a key is made of.
LEMMA KeysSet ==
    ASSUME NEW k \in Key
    PROVE  /\ 0 \in PageNumber /\ "all" \in Filters /\ "" \in Terms /\ FirstKey \in Key
           /\ k.filter \in Filters /\ k.term \in Terms /\ k.page \in PageNumber
<1>1. 0 \in PageNumber /\ "all" \in Filters /\ "" \in Terms /\ FirstKey \in Key
    BY HistoryAssumption DEF Key, FirstKey
<1>2. k.filter \in Filters /\ k.term \in Terms /\ k.page \in PageNumber
    BY DEF Key
<1> QED
    BY <1>1, <1>2

LEMMA HistStarts == HistInit => HistInv
<1> SUFFICES ASSUME HistInit PROVE HistInv
    OBVIOUS
<1>1. HistTypes
    BY HistoryAssumption DEF HistInit, HistTypes, NumberedRead
<1>2. \A x \in reads \cup {rows} : LastReadIsCurrent(x)
  <2>1. reads \cup {rows} = {[key |-> FirstKey, held |-> "current", n |-> 1],
                            [key |-> FirstKey, held |-> "older", n |-> 0]}
      BY DEF HistInit
  <2>2. key = FirstKey /\ nReads = 1
      BY DEF HistInit
  <2> QED
      BY <2>1, <2>2 DEF LastReadIsCurrent
<1> QED
    BY <1>1, <1>2 DEF HistInv

\* A read, with the key there is or with an older one.
LEMMA ReadsKept ==
    ASSUME HistInv, NEW k \in Key, Reads(k), key' \in Key, timer' \subseteq Key,
           deletes' \subseteq Key, UNCHANGED <<rows, closures>>
    PROVE  HistInv'
<1>1. /\ nReads' = nReads + 1 /\ nReads \in Nat
      /\ reads' = reads \cup {[key |-> k, held |-> Held(k), n |-> nReads + 1]}
    BY DEF Reads, HistInv, HistTypes
<1>2. HistTypes'
    BY <1>1 DEF HistInv, HistTypes, NumberedRead, Held
<1>3. ASSUME NEW x \in (reads \cup {rows})' PROVE LastReadIsCurrent(x)'
  <2>1. CASE x \in reads \cup {rows}
    <3>1. x.n \in Nat /\ x.n <= nReads
        BY <2>1 DEF HistInv, HistTypes, NumberedRead, LastReadIsCurrent
    <3> QED
        BY <1>1, <3>1 DEF LastReadIsCurrent
  <2>2. CASE x = [key |-> k, held |-> Held(k), n |-> nReads + 1]
      BY <1>1, <2>2 DEF LastReadIsCurrent, Held
  <2> QED
      BY <1>1, <2>1, <2>2
<1> QED
    BY <1>2, <1>3 DEF HistInv

\* A change of filter or page reads the list; one of neither changes nothing.
LEMMA SetKeyKept ==
    ASSUME HistInv, NEW k \in Key, k.term = key.term, SetKey(k)
    PROVE  HistInv'
<1>1. CASE k.filter # key.filter \/ k.page # key.page
  <2>1. Reads(k) /\ key' = k /\ UNCHANGED <<rows, closures, timer, deletes>>
      BY <1>1 DEF SetKey
  <2>2. timer' \subseteq Key /\ deletes' \subseteq Key
      BY <2>1 DEF HistInv, HistTypes
  <2> QED
      BY <2>1, <2>2, ReadsKept
<1>2. CASE ~(k.filter # key.filter \/ k.page # key.page)
  <2>1. key' = k /\ UNCHANGED <<rows, closures, timer, reads, nReads, deletes>>
      BY <1>2 DEF SetKey
  <2> QED
      BY <1>2, <2>1 DEF HistInv, HistTypes, LastReadIsCurrent
<1> QED
    BY <1>1, <1>2

LEMMA HistKept == HistInv /\ [HistNext]_histVars => HistInv'
<1> SUFFICES ASSUME HistInv, [HistNext]_histVars PROVE HistInv'
    OBVIOUS
<1>1. /\ key \in Key /\ timer \subseteq Key /\ closures \in [update : Key, interval : Key]
      /\ deletes \subseteq Key
    BY DEF HistInv, HistTypes
<1>2. ASSUME NEW f \in Filters, SetFilter(f) PROVE HistInv'
    BY <1>1, <1>2, KeysSet, SetKeyKept DEF SetFilter, Key
<1>3. ASSUME NEW p \in PageNumber, SetPage(p) PROVE HistInv'
    BY <1>1, <1>3, KeysSet, SetKeyKept DEF SetPage, Key
<1>4. ASSUME NEW t \in Terms, Type(t) PROVE HistInv'
  <2> DEFINE k == [key EXCEPT !.term = t]
  <2>1. k \in Key /\ k.filter = key.filter /\ k.page = key.page
      BY <1>1, KeysSet DEF Key
  <2>2. key' = k /\ timer' = {k} /\ UNCHANGED <<rows, reads, nReads, closures, deletes>>
      BY <1>4 DEF Type
  <2> HIDE DEF k
  <2> QED
      BY <2>1, <2>2 DEF HistInv, HistTypes, LastReadIsCurrent
<1>5. CASE ClearFilters
  <2> DEFINE k == [key EXCEPT !.filter = "all", !.term = ""]
             held == [key EXCEPT !.term = ""]
  <2>1. k \in Key /\ k.filter = "all" /\ k.page = key.page /\ held \in Key
      BY <1>1, KeysSet DEF Key
  <2>2. key' = k /\ timer' = {held} /\ UNCHANGED <<rows, closures, deletes>>
      BY <1>5 DEF ClearFilters
  <2>3. CASE key.filter # "all"
    <3>1. Reads(k)
        BY <1>5, <2>2, <2>3 DEF ClearFilters
    <3> HIDE DEF k, held
    <3> QED
        BY <1>1, <2>1, <2>2, <3>1, ReadsKept
  <2>4. CASE key.filter = "all"
    <3>1. UNCHANGED <<reads, nReads>>
        BY <1>5, <2>4 DEF ClearFilters
    <3> HIDE DEF k, held
    <3> QED
        BY <2>1, <2>2, <2>4, <3>1 DEF HistInv, HistTypes, LastReadIsCurrent
  <2> QED
      BY <2>3, <2>4
<1>6. CASE TimerFires
  <2>1. PICK k \in timer :
          /\ timer' = {} /\ key' = [key EXCEPT !.page = 0]
          /\ UNCHANGED <<rows, closures, deletes>>
          /\ \/ /\ key.page # 0 /\ nReads' = nReads + 2
                /\ reads' = reads \cup {[key |-> k, held |-> Held(k), n |-> nReads + 1],
                                        [key |-> key', held |-> "current", n |-> nReads + 2]}
             \/ /\ key.page = 0 /\ nReads' = nReads + 1
                /\ reads' = reads \cup {[key |-> k, held |-> Held(k), n |-> nReads + 1]}
      BY <1>6 DEF TimerFires
  <2>2. key' \in Key /\ k \in Key /\ nReads \in Nat
      BY <1>1, <2>1, KeysSet DEF Key, HistInv, HistTypes
  <2>3. HistTypes'
      BY <2>1, <2>2 DEF HistInv, HistTypes, NumberedRead, Held
  <2>4. ASSUME NEW x \in (reads \cup {rows})' PROVE LastReadIsCurrent(x)'
    <3>1. CASE x \in reads \cup {rows}
      <4>1. x.n \in Nat /\ x.n <= nReads
          BY <3>1 DEF HistInv, HistTypes, NumberedRead, LastReadIsCurrent
      <4>2. nReads' > nReads
          BY <2>1, <2>2
      <4> QED
          BY <2>2, <4>1, <4>2, <2>1 DEF LastReadIsCurrent
    <3>2. CASE x = [key |-> k, held |-> Held(k), n |-> nReads + 1]
      <4>1. x.n = nReads + 1 /\ x.n <= nReads' /\ x.key = k /\ x.held = Held(k)
          BY <2>1, <2>2, <3>2
      <4>2. x.held = "current" => x.key = key'
          BY <4>1 DEF Held
      <4> QED
          BY <4>1, <4>2 DEF LastReadIsCurrent
    <3>3. CASE nReads' = nReads + 2 /\ x = [key |-> key', held |-> "current", n |-> nReads + 2]
        BY <2>2, <3>3 DEF LastReadIsCurrent
    <3> QED
        BY <2>1, <3>1, <3>2, <3>3
  <2> QED
      BY <2>3, <2>4 DEF HistInv
<1>7. CASE Expand
    BY <1>1, <1>7 DEF Expand, HistInv, HistTypes, LastReadIsCurrent
<1>8. CASE DeleteCampaign
    BY <1>1, <1>8 DEF DeleteCampaign, HistInv, HistTypes, LastReadIsCurrent
<1>9. ASSUME NEW by \in {"update", "interval"}, Refresh(by) PROVE HistInv'
    BY <1>1, <1>9, ReadsKept DEF Refresh
<1>10. ASSUME NEW r \in reads, ListRead(r) PROVE HistInv'
    BY <1>1, <1>10 DEF ListRead, HistInv, HistTypes, LastReadIsCurrent
<1>11. ASSUME NEW k \in deletes, Deleted(k) PROVE HistInv'
    BY <1>1, <1>11, ReadsKept DEF Deleted
<1>12. CASE DeleteFails
    BY <1>1, <1>12 DEF DeleteFails, HistInv, HistTypes, LastReadIsCurrent
<1>13. CASE UNCHANGED histVars
    BY <1>13 DEF histVars, HistInv, HistTypes, LastReadIsCurrent
<1> QED
    BY <1>2, <1>3, <1>4, <1>5, <1>6, <1>7, <1>8, <1>9, <1>10, <1>11,
       <1>12, <1>13 DEF HistNext

(* The answer of the read begun last, when it began with the list's key, is *)
(* of what the filter, search and page say once all is read, whatever was   *)
(* changed, updated or deleted meanwhile (MessagesPage.js).                 *)
THEOREM ListMatchesCorrect == HistSpec => []ListMatchesItsFilter
<1>1. HistInv => ListMatchesItsFilter
    BY DEF HistInv, HistTypes, LastReadIsCurrent, ListMatchesItsFilter, NumberedRead, Key
<1> QED
    BY <1>1, HistStarts, HistKept, PTL DEF HistSpec

-----------------------------------------------------------------------------
(* Lists that are read by key.                                              *)

\* The fields of a list, and its reads.
Shaped(v) == v = [page |-> v.page, key |-> v.key, shown |-> v.shown, loading |-> v.loading,
                  drawn |-> v.drawn, error |-> v.error, open |-> v.open, timer |-> v.timer,
                  dialog |-> v.dialog]
PageTypes == Shaped(list) /\ listReads \in [AllKeys -> Nat]

\* The timer of the search over everything holds what is typed.
Timed == list.timer # NoRows => list.page = "palette" /\ list.timer = list.key

\* Unless reads of two keys raced, those under way are of the key there is.
Focused == ~raced /\ list.page \notin {"audit", "search"} => ~OtherReads(list.key)

\* Three pages never race: one hides its dates while it loads, and two have
\* one key.
Steady ==
    /\ list.page \in {"overview", "health", "bugs"} =>
         /\ ~raced /\ ~list.dialog.open
         /\ \A a \in acts : list.page = "bugs" /\ a.key = list.key
    /\ list.page = "overview" =>
         \A q \in AllKeys : listReads[q] > 0 => list.loading /\ listReads[q] = 1

\* The trail is filtered as it is shown.
Filtered == list.page = "audit" => list.shown \in {NoRows, list.key}

PageInv == PageTypes /\ Timed /\ Focused /\ Steady /\ Filtered /\ ShowsWhatItSays /\ ChartsDrawn

-----------------------------------------------------------------------------
LEMMA PageStarts == PageInit => PageInv
<1> SUFFICES ASSUME PageInit PROVE PageInv
    OBVIOUS
<1>1. PICK p \in DOMAIN PageKeys : list = PageMounted(p)
    BY DEF PageInit
<1>2. list = [page |-> p, key |-> OpensWith[p], shown |-> NoRows, loading |-> p \notin ByHand,
              drawn |-> FALSE, error |-> FALSE, open |-> p # "palette", timer |-> NoRows,
              dialog |-> NoDialog]
    BY Zenon, <1>1 DEF PageMounted
<1>3. /\ list.page = p /\ list.key = OpensWith[p] /\ list.shown = NoRows
      /\ list.loading = (p \notin ByHand) /\ list.drawn = FALSE /\ list.error = FALSE
      /\ list.open = (p # "palette") /\ list.timer = NoRows /\ list.dialog = NoDialog
    BY Zenon, <1>2
<1>4. Shaped(list)
    BY Zenon, <1>2, <1>3 DEF Shaped
<1>5. /\ listReads = [k \in AllKeys |-> IF list.loading /\ k = list.key THEN 1 ELSE 0]
      /\ acts = {} /\ ~raced
    BY DEF PageInit
<1>6. PageTypes
    BY <1>4, <1>5 DEF PageTypes
<1>7. \A q \in AllKeys : listReads[q] > 0 => list.loading /\ q = list.key /\ listReads[q] = 1
    BY <1>5
<1>8. ~list.dialog.open
  <2>1. NoDialog.open = FALSE
      BY Zenon DEF NoDialog
  <2> QED
      BY Zenon, <1>3, <2>1
<1>9. Focused /\ Steady
    BY <1>5, <1>7, <1>8 DEF Focused, Steady, OtherReads
<1>10. Timed /\ Filtered /\ ShowsWhatItSays /\ ChartsDrawn
    BY <1>3 DEF Timed, Filtered, ShowsWhatItSays, ChartsDrawn
<1> QED
    BY <1>6, <1>9, <1>10 DEF PageInv

\* What a read that begins adds, and one that ends takes away.
LEMMA BeginsOne ==
    ASSUME PageTypes, NEW k, Begin(k)
    PROVE  /\ listReads' \in [AllKeys -> Nat]
           /\ \A q \in AllKeys : listReads'[q] = IF q = k THEN listReads[q] + 1 ELSE listReads[q]
           /\ ~raced' => ~OtherReads(k)' /\ k = list'.key
           /\ raced' => OtherReads(k) \/ k # list'.key \/ raced
<1>1. /\ listReads \in [AllKeys -> Nat] /\ listReads' = [listReads EXCEPT ![k] = listReads[k] + 1]
      /\ raced' = (OtherReads(k) \/ k # list'.key \/ (raced /\ listReads[k] > 0))
    BY DEF PageTypes, Begin
<1>2. /\ DOMAIN listReads' = AllKeys
      /\ \A q \in AllKeys : listReads'[q] = IF q = k THEN listReads[q] + 1 ELSE listReads[q]
    BY <1>1
<1>3. listReads' \in [AllKeys -> Nat]
  <2>1. \A q \in AllKeys : listReads'[q] \in Nat
      BY <1>1, <1>2
  <2> QED
      BY <1>1, <1>2, <2>1
<1>4. /\ ~raced' => ~OtherReads(k) /\ k = list'.key
      /\ raced' => OtherReads(k) \/ k # list'.key \/ raced
    BY <1>1
<1>5. ~OtherReads(k) => ~OtherReads(k)'
    BY <1>2 DEF OtherReads
<1> QED
    BY <1>2, <1>3, <1>4, <1>5

LEMMA EndsOne ==
    ASSUME PageTypes, NEW k \in AllKeys, Ends(k)
    PROVE  /\ listReads' \in [AllKeys -> Nat] /\ listReads[k] > 0
           /\ \A q \in AllKeys : listReads'[q] > 0 => listReads[q] > 0
           /\ listReads'[k] = listReads[k] - 1
           /\ \A q \in AllKeys : q # k => listReads'[q] = listReads[q]
           /\ UNCHANGED <<raced, acts>>
  BY DEF PageTypes, Ends, NoAct

LEMMA LoadsShaped ==
    ASSUME Shaped(list), NEW k,
           list' = [list EXCEPT !.key = k, !.loading = TRUE, !.error = FALSE, !.drawn = FALSE]
    PROVE  /\ Shaped(list') /\ list'.page = list.page /\ list'.key = k /\ list'.loading
           /\ list'.timer = list.timer
           /\ list'.dialog = list.dialog
<1>1. list' = [page |-> list.page, key |-> k, shown |-> list.shown, loading |-> TRUE,
           drawn |-> FALSE, error |-> FALSE, open |-> list.open, timer |-> list.timer,
           dialog |-> list.dialog]
    BY Zenon DEF Shaped
<1> QED
    BY Zenon, <1>1 DEF Shaped

\* A page that reads for a key it is set to shows nothing until the answer.
LEMMA ReadForKept ==
    ASSUME PageInv, NEW k, ReadFor(k),
           list.page \notin {"audit", "health", "palette"},
           list.page = "bugs" => k = list.key,
           list.page = "overview" => ~list.loading
    PROVE  PageInv'
<1>1. /\ Shaped(list') /\ list'.page = list.page /\ list'.key = k /\ list'.loading
      /\ list'.timer = list.timer /\ list'.dialog = list.dialog
    BY Zenon, LoadsShaped DEF ReadFor, Loads, PageInv, PageTypes
<1>2. /\ listReads' \in [AllKeys -> Nat]
      /\ \A q \in AllKeys : listReads'[q] = IF q = k THEN listReads[q] + 1 ELSE listReads[q]
      /\ ~raced' => ~OtherReads(k)' /\ k = list'.key
      /\ raced' => OtherReads(k) \/ k # list'.key \/ raced
    BY BeginsOne DEF ReadFor, PageInv
<1>3. UNCHANGED acts
    BY DEF ReadFor, NoAct
<1>4. PageTypes' /\ Timed' /\ Filtered' /\ ShowsWhatItSays' /\ ChartsDrawn'
    BY <1>1, <1>2 DEF PageInv, PageTypes, Timed, Filtered, ShowsWhatItSays, ChartsDrawn
<1>5. Focused'
    BY <1>1, <1>2 DEF Focused, OtherReads
<1>6. Steady'
  <2>1. ASSUME list.page \in {"overview", "health", "bugs"} PROVE ~OtherReads(k)
    <3>1. CASE list.page = "overview"
        BY <3>1 DEF PageInv, Steady, OtherReads
    <3>2. CASE list.page # "overview"
        BY <2>1, <3>2 DEF PageInv, Steady, Focused
    <3> QED
        BY <3>1, <3>2
  <2>2. list.page = "overview" => \A q \in AllKeys : listReads[q] = 0
      BY DEF PageInv, PageTypes, Steady
  <2>3. list.page \in {"overview", "health", "bugs"} =>
          /\ ~raced' /\ ~list'.dialog.open
          /\ \A a \in acts' : list'.page = "bugs" /\ a.key = list'.key
      BY <1>1, <1>2, <1>3, <2>1 DEF PageInv, Steady
  <2>4. list.page = "overview" =>
          \A q \in AllKeys : listReads'[q] > 0 => list'.loading /\ listReads'[q] = 1
      BY <1>1, <1>2, <2>2
  <2> QED
      BY <1>1, <2>3, <2>4 DEF Steady
<1> QED
    BY <1>4, <1>5, <1>6 DEF PageInv

\* The search over everything.
LEMMA QueryShaped ==
    ASSUME NEW k, NEW open, NEW shown, NEW loading,
           list' = [page |-> list.page, key |-> k, shown |-> shown, loading |-> loading,
                    drawn |-> list.drawn, error |-> list.error, open |-> open, timer |-> k,
                    dialog |-> list.dialog]
    PROVE  /\ Shaped(list') /\ list'.page = list.page /\ list'.key = k /\ list'.timer = k
           /\ list'.shown = shown /\ list'.loading = loading
<1>1. /\ list'.page = list.page /\ list'.key = k /\ list'.timer = k
      /\ list'.shown = shown /\ list'.drawn = list.drawn /\ list'.error = list.error
      /\ list'.open = open /\ list'.dialog = list.dialog /\ list'.loading = loading
    BY Zenon
<1> QED
    BY Zenon, <1>1 DEF Shaped

LEMMA TypedShaped ==
    ASSUME Shaped(list), NEW k, NEW open,
           list' = [list EXCEPT !.key = k, !.loading = k # NoRows, !.timer = k,
                         !.shown = IF k = NoRows THEN NoRows ELSE @, !.open = open]
    PROVE  /\ Shaped(list') /\ list'.page = list.page /\ list'.key = k /\ list'.timer = k
           /\ (list'.loading <=> k # NoRows) /\ (k = NoRows => list'.shown = NoRows)
<1>1. PICK shown : shown = IF k = NoRows THEN NoRows ELSE list.shown
    BY Zenon
<1>2. PICK loading : loading = (k # NoRows)
    BY Zenon
<1>3. list' = [page |-> list.page, key |-> k, shown |-> shown, loading |-> loading,
               drawn |-> list.drawn, error |-> list.error, open |-> open, timer |-> k,
               dialog |-> list.dialog]
    BY Zenon, <1>1, <1>2 DEF Shaped
<1> QED
    BY Zenon, <1>1, <1>2, <1>3, QueryShaped

LEMMA QueryKept ==
    ASSUME PageInv, list.page = "palette", NEW k, QueryChanges(k), NEW open,
           list' = [list EXCEPT !.key = k, !.loading = k # NoRows, !.timer = k,
                            !.shown = IF k = NoRows THEN NoRows ELSE @, !.open = open]
    PROVE  PageInv'
<1>1. /\ Shaped(list') /\ list'.page = list.page /\ list'.key = k /\ list'.timer = k
      /\ (list'.loading <=> k # NoRows) /\ (k = NoRows => list'.shown = NoRows)
    BY Zenon, TypedShaped DEF PageInv, PageTypes
<1>2. /\ UNCHANGED listReads
      /\ ~raced' => ~OtherReads(k)
    BY DEF QueryChanges
<1>3. PageTypes' /\ Timed' /\ Filtered' /\ ShowsWhatItSays' /\ ChartsDrawn' /\ Steady'
    BY <1>1, <1>2 DEF PageInv, PageTypes, Timed, Filtered, ShowsWhatItSays, ChartsDrawn, Steady
<1>4. Focused'
    BY <1>1, <1>2 DEF Focused, OtherReads
<1> QED
    BY <1>3, <1>4 DEF PageInv

LEMMA FetchResultsKept ==
    ASSUME PageInv, FetchResults
    PROVE  PageInv'
<1> DEFINE k == list.timer
<1>1. /\ k # NoRows /\ list' = [list EXCEPT !.timer = NoRows]
      /\ listReads' = [listReads EXCEPT ![k] = @ + 1]
      /\ (~raced' => ~raced /\ ~OtherReads(k)) /\ (raced => raced') /\ UNCHANGED failed
    BY DEF FetchResults
<1>2. k = list.key /\ list.page = "palette"
    BY <1>1 DEF PageInv, Timed
<1>3. list' = [page |-> list.page, key |-> list.key, shown |-> list.shown, loading |-> list.loading,
               drawn |-> list.drawn, error |-> list.error, open |-> list.open, timer |-> NoRows,
               dialog |-> list.dialog]
    BY Zenon, <1>1 DEF PageInv, PageTypes, Shaped
<1>4. /\ list'.page = list.page /\ list'.key = list.key /\ list'.shown = list.shown
      /\ list'.loading = list.loading /\ list'.error = list.error /\ list'.timer = NoRows
      /\ list'.drawn = list.drawn /\ list'.open = list.open /\ list'.dialog = list.dialog
    BY Zenon, <1>3
<1>5. Shaped(list')
    BY Zenon, <1>3, <1>4 DEF Shaped
<1>6. listReads' \in [AllKeys -> Nat] /\ \A q \in AllKeys : q # k => listReads'[q] = listReads[q]
  <2>1. listReads \in [AllKeys -> Nat] /\ listReads' = [listReads EXCEPT ![k] = listReads[k] + 1]
      BY <1>1 DEF PageInv, PageTypes
  <2>2. \A q \in AllKeys : listReads'[q] = IF q = k THEN listReads[q] + 1 ELSE listReads[q]
      BY <2>1
  <2>3. \A q \in AllKeys : listReads'[q] \in Nat
      BY <2>1, <2>2
  <2> QED
      BY <2>1, <2>2, <2>3
<1>7. PageTypes' /\ Timed' /\ Filtered' /\ ChartsDrawn' /\ Steady'
    BY <1>2, <1>4, <1>5, <1>6 DEF PageTypes, Timed, Filtered, ChartsDrawn, Steady
<1>8. Focused'
    BY <1>1, <1>2, <1>4, <1>6 DEF Focused, OtherReads
<1>9. ShowsWhatItSays'
    BY <1>1, <1>2, <1>4 DEF PageInv, ShowsWhatItSays
<1> QED
    BY <1>7, <1>8, <1>9 DEF PageInv

\* Steps that leave the key, the rows and the reads: of the dialog, of what is
\* open, and of what is asked for.
LEMMA OpenShaped ==
    ASSUME Shaped(list), NEW b, list' = [list EXCEPT !.open = b]
    PROVE  /\ Shaped(list') /\ list'.page = list.page /\ list'.key = list.key
           /\ list'.shown = list.shown
           /\ list'.loading = list.loading /\ list'.drawn = list.drawn /\ list'.error = list.error
           /\ list'.timer = list.timer /\ list'.dialog = list.dialog
<1>1. list' = [page |-> list.page, key |-> list.key, shown |-> list.shown, loading |-> list.loading,
           drawn |-> list.drawn, error |-> list.error, open |-> b, timer |-> list.timer,
           dialog |-> list.dialog]
    BY Zenon DEF Shaped
<1> QED
    BY Zenon, <1>1 DEF Shaped

LEMMA DialogShaped ==
    ASSUME Shaped(list), NEW d, list' = [list EXCEPT !.dialog = d]
    PROVE  /\ Shaped(list') /\ list'.page = list.page /\ list'.key = list.key
           /\ list'.shown = list.shown
           /\ list'.loading = list.loading /\ list'.drawn = list.drawn /\ list'.error = list.error
           /\ list'.timer = list.timer /\ list'.dialog = d
<1>1. list' = [page |-> list.page, key |-> list.key, shown |-> list.shown, loading |-> list.loading,
           drawn |-> list.drawn, error |-> list.error, open |-> list.open, timer |-> list.timer,
           dialog |-> d]
    BY Zenon DEF Shaped
<1> QED
    BY Zenon, <1>1 DEF Shaped

LEMMA AsideKept ==
    ASSUME PageInv, UNCHANGED <<listReads, raced, failed>>, Shaped(list'),
           list'.page = list.page, list'.key = list.key, list'.shown = list.shown,
           list'.loading = list.loading, list'.drawn = list.drawn, list'.error = list.error,
           list'.timer = list.timer,
           list.page \in {"overview", "health", "bugs"} =>
             /\ ~list'.dialog.open
             /\ \A a \in acts' : list.page = "bugs" /\ a.key = list.key
    PROVE  PageInv'
  BY DEF PageInv, PageTypes, Timed, Focused, Steady, Filtered, ShowsWhatItSays, ChartsDrawn,
         OtherReads

LEMMA AsideSteps ==
    ASSUME PageInv, \/ OpenPalette \/ HandleAction \/ HandleDelete \/ ConfirmDelete \/ CloseDialog
                    \/ \E a \in acts : ActFails(a)
    PROVE  PageInv'
<1>1. Shaped(list)
    BY DEF PageInv, PageTypes
<1>2. CASE OpenPalette
  <2>1. /\ list' = [list EXCEPT !.open = TRUE] /\ UNCHANGED <<listReads, raced, failed, acts>>
      BY <1>2 DEF OpenPalette, NoAct
  <2>2. /\ Shaped(list') /\ list'.page = list.page /\ list'.key = list.key
        /\ list'.shown = list.shown
        /\ list'.loading = list.loading /\ list'.drawn = list.drawn /\ list'.error = list.error
        /\ list'.timer = list.timer /\ list'.dialog = list.dialog
      BY Zenon, <1>1, <2>1, OpenShaped
  <2> QED
      BY <2>1, <2>2, AsideKept DEF PageInv, Steady
<1>3. CASE HandleAction
  <2>1. /\ list.page \in {"approvals", "management", "bugs"} /\ acts' = acts \cup {ActOf("change")}
        /\ UNCHANGED <<list, listReads, raced, failed>>
      BY <1>3 DEF HandleAction, AsksTo, RowsShown
  <2>2. ActOf("change").key = list.key
      BY DEF ActOf
  <2> QED
      BY <1>1, <2>1, <2>2, AsideKept DEF PageInv, Steady
<1>4. CASE HandleDelete
  <2>1. /\ list.page = "management"
        /\ list' = [list EXCEPT !.dialog = [open |-> TRUE, act |-> ActOf("delete")]]
        /\ UNCHANGED <<listReads, raced, failed>>
      BY <1>4 DEF HandleDelete
  <2>2. /\ Shaped(list') /\ list'.page = list.page /\ list'.key = list.key
        /\ list'.shown = list.shown
        /\ list'.loading = list.loading /\ list'.drawn = list.drawn /\ list'.error = list.error
        /\ list'.timer = list.timer
      BY Zenon, <1>1, <2>1, DialogShaped
  <2> QED
      BY <2>1, <2>2, AsideKept
<1>5. CASE ConfirmDelete
  <2>1. /\ list.dialog.open /\ UNCHANGED <<list, listReads, raced, failed>>
      BY <1>5 DEF ConfirmDelete
  <2>2. list.page \notin {"overview", "health", "bugs"}
      BY <2>1 DEF PageInv, Steady
  <2> QED
      BY <1>1, <2>1, <2>2, AsideKept
<1>6. CASE CloseDialog
  <2>1. /\ list.dialog.open /\ list' = [list EXCEPT !.dialog = NoDialog]
        /\ UNCHANGED <<listReads, raced, failed>>
      BY <1>6 DEF CloseDialog
  <2>2. /\ Shaped(list') /\ list'.page = list.page /\ list'.key = list.key
        /\ list'.shown = list.shown
        /\ list'.loading = list.loading /\ list'.drawn = list.drawn /\ list'.error = list.error
        /\ list'.timer = list.timer
      BY Zenon, <1>1, <2>1, DialogShaped
  <2>3. list.page \notin {"overview", "health", "bugs"}
      BY <2>1 DEF PageInv, Steady
  <2> QED
      BY <2>1, <2>2, <2>3, AsideKept
<1>7. ASSUME NEW a \in acts, ActFails(a) PROVE PageInv'
  <2>1. acts' \subseteq acts /\ UNCHANGED <<list, listReads, raced, failed>>
      BY <1>7 DEF ActFails
  <2> QED
      BY <1>1, <2>1, AsideKept DEF PageInv, Steady
<1> QED
    BY <1>2, <1>3, <1>4, <1>5, <1>6, <1>7

\* A filter of the trail, and what is typed to be searched for.
LEMMA KeyShaped ==
    ASSUME Shaped(list), NEW k, NEW s, list' = [list EXCEPT !.key = k, !.shown = s]
    PROVE  /\ Shaped(list') /\ list'.page = list.page /\ list'.key = k /\ list'.shown = s
           /\ list'.loading = list.loading /\ list'.drawn = list.drawn /\ list'.error = list.error
           /\ list'.timer = list.timer /\ list'.dialog = list.dialog
<1>1. list' = [page |-> list.page, key |-> k, shown |-> s, loading |-> list.loading,
           drawn |-> list.drawn, error |-> list.error, open |-> list.open, timer |-> list.timer,
           dialog |-> list.dialog]
    BY Zenon DEF Shaped
<1> QED
    BY Zenon, <1>1 DEF Shaped

LEMMA FilterKept ==
    ASSUME PageInv, NEW k, FilterLogs(k) \/ TypeSearch(k)
    PROVE  PageInv'
<1>1. Shaped(list) /\ UNCHANGED <<listReads, raced, failed, acts>>
    BY DEF PageInv, PageTypes, FilterLogs, TypeSearch, NoAct
<1>2. PICK s : /\ \/ list.page = "audit" /\ s = IF list.shown = NoRows THEN NoRows ELSE k
                  \/ list.page = "search"
               /\ list' = [list EXCEPT !.key = k, !.shown = s]
  <2>1. CASE FilterLogs(k)
    <3>1. /\ list.page = "audit"
          /\ list' = [list EXCEPT !.key = k, !.shown = IF list.shown = NoRows THEN NoRows ELSE k]
        BY Zenon, <1>1, <2>1 DEF FilterLogs, AuditShown, Shaped
    <3> QED
        BY Zenon, <3>1
  <2>2. CASE TypeSearch(k)
    <3>1. list.page = "search" /\ list' = [list EXCEPT !.key = k]
        BY <2>2 DEF TypeSearch
    <3>2. list' = [list EXCEPT !.key = k, !.shown = list.shown]
        BY Zenon, <1>1, <3>1 DEF Shaped
    <3> QED
        BY Zenon, <3>1, <3>2
  <2> QED
      BY <2>1, <2>2
<1>3. /\ Shaped(list') /\ list'.page = list.page /\ list'.key = k /\ list'.shown = s
      /\ list'.loading = list.loading /\ list'.drawn = list.drawn /\ list'.error = list.error
      /\ list'.timer = list.timer /\ list'.dialog = list.dialog
    BY Zenon, <1>1, <1>2, KeyShaped
<1> QED
    BY <1>1, <1>2, <1>3 DEF PageInv, PageTypes, Timed, Focused, Steady, Filtered, ShowsWhatItSays,
       ChartsDrawn

\* Answers.
LEMMA AnsweredShaped ==
    ASSUME Shaped(list), NEW s, NEW d,
           list' = [list EXCEPT !.shown = s, !.loading = FALSE, !.drawn = d]
    PROVE  /\ Shaped(list') /\ list'.page = list.page /\ list'.key = list.key /\ list'.shown = s
           /\ ~list'.loading /\ list'.drawn = d /\ list'.error = list.error
           /\ list'.timer = list.timer /\ list'.dialog = list.dialog
<1>1. list' = [page |-> list.page, key |-> list.key, shown |-> s, loading |-> FALSE,
           drawn |-> d, error |-> list.error, open |-> list.open, timer |-> list.timer,
           dialog |-> list.dialog]
    BY Zenon DEF Shaped
<1> QED
    BY Zenon, <1>1 DEF Shaped

LEMMA FailsShaped ==
    ASSUME Shaped(list), NEW e, list' = [list EXCEPT !.loading = FALSE, !.error = e]
    PROVE  /\ Shaped(list') /\ list'.page = list.page /\ list'.key = list.key
           /\ list'.shown = list.shown
           /\ ~list'.loading /\ list'.timer = list.timer /\ list'.dialog = list.dialog
<1>1. list' = [page |-> list.page, key |-> list.key, shown |-> list.shown, loading |-> FALSE,
           drawn |-> list.drawn, error |-> e, open |-> list.open, timer |-> list.timer,
           dialog |-> list.dialog]
    BY Zenon DEF Shaped
<1> QED
    BY Zenon, <1>1 DEF Shaped

\* The end of a read leaves what is under way focused.
LEMMA EndsKept ==
    ASSUME PageInv, NEW k \in AllKeys, Ends(k), Shaped(list'),
           list'.page = list.page, list'.key = list.key, ~list'.loading,
           list'.timer = list.timer, list'.dialog = list.dialog
    PROVE  PageTypes' /\ Timed' /\ Focused' /\ Steady'
<1>1. /\ listReads' \in [AllKeys -> Nat] /\ listReads[k] > 0
      /\ \A q \in AllKeys : listReads'[q] > 0 => listReads[q] > 0
      /\ listReads'[k] = listReads[k] - 1
      /\ \A q \in AllKeys : q # k => listReads'[q] = listReads[q]
      /\ UNCHANGED <<raced, acts>>
    BY EndsOne DEF PageInv
<1>2. PageTypes' /\ Timed'
    BY <1>1 DEF PageInv, PageTypes, Timed
<1>3. Focused'
    BY <1>1 DEF PageInv, Focused, OtherReads
<1>4. list.page = "overview" => \A q \in AllKeys : ~(listReads'[q] > 0)
  <2> SUFFICES ASSUME list.page = "overview", NEW q \in AllKeys, listReads'[q] > 0 PROVE FALSE
      OBVIOUS
  <2>1. ~raced /\ listReads[q] > 0 /\ listReads[k] = 1
      BY <1>1 DEF PageInv, Steady
  <2>2. q = list.key /\ k = list.key
      BY <1>1, <2>1 DEF PageInv, Focused, OtherReads
  <2> QED
      BY <1>1, <2>1, <2>2
<1>5. Steady'
    BY <1>1, <1>4 DEF PageInv, Steady
<1> QED
    BY <1>2, <1>3, <1>5

LEMMA AnsweredKept ==
    ASSUME PageInv, NEW k \in AllKeys, ListAnswered(k)
    PROVE  PageInv'
<1> DEFINE s == IF list.page = "audit" THEN list.key ELSE k
<1>1. /\ list' = [list EXCEPT !.shown = s, !.loading = FALSE, !.drawn = list.page = "home"]
      /\ Ends(k) /\ ~failed'
    BY Zenon DEF ListAnswered
<1>2. /\ Shaped(list') /\ list'.page = list.page /\ list'.key = list.key /\ list'.shown = s
      /\ ~list'.loading /\ list'.drawn = (list.page = "home") /\ list'.error = list.error
      /\ list'.timer = list.timer /\ list'.dialog = list.dialog
    BY Zenon, <1>1, AnsweredShaped DEF PageInv, PageTypes
<1>3. PageTypes' /\ Timed' /\ Focused' /\ Steady'
    BY <1>1, <1>2, EndsKept
<1>4. Filtered'
    BY <1>2 DEF Filtered
<1>5. ChartsDrawn'
    BY <1>2 DEF ChartsDrawn
<1>6. ShowsWhatItSays'
  <2>1. listReads[k] > 0 /\ raced' = raced
      BY <1>1 DEF Ends
  <2>2. list.page \notin {"audit", "search"} /\ ~raced => k = list.key
      BY <2>1 DEF PageInv, Focused, OtherReads
  <2>3. list.page \in {"overview", "health", "bugs"} => ~raced
      BY DEF PageInv, Steady
  <2> QED
      BY <1>2, <2>1, <2>2, <2>3 DEF ShowsWhatItSays
<1> QED
    BY <1>3, <1>4, <1>5, <1>6 DEF PageInv

LEMMA FailsKept ==
    ASSUME PageInv, NEW k \in AllKeys, ListFails(k)
    PROVE  PageInv'
<1>1. /\ list' = [list EXCEPT !.loading = FALSE, !.error = list.page = "transactions"]
      /\ Ends(k) /\ failed'
    BY DEF ListFails
<1>2. /\ Shaped(list') /\ list'.page = list.page /\ list'.key = list.key /\ list'.shown = list.shown
      /\ ~list'.loading /\ list'.timer = list.timer /\ list'.dialog = list.dialog
    BY Zenon, <1>1, FailsShaped DEF PageInv, PageTypes
<1>3. PageTypes' /\ Timed' /\ Focused' /\ Steady'
    BY <1>1, <1>2, EndsKept
<1> QED
    BY <1>1, <1>2, <1>3 DEF PageInv, Filtered, ShowsWhatItSays, ChartsDrawn

\* What was asked is done, and the page reads again.
LEMMA DoneShapes ==
    ASSUME Shaped(list), NEW d, list' = [list EXCEPT !.loading = TRUE, !.dialog = d]
    PROVE  /\ Shaped(list') /\ list'.page = list.page /\ list'.key = list.key
           /\ list'.shown = list.shown
           /\ list'.loading /\ list'.timer = list.timer /\ list'.dialog = d
<1>1. list' = [page |-> list.page, key |-> list.key, shown |-> list.shown, loading |-> TRUE,
           drawn |-> list.drawn, error |-> list.error, open |-> list.open, timer |-> list.timer,
           dialog |-> d]
    BY Zenon DEF Shaped
<1> QED
    BY Zenon, <1>1 DEF Shaped

LEMMA ActDoneKept ==
    ASSUME PageInv, NEW a \in acts, ActDone(a)
    PROVE  PageInv'
<1>1. PICK d : /\ d \in {NoDialog, list.dialog}
               /\ list' = [list EXCEPT !.loading = TRUE, !.dialog = d]
  <2>1. list' = [list EXCEPT !.loading = TRUE,
                             !.dialog = IF a.kind = "delete" THEN NoDialog ELSE list.dialog]
      BY Zenon DEF ActDone, PageInv, PageTypes, Shaped
  <2> QED
      BY Zenon, <2>1
<1>2. acts' = acts \ {a} /\ Begin(a.key)
    BY DEF ActDone
<1>3. /\ Shaped(list') /\ list'.page = list.page /\ list'.key = list.key /\ list'.shown = list.shown
      /\ list'.loading /\ list'.timer = list.timer /\ list'.dialog = d
    BY Zenon, <1>1, DoneShapes DEF PageInv, PageTypes
<1>4. ~NoDialog.open
  <2>1. NoDialog.open = FALSE
      BY Zenon DEF NoDialog
  <2> QED
      BY Zenon, <2>1
<1>5. /\ listReads' \in [AllKeys -> Nat]
      /\ \A q \in AllKeys : listReads'[q] = IF q = a.key THEN listReads[q] + 1 ELSE listReads[q]
      /\ ~raced' => ~OtherReads(a.key)' /\ a.key = list'.key
      /\ raced' => OtherReads(a.key) \/ a.key # list'.key \/ raced
    BY <1>2, BeginsOne DEF PageInv
<1>6. PageTypes' /\ Timed' /\ Filtered' /\ ShowsWhatItSays' /\ ChartsDrawn'
    BY <1>3, <1>5 DEF PageInv, PageTypes, Timed, Filtered, ShowsWhatItSays, ChartsDrawn
<1>7. Focused'
    BY <1>3, <1>5 DEF Focused, OtherReads
<1>8. Steady'
  <2>1. CASE list.page \in {"overview", "health", "bugs"}
    <3>1. /\ list.page = "bugs"
          /\ a.key = list.key /\ ~raced /\ ~OtherReads(list.key) /\ ~list.dialog.open
        BY <2>1 DEF PageInv, Steady, Focused
    <3> QED
        BY <1>1, <1>2, <1>3, <1>4, <1>5, <3>1 DEF PageInv, Steady
  <2>2. CASE list.page \notin {"overview", "health", "bugs"}
      BY <1>3, <2>2 DEF Steady
  <2> QED
      BY <2>1, <2>2
<1> QED
    BY <1>6, <1>7, <1>8 DEF PageInv

LEMMA FetchHealthKept ==
    ASSUME PageInv, FetchHealth
    PROVE  PageInv'
<1>1. list.page = "health" /\ UNCHANGED <<list, acts>> /\ Begin(list.key) /\ UNCHANGED failed
    BY DEF FetchHealth, NoAct, Begin
<1>2. /\ listReads' \in [AllKeys -> Nat]
      /\ \A q \in AllKeys : listReads'[q] = IF q = list.key THEN listReads[q] + 1 ELSE listReads[q]
      /\ raced' => OtherReads(list.key) \/ list.key # list'.key \/ raced
    BY <1>1, BeginsOne DEF PageInv
<1>3. ~raced /\ ~raced' /\ ~OtherReads(list.key)
    BY <1>1, <1>2 DEF PageInv, Steady, Focused
<1> QED
    BY <1>1, <1>2, <1>3 DEF PageInv, PageTypes, Timed, Focused, Steady, Filtered, ShowsWhatItSays,
       ChartsDrawn, OtherReads

LEMMA PageKept == PageInv /\ [PageNext]_pageVars => PageInv'
<1> SUFFICES ASSUME PageInv, [PageNext]_pageVars PROVE PageInv'
    OBVIOUS
<1>1. CASE UNCHANGED pageVars
    BY <1>1 DEF pageVars, PageInv, PageTypes, Timed, Focused, Steady, Filtered, ShowsWhatItSays,
       ChartsDrawn, OtherReads
<1>2. CASE \/ OpenPalette \/ HandleAction \/ HandleDelete \/ ConfirmDelete \/ CloseDialog
           \/ \E a \in acts : ActFails(a)
    BY <1>2, AsideSteps
<1>3. ASSUME NEW k \in PageKeys[list.page],
             \/ SetDateRange(k) \/ HandleSelect(k) \/ SetTimeFilter(k) \/ SetTab(k)
             \/ OpenTab(k) \/ HandlePageChange(k)
      PROVE  PageInv'
    BY <1>3, ReadForKept DEF SetDateRange, HandleSelect, SetTimeFilter, SetTab, OpenTab,
       HandlePageChange, DashboardShown, OverviewShown
<1>4. CASE HandleSearch \/ HandlePulse \/ FetchTransactions \/ FetchBugs
    BY <1>4, ReadForKept DEF HandleSearch, HandlePulse, FetchTransactions, FetchBugs
<1>5. CASE FetchHealth
    BY <1>5, FetchHealthKept
<1>6. ASSUME NEW k \in PageKeys[list.page], FilterLogs(k) \/ TypeSearch(k) PROVE PageInv'
    BY <1>6, FilterKept
<1>7. ASSUME NEW k \in PageKeys[list.page], TypeQuery(k) PROVE PageInv'
  <2>1. list.page = "palette" /\ QueryChanges(k) /\ list' = QueryTyped(k)
      BY <1>7 DEF TypeQuery
  <2>2. list' = [list EXCEPT !.key = k, !.loading = k # NoRows, !.timer = k,
                             !.shown = IF k = NoRows THEN NoRows ELSE @, !.open = list.open]
      BY Zenon, <2>1 DEF QueryTyped, PageInv, PageTypes, Shaped
  <2> QED
      BY <2>1, <2>2, QueryKept
<1>8. CASE ClosePalette
  <2>1. list.page = "palette" /\ QueryChanges(NoRows)
        /\ list' = [QueryTyped(NoRows) EXCEPT !.open = FALSE]
      BY <1>8 DEF ClosePalette
  <2>2. list' = [list EXCEPT !.key = NoRows, !.loading = NoRows # NoRows, !.timer = NoRows,
                             !.shown = IF NoRows = NoRows THEN NoRows ELSE @, !.open = FALSE]
      BY Zenon, <2>1 DEF QueryTyped, PageInv, PageTypes, Shaped
  <2> QED
      BY <2>1, <2>2, QueryKept
<1>9. CASE FetchResults
    BY <1>9, FetchResultsKept
<1>10. ASSUME NEW k \in AllKeys, ListAnswered(k) PROVE PageInv'
    BY <1>10, AnsweredKept
<1>11. ASSUME NEW k \in AllKeys, ListFails(k) PROVE PageInv'
    BY <1>11, FailsKept
<1>12. ASSUME NEW a \in acts, ActDone(a) PROVE PageInv'
    BY <1>12, ActDoneKept
<1> QED
    BY <1>1, <1>2, <1>3, <1>4, <1>5, <1>6, <1>7, <1>8, <1>9, <1>10, <1>11, <1>12 DEF PageNext

(* A page shows the rows of the key it is set to, for any keys, any number  *)
(* of reads and any order of answers, but for reads that raced and a last   *)
(* read that failed (TransactionsPage.js, ApprovalsPage.js, HomePage.js).   *)
THEOREM ShowsWhatItSaysCorrect == PageSpec => []ShowsWhatItSays
<1>1. PageInv => ShowsWhatItSays
    BY DEF PageInv
<1> QED
    BY <1>1, PageStarts, PageKept, PTL DEF PageSpec

(* The dashboard's charts are drawn for the figures it shows, whatever read *)
(* them again and in whatever order it was answered (HomePage.js).          *)
THEOREM ChartsDrawnCorrect == PageSpec => []ChartsDrawn
<1>1. PageInv => ChartsDrawn
    BY DEF PageInv
<1> QED
    BY <1>1, PageStarts, PageKept, PTL DEF PageSpec

-----------------------------------------------------------------------------
(* The contacts page.                                                       *)

\* What the open segment's view asked, and still hears.
Posts == {"manual", "upload", "bulk", "import", "phonebook", "remove", "delete"}
Aimed(c) == c.op = "members" \/ (c.mounted /\ c.op \in Posts)

\* A call of the view is of the segment that is open.
CallFits(c) ==
    /\ {"op", "seg", "mounted"} \subseteq DOMAIN c
    /\ c.op = "create" => c.seg \in Segment
    /\ ~switched /\ Aimed(c) => DetailShown /\ c.seg = book.open

\* The rows there are, loading or not, are of the segment that is open.
RowsFit == ~switched /\ DetailShown => detail.members = {} \/ detail.from = book.open

BookInv ==
    /\ "open" \in DOMAIN book /\ {"from", "members"} \subseteq DOMAIN detail
    /\ \A c \in bookCalls : CallFits(c)
    /\ RowsFit

-----------------------------------------------------------------------------
LEMMA CallMade ==
    ASSUME NEW op, NEW s, NEW arg
    PROVE  /\ {"op", "seg", "mounted"} \subseteq DOMAIN Call(op, s, arg)
           /\ Call(op, s, arg).op = op /\ Call(op, s, arg).seg = s
    BY DEF Call

LEMMA FreshRows ==
    FreshDetail.members = {} /\ {"from", "members"} \subseteq DOMAIN FreshDetail
    BY DEF FreshDetail

LEMMA OtherCallFits ==
    ASSUME NEW op \in {"groups", "all", "directory", "erase"}, NEW s, NEW arg
    PROVE  CallFits(Call(op, s, arg))
<1>1. /\ op \notin Posts \cup {"members", "create"}
      /\ Call(op, s, arg).op = op /\ {"op", "seg", "mounted"} \subseteq DOMAIN Call(op, s, arg)
    BY CallMade DEF Posts
<1> QED
    BY Zenon, <1>1 DEF CallFits, Aimed

LEMMA OwnCallFits ==
    ASSUME DetailShown, NEW op \in Posts \cup {"members"}, NEW s, NEW arg,
           ~switched => s = book.open
    PROVE  CallFits(Call(op, s, arg))
<1>1. op # "create"
    BY DEF Posts
<1> QED
    BY <1>1, CallMade DEF CallFits

LEMMA Unheard ==
    ASSUME NEW c, CallFits(c), NEW d, d = [c EXCEPT !.mounted = FALSE]
    PROVE  CallFits(d) /\ d.op = c.op /\ ~d.mounted
<1>1. /\ d.op = c.op /\ d.seg = c.seg /\ d.mounted = FALSE
      /\ {"op", "seg", "mounted"} \subseteq DOMAIN d
    BY Zenon DEF CallFits
<1> QED
    BY Zenon, <1>1 DEF CallFits, Aimed

\* Leaving a view that reads the members leaves no call of the view.
LEMMA UnmountedFits ==
    ASSUME BookInv, NEW dropped, NEW c \in Unmounted(dropped)
    PROVE  CallFits(c) /\ ("members" \in dropped => ~Aimed(c))
<1>1. CASE c \in bookCalls /\ c.op \in {"groups", "create"}
    BY <1>1 DEF BookInv, Aimed, Posts
<1>2. CASE \E d \in bookCalls : /\ d.op \notin dropped
                                /\ c = [d EXCEPT !.mounted = FALSE]
  <2>1. PICK d \in bookCalls : d.op \notin dropped /\ c = [d EXCEPT !.mounted = FALSE]
      BY <1>2
  <2>2. CallFits(c) /\ c.op = d.op /\ ~c.mounted
      BY <2>1, Unheard DEF BookInv
  <2> QED
      BY <2>1, <2>2 DEF Aimed
<1> QED
    BY <1>1, <1>2 DEF Unmounted

\* A step that leaves the segment and its rows as they are.
LEMMA SameSegment ==
    ASSUME BookInv, "open" \in DOMAIN book', book'.open = book.open,
           {"from", "members"} \subseteq DOMAIN detail',
           detail'.from = detail.from, detail'.members = detail.members,
           switched' = switched,
           \A c \in bookCalls' : c \in bookCalls \/ CallFits(c)
    PROVE  BookInv'
<1>1. ASSUME NEW c \in bookCalls' PROVE CallFits(c)'
  <2>1. CallFits(c)
      BY DEF BookInv
  <2> QED
      BY <2>1 DEF CallFits, DetailShown, Aimed
<1>2. RowsFit'
    BY DEF BookInv, RowsFit, DetailShown
<1> QED
    BY <1>1, <1>2 DEF BookInv

-----------------------------------------------------------------------------
LEMMA GroupsFetchedKeeps ==
    ASSUME BookInv, NEW c \in BookCallsOf("groups"), GroupsFetched(c)
    PROVE  BookInv'
<1>1. "open" \in DOMAIN book' /\ book'.open = book.open
    BY Zenon DEF GroupsFetched, BookInv
<1>2. UNCHANGED <<detail, switched>> /\ bookCalls' \subseteq bookCalls
    BY DEF GroupsFetched
<1> QED
    BY <1>1, <1>2, SameSegment DEF BookInv

LEMMA SwitchViewKeeps ==
    ASSUME BookInv, NEW v, SwitchView(v)
    PROVE  BookInv'
<1>1. "open" \in DOMAIN book' /\ book'.open = book.open
    BY Zenon DEF SwitchView, BookInv
<1>2. UNCHANGED <<detail, switched>>
    BY DEF SwitchView
<1>3. \A c \in bookCalls' : c \in bookCalls \/ CallFits(c)
    BY UnmountedFits, OtherCallFits DEF SwitchView, ReadDirectory
<1> QED
    BY <1>1, <1>2, <1>3, SameSegment DEF BookInv

LEMMA OpenSegmentKeeps ==
    ASSUME BookInv, NEW s \in Segment, OpenSegment(s)
    PROVE  BookInv'
<1>1. "open" \in DOMAIN book' /\ book'.open = s
    BY Zenon DEF OpenSegment, BookInv
<1>2. detail'.members = {} /\ {"from", "members"} \subseteq DOMAIN detail'
    BY FreshRows DEF OpenSegment
<1>3. s # NoSegment /\ ~DetailShown /\ switched' = switched
    BY BookAssumption DEF OpenSegment, ListShown, DetailShown
<1>4. ASSUME NEW c \in bookCalls' PROVE CallFits(c)'
  <2>1. CASE c \in bookCalls
      BY <2>1, <1>3 DEF BookInv, CallFits
  <2>2. CASE c = Call("members", s, Members(s))
    <3>1. c.op # "create"
        BY <2>2, CallMade
    <3> QED
        BY <2>2, <3>1, <1>1, <1>3, CallMade DEF CallFits, DetailShown
  <2> QED
      BY <2>1, <2>2 DEF OpenSegment, ReadMembers
<1> QED
    BY <1>1, <1>2, <1>4 DEF BookInv, RowsFit

LEMMA HandleCreateGroupKeeps ==
    ASSUME BookInv, NEW s \in Segment, HandleCreateGroup(s)
    PROVE  BookInv'
<1>1. CallFits(Call("create", s, {}))
    BY CallMade DEF CallFits, Aimed, Posts
<1>2. UNCHANGED <<book, detail, switched>>
    BY DEF HandleCreateGroup
<1>3. \A c \in bookCalls' : c \in bookCalls \/ CallFits(c)
    BY <1>1 DEF HandleCreateGroup
<1> QED
    BY <1>2, <1>3, SameSegment DEF BookInv

\* An answer that replaces the segment that is open is recorded as such.
LEMMA GroupCreatedKeeps ==
    ASSUME BookInv, NEW c \in BookCallsOf("create"), GroupCreated(c)
    PROVE  BookInv'
<1>1. c \in bookCalls /\ c.seg \in Segment /\ c.seg # NoSegment
    BY BookAssumption DEF BookCallsOf, BookInv, CallFits
<1>2. "open" \in DOMAIN book' /\ book'.open = c.seg
    BY Zenon DEF GroupCreated, BookInv
<1>3. switched' = (switched \/ DetailShown)
    BY DEF GroupCreated
<1>4. {"from", "members"} \subseteq DOMAIN detail' /\ (~DetailShown => detail'.members = {})
  <2>1. CASE DetailShown
      BY <2>1, Zenon DEF GroupCreated, BookInv
  <2>2. CASE ~DetailShown
      BY <2>2, FreshRows DEF GroupCreated
  <2> QED
      BY <2>1, <2>2
<1>5. ASSUME NEW d \in bookCalls' PROVE CallFits(d)'
  <2>1. \/ CallFits(d)
        \/ d = Call("members", c.seg, {})
    <3>1. d \in bookCalls \/ d \in Unmounted({"directory"})
          \/ d = Call("groups", NoSegment, DOMAIN [s \in DOMAIN groups \cup {c.seg} |-> Members(s)])
          \/ d = Call("members", c.seg, {}) \/ d = ReadAll
        BY DEF GroupCreated
    <3> QED
        BY <3>1, UnmountedFits, OtherCallFits DEF BookInv, ReadAll
  <2>2. CASE CallFits(d)
      BY <2>2, <1>3 DEF CallFits
  <2>3. CASE d = Call("members", c.seg, {})
    <3>1. d.op # "create"
        BY <2>3, CallMade
    <3> QED
        BY <2>3, <3>1, <1>1, <1>2, CallMade DEF CallFits, DetailShown
  <2> QED
      BY <2>1, <2>2, <2>3
<1> QED
    BY <1>2, <1>3, <1>4, <1>5 DEF BookInv, RowsFit

LEMMA CreateFailsKeeps ==
    ASSUME BookInv, NEW c \in BookCallsOf("create"), CreateFails(c)
    PROVE  BookInv'
<1>1. "open" \in DOMAIN book' /\ book'.open = book.open
    BY DEF CreateFails, BookInv
<1> QED
    BY <1>1, SameSegment DEF CreateFails, BookInv

\* No segment is open, and no call of a view is left.
LEMMA ClosedFits ==
    ASSUME BookInv, NEW dropped, "members" \in dropped, "open" \in DOMAIN book',
           book'.open = NoSegment, detail' = FreshDetail, switched' = switched,
           \A d \in bookCalls' : \/ d \in Unmounted(dropped)
                                 \/ \E arg : d = Call("groups", NoSegment, arg)
    PROVE  BookInv'
<1>1. ASSUME NEW d \in bookCalls' PROVE CallFits(d)'
  <2>1. CASE d \in Unmounted(dropped)
      BY <2>1, UnmountedFits DEF CallFits
  <2>2. CASE \E arg : d = Call("groups", NoSegment, arg)
    <3>1. d.op = "groups" /\ {"op", "seg", "mounted"} \subseteq DOMAIN d
        BY <2>2, CallMade
    <3>2. d.op # "create" /\ ~Aimed(d)
        BY <3>1 DEF Aimed, Posts
    <3> QED
        BY <3>1, <3>2 DEF CallFits, Aimed
  <2> QED
      BY <2>1, <2>2
<1>2. ~DetailShown'
    BY DEF DetailShown
<1> QED
    BY <1>1, <1>2, FreshRows DEF BookInv, RowsFit

LEMMA BackKeeps ==
    ASSUME BookInv, Back PROVE BookInv'
<1>1. "open" \in DOMAIN book' /\ book'.open = NoSegment
    BY Zenon DEF Back, BookInv
<1> QED
    BY <1>1, ClosedFits DEF Back

LEMMA SetActiveTabKeeps ==
    ASSUME BookInv, NEW t, SetActiveTab(t) PROVE BookInv'
<1>1. /\ {"from", "members"} \subseteq DOMAIN detail'
      /\ detail'.from = detail.from /\ detail'.members = detail.members
    BY Zenon DEF SetActiveTab, BookInv
<1>2. UNCHANGED <<book, switched>>
    BY DEF SetActiveTab
<1>3. \A c \in bookCalls' : c \in bookCalls \/ CallFits(c)
    BY OwnCallFits, OtherCallFits DEF SetActiveTab, TabReads, ReadMembers, ReadAll
<1> QED
    BY <1>1, <1>2, <1>3, SameSegment DEF BookInv

\* The answer that is taken is of the segment it was asked for.
LEMMA MembersFetchedKeeps ==
    ASSUME BookInv, NEW c \in BookCallsOf("members"), MembersFetched(c) PROVE BookInv'
<1>1. UNCHANGED <<book, switched>> /\ bookCalls' \subseteq bookCalls
    BY DEF MembersFetched
<1>2. ~switched => c.seg = book.open
    BY DEF BookCallsOf, BookInv, CallFits, Aimed
<1>3. CASE detail' = [detail EXCEPT !.loading = FALSE]
  <2>1. /\ {"from", "members"} \subseteq DOMAIN detail'
        /\ detail'.from = detail.from /\ detail'.members = detail.members
      BY <1>3, Zenon DEF BookInv
  <2> QED
      BY <1>1, <2>1, SameSegment DEF BookInv
<1>4. CASE \E got : detail' = [detail EXCEPT !.loading = FALSE, !.from = c.seg,
                                              !.members = Deduplicated(got)]
  <2>1. {"from", "members"} \subseteq DOMAIN detail' /\ detail'.from = c.seg
      BY <1>4, Zenon DEF BookInv
  <2>2. ASSUME NEW d \in bookCalls' PROVE CallFits(d)'
      BY <1>1 DEF BookInv, CallFits, DetailShown, Aimed
  <2> QED
      BY <1>1, <1>2, <2>1, <2>2 DEF BookInv, RowsFit, DetailShown
<1> QED
    BY <1>3, <1>4 DEF MembersFetched

LEMMA AllFetchedKeeps ==
    ASSUME BookInv, NEW c, AllFetched(c) PROVE BookInv'
<1>1. PICK got : detail' = [detail EXCEPT !.all = got, !.others = DOMAIN groups \ {book.open}]
    BY DEF AllFetched
<1>2. /\ {"from", "members"} \subseteq DOMAIN detail'
      /\ detail'.from = detail.from /\ detail'.members = detail.members
    BY <1>1, Zenon DEF BookInv
<1>3. UNCHANGED <<book, switched>> /\ bookCalls' \subseteq bookCalls
    BY DEF AllFetched
<1> QED
    BY <1>2, <1>3, SameSegment DEF BookInv

\* What is asked of the open segment.
LEMMA AsksKeeps ==
    ASSUME BookInv, DetailShown, NEW op \in Posts, NEW arg, NEW d,
           {"from", "members"} \subseteq DOMAIN d,
           d.from = detail.from /\ d.members = detail.members,
           Asks(Call(op, book.open, arg), d)
    PROVE  BookInv'
<1>1. detail' = d /\ UNCHANGED <<book, switched>>
    BY DEF Asks
<1>2. \A c \in bookCalls' : c \in bookCalls \/ CallFits(c)
    BY OwnCallFits DEF Asks
<1> QED
    BY <1>1, <1>2, SameSegment DEF BookInv

LEMMA BusyRows ==
    ASSUME BookInv, NEW x, NEW d, d = [detail EXCEPT !.busy = @ \cup x]
    PROVE  /\ {"from", "members"} \subseteq DOMAIN d
           /\ d.from = detail.from /\ d.members = detail.members
    BY Zenon DEF BookInv

LEMMA AskingKeeps ==
    ASSUME BookInv, NEW m, NEW C,
           \/ HandleRemoveMember(m) \/ HandleManualAdd(m) \/ HandleUpload(C)
           \/ HandleSelectPhoneContacts(C) \/ HandleBulkAddExisting
           \/ HandleDeleteSegment \/ ConfirmImport
    PROVE  BookInv'
<1>1. DetailShown
    BY DEF HandleRemoveMember, RowOffered, HandleManualAdd, ManualOffered, HandleUpload,
           UploadOffered, HandleSelectPhoneContacts, PhonebookOffered,
           HandleBulkAddExisting, ExistingOffered, HandleDeleteSegment, ConfirmImport, DialogIdle
<1>2. PICK op, arg, d :
         /\ op \in Posts
         /\ d = detail \/ \E x : d = [detail EXCEPT !.busy = @ \cup x]
         /\ Asks(Call(op, book.open, arg), d)
    BY DEF HandleRemoveMember, HandleManualAdd, HandleUpload, HandleSelectPhoneContacts,
           HandleBulkAddExisting, HandleDeleteSegment, ConfirmImport, Posts
<1>3. /\ {"from", "members"} \subseteq DOMAIN d
      /\ d.from = detail.from /\ d.members = detail.members
    BY <1>2, BusyRows DEF BookInv
<1> QED
    BY <1>1, <1>2, <1>3, AsksKeeps

\* The choices and the dialog of the view.
LEMMA ChoosingKeeps ==
    ASSUME BookInv, NEW c, NEW s,
           \/ ToggleExistingContact(c) \/ HandleSelectSegmentContacts(s)
           \/ AskDeleteSegment \/ CancelDialog
    PROVE  BookInv'
<1>1. UNCHANGED <<book, bookCalls, switched>>
    BY DEF ToggleExistingContact, HandleSelectSegmentContacts, AskDeleteSegment, CancelDialog
<1>2. PICK x : \/ detail' = [detail EXCEPT !.picked = x]
               \/ detail' = [detail EXCEPT !.confirm = x]
    BY DEF ToggleExistingContact, HandleSelectSegmentContacts, AskDeleteSegment, CancelDialog
<1>3. /\ {"from", "members"} \subseteq DOMAIN detail'
      /\ detail'.from = detail.from /\ detail'.members = detail.members
    BY <1>2, Zenon DEF BookInv
<1> QED
    BY <1>1, <1>3, SameSegment DEF BookInv

\* The two ends of a handler that adds to a segment.
LEMMA AddedToKeeps ==
    ASSUME BookInv, NEW c \in bookCalls, c.op \in Posts, NEW tab, NEW clear,
           AddedTo(c, tab, clear), UNCHANGED switched
    PROVE  BookInv'
<1>1. "open" \in DOMAIN book' /\ book'.open = book.open
    BY Zenon DEF AddedTo, FetchGroups, BookInv
<1>2. /\ {"from", "members"} \subseteq DOMAIN detail'
      /\ detail'.from = detail.from /\ detail'.members = detail.members
  <2>1. CASE c.mounted
      BY <2>1, Zenon DEF AddedTo, BookInv
  <2>2. CASE ~c.mounted
      BY <2>2 DEF AddedTo, BookInv
  <2> QED
      BY <2>1, <2>2
<1>3. ASSUME NEW d \in bookCalls', d \notin bookCalls PROVE CallFits(d)
  <2>1. CASE d = Call("groups", NoSegment, DOMAIN groups)
      BY <2>1, OtherCallFits
  <2>2. CASE /\ c.mounted
             /\ \E s \in {c.seg, book.open} : d = Call("members", s, Members(s) \cup c.arg)
    <3>1. ~switched => DetailShown /\ c.seg = book.open
        BY <2>2 DEF BookInv, CallFits, Aimed
    <3>2. PICK s \in {c.seg, book.open} : d = Call("members", s, Members(s) \cup c.arg)
        BY <2>2
    <3>3. /\ d.op = "members" /\ d.seg = s /\ {"op", "seg", "mounted"} \subseteq DOMAIN d
        BY <3>2, CallMade
    <3> QED
        BY <3>1, <3>3 DEF CallFits
  <2> QED
      BY <1>3, <2>1, <2>2 DEF AddedTo
<1> QED
    BY <1>1, <1>2, <1>3, SameSegment

LEMMA AddFailsKeeps ==
    ASSUME BookInv, NEW c, AddFails(c), UNCHANGED switched
    PROVE  BookInv'
<1>1. /\ {"from", "members"} \subseteq DOMAIN detail'
      /\ detail'.from = detail.from /\ detail'.members = detail.members
  <2>1. CASE c.mounted
      BY <2>1, Zenon DEF AddFails, BookInv
  <2>2. CASE ~c.mounted
      BY <2>2 DEF AddFails, BookInv
  <2> QED
      BY <2>1, <2>2
<1>2. UNCHANGED book /\ bookCalls' \subseteq bookCalls
    BY DEF AddFails
<1> QED
    BY <1>1, <1>2, SameSegment DEF BookInv

LEMMA AddingKeeps ==
    ASSUME BookInv, NEW c \in bookCalls, c.op \in Posts,
           ManualAdded(c) \/ Uploaded(c) \/ BulkAdded(c) \/ Imported(c)
    PROVE  BookInv'
<1>1. /\ UNCHANGED switched
      /\ AddFails(c) \/ \E tab, clear : AddedTo(c, tab, clear)
    BY DEF ManualAdded, Uploaded, BulkAdded, Imported
<1> QED
    BY <1>1, AddFailsKeeps, AddedToKeeps

LEMMA PhonebookImportedKeeps ==
    ASSUME BookInv, NEW c, PhonebookImported(c)
    PROVE  BookInv'
<1>1. /\ {"from", "members"} \subseteq DOMAIN detail'
      /\ detail'.from = detail.from /\ detail'.members = detail.members
  <2>1. CASE c.mounted
    <3>1. detail' = [detail EXCEPT !.busy = @ \ {c.op}]
        BY <2>1 DEF PhonebookImported
    <3> QED
        BY <3>1, Zenon DEF BookInv
  <2>2. CASE ~c.mounted
      BY <2>2 DEF PhonebookImported, BookInv
  <2> QED
      BY <2>1, <2>2
<1>2. UNCHANGED <<book, switched>>
    BY DEF PhonebookImported
<1>3. \A d \in bookCalls' : d \in bookCalls \/ \E arg : d = Call("all", NoSegment, arg)
    BY DEF PhonebookImported
<1>4. \A d \in bookCalls' : d \in bookCalls \/ CallFits(d)
    BY <1>3, OtherCallFits
<1> QED
    BY <1>1, <1>2, <1>4, SameSegment DEF BookInv

LEMMA RemovedKeeps ==
    ASSUME BookInv, NEW c \in bookCalls, c.op \in Posts, Removed(c)
    PROVE  BookInv'
<1>1. "open" \in DOMAIN book' /\ book'.open = book.open
  <2>1. UNCHANGED book \/ book' = [book EXCEPT !.loading = TRUE]
      BY DEF Removed, FetchGroups
  <2> QED
      BY <2>1, Zenon DEF BookInv
<1>2. /\ {"from", "members"} \subseteq DOMAIN detail'
      /\ detail'.from = detail.from /\ detail'.members = detail.members
  <2>1. UNCHANGED detail \/ detail' = [detail EXCEPT !.loading = TRUE]
      BY DEF Removed
  <2> QED
      BY <2>1, Zenon DEF BookInv
<1>3. ASSUME NEW d \in bookCalls', d \notin bookCalls PROVE CallFits(d)
  <2>1. CASE d = ReadGroups
      BY <2>1, OtherCallFits DEF ReadGroups
  <2>2. CASE c.mounted /\ d = Call("members", c.seg, Members(c.seg) \ c.arg)
    <3>1. ~switched => DetailShown /\ c.seg = book.open
        BY <2>2 DEF BookInv, CallFits, Aimed
    <3>2. /\ d.op = "members" /\ d.seg = c.seg /\ {"op", "seg", "mounted"} \subseteq DOMAIN d
        BY <2>2, CallMade
    <3> QED
        BY <3>1, <3>2 DEF CallFits
  <2> QED
      BY <1>3, <2>1, <2>2 DEF Removed
<1>4. UNCHANGED switched
    BY DEF Removed
<1> QED
    BY <1>1, <1>2, <1>3, <1>4, SameSegment

LEMMA SegmentDeletedKeeps ==
    ASSUME BookInv, NEW c, SegmentDeleted(c)
    PROVE  BookInv'
<1>1. UNCHANGED switched
    BY DEF SegmentDeleted
<1>2. CASE AddFails(c)
    BY <1>1, <1>2, AddFailsKeeps
<1>3. CASE ~AddFails(c)
  <2>1. /\ book' = [book EXCEPT !.open = NoSegment, !.loading = TRUE]
        /\ detail' = FreshDetail
        /\ \A d \in bookCalls' : \/ d \in Unmounted({"members", "all"})
                                 \/ \E arg : d = Call("groups", NoSegment, arg)
      BY <1>3 DEF SegmentDeleted
  <2>2. "open" \in DOMAIN book' /\ book'.open = NoSegment
      BY <2>1, Zenon DEF BookInv
  <2> QED
      BY <1>1, <2>1, <2>2, ClosedFits
<1> QED
    BY <1>2, <1>3

\* The page of all contacts, and the two forms that edit one.
LEMMA DirectoryKeeps ==
    ASSUME BookInv, NEW c,
           \/ DirectoryFetched(c) \/ AskDeleteContact(c) \/ HandleDeleteContact
           \/ ContactDeleted(c)
    PROVE  BookInv'
<1>1. UNCHANGED <<book, detail, switched>>
    BY DEF DirectoryFetched, AskDeleteContact, HandleDeleteContact, ContactDeleted
<1>2. \A d \in bookCalls' : \/ d \in bookCalls
                            \/ \E op \in {"erase", "directory"} :
                                 \E arg : d = Call(op, NoSegment, arg)
    BY DEF DirectoryFetched, AskDeleteContact, HandleDeleteContact, ContactDeleted
<1>3. \A d \in bookCalls' : d \in bookCalls \/ CallFits(d)
    BY <1>2, OtherCallFits
<1> QED
    BY <1>1, <1>3, SameSegment DEF BookInv

LEMMA EditingKeeps ==
    ASSUME BookInv, NEW x, ToggleEdit(x) \/ EditSaved
    PROVE  BookInv'
<1>1. UNCHANGED <<book, switched>>
    BY DEF ToggleEdit, EditSaved
<1>2. PICK e : \/ UNCHANGED detail
               \/ detail' = [detail EXCEPT !.editing = e]
               \/ detail' = [detail EXCEPT !.editing = e, !.loading = TRUE]
    BY DEF ToggleEdit, EditSaved
<1>3. /\ {"from", "members"} \subseteq DOMAIN detail'
      /\ detail'.from = detail.from /\ detail'.members = detail.members
    BY <1>2, Zenon DEF BookInv
<1>4. ASSUME NEW d \in bookCalls', d \notin bookCalls PROVE CallFits(d)
    BY <1>4, OwnCallFits, OtherCallFits
       DEF ToggleEdit, EditSaved, ReadMembers, ReadDirectory
<1> QED
    BY <1>1, <1>3, <1>4, SameSegment DEF BookInv

-----------------------------------------------------------------------------
LEMMA BookStarts ==
    ASSUME BookInit PROVE BookInv
<1>1. "open" \in DOMAIN book /\ book.open = NoSegment
    BY Zenon DEF BookInit
<1>2. \A c \in bookCalls : CallFits(c)
    BY OtherCallFits DEF BookInit
<1> QED
    BY <1>1, <1>2, FreshRows DEF BookInit, BookInv, RowsFit, DetailShown

LEMMA BookSteps ==
    ASSUME BookInv, BookNext PROVE BookInv'
<1>1. CASE \/ \E c \in BookCallsOf("groups") : GroupsFetched(c)
           \/ \E v : SwitchView(v)
           \/ \E s \in Segment : OpenSegment(s) \/ HandleCreateGroup(s)
           \/ \E c \in BookCallsOf("create") : GroupCreated(c) \/ CreateFails(c)
    BY <1>1, GroupsFetchedKeeps, SwitchViewKeeps, OpenSegmentKeeps, HandleCreateGroupKeeps,
       GroupCreatedKeeps, CreateFailsKeeps
<1>2. CASE ToggleCreateForm
  <2>1. "open" \in DOMAIN book' /\ book'.open = book.open
      BY <1>2, Zenon DEF ToggleCreateForm, BookInv
  <2> QED
      BY <1>2, <2>1, SameSegment DEF ToggleCreateForm, BookInv
<1>3. CASE \/ Back \/ \E t : SetActiveTab(t)
           \/ \E c \in BookCallsOf("members") : MembersFetched(c)
           \/ \E c : AllFetched(c)
    BY <1>3, BackKeeps, SetActiveTabKeeps, MembersFetchedKeeps, AllFetchedKeeps
<1>4. CASE \/ HandleDeleteSegment \/ ConfirmImport \/ HandleBulkAddExisting
           \/ \E x : HandleRemoveMember(x) \/ HandleManualAdd(x)
           \/ \E C : HandleUpload(C) \/ HandleSelectPhoneContacts(C)
    BY <1>4, AskingKeeps
<1>5. CASE \/ \E c : ToggleExistingContact(c) \/ HandleSelectSegmentContacts(c)
           \/ AskDeleteSegment \/ CancelDialog
    BY <1>5, ChoosingKeeps
<1>6. CASE \/ \E c \in BookCallsOf("manual") : ManualAdded(c)
           \/ \E c \in BookCallsOf("upload") : Uploaded(c)
           \/ \E c \in BookCallsOf("bulk") : BulkAdded(c)
           \/ \E c \in BookCallsOf("import") : Imported(c)
           \/ \E c \in BookCallsOf("remove") : Removed(c)
  <2>1. \A op \in Posts : \A c \in BookCallsOf(op) : c \in bookCalls /\ c.op \in Posts
      BY DEF BookCallsOf
  <2> QED
      BY <1>6, <2>1, AddingKeeps, RemovedKeeps DEF Posts
<1>7. CASE \E c : PhonebookImported(c) \/ SegmentDeleted(c)
    BY <1>7, PhonebookImportedKeeps, SegmentDeletedKeeps
<1>8. CASE \/ \E c : DirectoryFetched(c) \/ AskDeleteContact(c) \/ ContactDeleted(c)
           \/ HandleDeleteContact
    BY <1>8, DirectoryKeeps
<1>9. CASE EditSaved \/ \E x : ToggleEdit(x)
    BY <1>9, EditingKeeps
<1> QED
    BY <1>1, <1>2, <1>3, <1>4, <1>5, <1>6, <1>7, <1>8, <1>9, Zenon DEF BookNext

\* RowsOfOpenSegment of src/nexra-dashboard/src/pages/ContactsPage.js: for any
\* segments, contacts and calls under way, the rows under the name of a
\* segment are its own, unless the answer of a creation replaced the segment
\* that was open.
THEOREM RowsOfOpenSegmentCorrect == BookSpec => []RowsOfOpenSegment
<1>1. BookInv /\ UNCHANGED bookVars => BookInv'
    BY DEF BookInv, CallFits, RowsFit, DetailShown, Aimed, bookVars
<1>2. BookInv => RowsOfOpenSegment
    BY DEF BookInv, RowsFit, RowsOfOpenSegment
<1> QED
    BY <1>1, <1>2, BookStarts, BookSteps, PTL DEF BookSpec
=============================================================================
