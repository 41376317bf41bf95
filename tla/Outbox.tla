------------------------------- MODULE Outbox -------------------------------
(***************************************************************************)
(* The dashboard's campaigns page, whose cards offer what the status that  *)
(* was last read allows, and the quick-send form of the page header, which *)
(* makes a campaign and broadcasts it in one submit.                       *)
(***************************************************************************)
EXTENDS Naturals, FiniteSets

CONSTANTS
    Card,        \* campaigns there may be
    FirstCards,  \* those there may be first: campaign |-> status
    MaxOutbox,   \* bound: calls under way
    MaxFails,    \* bound: no campaign fails once one has failed this often
    MaxAgain,    \* bound: starts of a campaign that was started
    MaxSubmits   \* bound: submits of the quick-send form

Statuses == {"draft", "scheduled", "sending", "delivering", "completed", "cancelled",
             "failed"}

ASSUME OutboxAssumption ==
    /\ MaxSubmits \in Nat /\ MaxFails \in Nat /\ MaxAgain \in Nat
    /\ MaxOutbox \in Nat \ {0}
    /\ \A b \in FirstCards : DOMAIN b \subseteq Card /\ b \in [DOMAIN b -> Statuses]

VARIABLES
    board,     \* server: campaign |-> status, for those that exist
    made,      \* campaigns that were ever made
    tally,     \* campaign |-> requests to start it that the server let pass and has
               \* not committed; history: times it was started, times it failed,
               \* and requests let pass while it was delivering or beside another
    cards,     \* the page: campaigns shown, dialog and checkout that are open
    quick,     \* the quick-send form
    outCalls,  \* calls under way
    sentFor,   \* history: message composed |-> campaigns broadcast for it
    unsure     \* history: messages whose broadcast was not answered
outVars == <<board, made, tally, cards, quick, outCalls, sentFor, unsure>>

Nothing == "none"
OutCall(op, c, m) == [op |-> op, card |-> c, msg |-> m]
FetchCampaigns == OutCall("list", Nothing, 0)
OutInit ==
    /\ board \in FirstCards /\ made = DOMAIN board
    /\ tally = [c \in Card |-> [starts |-> 0, fails |-> 0, again |-> 0, passed |-> {}]]
    /\ cards = [shown |-> [c \in {} |-> Nothing], loading |-> TRUE,
                deleting |-> Nothing, busy |-> FALSE, checkout |-> Nothing]
    /\ quick = [open |-> FALSE, loading |-> FALSE, filled |-> FALSE, composed |-> 0]
    /\ outCalls = {OutCall("list", Nothing, 0)}
    /\ sentFor = [m \in 1..MaxSubmits |-> {}] /\ unsure = {}

OutRoom == Cardinality(outCalls) < MaxOutbox
Answered(op) == {x \in outCalls : x.op = op}

\* The page reads the campaigns when it is opened, after each change it made,
\* and every 15 seconds while one of those shown is active.
AutoRefresh ==
    /\ \E c \in DOMAIN cards.shown : cards.shown[c] = "sending"
    /\ OutRoom /\ outCalls' = outCalls \cup {FetchCampaigns}
    /\ UNCHANGED <<board, made, tally, cards, quick, sentFor, unsure>>

CardsRead(x) ==
    /\ outCalls' = outCalls \ {x}
    /\ cards' \in {[cards EXCEPT !.loading = FALSE, !.shown = board],
                   [cards EXCEPT !.loading = FALSE]}
    /\ UNCHANGED <<board, made, tally, quick, sentFor, unsure>>

\* What a card offers depends on the status it shows.
CardOffered(c) ==
    /\ ~cards.loading /\ c \in DOMAIN cards.shown
    /\ cards.deleting = Nothing /\ cards.checkout = Nothing /\ ~quick.open
Asking(x) == OutRoom /\ outCalls' = outCalls \cup {x}
               /\ UNCHANGED <<board, made, tally, quick, sentFor, unsure>>

HandleBatchRetry(c) ==
    /\ CardOffered(c) /\ cards.shown[c] \in {"failed", "draft"}
    /\ Asking(OutCall("retry", c, 0)) /\ UNCHANGED cards

HandleBroadcast(c) ==
    /\ CardOffered(c) /\ cards.shown[c] = "draft"
    /\ cards' = [cards EXCEPT !.checkout = c]
    /\ UNCHANGED <<board, made, tally, quick, outCalls, sentFor, unsure>>

NewRequest == CHOOSE n \in 1..MaxOutbox : \A x \in Answered("broadcast") : x.msg # n
ConfirmCheckout ==
    /\ cards.checkout # Nothing
    /\ cards' = [cards EXCEPT !.checkout = Nothing]
    /\ Asking(OutCall("broadcast", cards.checkout, NewRequest))

AskDelete(c) ==
    /\ CardOffered(c) /\ cards' = [cards EXCEPT !.deleting = c]
    /\ UNCHANGED <<board, made, tally, quick, outCalls, sentFor, unsure>>
HandleDeleteCampaign ==
    /\ cards.deleting # Nothing /\ ~cards.busy
    /\ cards' = [cards EXCEPT !.busy = TRUE]
    /\ Asking(OutCall("delete", cards.deleting, 0))

\* Mutant: the server starts whatever is asked for.
MayStartAnyway(c) == c \in DOMAIN board

\* The server refuses a campaign that is SENDING or COMPLETED, by the status it
\* reads; DELIVERING passes.  It writes SENDING, over what the status is by
\* then, when the request commits, which fails when the campaign is gone.
MayStart(c) == c \in DOMAIN board /\ board[c] \notin {"sending", "completed"}
Passes(x) ==
    /\ MayStart(x.card) /\ x \notin tally[x.card].passed
    /\ LET again == board[x.card] = "delivering" \/ tally[x.card].passed # {}
       IN  /\ again => tally[x.card].again < MaxAgain
           /\ tally' = [tally EXCEPT ![x.card].passed = @ \cup {x},
                                     ![x.card].again = @ + (IF again THEN 1 ELSE 0)]
Started(x) == /\ x.card \in DOMAIN board /\ x \in tally[x.card].passed
              /\ board' = [board EXCEPT ![x.card] = "sending"]
              /\ tally' = [tally EXCEPT ![x.card].starts = @ + 1, ![x.card].passed = @ \ {x}]
Dropped(x) == tally' = [tally EXCEPT ![x.card].passed = @ \ {x}]
Refused(x) == Dropped(x) /\ UNCHANGED board
\* A campaign whose time is ahead is left to the scheduler.
Scheduled(x) == /\ x.card \in DOMAIN board /\ x \in tally[x.card].passed
                /\ board' = [board EXCEPT ![x.card] = "scheduled"] /\ Dropped(x)

BroadcastPasses(x) ==
    /\ Passes(x) /\ UNCHANGED <<board, made, cards, quick, outCalls, sentFor, unsure>>
CardBroadcast(x) ==
    /\ \/ /\ Started(x) \/ Scheduled(x)
          /\ outCalls' \in {outCalls \ {x}, (outCalls \ {x}) \cup {FetchCampaigns}}
       \/ Refused(x) /\ outCalls' = outCalls \ {x}
    /\ UNCHANGED <<made, cards, quick, sentFor, unsure>>

\* A retry enqueues failed messages; it leaves the campaign's status alone.
CardRetried(x) ==
    /\ outCalls' \in {outCalls \ {x}, (outCalls \ {x}) \cup {FetchCampaigns}}
    /\ UNCHANGED <<board, made, tally, cards, quick, sentFor, unsure>>

CardDeleted(x) ==
    /\ \/ /\ board' = [c \in DOMAIN board \ {x.card} |-> board[c]]
          /\ outCalls' = (outCalls \ {x}) \cup {FetchCampaigns}
          /\ cards' = [cards EXCEPT !.deleting = Nothing, !.busy = FALSE]
       \/ /\ outCalls' = outCalls \ {x} /\ cards' = [cards EXCEPT !.busy = FALSE]
          /\ UNCHANGED board
    /\ UNCHANGED <<made, tally, quick, sentFor, unsure>>

\* The workers write the status: SENDING and DELIVERING at the two ends of the
\* batch that a start enqueues, and whenever a message changes, of a campaign
\* nobody started too, DELIVERING or, by its messages, COMPLETED or FAILED.
CampaignMoves(c) ==
    /\ c \in DOMAIN board
    /\ \/ /\ \E s \in {"sending", "delivering", "completed"} :
               /\ s # board[c] /\ (s = "sending" => tally[c].starts > 0)
               /\ board' = [board EXCEPT ![c] = s]
          /\ UNCHANGED tally
       \/ /\ board[c] # "failed" /\ \A d \in Card : tally[d].fails < MaxFails
          /\ board' = [board EXCEPT ![c] = "failed"]
          /\ tally' = [tally EXCEPT ![c].fails = @ + 1]
    /\ UNCHANGED <<made, cards, quick, outCalls, sentFor, unsure>>

\* The scheduler selects the campaigns whose time has come, and then starts
\* each; when one is gone by then it gives up.
Scheduling(c) == OutCall("schedule", c, 0)
SchedulerSelects(c) ==
    /\ c \in DOMAIN board /\ board[c] = "scheduled" /\ Passes(Scheduling(c))
    /\ UNCHANGED <<board, made, cards, quick, outCalls, sentFor, unsure>>
SchedulerStarts(c) ==
    /\ Scheduling(c) \in tally[c].passed
    /\ \/ Started(Scheduling(c))
       \/ c \notin DOMAIN board /\ Refused(Scheduling(c))
    /\ UNCHANGED <<made, cards, quick, outCalls, sentFor, unsure>>

----------------------------------------------------------------------------
(* Quick send.                                                              *)

\* The form stays as it is when it is closed; sending clears it.
ToggleQuickSend ==
    /\ quick' = [quick EXCEPT !.open = ~quick.open]
    /\ UNCHANGED <<board, made, tally, cards, outCalls, sentFor, unsure>>
Compose ==
    /\ quick.open /\ ~quick.filled /\ quick.composed < MaxSubmits
    /\ quick' = [quick EXCEPT !.filled = TRUE, !.composed = @ + 1]
    /\ UNCHANGED <<board, made, tally, cards, outCalls, sentFor, unsure>>

\* Mutant: Transmit stays enabled while the form is sent.
TransmitOfferedTwice == quick.open /\ quick.filled

\* Transmit is enabled for a text and a recipient, while it is not loading.
TransmitOffered == quick.open /\ quick.filled /\ ~quick.loading
HandleTransmit ==
    /\ TransmitOffered /\ OutRoom
    /\ quick' = [quick EXCEPT !.loading = TRUE]
    /\ outCalls' = outCalls \cup {OutCall("create", Nothing, quick.composed)}
    /\ UNCHANGED <<board, made, tally, cards, sentFor, unsure>>

TransmitFails == quick' = [quick EXCEPT !.loading = FALSE]
QuickCreated(x) ==
    /\ \/ /\ made # Card
          /\ LET c == CHOOSE d \in Card \ made : TRUE
             IN /\ board' = [d \in DOMAIN board \cup {c} |->
                                IF d = c THEN "draft" ELSE board[d]]
                /\ made' = made \cup {c}
                /\ outCalls' = (outCalls \ {x}) \cup {OutCall("transmit", c, x.msg)}
          /\ UNCHANGED quick
       \/ outCalls' = outCalls \ {x} /\ TransmitFails /\ UNCHANGED <<board, made>>
    /\ UNCHANGED <<tally, cards, sentFor, unsure>>

\* The second call may be refused, which leaves a draft behind, or be done
\* without its answer coming back.
QuickBroadcast(x) ==
    /\ outCalls' = outCalls \ {x}
    /\ \/ /\ Started(x)
          /\ sentFor' = [sentFor EXCEPT ![x.msg] = @ \cup {x.card}]
          /\ \/ /\ quick' = [quick EXCEPT !.loading = FALSE, !.open = FALSE, !.filled = FALSE]
                /\ UNCHANGED unsure
             \/ TransmitFails /\ unsure' = unsure \cup {x.msg}
       \/ TransmitFails /\ Refused(x) /\ UNCHANGED <<sentFor, unsure>>
    /\ UNCHANGED <<made, cards>>

OutNext ==
    \/ AutoRefresh \/ ConfirmCheckout \/ HandleDeleteCampaign
    \/ ToggleQuickSend \/ Compose \/ HandleTransmit
    \/ \E x \in Answered("list") : CardsRead(x)
    \/ \E x \in Answered("broadcast") : CardBroadcast(x)
    \/ \E x \in Answered("broadcast") \cup Answered("transmit") : BroadcastPasses(x)
    \/ \E x \in Answered("retry") : CardRetried(x)
    \/ \E x \in Answered("delete") : CardDeleted(x)
    \/ \E x \in Answered("create") : QuickCreated(x)
    \/ \E x \in Answered("transmit") : QuickBroadcast(x)
    \/ \E c \in Card : \/ HandleBatchRetry(c) \/ HandleBroadcast(c) \/ AskDelete(c)
                       \/ CampaignMoves(c) \/ SchedulerSelects(c) \/ SchedulerStarts(c)

OutSpec == OutInit /\ [][OutNext]_outVars

----------------------------------------------------------------------------
(* A campaign is started once, once more each time that it failed, and once *)
(* more for each request that passed while it was DELIVERING or while       *)
(* another had passed and not committed: the server's test and its commit   *)
(* are apart, and the test lets DELIVERING pass.  Nothing else starts a     *)
(* campaign twice: not the cards that show a status from before, a checkout *)
(* that stayed open, the scheduler beside them, or a late answer.           *)
StartedOncePerFailure ==
    \A c \in Card : tally[c].starts <= 1 + tally[c].fails + tally[c].again

(* A message composed in the quick-send form is broadcast once, although    *)
(* each submit makes a campaign of its own: the submit that is under way    *)
(* keeps the next from being made.  Only a broadcast whose answer was lost  *)
(* can be followed by another of the same message.                          *)
QuickSentOnce ==
    \A m \in 1..MaxSubmits : Cardinality(sentFor[m]) > 1 => m \in unsure
=============================================================================
