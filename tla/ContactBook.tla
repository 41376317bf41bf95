---------------------------- MODULE ContactBook ----------------------------
(***************************************************************************)
(* The dashboard's contacts page: the list of segments, the segment that   *)
(* is open, the page of all contacts, and the calls they have under way.   *)
(* Every handler is two steps: what it does before it awaits the API, and  *)
(* what it does with the answer.  A component that was replaced no longer  *)
(* hears its answers; what it asked the server to do is still done, and    *)
(* the callbacks it was given by the page still run.                       *)
(***************************************************************************)
EXTENDS Naturals, FiniteSets

CONSTANTS
    Segment,      \* identifiers of segments, made or still to be made
    Contact,      \* identifiers of contacts
    FirstSegments,\* the segments there are when the page is opened
    NumberOf,     \* the normalized phone number of a contact
    MaxBookCalls, \* bound: calls under way at once
    MaxWrites     \* bound: changes the user asks for

NoSegment == "none"
ASSUME BookAssumption == NoSegment \notin Segment

VARIABLES
    people,    \* server: contacts that exist
    groups,    \* server: segment |-> its members, for the segments that exist
    book,      \* the page: view, segments listed, segment open, create form
    detail,    \* SegmentDetailView of the open segment
    directory, \* GlobalContactsView
    bookCalls, \* calls that have not been answered
    asked,     \* number of changes the user asked for
    switched   \* history: an open segment was replaced under the user
bookVars == <<people, groups, book, detail, directory, bookCalls, asked, switched>>

Tabs == {"members", "existing", "manual", "upload"}
NoConfirm == [type |-> "none", data |-> NoSegment]

\* What a segment's view starts with when it is mounted.
FreshDetail ==
    [tab |-> "members", loading |-> TRUE, members |-> {}, from |-> NoSegment,
     all |-> {}, others |-> {}, picked |-> {}, confirm |-> NoConfirm,
     busy |-> {}, editing |-> FALSE]
FreshDirectory ==
    [loading |-> TRUE, contacts |-> {}, deleting |-> {}, editing |-> FALSE]

Members(s) == IF s \in DOMAIN groups THEN groups[s] ELSE {}
\* A read carries what the server would have answered when it was sent; the
\* answer is that, or what the server holds when it arrives.
Call(op, s, arg) == [op |-> op, seg |-> s, arg |-> arg, mounted |-> TRUE]
ReadMembers(s) == Call("members", s, Members(s))
ReadGroups     == Call("groups", NoSegment, DOMAIN groups)
ReadAll        == Call("all", NoSegment, people)
ReadDirectory  == Call("directory", NoSegment, people)
BookCallsOf(op) == {c \in bookCalls : c.op = op}
MayAsk == asked < MaxWrites /\ Cardinality(bookCalls) < MaxBookCalls

\* One contact per phone number, the first the server lists.
Deduplicated(C) ==
    {c \in C : \A d \in C : NumberOf[d] = NumberOf[c] => c = d}
      \cup {CHOOSE c \in C : NumberOf[c] = n :
              n \in {m \in {NumberOf[d] : d \in C} :
                       Cardinality({d \in C : NumberOf[d] = m}) > 1}}

BookInit ==
    /\ people = Contact /\ asked = 0 /\ switched = FALSE
    /\ groups = [s \in FirstSegments |-> Contact]
    /\ book = [view |-> "segments", loading |-> TRUE, listed |-> {},
               open |-> NoSegment, create |-> FALSE]
    /\ detail = FreshDetail /\ directory = FreshDirectory
    /\ bookCalls = {Call("groups", NoSegment, DOMAIN groups)}

----------------------------------------------------------------------------
(* The list of segments.                                                    *)

ListShown == book.open = NoSegment /\ book.view = "segments"
DirectoryShown == book.open = NoSegment /\ book.view = "all_contacts"
DetailShown == book.open # NoSegment
FetchGroups == [book EXCEPT !.loading = TRUE]

GroupsFetched(c) ==
    \E listed \in {c.arg, DOMAIN groups, book.listed} :  \* the last: it failed
       /\ book' = [book EXCEPT !.loading = FALSE, !.listed = listed]
       /\ bookCalls' = bookCalls \ {c}
       /\ UNCHANGED <<people, groups, detail, directory, asked, switched>>

\* Leaving a view: its reads are heard by no one, its writes go on.
Unmounted(reads) ==
    {c \in bookCalls : c.op \in {"groups", "create"}}
      \cup {[c EXCEPT !.mounted = FALSE] :
              c \in {d \in bookCalls : d.op \notin reads \cup {"groups", "create"}}}

SwitchView(v) ==
    /\ book.open = NoSegment /\ book.view # v /\ ~book.create
    /\ book' = [book EXCEPT !.view = v]
    /\ directory' = FreshDirectory
    /\ bookCalls' = IF v = "all_contacts" THEN bookCalls \cup {ReadDirectory}
                    ELSE Unmounted({"directory"})
    /\ UNCHANGED <<people, groups, detail, asked, switched>>

OpenSegment(s) ==
    /\ ListShown /\ ~book.loading /\ ~book.create /\ s \in book.listed
    /\ book' = [book EXCEPT !.open = s]
    /\ detail' = FreshDetail
    /\ bookCalls' = bookCalls \cup {ReadMembers(s)}
    /\ UNCHANGED <<people, groups, directory, asked, switched>>

ToggleCreateForm ==
    /\ ListShown
    /\ book' = [book EXCEPT !.create = ~book.create]
    /\ UNCHANGED <<people, groups, detail, directory, bookCalls, asked, switched>>

\* Nothing keeps the form from being submitted again, or closed, meanwhile.
HandleCreateGroup(s) ==
    /\ ListShown /\ book.create /\ MayAsk
    /\ s \notin DOMAIN groups \cup FirstSegments \cup {c.seg : c \in BookCallsOf("create")}
    /\ bookCalls' = bookCalls \cup {Call("create", s, {})}
    /\ asked' = asked + 1
    /\ UNCHANGED <<people, groups, book, detail, directory, switched>>

\* The answer opens the new segment, whatever the user has open by then: the
\* view is not mounted again, only its effect on [segment, activeTab] runs.
GroupCreated(c) ==
    /\ LET made == [s \in DOMAIN groups \cup {c.seg} |-> Members(s)]
           kept == [detail EXCEPT !.loading = TRUE]
       IN /\ groups' = made
          /\ book' = [book EXCEPT !.create = FALSE, !.loading = TRUE, !.open = c.seg]
          /\ detail' = IF DetailShown THEN kept ELSE FreshDetail
          /\ bookCalls' = ((IF DirectoryShown THEN Unmounted({"directory"})
                                              ELSE bookCalls) \ {c})
                \cup {Call("groups", NoSegment, DOMAIN made),
                      Call("members", c.seg, {})}
                \cup (IF DetailShown /\ detail.tab = "existing" THEN {ReadAll} ELSE {})
          /\ switched' = (switched \/ DetailShown)
    /\ UNCHANGED <<people, directory, asked>>

\* A failure leaves the form as it is; the segment may have been made.
CreateFails(c) ==
    /\ bookCalls' = bookCalls \ {c}
    /\ groups' \in {groups, [s \in DOMAIN groups \cup {c.seg} |-> Members(s)]}
    /\ UNCHANGED <<people, book, detail, directory, asked, switched>>

----------------------------------------------------------------------------
(* The open segment.                                                        *)

\* Mutant: leaving a segment does not give up its reads.
BackStillListens ==
    /\ DetailShown /\ detail.confirm = NoConfirm /\ ~detail.editing
    /\ book' = [book EXCEPT !.open = NoSegment]
    /\ detail' = FreshDetail
    /\ UNCHANGED <<people, groups, directory, bookCalls, asked, switched>>

Back ==
    /\ DetailShown /\ detail.confirm = NoConfirm /\ ~detail.editing
    /\ book' = [book EXCEPT !.open = NoSegment]
    /\ detail' = FreshDetail
    /\ bookCalls' = Unmounted({"members", "all"})
    /\ UNCHANGED <<people, groups, directory, asked, switched>>

\* The effect on [segment, activeTab] reads the members again on every tab,
\* and everything else on the tab of existing contacts.
TabReads(t) == {ReadMembers(book.open)} \cup (IF t = "existing" THEN {ReadAll} ELSE {})

SetActiveTab(t) ==
    /\ DetailShown /\ detail.tab # t /\ detail.confirm = NoConfirm /\ ~detail.editing
    /\ Cardinality(bookCalls) < MaxBookCalls
    /\ detail' = [detail EXCEPT !.tab = t, !.loading = TRUE]
    /\ bookCalls' = bookCalls \cup TabReads(t)
    /\ UNCHANGED <<people, groups, book, directory, asked, switched>>

\* The answer is not compared with the segment that is open.
MembersFetched(c) ==
    /\ bookCalls' = bookCalls \ {c}
    /\ \/ \E got \in {c.arg, Members(c.seg)} :
            detail' = [detail EXCEPT !.loading = FALSE, !.from = c.seg,
                                     !.members = Deduplicated(got)]
       \/ detail' = [detail EXCEPT !.loading = FALSE]
    /\ UNCHANGED <<people, groups, book, directory, asked, switched>>

AllFetched(c) ==
    /\ bookCalls' = bookCalls \ {c}
    /\ \E got \in {c.arg, people} :
         detail' = [detail EXCEPT !.all = got, !.others = DOMAIN groups \ {book.open}]
    /\ UNCHANGED <<people, groups, book, directory, asked, switched>>

\* The rows of the directory offer removal and editing when they are shown.
RowOffered(m) ==
    /\ DetailShown /\ detail.tab = "members" /\ ~detail.loading
    /\ m \in detail.members /\ detail.confirm = NoConfirm /\ ~detail.editing

Asks(c, d) ==
    /\ MayAsk /\ asked' = asked + 1
    /\ bookCalls' = bookCalls \cup {c} /\ detail' = d
    /\ UNCHANGED <<people, groups, book, directory, switched>>

HandleRemoveMember(m) ==
    RowOffered(m) /\ Asks(Call("remove", book.open, {m}), detail)

\* The form of the tab, enabled while it is not saving.
ManualOffered == DetailShown /\ detail.tab = "manual" /\ "manual" \notin detail.busy
HandleManualAdd(c) ==
    ManualOffered /\ Asks(Call("manual", book.open, {c}),
                          [detail EXCEPT !.busy = @ \cup {"manual"}])

UploadOffered == DetailShown /\ detail.tab = "upload" /\ "upload" \notin detail.busy
HandleUpload(C) ==
    UploadOffered /\ Asks(Call("upload", book.open, C),
                          [detail EXCEPT !.busy = @ \cup {"upload"}])

PhonebookOffered == DetailShown /\ "phonebook" \notin detail.busy /\ detail.confirm = NoConfirm
HandleSelectPhoneContacts(C) ==
    PhonebookOffered /\ C # {}
      /\ Asks(Call("phonebook", book.open, C),
              [detail EXCEPT !.busy = @ \cup {"phonebook"}])

\* Contacts the view does not know to be members.
Available == detail.all \ detail.members
ExistingOffered == DetailShown /\ detail.tab = "existing" /\ detail.confirm = NoConfirm

ToggleExistingContact(c) ==
    /\ ExistingOffered /\ c \in Available
    /\ detail' = [detail EXCEPT !.picked =
                    IF c \in detail.picked THEN @ \ {c} ELSE @ \cup {c}]
    /\ UNCHANGED <<people, groups, book, directory, bookCalls, asked, switched>>

HandleBulkAddExisting ==
    /\ ExistingOffered /\ detail.picked # {} /\ "bulk" \notin detail.busy
    /\ Asks(Call("bulk", book.open, detail.picked),
            [detail EXCEPT !.busy = @ \cup {"bulk"}])

\* The dialog that asks before an import or the removal of the segment.
HandleSelectSegmentContacts(s) ==
    /\ ExistingOffered /\ s \in detail.others
    /\ detail' = [detail EXCEPT !.confirm = [type |-> "import", data |-> s]]
    /\ UNCHANGED <<people, groups, book, directory, bookCalls, asked, switched>>

AskDeleteSegment ==
    /\ DetailShown /\ detail.confirm = NoConfirm /\ ~detail.editing
    /\ detail' = [detail EXCEPT !.confirm = [type |-> "delete", data |-> NoSegment]]
    /\ UNCHANGED <<people, groups, book, directory, bookCalls, asked, switched>>

DialogIdle == DetailShown /\ detail.confirm # NoConfirm
                /\ detail.busy \cap {"bulk", "import", "delete"} = {}

CancelDialog ==
    /\ DialogIdle
    /\ detail' = [detail EXCEPT !.confirm = NoConfirm]
    /\ UNCHANGED <<people, groups, book, directory, bookCalls, asked, switched>>

HandleDeleteSegment ==
    /\ DialogIdle /\ detail.confirm.type = "delete"
    /\ Asks(Call("delete", book.open, {}), [detail EXCEPT !.busy = @ \cup {"delete"}])

\* The import reads the other segment, then adds what it read to this one.
ConfirmImport ==
    /\ DialogIdle /\ detail.confirm.type = "import"
    /\ Asks(Call("import", book.open, Members(detail.confirm.data)),
            [detail EXCEPT !.busy = @ \cup {"import"}])

----------------------------------------------------------------------------
(* The answers to what the open segment asked.                              *)

\* What the server did: contacts C exist, those of A are members of s too.
Served(s, C, A) ==
    /\ people' = people \cup C
    /\ groups' = [g \in DOMAIN groups |->
                    IF g = s THEN groups[g] \cup A ELSE groups[g]]

\* The end of a handler that added to a segment: the reads it starts are of the
\* segment it was called for; a view that is gone only refreshes the list.
AddedTo(c, tab, clear) ==
    /\ detail' = IF c.mounted
                 THEN [detail EXCEPT !.busy = @ \ {c.op}, !.tab = tab, !.loading = TRUE,
                                     !.picked = IF clear THEN {} ELSE @,
                                     !.confirm = IF c.op = "import" THEN NoConfirm ELSE @]
                 ELSE detail
    /\ bookCalls' = (bookCalls \ {c})
         \cup {Call("groups", NoSegment, DOMAIN groups)}
         \cup (IF c.mounted THEN {Call("members", s, Members(s) \cup c.arg) :
                                    s \in {c.seg, IF detail.tab = tab THEN c.seg ELSE book.open}}
                            ELSE {})
    /\ book' = FetchGroups

AddFails(c) ==
    /\ detail' = IF c.mounted THEN [detail EXCEPT !.busy = @ \ {c.op}] ELSE detail
    /\ bookCalls' = bookCalls \ {c}
    /\ UNCHANGED book

\* The contact is created, then added: the second call may fail by itself.
ManualAdded(c) ==
    /\ \/ c.seg \in DOMAIN groups /\ Served(c.seg, c.arg, c.arg) /\ AddedTo(c, "members", FALSE)
       \/ Served(c.seg, c.arg, {}) /\ AddFails(c)
       \/ AddFails(c) /\ UNCHANGED <<people, groups>>
    /\ UNCHANGED <<directory, asked, switched>>

Uploaded(c) ==
    /\ \/ c.seg \in DOMAIN groups /\ Served(c.seg, c.arg, c.arg) /\ AddedTo(c, "members", FALSE)
       \/ AddFails(c) /\ UNCHANGED <<people, groups>>
    /\ UNCHANGED <<directory, asked, switched>>

BulkAdded(c) ==
    /\ \/ c.seg \in DOMAIN groups /\ Served(c.seg, {}, c.arg \cap people)
          /\ AddedTo(c, "members", TRUE)
       \/ AddFails(c) /\ UNCHANGED <<people, groups>>
    /\ UNCHANGED <<directory, asked, switched>>

\* An empty source returns early: the dialog stays open.
Imported(c) ==
    /\ \/ c.arg # {} /\ c.seg \in DOMAIN groups
          /\ Served(c.seg, {}, c.arg \cap people) /\ AddedTo(c, "members", FALSE)
       \/ AddFails(c) /\ UNCHANGED <<people, groups>>
    /\ UNCHANGED <<directory, asked, switched>>

\* Each contact of the phonebook is created and added on its own.  The view
\* reads all contacts afterwards, but not its members.
PhonebookImported(c) ==
    \E made \in SUBSET c.arg : \E added \in SUBSET made :
       /\ c.seg \notin DOMAIN groups => added = {}
       /\ Served(c.seg, made, added)
       /\ detail' = IF c.mounted THEN [detail EXCEPT !.busy = @ \ {c.op}] ELSE detail
       /\ bookCalls' = (bookCalls \ {c}) \cup
            (IF c.mounted /\ added # {} THEN {Call("all", NoSegment, people \cup made)} ELSE {})
       /\ UNCHANGED <<book, directory, asked, switched>>

Removed(c) ==
    /\ \/ /\ c.seg \in DOMAIN groups
          /\ groups' = [groups EXCEPT ![c.seg] = @ \ c.arg]
          /\ detail' = IF c.mounted THEN [detail EXCEPT !.loading = TRUE] ELSE detail
          /\ bookCalls' = (bookCalls \ {c}) \cup {ReadGroups}
               \cup (IF c.mounted THEN {Call("members", c.seg, Members(c.seg) \ c.arg)} ELSE {})
          /\ book' = FetchGroups
       \/ bookCalls' = bookCalls \ {c} /\ UNCHANGED <<groups, detail, book>>
    /\ UNCHANGED <<people, directory, asked, switched>>

SegmentDeleted(c) ==
    /\ \/ /\ groups' = [g \in DOMAIN groups \ {c.seg} |-> groups[g]]
          /\ book' = [book EXCEPT !.open = NoSegment, !.loading = TRUE]
          /\ detail' = FreshDetail
          /\ bookCalls' = (Unmounted({"members", "all"}) \ {c, [c EXCEPT !.mounted = FALSE]})
                            \cup {Call("groups", NoSegment, DOMAIN groups \ {c.seg})}
       \/ AddFails(c) /\ UNCHANGED groups
    /\ UNCHANGED <<people, directory, asked, switched>>

----------------------------------------------------------------------------
(* All contacts, and the form that edits one.                               *)

DirectoryFetched(c) ==
    /\ bookCalls' = bookCalls \ {c}
    /\ \E got \in {c.arg, people, directory.contacts} :
         directory' = [directory EXCEPT !.loading = FALSE, !.contacts = Deduplicated(got)]
    /\ UNCHANGED <<people, groups, book, detail, asked, switched>>

DirectoryRow(x) == DirectoryShown /\ ~directory.loading /\ x \in directory.contacts
                     /\ ~directory.editing

AskDeleteContact(x) ==
    /\ DirectoryRow(x) /\ directory.deleting = {}
    /\ directory' = [directory EXCEPT !.deleting = {x}]
    /\ UNCHANGED <<people, groups, book, detail, bookCalls, asked, switched>>

HandleDeleteContact ==
    /\ DirectoryShown /\ directory.deleting # {} /\ MayAsk /\ asked' = asked + 1
    /\ bookCalls' = bookCalls \cup {Call("erase", NoSegment, directory.deleting)}
    /\ UNCHANGED <<people, groups, book, detail, directory, switched>>

ContactDeleted(c) ==
    /\ \/ /\ people' = people \ c.arg
          /\ groups' = [g \in DOMAIN groups |-> groups[g] \ c.arg]
          /\ directory' = IF c.mounted
                          THEN [directory EXCEPT !.deleting = {}, !.loading = TRUE] ELSE directory
          /\ bookCalls' = (bookCalls \ {c}) \cup
               (IF c.mounted THEN {Call("directory", NoSegment, people \ c.arg)} ELSE {})
       \/ bookCalls' = bookCalls \ {c} /\ UNCHANGED <<people, groups, directory>>
    /\ UNCHANGED <<book, detail, asked, switched>>

\* The edit form of either view; saving reads that view's list again.
ToggleEdit(x) ==
    /\ \/ RowOffered(x) /\ detail' = [detail EXCEPT !.editing = TRUE] /\ UNCHANGED directory
       \/ DetailShown /\ detail.editing /\ detail' = [detail EXCEPT !.editing = FALSE]
            /\ UNCHANGED directory
       \/ DirectoryRow(x) /\ directory' = [directory EXCEPT !.editing = TRUE] /\ UNCHANGED detail
       \/ DirectoryShown /\ directory.editing
            /\ directory' = [directory EXCEPT !.editing = FALSE] /\ UNCHANGED detail
    /\ UNCHANGED <<people, groups, book, bookCalls, asked, switched>>

EditSaved ==
    /\ Cardinality(bookCalls) < MaxBookCalls
    /\ \/ /\ DetailShown /\ detail.editing
          /\ detail' = [detail EXCEPT !.editing = FALSE, !.loading = TRUE]
          /\ bookCalls' = bookCalls \cup {ReadMembers(book.open)}
          /\ UNCHANGED directory
       \/ /\ DirectoryShown /\ directory.editing
          /\ directory' = [directory EXCEPT !.editing = FALSE, !.loading = TRUE]
          /\ bookCalls' = bookCalls \cup {ReadDirectory}
          /\ UNCHANGED detail
    /\ UNCHANGED <<people, groups, book, asked, switched>>

BookNext ==
    \/ \E c \in BookCallsOf("groups") : GroupsFetched(c)
    \/ \E v \in {"segments", "all_contacts"} : SwitchView(v)
    \/ \E s \in Segment : OpenSegment(s) \/ HandleCreateGroup(s)
                            \/ HandleSelectSegmentContacts(s)
    \/ ToggleCreateForm \/ Back \/ AskDeleteSegment \/ CancelDialog
    \/ HandleDeleteSegment \/ ConfirmImport \/ HandleBulkAddExisting
    \/ HandleDeleteContact \/ EditSaved
    \/ \E c \in BookCallsOf("create") : GroupCreated(c) \/ CreateFails(c)
    \/ \E t \in Tabs : SetActiveTab(t)
    \/ \E c \in BookCallsOf("members") : MembersFetched(c)
    \/ \E c \in BookCallsOf("all") : AllFetched(c)
    \/ \E x \in Contact : HandleRemoveMember(x) \/ HandleManualAdd(x)
                            \/ ToggleExistingContact(x) \/ AskDeleteContact(x) \/ ToggleEdit(x)
    \/ \E C \in SUBSET Contact : HandleUpload(C) \/ HandleSelectPhoneContacts(C)
    \/ \E c \in BookCallsOf("manual") : ManualAdded(c)
    \/ \E c \in BookCallsOf("upload") : Uploaded(c)
    \/ \E c \in BookCallsOf("bulk") : BulkAdded(c)
    \/ \E c \in BookCallsOf("import") : Imported(c)
    \/ \E c \in BookCallsOf("phonebook") : PhonebookImported(c)
    \/ \E c \in BookCallsOf("remove") : Removed(c)
    \/ \E c \in BookCallsOf("delete") : SegmentDeleted(c)
    \/ \E c \in BookCallsOf("directory") : DirectoryFetched(c)
    \/ \E c \in BookCallsOf("erase") : ContactDeleted(c)
BookSpec == BookInit /\ [][BookNext]_bookVars

----------------------------------------------------------------------------
(* Once the members are loaded, the rows under a segment's name are of that *)
(* segment: leaving it or opening another shows no row of the one before,   *)
(* and so the removal of a row cannot reach another segment.  The answer of *)
(* a creation that was submitted before is the only thing that breaks this, *)
(* because it replaces the open segment without mounting its view again.    *)
RowsOfOpenSegment ==
    (DetailShown /\ ~detail.loading /\ detail.members # {} /\ detail.from # book.open)
      => switched
=============================================================================
