SPECIFICATION Spec
CONSTANTS
  Area = {"contacts", "wizard", "reopened", "history", "drawer", "retries", "cards",
          "quick", "payments", "renewals", "senders", "session", "pages", "forms", "rows", "route",
          "banner", "tour", "theme", "toasts"}
  p1 = p1  p2 = p2  m1 = m1  m2 = m2  c1 = c1  c2 = c2
  Segment = {s1, s2, s3}  FirstSegments = {s1, s2}
  Contact = {x}  NumberOf <- MCNumberOf  MaxBookCalls = 2  MaxWrites = 1
  Person = {p1}  Group = {g1}  GroupMembers <- MCGroupMembers  Approved = {a1}  Raw = {r1}
  TextLength = {161}  Edited = 1  Wallets <- MCWallets  Drafts <- MCDrafts
  MaxSaved = 3  MaxMounts = 2
  Filters = {"all", "failed"}  Terms = {"", "t"}  PageNumber = {0, 1}  MaxReads = 4
  Campaigns = {"a", "b"}  Message = {m1, m2}  MessagesOf <- MCMessagesOf
  MaxRetries = 2  MaxDrawerCalls = 2  MaxFailures = 2
  Card = {c1, c2}  FirstCards <- MCFirstCards  MaxOutbox = 2  MaxFails = 1  MaxAgain = 1  MaxSubmits = 1
  Reference = {r1, r2}  Verifier = {v1, v2}  NoReference = NoReference
  MaxRestarts = 1  MaxReloads = 1  MaxReopened = 1
  Name = {"n1", "n2"}  Decision = {"need_verification", "rejected"}
  StatusFilters = {"all", "rejected"}  MaxSenderCalls = 1  MaxSenderReads = 2
  Tab = {t1, t2}  Account = {u1, a1}  Platform = {a1}  NoAccount = NoAccount  MaxSignIns = 3
  PageKeys <- MCPageKeys  OpensWith <- MCOpensWith  MaxPageReads = 2  MaxActs = 1
  Form = {"report", "template", "announcement", "adjustment", "grant", "plan", "export",
          "invite", "profile"}
  MaxDrafts = 3  MaxPosts = 2
  Row = {"permission", "account", "gateway", "bug", "request", "notification"}
  MaxClicks = 2  MaxRowReads = 2
  Window = {w1, w2}  Announcement = {a1, a2}  MaxClock = 4  MaxToasts = 3
INVARIANTS
  RowsOfOpenSegment
  
  OneBroadcastPerDraft
  ListMatchesItsFilter
  TickedAreShown
  RetriedOncePerFailure
  
  QuickSentOnce
  PayTypeOK
  CreditedOnce
  SuccessMeansCredited
  OnePaymentAtATime
  VerifiesTheOneNamed
  SessionTypeOK
  ActsAsShown
  ShowsWhatItSays
  ChartsDrawn
  DoneOncePerDraft
  ClosesWhenDone
  UpdatesStick
  RowsCatchUp
  MenusLeadWhereTheySay
  DismissedStaysDismissed
  TourOffersItselfOnce
  ToastsLast
CHECK_DEADLOCK FALSE
