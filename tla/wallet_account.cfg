SPECIFICATION Spec
CONSTANTS
  Msg = {m1, m2}
  Report = {r1}
  Buyer = {}
  Admin = {a1}
  Payg = "payg"
  Plan <- MCPlan
  SmsRate <- MCSmsRate
  MonthlyPrice <- MCMonthlyPrice
  MonthlyCredits <- MCMonthlyCredits
  Parts <- MCParts
  TopUps = {2}
  SeedBalance = 0
  MaxBooked = 6
INVARIANT Reconciled
PROPERTY KeepsAccount
CHECK_DEADLOCK FALSE
