SPECIFICATION Spec
CONSTANTS
  Msg = {m1}
  Report = {r1, r2}
  Buyer = {}
  Admin = {}
  Payg = "payg"
  Plan <- MCPlan
  SmsRate <- MCSmsRate
  MonthlyPrice <- MCMonthlyPrice
  MonthlyCredits <- MCMonthlyCredits
  Parts <- MCParts
  TopUps = {2}
  SeedBalance = 0
  MaxBooked = 4
INVARIANT RefundsWithinCharges
CHECK_DEADLOCK FALSE
