SPECIFICATION Spec
CONSTANTS
  Msg = {m1}
  Report = {r1}
  Buyer = {b1}
  Admin = {a1}
  Payg = "payg"
  Plan <- MCPlan
  SmsRate <- MCSmsRate
  MonthlyPrice <- MCMonthlyPrice
  MonthlyCredits <- MCMonthlyCredits
  Parts <- MCParts
  TopUps = {2}
  SeedBalance = 0
  MaxBooked = 4
INVARIANTS
  TypeOK
  BalanceMirrorsPayg
  NoOverdraft
  OnlyPurchasesDrift
CHECK_DEADLOCK FALSE
