CONSTANTS
  Configs <- OnlyTwoYears
  AppendMonths <- AppendYear
  MonthLengths <- FourYears
  PurchaseOrders = 2
SPECIFICATION Spec
INVARIANTS PeriodsFollowOneAnother
