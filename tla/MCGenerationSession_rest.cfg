CONSTANTS
  Configs <- OnlyWithRest
  AppendMonths <- AppendYear
  MonthLengths <- FourYears
  PurchaseOrders = 2
SPECIFICATION Spec
INVARIANTS OneSubdirectoryPerPeriod
