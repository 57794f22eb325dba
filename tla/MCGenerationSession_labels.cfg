CONSTANTS
  Configs <- OnlyHalfYears
  AppendMonths <- NoAppend
  MonthLengths <- FourYears
  PurchaseOrders = 2
SPECIFICATION Spec
INVARIANTS OneSubdirectoryPerPeriod
