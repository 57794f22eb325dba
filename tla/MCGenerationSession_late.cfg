CONSTANTS
  Configs <- OnlyLateStart
  AppendMonths <- NoAppend
  MonthLengths <- FourYears
  PurchaseOrders = 2
SPECIFICATION Spec
INVARIANTS PlanCoversEntireSpan
