CONSTANTS
  Configs <- OnlyTwoYears
  AppendMonths <- AppendHalfOrTwoYears
  MonthLengths <- FourYears
  PurchaseOrders = 2
SPECIFICATION Spec
INVARIANTS StateDescribesPeriods
