CONSTANTS
  Configs <- SeveralConfigs
  AppendMonths <- AppendYears
  MonthLengths <- FourYears
  PurchaseOrders = 2
SPECIFICATION FairSpec
INVARIANTS PlanCoversSpan StateDescribesPeriods OneDirectoryPerPeriod
PROPERTIES CommandsEnd
