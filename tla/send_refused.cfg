SPECIFICATION DeliverySpec
CONSTANTS
  TemplateIds = {"user-created"}
  VarNames <- MCVarNames
  Templates <- ShippedTemplates
  Requests <- AllRequests
  Ids = {n1}
  Null = Null
  Attempts = 3
  Concurrency = 10
  Reads <- ShippedReads
  MaxFaults = 1
INVARIANTS ValidRequestAccepted
CHECK_DEADLOCK FALSE
