SPECIFICATION FairDeliverySpec
CONSTANTS
  TemplateIds = {"user-created", "reset"}
  VarNames <- MCVarNames
  Templates <- MCTemplates
  Requests <- MCRequests
  Ids = {n1, n2}
  Null = Null
  Attempts = 2
  Concurrency = 1
  Reads <- AgreedReads
  MaxFaults = 2
INVARIANTS DeliveryInv SentIsSent NoDuplicateWithoutFault FinalDocument DeliveredIsTold
PROPERTIES OutcomeStays JobsEnd ImplementsDelivery
CHECK_DEADLOCK FALSE
