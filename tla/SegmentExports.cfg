SPECIFICATION FairSpec
CONSTANTS
  Export = {first, second}
  Customer <- MCCustomer
  PoolSizes = {1, 2, 3}
  MaxFaults = 1
  MaxChanges = 1
INVARIANTS
  TypeOK
  SucceededWasTaken
  DeliveredIsSettled
  MissingWereDisplaced
  ViewIsConsistent
PROPERTIES
  ImplementsJobLedger
  EveryRequestEnds
CHECK_DEADLOCK FALSE
