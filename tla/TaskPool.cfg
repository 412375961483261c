CONSTANTS
  Count = 4
  Jobs = 2
SPECIFICATION FairSpec
INVARIANTS TypeOK JobLimit ReadyIsFinal NoOrphans
PROPERTIES SignalsOwnChildren ImplementsBatch FailFast
