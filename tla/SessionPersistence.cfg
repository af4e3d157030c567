SPECIFICATION FairSpec
CONSTANTS
    MaxRevision = 3
    MaxFailures = 1
INVARIANTS DurableIsInFile EditsAreTracked StopCoversEdits
PROPERTIES WindowIsFixed EditsBecomeDurable StopReturns
