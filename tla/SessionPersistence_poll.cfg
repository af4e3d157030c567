SPECIFICATION Spec
CONSTANTS
    MaxRevision = 3
    MaxFailures = 1
INVARIANT CommittedIsReported
