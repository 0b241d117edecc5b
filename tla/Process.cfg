CONSTANTS
    q1 = q1
    Requests = {q1}
    Readers = {q1}
    Runs = 2
    Documents <- MCDocuments
    Wellformed = {"me", "domain", "ip"}
    Schemas <- MCSchemas
    FanOut = 2
    Delays = 1
SPECIFICATION FairSpec
INVARIANTS SessionsEndWithTheRun  WholeCatalogue WokenToTheLatest
PROPERTIES  EveryRequestEnds FreshInTheEnd
CHECK_DEADLOCK FALSE
