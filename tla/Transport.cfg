CONSTANTS
    c1 = c1
    c2 = c2
    Calls = {c1, c2}
    Attempts = 3
    Headers <- MCHeaders
    Second = 4
    Fallback = 4
    Ceiling = 40
    MaxDuration = 127
SPECIFICATION FairSpec
  
PROPERTIES ImplementsDelivery EveryCallEnds
CHECK_DEADLOCK FALSE
