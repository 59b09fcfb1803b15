SPECIFICATION DeliverySpec
CONSTANTS
    Ops <- MCOps
    Retries = 2
    Slots = 2
    Pieces = 2
    TypedOps = {"START_FAILED", "RESET_IDLE"}
    MaxTyped = 2
    MaxReboots = 1
INVARIANTS
    AtMostOnce
    AnsweredMeansDone
    StartAwaitsOperator
PROPERTIES
    NobodyWaitsForEver
