\* The documented meaning of null in an optional slot, for every type.
CONSTANTS
    Records <- MCRecords
    Contracts <- MCContracts
    Width = 16
    Providable <- Supported
    Callable <- CallerSupported
    Passable <- Passes
    Held <- Sample
    Encode <- ToJson
    Decode <- JsonArgToStd
    Read <- Receive
    Back <- HandedBack
    Fits <- WellTyped
SPECIFICATION Spec
CHECK_DEADLOCK FALSE
INVARIANT NullIsEmpty
