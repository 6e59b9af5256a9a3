\* Every type two constructors deep; unsigned integers of four bits.
CONSTANTS
    Records <- MCRecords
    Contracts <- MCContracts
    HeaderTypes <- MCHeaderTypes
    Width = 16
    Types <- MCTypes
    Wire <- MCWire
    Values <- MCValues
    Rank <- RankOf
    Depth <- DepthOf
    Nesting <- NestingOf
    ValueTypeOf <- OptionalValueType
    Gate <- TypeSupported
    SpellingOf <- TypeToStdCdylib
    Strict <- FromJson
    Inhabitant <- Inhabits
    Holds <- IsHeld
    BottomsOut <- BottomsOutAtAny
    QtNameOf <- TypeToQt
    Wrapped <- FromWire
    Blank <- Unset
    CppTypeOf <- CppTypeToLidl
    Reported <- Unsupported
    Warned <- Unmappable
    MeaningOf <- InCpp
    IsLoose <- HoldsAny
    NamesIn <- Heads
    Providable <- Supported
    Callable <- CallerSupported
    Passable <- Passes
    Held <- Sample
    Encode <- ToJson
    Decode <- JsonArgToStd
    Read <- Receive
    Back <- HandedBack
    Fits <- WellTyped
SPECIFICATION Spec
CHECK_DEADLOCK FALSE
INVARIANTS
    SpellingsAgree
    HandledIffWellTyped
    ValuesArrive
    RefusalIsTold
    RecordsAreNotBytes
    CodecIsLawful
