\* Exports of two threads, orderly or in any overlap, and then the unload of
\* the module, which either thread may report as finished.
CONSTANTS
    Threads = {host, worker}
    Contexts = {c}
    Callbacks = {e1, e2}
    None = None
    Host = host
    Listener = listener
SPECIFICATION LifeSpec
CHECK_DEADLOCK FALSE
INVARIANTS
    HookFindsAllWired
    EmitsOnlyToTheInstalled
    DeliveredHookFires
    OrderlyHostGetsTheHook
    FinishedIsHeard
    OnlyEmissionsBlock
PROPERTY ExportsReturn
