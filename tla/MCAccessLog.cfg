SPECIFICATION Spec
CONSTANTS
    Entry = {"ok", "refused", "failed"}
    NoEntry = NoEntry
    MaxEntries = 4
INVARIANT
    TypeOK
PROPERTY
    ImplementsRecentLog
