SPECIFICATION Spec
CONSTANTS
    Subs = {s1}
    Calls = {c1, c2}
    MediaCalls = {c1}
    Unknown = unknown
    Fibers = {f1}
    Dests <- MCDests
    DefaultPrefix = default
    Prefixes <- MCDefault
    TariffTuples <- MCCheapAndFree
    StandardRate = 3
    Balances = {8}
    Limits = {2}
    Deltas = {}
    Durations = {2}
    Minute = 2
    Grace = 1
    DurationCap = 1
    MaxTime = 3
    MaxBalance = 10
    MaxDebits = 1
    MaxCdrs = 1
    Statuses = {"blocked"}
    SerialCalls = TRUE
    SpacedTeardowns = TRUE
    Failures = TRUE
INVARIANTS RecordedWasTaken DeadlineBounded
PROPERTY DialogsReleased
