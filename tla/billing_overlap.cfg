SPECIFICATION Safety
CONSTANTS
    Subs = {s1}
    Calls = {c1, c2}
    MediaCalls = {}
    Unknown = unknown
    Fibers = {f1, f2}
    Dests <- MCDests
    DefaultPrefix = default
    Prefixes <- MCPrefix
    TariffTuples <- MCTariffs
    StandardRate = 3
    Balances = {8}
    Limits = {1}
    Deltas = {2}
    Durations = {2}
    Minute = 2
    Grace = 1
    DurationCap = 2
    MaxTime = 4
    MaxBalance = 10
    MaxDebits = 2
    MaxCdrs = 2
    Statuses = {}
    SerialCalls = FALSE
    SpacedTeardowns = FALSE
    Failures = FALSE
INVARIANT ChargedOnce
