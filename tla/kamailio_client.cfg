SPECIFICATION ProxySpec
CONSTANTS
    Servers = {s1, s2}
    Users = {s1}
    Default = s1
    AllowedTimeouts = 2
    DisableTime = 1
    c1 = c1
    c2 = c2
    c3 = c3
    Calls = {c1, c2, c3}
    Blank = blank
    Addrs = {a1, uas}
    Uas = uas
    Rtpe = rtpe
    Slots = 3
    Probes = 2
    Hash <- MCHash
    None = none
INVARIANTS TypeOK RepliesMatch CooldownJustified
PROPERTIES RoutesToLatest InviteForwarded
