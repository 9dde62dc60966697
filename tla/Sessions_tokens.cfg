\* One client, a second of two ticks, tokens good for one second; the relay is
\* behind by more than the tolerance, or ahead.  One failure at any place.
SPECIFICATION FairSpec
CONSTANTS
    None = None
    a1 = a1  a2 = a2
    p1 = p1
    h1 = h1  h2 = h2
    c1 = c1
    right = right  wrong = wrong
    session = session  device = device
    Account = {a1, a2}
    Phone = {p1}
    Handler = {h1, h2}
    Call = {c1}
    Code = {right, wrong}
    Bypass = right
    Development = TRUE
    Secret = {session, device}
    IdentitySecret = session
    DeviceSecret = device
    RelaySecret = device
    Sec = 2
    MaxAge <- Ages
    Skew = 1
    Drift <- Drifts
    Start = 3
    MaxTime = 6
    MaxFail = 1
INVARIANTS
    TypeOK
    OneAccountPerPhone
    ActsAsOwner
PROPERTIES
    AdmittedInTime
    RefusedForCause
    GetsIn
