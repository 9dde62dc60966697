\* Two fetches at once against one upload that refills and rotates.
SPECIFICATION Spec
CONSTANTS
    f1 = f1  f2 = f2  f3 = f3
    u1 = u1  u2 = u2
    KeyId = {1, 2, 3, 4, 5}
    Fetcher = {f1, f2}
    Uploader = {u1}
    Payload <- Refill
    NoOne = NoOne
SYMMETRY Handlers
INVARIANTS
    OneTimeServedOnce
    DrainedBeforeFallback
    SignedIsCurrent
PROPERTY ImplementsKeyPool
