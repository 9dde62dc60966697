\* Two uploads at once, also of the same ids, against one fetch.
SPECIFICATION FairSpec
CONSTANTS
    f1 = f1  f2 = f2  f3 = f3
    u1 = u1  u2 = u2
    KeyId = {1, 2, 3, 4, 5, 6}
    Fetcher = {f1}
    Uploader = {u1, u2}
    Payload <- Overlapping
    NoOne = NoOne
INVARIANTS
    TypeOK
    AcceptedIsStored
    LongLivedKept
    NoStandstill
PROPERTY RequestsEnd
