\* Two send handlers at once, also for the same id, expiry of blobs and inbox at
\* different times, one handler lost or one Redis restart.
SPECIFICATION Spec
CONSTANTS
    m1 = m1  m2 = m2
    d1 = d1  d2 = d2
    s1 = s1  s2 = s2
    p1 = p1  p2 = p2
    MsgId = {m1, m2}
    Device = {d1}
    Recipient <- OneInbox
    Sender = {s1, s2}
    Poller = {p1}
    TTL = 2
    MaxTime = 3
    MaxExec = 2
    MaxFail = 1
SYMMETRY HandlerSymmetry
INVARIANTS
    TypeOK
    InboxOutlivesBlob
    AckDestroysACopy
    FifoAnswer
