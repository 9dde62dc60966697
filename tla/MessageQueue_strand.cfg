\* An id sent again while a poll is about to remove its stale reference.
SPECIFICATION Spec
CONSTANTS
    m1 = m1  m2 = m2
    d1 = d1  d2 = d2
    s1 = s1  s2 = s2
    p1 = p1  p2 = p2
    MsgId = {m1, m2}
    Device = {d1}
    Recipient <- OneInbox
    Sender = {s1}
    Poller = {p1}
    TTL = 1
    MaxTime = 2
    MaxExec = 2
    MaxFail = 0
INVARIANT BlobHasReference
