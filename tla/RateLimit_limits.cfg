\* Two requests at once, windows of two ticks.
SPECIFICATION Spec
CONSTANTS
    h1 = h1  h2 = h2
    pending = pending  health = health
    Handler = {h1, h2}
    Route = {pending, health}
    Public = {health}
    Limit <- Limits
    Width = 2
    Slack = 1
    Token <- Tokens
    MaxAge = 2
    Skew = 1
    MaxTime = 3
    MaxArrive = 3
SYMMETRY Handlers
INVARIANTS
    TypeOK
    WindowLimit
    RejectedForCause
    RetryInNewWindow
    UntimedIsAttended
PROPERTY ImplementsQuota
