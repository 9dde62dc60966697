\* Two updates at once, of one account against a registration, a
\* verification and a reader.
SPECIFICATION Spec
CONSTANTS
    a1 = a1
    p1 = p1
    alice = alice
    w1 = w1
    d1 = d1
    r1 = r1
    v1 = v1
    u1 = u1  u2 = u2
    g1 = g1
    Account = {a1}
    Phone = {p1}
    Name = {alice}
    Lower <- LowerCase
    Wallet = {w1}
    Detail = {d1}
    Update <- Bodies
    Register = {r1}
    Verify = {v1}
    Updater = {u1, u2}
    Reader = {g1}
    None = None
SYMMETRY Handlers
INVARIANTS
    TypeOK
    SentFieldsStored
    FoundAreVerified
    AnswersRespectVisibility
PROPERTY ImplementsFields
