\* Two handlers that are asked for one address before either has an answer.
SPECIFICATION Spec
CONSTANTS
    a1 = a1  a2 = a2
    h1 = h1  h2 = h2
    alchemy = alchemy  infura = infura  public = public
    ethereum = ethereum
    Key = {a1, a2}
    Chain = {ethereum}
    ChainOf <- Address
    Provider = {alchemy, infura, public}
    Offered <- NoInfura
    Usable = {alchemy, public}
    Handler = {h1, h2}
    TTL = 2
    Limit = 1
    MaxTime = 5
    MaxAsk = 4
PROPERTY OneRequestPerWindow
CHECK_DEADLOCK FALSE
