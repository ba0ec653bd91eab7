SPECIFICATION ASpec
CONSTANTS
    Tokens = {t1}
    BlankToken = BlankToken
    Unencodable = Unencodable
    NoToken = NoToken
    Burst = 1
    Deployments <- OnHttp
CHECK_DEADLOCK FALSE
INVARIANT
    CallsAreAttributed
