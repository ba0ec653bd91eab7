SPECIFICATION ASpec
CONSTANTS
    Tokens = {t1, t2}
    BlankToken = BlankToken
    Unencodable = Unencodable
    NoToken = NoToken
    Burst = 2
    Deployments <- MCDeployments
SYMMETRY Interchangeable
CHECK_DEADLOCK FALSE
INVARIANTS
    ReachedOnlyIfGranted
    BootRefusesUnsafe
PROPERTY
    OwnBucketOnly
