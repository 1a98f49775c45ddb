SPECIFICATION FairSpec
CONSTANTS
    t1 = t1
    t2 = t2
    A = A
    B = B
    TransportURLs = {t1, t2}
    Creds = {A, B}
    UserOf <- DistinctUsers
    VhostOf <- DistinctVhosts
    DefaultVhost = "/"
    None = None
    Admin = Admin
    FirstCred <- BothOnA
    BaseSecret = BaseSecret
    NewTransportURLs = {t2}
    MaxEdits = 2
    MaxHosts = 1
    MaxDisturbances = 1
    Wanted <- WantedHandover
    EditWhen = "settled"
CHECK_DEADLOCK FALSE
INVARIANTS InUseCredentialsWork  StatusSecretExists
PROPERTIES RotationEnds
