SPECIFICATION Spec
CONSTANTS
    t1 = t1
    t2 = t2
    A = A
    B = B
    TransportURLs = {t1}
    Creds = {A, B}
    UserOf <- DistinctUsers
    VhostOf <- DistinctVhosts
    DefaultVhost = "/"
    None = None
    Admin = Admin
    FirstCred <- BothOnA
    BaseSecret = BaseSecret
    NewTransportURLs = {}
    MaxEdits = 2
    MaxHosts = 0
    MaxDisturbances = 0
    Wanted <- WantedAny
    EditWhen = "any"
CHECK_DEADLOCK FALSE
INVARIANT InUseCredentialsWork
