\* The cleanup reads a leased mail and refunds it although the sender put it off
\* meanwhile: the ledger holds less than the waiting mails need.
SPECIFICATION ClearSpec
CONSTANTS
    Users = {u1}
    NoUser = NoUser
    MaxDay = 0
    AuthDay = 2
    SignupAuthDay = 1
    BaseDay = 1
    UrgentDay = 1
    AuthFloor = 0
    UrgentFloor = 0
    UserBaseDay = 1
    UserUrgentDay = 1
    Mails = {m1}
    NoMail = NoMail
    Challenges = {c1}
    Self = Self
    NoRef = NoRef
    Executor = exec
    Requests = {r1}
    FastPath = {}
    Sweepers = {s1}
    Consumers = {}
    NoOwner = NoOwner
    OpenIntents <- LoginOnly
    DispatchIntents <- NoIntents
    MovableGates = {}
    MayCrash = {}
    MaxVersion = 2
SYMMETRY MailSymmetry
INVARIANTS
    WaitingHasUnit
CHECK_DEADLOCK FALSE
