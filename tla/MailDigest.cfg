\* Digests of one user competing for two days: routine mail has room for one chance
\* a day, urgent mail a floor that late discoveries may not touch.
SPECIFICATION Spec
CONSTANTS
    Users = {u1}
    NoUser = NoUser
    MaxDay = 1
    AuthDay = 2
    SignupAuthDay = 1
    BaseDay = 2
    UrgentDay = 2
    AuthFloor = 0
    UrgentFloor = 1
    UserBaseDay = 1
    UserUrgentDay = 2
    Mails = {m1, m2}
    NoMail = NoMail
    Challenges = {}
    Self = Self
    NoRef = NoRef
    Executor = exec
    Requests = {}
    FastPath = {}
    Sweepers = {}
    Consumers = {}
    NoOwner = NoOwner
    OpenIntents <- NoIntents
    DispatchIntents <- Digests
    MovableGates = {}
    MayCrash = {}
    MaxVersion = 1
SYMMETRY MailSymmetry
INVARIANTS
    QuotaRespected
    FloorsKept
CHECK_DEADLOCK FALSE
