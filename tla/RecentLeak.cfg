\* The watchdog reserves a recent-auth mail between its insert and its own
\* reservation; the request then skips it without giving the unit back.
SPECIFICATION RecentSpec
CONSTANTS
    Users = {u1}
    NoUser = NoUser
    MaxDay = 0
    AuthDay = 2
    SignupAuthDay = 1
    BaseDay = 1
    UrgentDay = 1
    AuthFloor = 0
    UrgentFloor = 0
    UserBaseDay = 1
    UserUrgentDay = 1
    Mails = {m1}
    NoMail = NoMail
    Challenges = {c1}
    Self = Self
    NoRef = NoRef
    Executor = exec
    Requests = {r1}
    FastPath = {}
    Sweepers = {}
    Consumers = {}
    NoOwner = NoOwner
    OpenIntents <- NoIntents
    DispatchIntents <- NoIntents
    MovableGates = {}
    MayCrash = {}
    MaxVersion = 2
SYMMETRY MailSymmetry
INVARIANTS
    DroppedReturnsUnit
CHECK_DEADLOCK FALSE
