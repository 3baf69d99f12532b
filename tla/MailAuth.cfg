\* One challenge and the two codes it can be mailed with: a request that creates
\* and resends, the executor, the cron sweep; a day boundary; crashes.
SPECIFICATION Spec
CONSTANTS
    Users = {u1}
    NoUser = NoUser
    MaxDay = 1
    AuthDay = 1
    SignupAuthDay = 1
    BaseDay = 1
    UrgentDay = 1
    AuthFloor = 0
    UrgentFloor = 0
    UserBaseDay = 1
    UserUrgentDay = 1
    Mails = {m1, m2}
    NoMail = NoMail
    Challenges = {c1}
    Self = Self
    NoRef = NoRef
    Executor = exec
    Requests = {r1}
    FastPath = {}
    Sweepers = {s1}
    Consumers = {}
    NoOwner = NoOwner
    OpenIntents <- SignupOnly
    DispatchIntents <- NoIntents
    MovableGates = {}
    MayCrash = {exec, r1}
    MaxVersion = 2
SYMMETRY MailSymmetry
INVARIANTS
    TypeOK
    Inductive
PROPERTIES
    KeepsPromise
CHECK_DEADLOCK FALSE
