\* One login code, sent by the executor or the fast path, both of which may be
\* evicted at any step; a paused service; a day boundary.
SPECIFICATION FairSpec
CONSTANTS
    Users = {u1}
    NoUser = NoUser
    MaxDay = 1
    AuthDay = 2
    SignupAuthDay = 1
    BaseDay = 1
    UrgentDay = 1
    AuthFloor = 0
    UrgentFloor = 0
    UserBaseDay = 1
    UserUrgentDay = 1
    Mails = {m1}
    NoMail = NoMail
    Challenges = {c1}
    Self = Self
    NoRef = NoRef
    Executor = exec
    Requests = {r1}
    FastPath = {r1}
    Sweepers = {s1}
    Consumers = {}
    NoOwner = NoOwner
    OpenIntents <- SignupOnly
    DispatchIntents <- NoIntents
    MovableGates = {}
    MayCrash = {exec, r1}
    MaxVersion = 1
PROPERTIES
    CallingResolves
    LateCodeWithdrawn
    OldDayReleased
    RefusedEnds
CHECK_DEADLOCK FALSE
