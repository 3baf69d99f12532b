\* One routine digest and its receipts, duplicated and out of order, handled by two
\* consumers while the executor records and repairs.
SPECIFICATION Spec
CONSTANTS
    Users = {u1}
    NoUser = NoUser
    MaxDay = 0
    AuthDay = 2
    SignupAuthDay = 1
    BaseDay = 1
    UrgentDay = 1
    AuthFloor = 0
    UrgentFloor = 0
    UserBaseDay = 1
    UserUrgentDay = 1
    Mails = {m1}
    NoMail = NoMail
    Challenges = {}
    Self = Self
    NoRef = NoRef
    Executor = exec
    Requests = {}
    FastPath = {}
    Sweepers = {}
    Consumers = {q1, q2}
    NoOwner = NoOwner
    OpenIntents <- NoIntents
    DispatchIntents <- Routine
    MovableGates = {"email_routine_enabled", "available"}
    MayCrash = {exec, q1}
    MaxVersion = 2
SYMMETRY MailSymmetry
INVARIANTS
    LedgerAgrees
PROPERTIES
    DeliveredNotDeferred
CHECK_DEADLOCK FALSE
