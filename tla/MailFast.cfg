\* One code and two senders for it, the executor and the HTTP fast path, under
\* lapsing leases, repair, crashes, operators and a changing recipient; with every
\* other path of the module, the two unleased ones included.
SPECIFICATION FullSpec
CONSTANTS
    Users = {u1}
    NoUser = NoUser
    MaxDay = 0
    AuthDay = 2
    SignupAuthDay = 1
    BaseDay = 1
    UrgentDay = 1
    AuthFloor = 0
    UrgentFloor = 0
    UserBaseDay = 1
    UserUrgentDay = 1
    Mails = {m1}
    NoMail = NoMail
    Challenges = {c1}
    Self = Self
    NoRef = NoRef
    Executor = exec
    Requests = {r1, r2}
    FastPath = {r2}
    Sweepers = {s1}
    Consumers = {}
    NoOwner = NoOwner
    OpenIntents <- LoginOnly
    DispatchIntents <- NoIntents
    MovableGates = {"outbound_enabled"}
    MayCrash = {exec, r2}
    MaxVersion = 3
SYMMETRY MailSymmetry
INVARIANTS
    AtMostOneCall
    CallIsRecorded
    CodeErased
PROPERTIES
    NeverCallsObsolete
    CalledNeverRefunded
    TerminalIsFinal
CHECK_DEADLOCK FALSE
