\* Every occupancy of the four pools and of one user's two rows, up to one past
\* each limit; floors strictly between zero and the limit.
SPECIFICATION GrowthSpec
CONSTANTS
    Users = {u1}
    NoUser = NoUser
    MaxDay = 0
    AuthDay = 4
    SignupAuthDay = 2
    BaseDay = 2
    UrgentDay = 4
    AuthFloor = 2
    UrgentFloor = 1
    UserBaseDay = 1
    UserUrgentDay = 2
INVARIANTS
    DecisionAgrees
CHECK_DEADLOCK FALSE
