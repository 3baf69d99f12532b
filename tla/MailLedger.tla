----------------------------- MODULE MailLedger -----------------------------
(***************************************************************************)
(* The daily mail budget: the table usage_periods, the four pools that     *)
(* share it, and the two forms in which the code decides whether one more  *)
(* mail fits: the pure decision of packages/contracts (Decide) and the     *)
(* capacity predicate the worker binds into the WHERE of its guarded       *)
(* UPDATE (HasCapacity).  There are no variables here: a ledger is a value *)
(* the outbox module keeps and this module transforms.                     *)
(***************************************************************************)
EXTENDS Integers, FiniteSets

CONSTANTS
    Users,            \* accounts that may own business mail
    NoUser,           \* the NULL user_id of a pool row
    MaxDay,           \* bound: UTC days are 0..MaxDay
    AuthDay, SignupAuthDay, BaseDay, UrgentDay,    \* MAIL_*_DAY
    AuthFloor, UrgentFloor,                        \* MAIL_AUTH_FLOOR, MAIL_URGENT_FLOOR
    UserBaseDay, UserUrgentDay                     \* MAIL_USER_*_DAY

ASSUME UsersAssumption == IsFiniteSet(Users) /\ NoUser \notin Users

\* The relations between the registered parameters that the two forms of the
\* decision rely on to agree (90, 10, 50, 120, 20, 20, 1, 2 in the registry).
ASSUME LimitsAssumption ==
    /\ MaxDay \in Nat
    /\ {AuthDay, SignupAuthDay, BaseDay, UrgentDay} \subseteq Nat
    /\ {AuthFloor, UrgentFloor, UserBaseDay, UserUrgentDay} \subseteq Nat
    /\ SignupAuthDay <= AuthDay /\ AuthFloor <= AuthDay /\ UrgentFloor <= UrgentDay

Days == 0 .. MaxDay
Unreserved == -1      \* period_key = '': the mail holds no budget yet

AuthPools == {"existing_auth", "new_registration"}
BusinessPools == {"base_business", "urgent_business"}
Pools == AuthPools \union BusinessPools

Intents == {"signup_auth", "existing_auth_first_login", "auth_resend", "account_change_auth",
            "base_routine_or_announce", "urgent_cancelled_or_retracted",
            "urgent_important_change", "urgent_late_discovery"}

PoolOf(intent) ==
    CASE intent = "signup_auth" -> "new_registration"
      [] intent \in {"existing_auth_first_login", "auth_resend", "account_change_auth"} -> "existing_auth"
      [] intent = "base_routine_or_announce" -> "base_business"
      [] OTHER -> "urgent_business"

(***************************************************************************)
(* One account per row of usage_periods: pool, UTC day, and the user of a  *)
(* per-user row or NoUser for the pool's own row.                          *)
(***************************************************************************)
Owners == Users \union {NoUser}
Accounts == Pools \X Days \X Owners
Columns == {"reserved", "settled", "uncertain"}

Ledgers == [Columns -> [Accounts -> Int]]
EmptyLedger == [c \in Columns |-> [a \in Accounts |-> 0]]

\* Every change of the budget is a move of one unit between two columns of each
\* of the mail's accounts; "none" stands for the outside (a fresh reservation
\* comes from it, a release goes back to it).
Move(l, accounts, from, to) ==
    [c \in Columns |-> [a \in Accounts |->
        l[c][a] + (IF a \in accounts /\ c = to THEN 1 ELSE 0)
                - (IF a \in accounts /\ c = from THEN 1 ELSE 0)]]

PoolRow(pool, day) == <<pool, day, NoUser>>
UserRow(pool, day, user) == <<pool, day, user>>

\* The rows one mail is charged to: its pool's row and, for business mail with a
\* known recipient, the recipient's own row of that pool.
ChargedRows(pool, day, user) ==
    {PoolRow(pool, day)} \union
    (IF pool \in AuthPools \/ user = NoUser THEN {} ELSE {UserRow(pool, day, user)})

Occupancy(l, a) == l["reserved"][a] + l["settled"][a] + l["uncertain"][a]
AuthTotal(l, day) ==
    Occupancy(l, PoolRow("existing_auth", day)) + Occupancy(l, PoolRow("new_registration", day))

DayLimit(pool) ==
    CASE pool = "existing_auth" -> AuthDay
      [] pool = "new_registration" -> SignupAuthDay
      [] pool = "base_business" -> BaseDay
      [] pool = "urgent_business" -> UrgentDay

UserLimit(pool) == IF pool = "base_business" THEN UserBaseDay ELSE UserUrgentDay

DayRemaining(limit, occupied) == IF occupied >= limit THEN 0 ELSE limit - occupied
\* Mutant of FloorEngaged: the last unit above the floor is off by one.
FloorEngagedLate(remaining, floor) == remaining < floor
FloorEngaged(remaining, floor) == remaining <= floor

(***************************************************************************)
(* The pure decision, taken on a snapshot of the day's ledger.             *)
(***************************************************************************)
AuthRemaining(l, day) == DayRemaining(AuthDay, AuthTotal(l, day))
PoolRemaining(l, pool, day) == DayRemaining(DayLimit(pool), Occupancy(l, PoolRow(pool, day)))
UserExhausted(l, pool, day, user) ==
    user # NoUser /\ Occupancy(l, UserRow(pool, day, user)) >= UserLimit(pool)

Approves(intent, l, day, user) ==
    LET pool == PoolOf(intent) IN
    CASE pool = "urgent_business" ->
            /\ ~ UserExhausted(l, pool, day, user)
            /\ PoolRemaining(l, pool, day) > 0
            /\ \/ intent = "urgent_cancelled_or_retracted"
               \/ ~ FloorEngaged(PoolRemaining(l, pool, day), UrgentFloor)
      [] pool = "base_business" ->
            ~ UserExhausted(l, pool, day, user) /\ PoolRemaining(l, pool, day) > 0
      [] intent = "signup_auth" ->
            /\ AuthRemaining(l, day) > 0
            /\ Occupancy(l, PoolRow(pool, day)) < DayLimit(pool)
            /\ ~ FloorEngaged(AuthRemaining(l, day), AuthFloor)
      [] intent = "existing_auth_first_login" -> AuthRemaining(l, day) > 0
      [] OTHER ->
            AuthRemaining(l, day) > 0 /\ ~ FloorEngaged(AuthRemaining(l, day), AuthFloor)

(***************************************************************************)
(* The same thresholds as the guarded UPDATE binds them.                   *)
(***************************************************************************)
\* Mutant of RowLimit: the urgent floor is forgotten.
RowLimitNoFloor(intent) == DayLimit(PoolOf(intent))

RowLimit(intent) ==
    IF intent \in {"urgent_important_change", "urgent_late_discovery"}
    THEN UrgentDay - UrgentFloor
    ELSE DayLimit(PoolOf(intent))

AuthTotalLimit(intent) ==
    IF intent = "existing_auth_first_login" THEN AuthDay ELSE AuthDay - AuthFloor

\* Mutant of HasCapacity: the recipient's own row is not in the predicate.
HasCapacityPoolOnly(l, intent, day, user) ==
    LET pool == PoolOf(intent) IN
    /\ Occupancy(l, PoolRow(pool, day)) < RowLimit(intent)
    /\ pool \in AuthPools => AuthTotal(l, day) < AuthTotalLimit(intent)

HasCapacity(l, intent, day, user) ==
    LET pool == PoolOf(intent) IN
    /\ Occupancy(l, PoolRow(pool, day)) < RowLimit(intent)
    /\ pool \in AuthPools => AuthTotal(l, day) < AuthTotalLimit(intent)
    /\ pool \in BusinessPools /\ user # NoUser =>
           Occupancy(l, UserRow(pool, day, user)) < UserLimit(pool)

Reserve(l, pool, day, user) == Move(l, ChargedRows(pool, day, user), "none", "reserved")

\* Both decisions give the same answer on every ledger: the read-side check a
\* caller makes first and the guard that really admits the mail never disagree
\* (decision.ts:171 claims it, unit tests pin its edges one by one).
DecisionMatchesGuard(l) ==
    \A intent \in Intents, day \in Days, user \in Owners :
        (PoolOf(intent) \in AuthPools \/ user # NoUser) =>
            (Approves(intent, l, day, user) <=> HasCapacity(l, intent, day, user))
=============================================================================
