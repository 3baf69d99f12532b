-------------------------- MODULE MailLedgerProofs --------------------------
(***************************************************************************)
(* Facts about ledgers: what a move of a unit does, and the agreement of   *)
(* the two forms of the budget decision, for every ledger and all limits,  *)
(* and so on every ledger that LedgerGrowth can reach.                     *)
(***************************************************************************)
EXTENDS LedgerGrowth, TLAPS

\* A move of one unit between two columns leaves a ledger.
LEMMA MoveType ==
    ASSUME NEW l \in Ledgers, NEW accounts, NEW from, NEW to
    PROVE  Move(l, accounts, from, to) \in Ledgers
BY DEF Move, Ledgers

\* What a move makes of one counter.
LEMMA MoveAt ==
    ASSUME NEW l \in Ledgers, NEW accounts, NEW from, NEW to,
           NEW c \in Columns, NEW a \in Accounts
    PROVE  Move(l, accounts, from, to)[c][a] =
               l[c][a] + (IF a \in accounts /\ c = to THEN 1 ELSE 0)
                       - (IF a \in accounts /\ c = from THEN 1 ELSE 0)
BY DEF Move

\* Occupancies are integers, natural numbers where no counter is negative.
LEMMA OccupancyType ==
    ASSUME NEW l \in Ledgers, NEW a \in Accounts
    PROVE  /\ Occupancy(l, a) \in Int
           /\ (\A c \in Columns : l[c][a] >= 0) => Occupancy(l, a) \in Nat
BY DEF Occupancy, Ledgers, Columns

\* The read-side decision of packages/contracts and the predicate that the guarded
\* UPDATE binds give the same answer, whatever the counters and the limits are, as long
\* as no counter is negative (an existing-account mail is not admitted on the strength
\* of a negative sign-up counter): the claim of decision.ts:171.
THEOREM DecisionAlwaysMatches ==
    ASSUME NEW l \in Ledgers, \A c \in Columns, a \in Accounts : l[c][a] >= 0
    PROVE  DecisionMatchesGuard(l)
<1> SUFFICES ASSUME NEW intent \in Intents, NEW day \in Days, NEW user \in Owners,
                    PoolOf(intent) \in AuthPools \/ user # NoUser
             PROVE  Approves(intent, l, day, user) <=> HasCapacity(l, intent, day, user)
    BY DEF DecisionMatchesGuard
<1> DEFINE pool == PoolOf(intent)
           row == Occupancy(l, PoolRow(pool, day))
           mine == Occupancy(l, UserRow(pool, day, user))
           auth == AuthTotal(l, day)
<1>1. pool \in Pools
    BY DEF PoolOf, Pools, AuthPools, BusinessPools
<1>2. row \in Int /\ mine \in Int /\ auth \in Int /\ (pool = "existing_auth" => row <= auth)
    <2>1. PoolRow(pool, day) \in Accounts /\ UserRow(pool, day, user) \in Accounts
        BY <1>1 DEF PoolRow, UserRow, Accounts, Owners
    <2>2. PoolRow("existing_auth", day) \in Accounts /\ PoolRow("new_registration", day) \in Accounts
        BY DEF PoolRow, Accounts, Owners, Pools, AuthPools
    <2>3. Occupancy(l, PoolRow("new_registration", day)) >= 0
        BY <2>2, OccupancyType
    <2> QED BY <2>1, <2>2, <2>3, OccupancyType DEF AuthTotal
<1>3. CASE intent \in {"urgent_cancelled_or_retracted", "urgent_important_change",
                       "urgent_late_discovery"}
    <2>1. pool = "urgent_business" /\ pool \notin AuthPools /\ pool \in BusinessPools
        BY <1>3 DEF PoolOf, AuthPools, BusinessPools
    <2>2. user # NoUser
        BY <2>1
    <2> QED
        BY <1>2, <1>3, <2>1, <2>2, LimitsAssumption
        DEF Approves, HasCapacity, UserExhausted, PoolRemaining, DayRemaining, DayLimit,
            FloorEngaged, RowLimit, UserLimit
<1>4. CASE intent = "base_routine_or_announce"
    <2>1. pool = "base_business" /\ pool \notin AuthPools /\ pool \in BusinessPools
        BY <1>4 DEF PoolOf, AuthPools, BusinessPools
    <2>2. user # NoUser
        BY <2>1
    <2> QED
        BY <1>2, <1>4, <2>1, <2>2, LimitsAssumption
        DEF Approves, HasCapacity, UserExhausted, PoolRemaining, DayRemaining, DayLimit,
            RowLimit, UserLimit
<1>5. CASE intent = "signup_auth"
    <2>1. pool = "new_registration" /\ pool \in AuthPools /\ pool \notin BusinessPools
        BY <1>5 DEF PoolOf, AuthPools, BusinessPools
    <2> QED
        BY <1>2, <1>5, <2>1, LimitsAssumption
        DEF Approves, HasCapacity, AuthRemaining, DayRemaining, DayLimit, FloorEngaged,
            RowLimit, AuthTotalLimit
<1>6. CASE intent \in {"existing_auth_first_login", "auth_resend", "account_change_auth"}
    <2>1. pool = "existing_auth" /\ pool \in AuthPools /\ pool \notin BusinessPools
        BY <1>6 DEF PoolOf, AuthPools, BusinessPools
    <2> QED
        BY <1>2, <1>6, <2>1, LimitsAssumption
        DEF Approves, HasCapacity, AuthRemaining, DayRemaining, DayLimit, FloorEngaged,
            RowLimit, AuthTotalLimit
<1> QED
    BY <1>3, <1>4, <1>5, <1>6 DEF Intents

\* A ledger no counter of which is negative.
WellGrown == grown \in Ledgers /\ \A c \in Columns, a \in Accounts : grown[c][a] >= 0

\* However a day's ledger fills up, the decision a caller reads off and the guard
\* that admits the mail agree for every intent.
THEOREM AlwaysAgrees == GrowthSpec => []DecisionAgrees
<1>1. GrowthInit => WellGrown
    BY DEF GrowthInit, WellGrown, EmptyLedger, Ledgers
<1>2. WellGrown /\ [GrowthNext]_grown => WellGrown'
    <2> SUFFICES ASSUME WellGrown, [GrowthNext]_grown
                 PROVE  WellGrown'
        OBVIOUS
    <2>1. CASE UNCHANGED grown
        BY <2>1 DEF WellGrown
    <2>2. CASE GrowthNext
        <3>0. PICK a \in Written : Occupy(a, IF a[1] \in AuthPools THEN "settled" ELSE "uncertain")
            BY <2>2 DEF GrowthNext
        <3> DEFINE column == IF a[1] \in AuthPools THEN "settled" ELSE "uncertain"
        <3>1. grown' = Move(grown, {a}, "none", column)
            BY <3>0 DEF Occupy
        <3> HIDE DEF column
        <3>2. grown' \in Ledgers
            BY <3>1, MoveType DEF WellGrown
        <3>3. ASSUME NEW c \in Columns, NEW b \in Accounts
              PROVE  grown'[c][b] >= 0
            <4>1. /\ grown'[c][b] = grown[c][b] + (IF b \in {a} /\ c = column THEN 1 ELSE 0)
                                                  - (IF b \in {a} /\ c = "none" THEN 1 ELSE 0)
                  /\ c # "none" /\ grown[c][b] \in Int /\ grown[c][b] >= 0
                BY <3>1, MoveAt DEF WellGrown, Columns, Ledgers
            <4> QED BY <4>1
        <3> QED BY <3>2, <3>3 DEF WellGrown
    <2> QED BY <2>1, <2>2
<1>3. WellGrown => DecisionAgrees
    BY DecisionAlwaysMatches DEF WellGrown, DecisionAgrees
<1> QED BY <1>1, <1>2, <1>3, PTL DEF GrowthSpec
=============================================================================
