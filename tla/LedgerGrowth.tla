---------------------------- MODULE LedgerGrowth ----------------------------
(***************************************************************************)
(* One ledger that fills up in any order, one unit at a time and a unit    *)
(* past every limit (a limit may be lowered under a day's occupancy): all  *)
(* the ledgers on which the two forms of the budget decision must agree.   *)
(***************************************************************************)
EXTENDS MailLedger

VARIABLE grown          \* the ledger

\* The rows the code writes: one per pool, and one per user of a business pool.
Written == UNION {ChargedRows(pool, day, user) : pool \in Pools, day \in Days, user \in Owners}

\* Bound: one unit past the row's limit.
Ceiling(a) == 1 + IF a[3] = NoUser THEN DayLimit(a[1]) ELSE UserLimit(a[1])

Occupy(a, column) ==
    /\ Occupancy(grown, a) < Ceiling(a)
    /\ grown' = Move(grown, {a}, "none", column)

GrowthInit == grown = EmptyLedger
\* Only the sum of the columns is decided upon: authentication units settle,
\* business units stay uncertain.
GrowthNext ==
    \E a \in Written : Occupy(a, IF a[1] \in AuthPools THEN "settled" ELSE "uncertain")
GrowthSpec == GrowthInit /\ [][GrowthNext]_grown

\* The decision a caller takes on what it read, and the guard that really admits
\* the mail, give the same answer on every ledger and for every intent.
DecisionAgrees == DecisionMatchesGuard(grown)
=============================================================================
