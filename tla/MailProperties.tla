--------------------------- MODULE MailProperties ---------------------------
(***************************************************************************)
(* What the outbox must keep true: the properties the runs check and the   *)
(* proofs are about.                                                       *)
(***************************************************************************)
EXTENDS MailOutbox

\* Every variable holds values of its type.
TypeOK ==
    /\ outbox \in [Mails -> Rows]
    /\ ledger \in Ledgers
    /\ challenge \in [Challenges -> ChallengeRows]
    /\ standing \in [Mails -> Standings]
    /\ closed \subseteq Gates
    /\ today \in Days
    /\ proc \in [Procs -> ProcRows]
    /\ calls \in [Mails -> Nat]

(***************************************************************************)
(* The ledger and the rows                                                 *)
(***************************************************************************)
InColumn(row, column, a) == ColumnOf(row) = column /\ a \in Charged(row)
UnitsIn(rows, column, a) == Cardinality({m \in Mails : InColumn(rows[m], column, a)})
Units(column, a) == UnitsIn(outbox, column, a)

\* The aggregate counters of usage_periods always equal a recount of the mails:
\* no interleaving of claims, crashes, rollovers, resends, expiries and write-backs
\* leaks a reserved unit, returns one twice or refunds a call that was made.
LedgerAgrees ==
    \A column \in Columns, a \in Accounts : ledger[column][a] = Units(column, a)

HoldsUnit(m) == ColumnOf(outbox[m]) # "none"
MailsOf(pools, day) == {m \in Mails : HoldsUnit(m) /\ outbox[m].pool \in pools /\ outbox[m].period = day}

\* The mails really charged to a UTC day stay within that day's limits: each
\* pool's own, the two authentication pools' common one, and each user's daily
\* chances.
QuotaRespected ==
    \A day \in Days :
        /\ \A pool \in Pools : Cardinality(MailsOf({pool}, day)) <= DayLimit(pool)
        /\ Cardinality(MailsOf(AuthPools, day)) <= AuthDay
        /\ \A pool \in BusinessPools, u \in Users :
               Cardinality({m \in MailsOf({pool}, day) : outbox[m].user = u}) <= UserLimit(pool)

\* The floors are kept for what they are kept for: resends, account changes and
\* sign-ups together never eat into the authentication floor of first logins, and
\* changes and late discoveries never into the urgent floor of cancellations.
FloorsKept ==
    \A day \in Days :
        /\ Cardinality({m \in MailsOf(AuthPools, day) : outbox[m].intent # "existing_auth_first_login"})
               <= AuthDay - AuthFloor
        /\ Cardinality({m \in MailsOf({"urgent_business"}, day) :
                            outbox[m].intent # "urgent_cancelled_or_retracted"})
               <= UrgentDay - UrgentFloor

(***************************************************************************)
(* Calling the provider                                                    *)
(***************************************************************************)
\* The provider is asked at most once per mail, whatever crashes, lapses, repairs
\* and competing senders do around the call.
AtMostOneCall == \A m \in Mails : calls[m] <= 1

\* No provider call without the committed calling_provider mark, so a crash after
\* the call can never look like a mail that was not called.
CallIsRecorded == \A m \in Mails : calls[m] > 0 => outbox[m].sent

Starts(m) == outbox[m].status # "calling_provider" /\ outbox'[m].status = "calling_provider"

FitToCall(m) ==
    LET row == outbox[m] IN
    /\ row.ref \in Challenges =>
           /\ challenge[row.ref].state = "open" /\ challenge[row.ref].gen = row.gen
           /\ row.body
    /\ standing[m] # "skipped" /\ standing[m] # "superseded"
    /\ NeededGates(row.pool) \intersect closed = {}
    /\ row.period = today

\* At the moment a call is committed the code in it is the current one of an open
\* challenge, its recipient is fit, every switch it needs is on and its budget is
\* today's.  (A deadline may pass between its check and this commit.)
NeverCallsObsolete == [][\A m \in Mails : Starts(m) => FitToCall(m)]_vars

\* A mail the provider was called for keeps its unit for good: nothing refunds it,
\* moves it to another day or makes it claimable again.
CalledNeverRefunded ==
    [][\A m \in Mails : outbox[m].sent =>
          /\ outbox'[m].sent /\ outbox'[m].period = outbox[m].period
          /\ outbox'[m].status \notin {"pending", "leased"}
          /\ ColumnOf(outbox[m]) = "settled" => ColumnOf(outbox'[m]) = "settled"]_vars

\* A mail that reached a terminal status keeps it: no late answer, receipt, sweep
\* or rollover revives it.
TerminalIsFinal ==
    [][\A m \in Mails : outbox[m].status \in Terminal => outbox'[m].status = outbox[m].status]_vars

\* A late "deferred" never takes back that the recipient's server accepted.
DeliveredNotDeferred ==
    [][\A m \in Mails : outbox[m].delivered => outbox'[m].status # "deferred"]_vars

\* The encrypted code is gone from every row that was called or ended.
CodeErased ==
    \A m \in Mails : outbox[m].body => outbox[m].status \in Waiting /\ ~ outbox[m].sent
=============================================================================
