---------------------------- MODULE MailPromise -----------------------------
(***************************************************************************)
(* What the outbox promises of every mail, without actors, leases, stored  *)
(* counters or clocks: a mail waits, with or without a unit of some day's  *)
(* budget, and is then dropped, its unit free again, or called, once, its  *)
(* unit spent for good.  Room is a matter of counting the mails charged.   *)
(***************************************************************************)
EXTENDS MailLedger

CONSTANT Mails

VARIABLES
    fate,      \* where each mail stands
    mail       \* its pool, the intent of its last charge, its user and its day

Fates == {"none", "waiting", "dropped", "called", "answered"}
ColumnOfFate == [waiting |-> "reserved", called |-> "uncertain", answered |-> "settled"]

Holds(m) == fate[m] \in DOMAIN ColumnOfFate /\ mail[m].day # Unreserved

\* The ledger as it should be: a count of the mails that hold a unit.
Books ==
    [column \in Columns |-> [a \in Accounts |->
        Cardinality({m \in Mails : /\ Holds(m) /\ ColumnOfFate[fate[m]] = column
                                   /\ a \in ChargedRows(mail[m].pool, mail[m].day, mail[m].user)})]]

\* Authentication mail is budgeted without its user.
Payer(pool, user) == IF pool \in AuthPools THEN NoUser ELSE user
HasRoom(intent, day, user) == HasCapacity(Books, intent, day, Payer(PoolOf(intent), user))

Entry(intent, user, day) == [pool |-> PoolOf(intent), intent |-> intent, user |-> user, day |-> day]

PromiseInit ==
    /\ fate = [m \in Mails |-> "none"]
    /\ mail = [m \in Mails |-> Entry("auth_resend", NoUser, Unreserved)]

Post(m) ==
    \E intent \in Intents, user \in Owners :
        /\ fate[m] = "none"
        /\ fate' = [fate EXCEPT ![m] = "waiting"]
        /\ mail' = [mail EXCEPT ![m] = Entry(intent, user, Unreserved)]

\* A mail that comes with its budget; a fresh code replaces the waiting ones.
PostCharged(m, replaced) ==
    \E intent \in Intents, user \in Owners, day \in Days :
        /\ fate[m] = "none"
        /\ \A o \in replaced : fate[o] = "waiting"
        /\ HasRoom(intent, day, user)
        /\ fate' = [o \in Mails |-> IF o = m THEN "waiting"
                                    ELSE IF o \in replaced THEN "dropped" ELSE fate[o]]
        /\ mail' = [mail EXCEPT ![m] = Entry(intent, user, day)]

Charge(m) ==
    \E intent \in Intents, day \in Days :
        /\ fate[m] = "waiting" /\ mail[m].day = Unreserved
        /\ PoolOf(intent) = mail[m].pool
        /\ HasRoom(intent, day, mail[m].user)
        /\ mail' = [mail EXCEPT ![m].day = day, ![m].intent = intent]
        /\ UNCHANGED fate

Discharge(m) ==
    /\ fate[m] = "waiting" /\ mail[m].day # Unreserved
    /\ mail' = [mail EXCEPT ![m].day = Unreserved]
    /\ UNCHANGED fate

Drop(m) ==
    /\ fate[m] = "waiting"
    /\ fate' = [fate EXCEPT ![m] = "dropped"]
    /\ UNCHANGED mail

Call(m) ==
    /\ fate[m] = "waiting" /\ mail[m].day # Unreserved
    /\ fate' = [fate EXCEPT ![m] = "called"]
    /\ UNCHANGED mail

Answer(m) ==
    /\ fate[m] = "called"
    /\ fate' = [fate EXCEPT ![m] = "answered"]
    /\ UNCHANGED mail

PromiseNext ==
    \E m \in Mails :
        \/ Post(m) \/ \E replaced \in SUBSET (Mails \ {m}) : PostCharged(m, replaced)
        \/ Charge(m) \/ Discharge(m) \/ Drop(m) \/ Call(m) \/ Answer(m)

PromiseSpec == PromiseInit /\ [][PromiseNext]_<<fate, mail>>
=============================================================================
