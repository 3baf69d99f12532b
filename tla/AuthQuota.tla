----------------------------- MODULE AuthQuota ------------------------------
(***************************************************************************)
(* The exact quotas of authentication mail (preauth/quota.ts) and the      *)
(* approximate gate before them (rate-gate.ts).  A request takes its time   *)
(* once, when it starts, passes the gate of its isolate, reads the quota    *)
(* snapshot and commits under a guard that reads the same three tables      *)
(* again.  The daily maintenance deletes rows whose windows are over.       *)
(***************************************************************************)
EXTENDS Integers, FiniteSets, FiniteSetsExt

CONSTANTS
    Emails, Requests,
    Kinds,              \* of intents: a table of challenges, or "resend"
    Cooldown,           \* OTP_COOLDOWN
    OtpTtl,             \* OTP_TTL
    AttemptWindow,      \* the hour of wrong codes
    IntentsDay,         \* EMAIL_AUTH_INTENTS_DAY
    PerEmail,           \* AUTH_CHALLENGES_PER_EMAIL
    ChallengesMax,      \* AUTH_CHALLENGES_MAX
    DayLength,
    MaxLag,             \* a request lives at most this long
    MaxTime             \* bound on the clock

QuotaConstants ==
    /\ {Cooldown, OtpTtl, AttemptWindow, IntentsDay, PerEmail, ChallengesMax, DayLength} \subseteq Nat \ {0}
    /\ Kinds \subseteq {"auth", "recent", "resend"} /\ {MaxLag, MaxTime} \subseteq Nat /\ MaxLag + Cooldown <= OtpTtl

VARIABLES clock, rows, sent, request
vars == <<clock, rows, sent, request>>

Challenge == {"auth", "recent"}                 \* auth_challenges, recent_auth_challenges
Idle == [at |-> "idle"]

Init ==
    /\ clock = 0
    /\ rows = {}        \* the three tables: [table, email, created, touched, closed]
    /\ sent = {}        \* every intent ever accepted: <<email, created, which>> (history)
    /\ request = [r \in Requests |-> Idle]

\* The history with one more intent
Accepted(q) ==
    sent \union {<<q.email, q.now, Cardinality({s \in sent : s[1] = q.email /\ s[2] = q.now}) + 1>>}

DayStart(now) == (now \div DayLength) * DayLength

\* authQuotaSql: one statement over the three tables
OpenAt(row, now) == row.table \in Challenge /\ ~row.closed /\ row.created + OtpTtl > now
Of(email) == {row \in rows : row.email = email}
Snapshot(email, now) ==
    [today  |-> Cardinality({row \in Of(email) : row.created >= DayStart(now)}),
     last   |-> IF Of(email) = {} THEN -1 ELSE Max({row.created : row \in Of(email)}),
     open   |-> Cardinality({row \in Of(email) : OpenAt(row, now)}),
     global |-> Cardinality({row \in rows : OpenAt(row, now)})]

\* decideAuthQuota
Decide(snap, now) ==
    IF snap.last >= 0 /\ snap.last + Cooldown > now THEN "cooldown"
    ELSE IF snap.today >= IntentsDay THEN "intents_day"
    ELSE IF snap.open >= PerEmail THEN "open_challenges"
    ELSE IF snap.global >= ChallengesMax THEN "challenges_max"
    ELSE "ok"

\* A resend opens no challenge, so its decision ignores the open ones
DecideResend(snap, now) == Decide([snap EXCEPT !.open = 0, !.global = 0], now)

\* Mutant: the row just written within the cooldown is not seen
IntentGuardHasty(snap, now) == snap.today < IntentsDay

\* authQuotaGuard
IntentGuard(snap, now) ==
    /\ snap.today < IntentsDay
    /\ snap.last < 0 \/ snap.last + Cooldown <= now

CreateGuard(snap, now) == IntentGuard(snap, now) /\ snap.open < PerEmail /\ snap.global < ChallengesMax

Tick ==
    /\ clock < MaxTime
    /\ \A r \in Requests : request[r].at # "idle" => clock - request[r].now < MaxLag
    /\ clock' = clock + 1
    /\ UNCHANGED <<rows, sent, request>>

-----------------------------------------------------------------------------
\* runPreauthAdmission, createRecentAuthChallenge or runResendOtp: the read side
Start(r, email, kind) ==
    LET snap == Snapshot(email, clock)
        verdict == IF kind = "resend" THEN DecideResend(snap, clock) ELSE Decide(snap, clock)
        \* a full site is answered like an accepted request, but sends no mail
        proceeds == \/ verdict = "ok"
                    \/ verdict = "challenges_max" /\ kind = "auth"
    IN  /\ request[r].at = "idle"
        /\ kind = "resend" => \E row \in Of(email) : row.table = "auth" /\ OpenAt(row, clock)
        /\ proceeds
        /\ request' = [request EXCEPT ![r] = [at |-> "commit", email |-> email, kind |-> kind,
                                              now |-> clock]]
        /\ UNCHANGED <<clock, rows, sent>>

Insert(email, kind, now) ==
    rows' = rows \union {[table |-> kind, email |-> email, created |-> now, touched |-> now,
                          closed |-> FALSE]}

\* The guarded write, with the time of the request's start
Commit(r) ==
    LET q == request[r]
        snap == Snapshot(q.email, q.now)
    IN  /\ q.at = "commit" /\ q.kind \in Challenge
        /\ IF CreateGuard(snap, q.now)
           THEN /\ Insert(q.email, q.kind, q.now)
                /\ sent' = Accepted(q)
           ELSE UNCHANGED <<rows, sent>>
        /\ request' = [request EXCEPT ![r] = Idle]
        /\ UNCHANGED clock

\* A resend touches its challenge and leaves an intent of its own; budget and
\* generation may refuse it as well (MailLedger, AuthChallenge)
CommitResend(r) ==
    LET q == request[r]
        snap == Snapshot(q.email, q.now)
    IN  /\ q.at = "commit" /\ q.kind = "resend"
        /\ \/ \E row \in Of(q.email) :
                /\ row.table = "auth" /\ OpenAt(row, q.now)
                /\ IntentGuard(snap, q.now)
                /\ rows' = (rows \ {row}) \union
                             {[row EXCEPT !.touched = q.now],
                              [table |-> "resend", email |-> q.email, created |-> q.now,
                               touched |-> q.now, closed |-> FALSE]}
                /\ sent' = Accepted(q)
           \/ UNCHANGED <<rows, sent>>
        /\ request' = [request EXCEPT ![r] = Idle]
        /\ UNCHANGED clock

\* A code is consumed or its challenge aborted
Close(row) ==
    /\ OpenAt(row, clock)
    /\ rows' = (rows \ {row}) \union {[row EXCEPT !.closed = TRUE, !.touched = clock]}
    /\ UNCHANGED <<clock, sent, request>>

\* clearExpiredOtpPayloads: the rows whose windows are all over
Gone(row) ==
    IF row.table = "resend"
    THEN row.created < Min({DayStart(clock), clock - Max({OtpTtl, Cooldown})})
    ELSE /\ row.created < Min({DayStart(clock), clock - Cooldown})
         /\ row.touched < clock - AttemptWindow
         /\ row.created + OtpTtl <= clock

Clear ==
    /\ \E row \in rows : Gone(row)
    /\ rows' = {row \in rows : ~Gone(row)}
    /\ UNCHANGED <<clock, sent, request>>

Next ==
    \/ Tick \/ Clear
    \/ \E r \in Requests : \/ \E email \in Emails, kind \in Kinds : Start(r, email, kind)
                           \/ Commit(r) \/ CommitResend(r)
    \/ \E row \in rows : Close(row)

Spec == Init /\ [][Next]_vars

-----------------------------------------------------------------------------
TypeOK ==
    /\ clock \in 0..MaxTime
    /\ rows \subseteq [table : Challenge \union {"resend"}, email : Emails, created : 0..MaxTime,
                       touched : 0..MaxTime, closed : BOOLEAN]
    /\ sent \subseteq Emails \X (0..MaxTime) \X (Nat \ {0})
    /\ IsFiniteSet(rows) /\ IsFiniteSet(sent)
    /\ request \in [Requests -> {Idle} \union
                      [at : {"commit"}, email : Emails, kind : Kinds, now : 0..MaxTime]]

\* A request under way started MaxLag ago at most.
InTime ==
    \A r \in Requests : request[r].at = "commit" =>
        request[r].now <= clock /\ clock <= request[r].now + MaxLag

\* What the maintenance may forget: an intent whose row is gone lies before this day and
\* further back than any request under way can look within OTP_COOLDOWN.
Remembered ==
    \A s \in sent :
        /\ s[2] <= clock /\ s[3] = 1
        /\ \/ \E row \in Of(s[1]) : row.created = s[2]
           \/ s[2] + OtpTtl <= clock /\ s[2] < DayStart(clock)

\* quota.ts:136: however many requests pass the read side on one snapshot, no two mails
\* of an address are asked for within OTP_COOLDOWN, the times being those the requests
\* started at; rows the maintenance deleted count still.
CooldownKept ==
    \A s, t \in sent : s[1] = t[1] /\ s # t => s[2] >= t[2] + Cooldown \/ t[2] >= s[2] + Cooldown

\* quota.ts:60: on the running day an address has at most EMAIL_AUTH_INTENTS_DAY intents,
\* logins, resends and confirmations together, deleted rows included.
DailyKept ==
    \A email \in Emails :
      Cardinality({s \in sent : s[1] = email /\ s[2] >= DayStart(clock)}) <= IntentsDay

\* quota.ts:63 and :66: at most AUTH_CHALLENGES_PER_EMAIL challenges of an address and
\* AUTH_CHALLENGES_MAX in all are open at once.
OpenKept ==
    /\ \A email \in Emails : Snapshot(email, clock).open <= PerEmail
    /\ Cardinality({row \in rows : OpenAt(row, clock)}) <= ChallengesMax

\* The decision of the read side and the predicate of the write are one rule: on the same
\* rows and time they say the same, for a creation and for a resend.
SidesAgree ==
    \A email \in Emails :
      LET snap == Snapshot(email, clock) IN
        /\ (Decide(snap, clock) = "ok") <=> CreateGuard(snap, clock)
        /\ (DecideResend(snap, clock) = "ok") <=> IntentGuard(snap, clock)

\* What holds of the quotas in every state; each step keeps it.
QuotasHold ==
    TypeOK /\ InTime /\ Remembered /\ CooldownKept /\ DailyKept /\ OpenKept /\ SidesAgree
=============================================================================
