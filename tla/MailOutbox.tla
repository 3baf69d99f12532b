----------------------------- MODULE MailOutbox -----------------------------
(***************************************************************************)
(* The mail outbox: the table mail_outbox, the day ledger it draws on and  *)
(* the authentication challenges it serves, together with every actor that *)
(* changes them: HTTP requests that open or resend a challenge, the single *)
(* serial DeliveryDO that dispatches, claims, sends, repairs and rolls     *)
(* over, the cron sweep of expired codes, and the queue consumer that      *)
(* records provider receipts.  An action is one D1 statement or batch (the *)
(* unit of atomicity); what an actor read before it is kept in proc.       *)
(***************************************************************************)
EXTENDS MailLedger

CONSTANTS
    Mails, NoMail,          \* ids of mail_outbox rows
    Challenges,             \* ids of auth_challenges rows
    Self, NoRef,            \* payload_ref of a digest (its own id); NULL
    Executor,               \* DeliveryDO/main
    Requests,               \* HTTP handlers in flight
    FastPath,               \* those of them that may run tryAuthMailFastPath
    Sweepers, Consumers,    \* cron cleanup; feedback queue consumers
    NoOwner,                \* NULL lease_owner
    OpenIntents,            \* intents a request may open a challenge for
    DispatchIntents,        \* intents the dispatcher may propose
    MovableGates,           \* operator switches that may change during a run
    MayCrash,               \* actors whose isolate may be evicted between steps
    MaxVersion              \* bound: a mail is claimed below this lease_version

VARIABLES
    outbox,      \* mail_outbox
    ledger,      \* usage_periods
    challenge,   \* auth_challenges
    standing,    \* what the recipient review would say of each mail
    closed,      \* switches of system_state that are off
    today,       \* the UTC day
    proc,        \* what each actor is doing and has read
    calls        \* history: provider.send calls per mail

vars == <<outbox, ledger, challenge, standing, closed, today, proc, calls>>

Procs == {Executor} \union Requests \union Sweepers \union Consumers

Gates == {"available", "outbound_enabled", "business_mail_enabled", "email_routine_enabled"}

ASSUME ActorsAssumption ==
    /\ FastPath \subseteq Requests /\ MayCrash \subseteq Procs /\ MovableGates \subseteq Gates
    /\ Executor \notin Requests \union Sweepers \union Consumers
    /\ Requests \intersect (Sweepers \union Consumers) = {}
    /\ Sweepers \intersect Consumers = {}
    /\ IsFiniteSet(Mails) /\ NoMail \notin Mails
    /\ Self \notin Challenges /\ NoRef \notin Challenges /\ Self # NoRef
    /\ NoOwner \notin {"do", "http"}
    /\ OpenIntents \subseteq {"signup_auth", "existing_auth_first_login"}
    /\ DispatchIntents \subseteq {i \in Intents : PoolOf(i) \in BusinessPools}

Waiting == {"pending", "leased", "retry_wait"}
Unsent == {"pending", "leased"}
Dropped == {"skipped", "superseded", "expired", "failed"}
Answered == {"accepted", "deferred", "bounced", "complained", "rejected"}
Statuses == {"absent", "calling_provider", "unknown"} \union Waiting \union Dropped \union Answered
\* Statuses no code path leads out of.
Terminal == {"skipped", "superseded", "expired", "failed", "bounced", "complained", "rejected"}

Receipts == {"delivered", "deferred", "bounced", "failed", "complained", "rejected"}
OwnerOf(p) == IF p = Executor THEN "do" ELSE "http"

Rows == [status: Statuses, pool: Pools, intent: Intents, user: Owners,
         ref: Challenges \union {Self, NoRef}, gen: Nat, period: Days \union {Unreserved},
         version: Nat, owner: {"do", "http", NoOwner}, lease: {"none", "live", "lapsed"},
         sent: BOOLEAN, body: BOOLEAN, known: BOOLEAN, delivered: BOOLEAN]

\* intent is the intent the mail's budget was last taken under, body whether
\* payload_ciphertext is there, known whether message_id is.
NewRow(pool, intent, user, ref, gen, period) ==
    [status |-> "pending", pool |-> pool, intent |-> intent, user |-> user,
     ref |-> ref, gen |-> gen, period |-> period, version |-> 0, owner |-> NoOwner,
     lease |-> "none", sent |-> FALSE, body |-> ref # Self, known |-> FALSE, delivered |-> FALSE]
Blank == [NewRow("existing_auth", "auth_resend", NoUser, NoRef, 0, Unreserved)
          EXCEPT !.status = "absent", !.body = FALSE]

IsAuth(row) == row.pool \in AuthPools
Charged(row) == ChargedRows(row.pool, row.period, row.user)

\* Where in the ledger a mail's unit is.
ColumnOf(row) ==
    IF row.period = Unreserved THEN "none"
    ELSE IF row.sent THEN IF row.status \in {"calling_provider", "unknown"} THEN "uncertain" ELSE "settled"
    ELSE IF row.status \in Waiting THEN "reserved" ELSE "none"

(***************************************************************************)
(* Challenges and recipients                                               *)
(***************************************************************************)
ChallengeRows == [state: {"none", "open", "consumed", "aborted", "deleted"},
                  purpose: {"signup", "login", "account_change"},
                  user: Owners, gen: Nat, late: BOOLEAN, born: Days]
NoChallenge == [state |-> "none", purpose |-> "login", user |-> NoUser, gen |-> 0,
                late |-> FALSE, born |-> 0]

Standings == {"eligible", "skipped", "superseded", "expired"}

\* prepared.expiresAt <= now.
Past(m, ref) == IF ref \in Challenges THEN challenge[ref].late ELSE standing[m] = "expired"

\* MAIL_INTENT_EXPIRES_SQL <= now: the code's deadline is over, or its challenge
\* is no longer found, or every delivery in the digest has expired.
IntentOver(m) == (IsAuth(outbox[m]) /\ outbox[m].ref = NoRef) \/ Past(m, outbox[m].ref)

\* AUTH_SQL and DIGEST_SQL: what the preflight read and the calling guard
\* compares again.  Time alone does not change either of them.
Snapshots == [state: {"none", "open", "consumed", "aborted", "deleted"}, gen: Nat, fit: Standings]
NoSnapshot == [state |-> "none", gen |-> 0, fit |-> "eligible"]
Snapshot(m, ref) ==
    IF ref \in Challenges
    THEN [state |-> challenge[ref].state, gen |-> challenge[ref].gen, fit |-> standing[m]]
    ELSE [state |-> "none", gen |-> 0,
          fit |-> IF standing[m] = "expired" THEN "eligible" ELSE standing[m]]

\* controlPredicate: the switches a mail of this pool needs in the calling guard.
NeededGates(pool) ==
    {"outbound_enabled"}
    \union (IF pool \in BusinessPools THEN {"business_mail_enabled"} ELSE {})
    \union (IF pool = "base_business" THEN {"email_routine_enabled"} ELSE {})
Available == {"available", "outbound_enabled"} \intersect closed = {}

\* prepareMail: what the preflight says of the mail as it was claimed.
Verdict(m, view) ==
    IF IsAuth(view)
    THEN IF view.ref = NoRef THEN "failed"
         ELSE IF challenge[view.ref].state # "open" THEN "superseded"
         ELSE IF challenge[view.ref].late THEN "expired"
         ELSE IF standing[m] = "skipped" THEN "skipped"
         ELSE IF ~ view.body \/ view.gen # challenge[view.ref].gen THEN "superseded"
         ELSE "fit"
    ELSE IF view.ref # Self THEN "failed"
         ELSE IF standing[m] = "eligible" THEN "fit" ELSE standing[m]

(***************************************************************************)
(* Actors                                                                  *)
(***************************************************************************)
Steps == {"idle", "reserve", "abandon", "resend", "approve", "prepare", "gates", "start",
          "writeback", "call", "record", "pause", "repair", "finish", "release", "refetch",
          "rereserve", "withdraw", "sweep", "expire", "receipt",
          "clear", "refund"}
Results == Statuses \union Receipts \union {"none"}

ProcRows == [at: Steps, mail: Mails \union {NoMail}, view: Rows, day: Days,
             intent: Intents, ref: Challenges \union {NoRef}, gen: Nat, user: Owners,
             snap: Snapshots, result: Results, todo: SUBSET Mails, over: SUBSET Challenges]
Idle == [at |-> "idle", mail |-> NoMail, view |-> Blank, day |-> 0,
         intent |-> "auth_resend", ref |-> NoRef, gen |-> 0, user |-> NoUser,
         snap |-> NoSnapshot, result |-> "none", todo |-> {}, over |-> {}]

Become(p, next) == proc' = [proc EXCEPT ![p] = next]
At(p, step) == proc[p].at = step

\* A request still has the first reservation of this mail ahead of it.
Creating(m) == \E p \in Requests : proc[p].mail = m /\ proc[p].at \in {"reserve", "abandon"}

Init ==
    /\ outbox = [m \in Mails |-> Blank]
    /\ ledger = EmptyLedger
    /\ challenge = [c \in Challenges |-> NoChallenge]
    /\ standing = [m \in Mails |-> "eligible"]
    /\ closed = {}
    /\ today = 0
    /\ proc = [p \in Procs |-> Idle]
    /\ calls = [m \in Mails |-> 0]

(***************************************************************************)
(* transitionMail: one guarded UPDATE of the row with the ledger effects   *)
(* in the same batch.  The guard compares id, status, lease_version and    *)
(* lease_owner with what the caller read, not period_key.                  *)
(***************************************************************************)
\* Mutant of SameLease: the UPDATE forgets the lease version.
SameLeaseAnyVersion(m, view) == outbox[m].status = view.status /\ outbox[m].owner = view.owner

SameLease(m, view) ==
    /\ outbox[m].status = view.status
    /\ outbox[m].version = view.version
    /\ outbox[m].owner = view.owner

SourceLeft(accounts, from) ==
    from # "none" => \A a \in accounts : a \in Accounts /\ ledger[from][a] > 0

\* Mutants of After: the mark of the call is lost by the write-back, or never set;
\* the code stays in a row that has ended.
AfterForgetting(row, status, delivered) ==
    [row EXCEPT
        !.status = status,
        !.sent = status = "calling_provider",
        !.known = row.known \/ status = "accepted",
        !.delivered = delivered,
        !.body = row.body /\ status = "retry_wait",
        !.owner = IF status = "calling_provider" THEN row.owner ELSE NoOwner,
        !.lease = IF status = "calling_provider" THEN row.lease
                  ELSE IF status = "retry_wait" THEN "live" ELSE "none"]
AfterUnmarked(row, status, delivered) ==
    [row EXCEPT
        !.status = status,
        !.sent = row.sent,
        !.known = row.known \/ status = "accepted",
        !.delivered = delivered,
        !.body = row.body /\ status = "retry_wait",
        !.owner = IF status = "calling_provider" THEN row.owner ELSE NoOwner,
        !.lease = IF status = "calling_provider" THEN row.lease
                  ELSE IF status = "retry_wait" THEN "live" ELSE "none"]
AfterKeepingBody(row, status, delivered) ==
    [row EXCEPT
        !.status = status,
        !.sent = row.sent \/ status = "calling_provider",
        !.known = row.known \/ status = "accepted",
        !.delivered = delivered,
        !.body = row.body,
        !.owner = IF status = "calling_provider" THEN row.owner ELSE NoOwner,
        !.lease = IF status = "calling_provider" THEN row.lease
                  ELSE IF status = "retry_wait" THEN "live" ELSE "none"]

After(row, status, delivered) ==
    [row EXCEPT
        !.status = status,
        !.sent = row.sent \/ status = "calling_provider",
        !.known = row.known \/ status = "accepted",
        !.delivered = delivered,
        !.body = row.body /\ status = "retry_wait",
        !.owner = IF status = "calling_provider" THEN row.owner ELSE NoOwner,
        !.lease = IF status = "calling_provider" THEN row.lease
                  ELSE IF status = "retry_wait" THEN "live" ELSE "none"]

\* Mutant of CanTransition: a write-back by id alone.
CanTransitionUnfenced(m, view, from) == SourceLeft(Charged(view), from)
CanTransition(m, view, from) == SameLease(m, view) /\ SourceLeft(Charged(view), from)

Transition(m, view, status, from, to, delivered) ==
    /\ CanTransition(m, view, from)
    /\ outbox' = [outbox EXCEPT ![m] = After(outbox[m], status, delivered)]
    /\ ledger' = IF from = "none" THEN ledger ELSE Move(ledger, Charged(view), from, to)

\* The guarded UPDATE matched no row: nothing is written.
Missed == UNCHANGED <<outbox, ledger>>

TransitionOrMiss(m, view, status, from, to) ==
    IF CanTransition(m, view, from)
    THEN Transition(m, view, status, from, to, FALSE)
    ELSE Missed

(***************************************************************************)
(* Requests: a challenge with its first mail (create-challenge.ts)         *)
(***************************************************************************)
AbsentMails == {m \in Mails : outbox[m].status = "absent"}

OpenChallenge(p, c, m, intent, purpose, user) ==
    /\ At(p, "idle")
    /\ challenge[c].state = "none"
    /\ m \in AbsentMails
    /\ challenge' = [challenge EXCEPT ![c] =
           [state |-> "open", purpose |-> purpose, user |-> user, gen |-> 0,
            late |-> FALSE, born |-> today]]
    /\ outbox' = [outbox EXCEPT ![m] = NewRow(PoolOf(intent), intent, user, c, 0, Unreserved)]
    /\ Become(p, [Idle EXCEPT !.at = "reserve", !.mail = m, !.ref = c,
                              !.intent = intent, !.day = today])
    /\ UNCHANGED <<ledger, standing, closed, today, calls>>

CreateChallenge(p, c, m) ==
    \E intent \in OpenIntents :
        IF intent = "signup_auth"
        THEN OpenChallenge(p, c, m, intent, "signup", NoUser)
        ELSE \E user \in Users : OpenChallenge(p, c, m, intent, "login", user)

\* reserveMailBudget: take the unit and stamp the row, if it is still unreserved.
ReserveBudget(p) ==
    LET s == proc[p]
        m == s.mail
        admitted == /\ HasCapacity(ledger, s.intent, s.day, NoUser)
                    /\ outbox[m].period = Unreserved
                    /\ outbox[m].status \in Unsent
    IN  /\ At(p, "reserve")
        /\ IF admitted
           THEN /\ ledger' = Reserve(ledger, PoolOf(s.intent), s.day, NoUser)
                /\ outbox' = [outbox EXCEPT ![m].period = s.day, ![m].intent = s.intent]
                /\ Become(p, Idle)
           ELSE Missed /\ Become(p, [s EXCEPT !.at = "abandon"])
        /\ UNCHANGED <<challenge, standing, closed, today, calls>>

\* The budget was refused: drop the mail if nobody reserved it meanwhile, and
\* abort the challenge in any case.
AbandonCreate(p) ==
    LET m == proc[p].mail
        c == proc[p].ref
    IN  /\ At(p, "abandon")
        /\ challenge[c].purpose # "account_change"
        /\ outbox' = IF outbox[m].status = "pending" /\ outbox[m].period = Unreserved
                     THEN [outbox EXCEPT ![m].status = "skipped", ![m].body = FALSE, ![m].ref = NoRef]
                     ELSE outbox
        /\ challenge' = IF challenge[c].state = "open"
                        THEN [challenge EXCEPT ![c].state = "aborted"]
                        ELSE challenge
        /\ Become(p, Idle)
        /\ UNCHANGED <<ledger, standing, closed, today, calls>>

(***************************************************************************)
(* Requests: a fresh code for an open challenge (resend.ts)                *)
(***************************************************************************)
ResendRead(p, c) ==
    /\ At(p, "idle")
    /\ challenge[c].state = "open" /\ ~ challenge[c].late
    /\ challenge[c].purpose # "account_change"
    /\ Approves("auth_resend", ledger, today, NoUser)
    /\ Become(p, [Idle EXCEPT !.at = "resend", !.ref = c, !.gen = challenge[c].gen, !.day = today])
    /\ UNCHANGED <<outbox, ledger, challenge, standing, closed, today, calls>>

\* One batch: rotate the generation, reserve, insert the new mail, give the older
\* uncalled mails' units back and supersede them.
ResendCommit(p, m) ==
    LET s == proc[p]
        c == s.ref
        older == {o \in Mails : outbox[o].ref = c /\ outbox[o].status \in Unsent}
        taken == Reserve(ledger, "existing_auth", s.day, NoUser)
        refund(a) == Cardinality({o \in older : outbox[o].period # Unreserved /\ a \in Charged(outbox[o])})
        admitted == /\ challenge[c].state = "open" /\ ~ challenge[c].late
                    /\ challenge[c].gen = s.gen
                    /\ HasCapacity(ledger, "auth_resend", s.day, NoUser)
    IN  /\ At(p, "resend")
        /\ m \in AbsentMails
        /\ IF admitted
           THEN /\ challenge' = [challenge EXCEPT ![c].gen = s.gen + 1]
                /\ ledger' = [taken EXCEPT !["reserved"] =
                                 [a \in Accounts |-> taken["reserved"][a] - refund(a)]]
                /\ outbox' = [o \in Mails |->
                      IF o = m
                      THEN NewRow("existing_auth", "auth_resend", challenge[c].user, c, s.gen + 1, s.day)
                      ELSE IF o \in older
                      THEN [outbox[o] EXCEPT !.status = "superseded", !.body = FALSE]
                      ELSE outbox[o]]
           ELSE Missed /\ UNCHANGED challenge
        /\ Become(p, Idle)
        /\ UNCHANGED <<standing, closed, today, calls>>

(***************************************************************************)
(* Sending (send.ts): claim, preflight, switches, calling guard, provider, *)
(* write-back.  The executor and the fast path share it.                   *)
(***************************************************************************)
Rank(row) ==
    CASE IsAuth(row) -> 0
      [] row.intent = "urgent_cancelled_or_retracted" -> 1
      [] row.intent = "urgent_important_change" -> 2
      [] row.intent = "urgent_late_discovery" -> 3
      [] OTHER -> 4

Claimable(m) ==
    /\ outbox[m].status = "pending"
    /\ outbox[m].period = today
    /\ ledger["reserved"][PoolRow(outbox[m].pool, today)] > 0

\* claimMail: the executor takes the first candidate by priority, the fast path
\* the row it was given.
Claim(p, m) ==
    LET row == [outbox[m] EXCEPT !.status = "leased", !.version = outbox[m].version + 1,
                                 !.owner = OwnerOf(p), !.lease = "live"]
    IN  /\ At(p, "idle")
        /\ Available
        /\ Claimable(m)
        /\ p = Executor => \A o \in Mails : Claimable(o) => Rank(outbox[m]) <= Rank(outbox[o])
        /\ outbox[m].version < MaxVersion
        /\ outbox' = [outbox EXCEPT ![m] = row]
        /\ Become(p, [Idle EXCEPT !.at = "prepare", !.mail = m, !.view = row])
        /\ UNCHANGED <<ledger, challenge, standing, closed, today, calls>>

GiveUp(p, status) == Become(p, [proc[p] EXCEPT !.at = "writeback", !.result = status])
NoWrite == UNCHANGED <<outbox, ledger, challenge, standing, closed, today, calls>>

Prepare(p) ==
    LET s == proc[p]
        verdict == Verdict(s.mail, s.view)
    IN  /\ At(p, "prepare")
        /\ IF verdict = "fit"
           THEN Become(p, [s EXCEPT !.at = "gates", !.snap = Snapshot(s.mail, s.view.ref)])
           ELSE GiveUp(p, verdict)
        /\ NoWrite

\* prepareMail throws: a transient database error is retried, an error that is
\* classified terminal fails the mail.
PrepareThrows(p) ==
    /\ At(p, "prepare")
    /\ \E status \in {"retry_wait", "failed"} : GiveUp(p, status)
    /\ NoWrite

\* The batch deadline of the executor may be earlier than the lease.
WallReached(p) ==
    LET s == proc[p] IN
    \/ p = Executor
    \/ outbox[s.mail].version # s.view.version
    \/ outbox[s.mail].lease # "live"

LeaseOver(p) ==
    outbox[proc[p].mail].version = proc[p].view.version /\ outbox[proc[p].mail].lease = "lapsed"

GatesOpen(pool) == Available /\ NeededGates(pool) \intersect closed = {}

CheckGates(p) ==
    LET s == proc[p] IN
    /\ At(p, "gates")
    /\ \/ ~ GatesOpen(s.view.pool) /\ GiveUp(p, "retry_wait")
       \/ GatesOpen(s.view.pool) /\ WallReached(p) /\ GiveUp(p, "retry_wait")
       \/ /\ GatesOpen(s.view.pool) /\ ~ LeaseOver(p)
          /\ IF Past(s.mail, s.view.ref)
             THEN GiveUp(p, "expired")
             ELSE Become(p, [s EXCEPT !.at = "start"])
    /\ NoWrite

\* The last transition of a mail that is not called: a dropped one gives its unit
\* back, one put off keeps it.
FinishUncalled(p) ==
    LET s == proc[p] IN
    /\ At(p, "writeback")
    /\ TransitionOrMiss(s.mail, s.view, s.result,
                        IF s.result = "retry_wait" THEN "none" ELSE "reserved", "none")
    /\ Become(p, Idle)
    /\ UNCHANGED <<challenge, standing, closed, today, calls>>

\* Mutant of CallingGuard: the switches are not compared again.
CallingGuardNoSwitches(p) ==
    LET s == proc[p] IN
    /\ CanTransition(s.mail, s.view, "reserved")
    /\ outbox[s.mail].lease = "live" /\ outbox[s.mail].period = today
    /\ Snapshot(s.mail, s.view.ref) = s.snap

CallingGuard(p) ==
    LET s == proc[p]
        m == s.mail
    IN  /\ CanTransition(m, s.view, "reserved")
        /\ outbox[m].lease = "live"
        /\ outbox[m].period = today
        /\ Snapshot(m, s.view.ref) = s.snap
        /\ NeededGates(s.view.pool) \intersect closed = {}

\* calling_provider is committed, with the unit moved to uncertain, before the
\* provider is called.
StartCall(p) ==
    LET s == proc[p] IN
    /\ At(p, "start")
    /\ IF CallingGuard(p)
       THEN /\ Transition(s.mail, s.view, "calling_provider", "reserved", "uncertain", FALSE)
            /\ Become(p, [s EXCEPT !.at = "call"])
       ELSE Missed /\ GiveUp(p, "retry_wait")
    /\ UNCHANGED <<challenge, standing, closed, today, calls>>

\* Mutant of CallProvider: a timed-out call is repeated on the spot.
CallProviderAgain(p) ==
    LET s == proc[p] IN
    /\ At(p, "call")
    /\ calls[s.mail] < 3
    /\ calls' = [calls EXCEPT ![s.mail] = calls[s.mail] + 1]
    /\ \/ Become(p, s)
       \/ \E result \in {"accepted", "rejected", "retry_wait", "unknown"} :
              Become(p, [s EXCEPT !.at = "record", !.result = result,
                                  !.view.status = "calling_provider"])
    /\ UNCHANGED <<outbox, ledger, challenge, standing, closed, today>>

\* provider.send raced against the deadline: a timeout or an exception is
\* "unknown" whatever the provider did.
CallProvider(p) ==
    LET s == proc[p] IN
    /\ At(p, "call")
    /\ calls' = [calls EXCEPT ![s.mail] = calls[s.mail] + 1]
    /\ \E result \in {"accepted", "rejected", "retry_wait", "unknown"} :
           Become(p, [s EXCEPT !.at = "record", !.result = result,
                               !.view.status = "calling_provider"])
    /\ UNCHANGED <<outbox, ledger, challenge, standing, closed, today>>

\* Mutant of Record: an unknown result is settled like an answer.
RecordSettlingAll(p) ==
    LET s == proc[p] IN
    /\ At(p, "record")
    /\ TransitionOrMiss(s.mail, s.view, s.result, "uncertain", "settled")
    /\ Become(p, Idle)
    /\ UNCHANGED <<challenge, standing, closed, today, calls>>

\* An accepted or rejected call, retryable or not, settles its unit; an unknown
\* one leaves it uncertain.  A rejection may ask to pause all mail.
Record(p) ==
    LET s == proc[p] IN
    /\ At(p, "record")
    /\ TransitionOrMiss(s.mail, s.view, s.result,
                        IF s.result = "unknown" THEN "none" ELSE "uncertain", "settled")
    /\ \/ Become(p, Idle)
       \/ s.result \in {"rejected", "retry_wait"} /\ Become(p, [s EXCEPT !.at = "pause"])
    /\ UNCHANGED <<challenge, standing, closed, today, calls>>

\* The write-back failed: the catch block records an unknown result.
RecordThrows(p) ==
    LET s == proc[p] IN
    /\ At(p, "record")
    /\ TransitionOrMiss(s.mail, s.view, "unknown", "none", "none")
    /\ Become(p, Idle)
    /\ UNCHANGED <<challenge, standing, closed, today, calls>>

PauseMail(p) ==
    /\ At(p, "pause")
    /\ closed' = closed \union {"available"}
    /\ Become(p, Idle)
    /\ UNCHANGED <<outbox, ledger, challenge, standing, today, calls>>

(***************************************************************************)
(* The watchdog: lease repair (repairMailPage)                             *)
(***************************************************************************)
\* Mutant of RepairRead: a call that was cut off is not looked for.
RepairReadUncalled(m) ==
    /\ At(Executor, "idle")
    /\ outbox[m].lease = "lapsed"
    /\ outbox[m].status \in {"leased", "retry_wait"}
    /\ Become(Executor, [Idle EXCEPT !.at = "repair", !.mail = m, !.view = outbox[m]])
    /\ UNCHANGED <<outbox, ledger, challenge, standing, closed, today, calls>>

RepairRead(m) ==
    /\ At(Executor, "idle")
    /\ outbox[m].lease = "lapsed"
    /\ outbox[m].status \in {"leased", "calling_provider", "retry_wait"}
    /\ Become(Executor, [Idle EXCEPT !.at = "repair", !.mail = m, !.view = outbox[m]])
    /\ NoWrite

Repair ==
    LET view == proc[Executor].view
        m == proc[Executor].mail
        same == outbox[m].status = view.status /\ outbox[m].version = view.version
    IN  /\ At(Executor, "repair")
        /\ IF view.status = "calling_provider"
           THEN TransitionOrMiss(m, view, "unknown", "none", "none")
           ELSE IF view.status = "leased" \/ ~ view.sent
           THEN /\ outbox' = IF same /\ outbox[m].lease = "lapsed"
                             THEN [outbox EXCEPT ![m].status = "pending", ![m].owner = NoOwner,
                                       ![m].version = outbox[m].version + 1, ![m].lease = "none"]
                             ELSE outbox
                /\ UNCHANGED ledger
           ELSE /\ outbox' = IF same THEN [outbox EXCEPT ![m].lease = "none"] ELSE outbox
                /\ UNCHANGED ledger
        /\ Become(Executor, Idle)
        /\ UNCHANGED <<challenge, standing, closed, today, calls>>

\* Mutant of FinishRead: the page selects the mails that were not called.
FinishReadUncalled(m) ==
    /\ At(Executor, "idle")
    /\ outbox[m].status = "retry_wait" /\ ~ outbox[m].sent
    /\ IntentOver(m)
    /\ Become(Executor, [Idle EXCEPT !.at = "finish", !.mail = m, !.view = outbox[m]])
    /\ NoWrite

\* finishRejectedRetryPage: a mail the provider refused for now is never called
\* again; it ends when its intent is over.
FinishRead(m) ==
    /\ At(Executor, "idle")
    /\ outbox[m].status = "retry_wait" /\ outbox[m].sent
    /\ IntentOver(m)
    /\ Become(Executor, [Idle EXCEPT !.at = "finish", !.mail = m, !.view = outbox[m]])
    /\ NoWrite

FinishRejected ==
    /\ At(Executor, "finish")
    /\ TransitionOrMiss(proc[Executor].mail, proc[Executor].view, "expired", "none", "none")
    /\ Become(Executor, Idle)
    /\ UNCHANGED <<challenge, standing, closed, today, calls>>

(***************************************************************************)
(* The watchdog: day rollover (rollover.ts).  A row of the page at a time; *)
(* the page's clock is kept in day.                                        *)
(***************************************************************************)
\* Mutant of SameIdentity: a row is recognised by its day alone.
SameIdentityByDay(m, view) == outbox[m].period = view.period /\ ~ outbox[m].sent

SameIdentity(m, view) ==
    SameLease(m, view) /\ outbox[m].period = view.period /\ ~ outbox[m].sent

\* Mutant of RolloverRead: only rows without a day are candidates.
RolloverReadUnreserved(m) ==
    /\ At(Executor, "idle")
    /\ outbox[m].status \in Waiting /\ ~ outbox[m].sent
    /\ outbox[m].period = Unreserved
    /\ Become(Executor, [Idle EXCEPT !.mail = m, !.view = outbox[m], !.day = today, !.at = "refetch"])
    /\ NoWrite

RolloverRead(m) ==
    /\ At(Executor, "idle")
    /\ outbox[m].status \in Waiting /\ ~ outbox[m].sent
    /\ outbox[m].period # today
    /\ Become(Executor, [Idle EXCEPT !.mail = m, !.view = outbox[m], !.day = today,
           !.at = IF outbox[m].period = Unreserved THEN "refetch" ELSE "release"])
    /\ NoWrite

\* The old day's unit goes back before the new day is asked for one; the bumped
\* version fences off a sender that still holds the row.
ReleaseOld ==
    LET s == proc[Executor]
        m == s.mail
    IN  /\ At(Executor, "release")
        /\ IF SameIdentity(m, s.view) /\ SourceLeft(Charged(s.view), "reserved")
           THEN /\ outbox' = [outbox EXCEPT ![m].period = Unreserved, ![m].status = "pending",
                     ![m].version = outbox[m].version + 1, ![m].owner = NoOwner, ![m].lease = "none"]
                /\ ledger' = Move(ledger, Charged(s.view), "reserved", "none")
                /\ Become(Executor, [s EXCEPT !.at = "refetch"])
           ELSE Missed /\ Become(Executor, Idle)
        /\ UNCHANGED <<challenge, standing, closed, today, calls>>

\* Mutant of IntentFor: the pool's name is taken for an intent.
PoolAsIntent(row) == row.pool

\* intentFor: the intent under which the row asks for budget again.
IntentFor(row) ==
    CASE row.pool = "new_registration" -> "signup_auth"
      [] row.pool \in BusinessPools -> row.intent
      [] OTHER ->
           IF row.ref \notin Challenges THEN "account_change_auth"
           ELSE IF challenge[row.ref].state = "deleted" \/ challenge[row.ref].purpose = "account_change"
           THEN "account_change_auth"
           ELSE IF challenge[row.ref].purpose = "login" /\ challenge[row.ref].gen = 0
           THEN "existing_auth_first_login" ELSE "auth_resend"

\* The row is read afresh, with its expiry and its challenge.
Refetch ==
    LET s == proc[Executor]
        row == outbox[s.mail]
    IN  /\ At(Executor, "refetch")
        /\ IF row.period # Unreserved \/ row.sent \/ row.status # "pending"
           THEN Become(Executor, Idle)
           ELSE IF IntentOver(s.mail)
           THEN Become(Executor, [s EXCEPT !.at = "withdraw", !.view = row])
           ELSE Become(Executor, [s EXCEPT !.at = "rereserve", !.view = row,
                                           !.intent = IntentFor(row)])
        /\ NoWrite

Withdraw ==
    /\ At(Executor, "withdraw")
    /\ TransitionOrMiss(proc[Executor].mail, proc[Executor].view, "expired", "none", "none")
    /\ Become(Executor, Idle)
    /\ UNCHANGED <<challenge, standing, closed, today, calls>>

Rereserve ==
    LET s == proc[Executor]
        m == s.mail
    IN  /\ At(Executor, "rereserve")
        /\ IF SameIdentity(m, s.view) /\ HasCapacity(ledger, s.intent, s.day, s.view.user)
           THEN /\ outbox' = [outbox EXCEPT ![m].period = s.day, ![m].intent = s.intent,
                                            ![m].version = outbox[m].version + 1]
                /\ ledger' = Reserve(ledger, s.view.pool, s.day, s.view.user)
           ELSE Missed
        /\ Become(Executor, Idle)
        /\ UNCHANGED <<challenge, standing, closed, today, calls>>

(***************************************************************************)
(* The dispatcher: approve a digest together with its budget               *)
(* (planBudgetedDispatch, approveBudgetedDispatch)                         *)
(***************************************************************************)
ControlsAllow(pool) == (NeededGates(pool) \ {"outbound_enabled"}) \intersect closed = {}

ProposeDispatch(user) ==
    \E intent \in DispatchIntents :
        /\ At(Executor, "idle")
        /\ Available /\ ControlsAllow(PoolOf(intent))
        /\ Become(Executor, [Idle EXCEPT !.at = "approve", !.intent = intent,
                                         !.user = user, !.day = today])
        /\ NoWrite

ApproveDispatch(m) ==
    LET s == proc[Executor]
        pool == PoolOf(s.intent)
    IN  /\ At(Executor, "approve")
        /\ m \in AbsentMails
        /\ IF ControlsAllow(pool) /\ HasCapacity(ledger, s.intent, s.day, s.user)
           THEN /\ outbox' = [outbox EXCEPT ![m] = NewRow(pool, s.intent, s.user, Self, 0, s.day)]
                /\ ledger' = Reserve(ledger, pool, s.day, s.user)
           ELSE Missed
        /\ Become(Executor, Idle)
        /\ UNCHANGED <<challenge, standing, closed, today, calls>>

(***************************************************************************)
(* The cron sweep: expire the codes of challenges that are over, one mail  *)
(* after another, then delete old challenges, both by the clock the sweep  *)
(* started with (clearExpiredOtpPayloads).                                 *)
(***************************************************************************)
\* Mutant of SweepList: mails are listed by the cut-off for deleting challenges.
SweepListForgotten(p) ==
    /\ p \in Sweepers /\ At(p, "idle")
    /\ Become(p, [Idle EXCEPT !.at = "sweep",
           !.over = {c \in Challenges : challenge[c].late /\ challenge[c].born < today},
           !.todo = {m \in Mails : /\ outbox[m].ref \in Challenges /\ outbox[m].body
                                   /\ challenge[outbox[m].ref].late
                                   /\ challenge[outbox[m].ref].born < today
                                   /\ challenge[outbox[m].ref].state = "open"}])
    /\ NoWrite

SweepList(p) ==
    /\ p \in Sweepers /\ At(p, "idle")
    /\ Become(p, [Idle EXCEPT !.at = "sweep",
           !.over = {c \in Challenges : challenge[c].late /\ challenge[c].born < today},
           !.todo = {m \in Mails : /\ outbox[m].ref \in Challenges /\ outbox[m].body
                                   /\ challenge[outbox[m].ref].late
                                   /\ challenge[outbox[m].ref].state = "open"}])
    /\ NoWrite

ExpireRead(p, m) ==
    LET s == proc[p] IN
    /\ At(p, "sweep")
    /\ m \in s.todo
    /\ IF outbox[m].body
       THEN Become(p, [s EXCEPT !.at = "expire", !.mail = m, !.view = outbox[m], !.todo = s.todo \ {m}])
       ELSE Become(p, [s EXCEPT !.todo = s.todo \ {m}])
    /\ NoWrite

\* expireOtpMail: the unit goes back only if the row read had one.
Expire(p) ==
    LET s == proc[p]
        m == s.mail
        overdue == /\ outbox[m].body /\ outbox[m].ref \in Challenges
                   /\ challenge[outbox[m].ref].late /\ challenge[outbox[m].ref].state # "deleted"
        from == IF s.view.period = Unreserved THEN "none" ELSE "reserved"
    IN  /\ At(p, "expire")
        /\ IF overdue THEN TransitionOrMiss(m, s.view, "expired", from, "none") ELSE Missed
        /\ Become(p, [Idle EXCEPT !.at = "sweep", !.over = s.over, !.todo = s.todo])
        /\ UNCHANGED <<challenge, standing, closed, today, calls>>

ForgetChallenges(p) ==
    /\ At(p, "sweep") /\ proc[p].todo = {}
    /\ challenge' = [c \in Challenges |->
           IF c \in proc[p].over
           THEN [challenge[c] EXCEPT !.state = "deleted"] ELSE challenge[c]]
    /\ Become(p, Idle)
    /\ UNCHANGED <<outbox, ledger, standing, closed, today, calls>>

(***************************************************************************)
(* Provider receipts (recordMailReceipt): any number, in any order         *)
(***************************************************************************)
ReceiptRead(p, m) ==
    /\ p \in Consumers /\ At(p, "idle")
    /\ outbox[m].known
    /\ outbox[m].status \in {"accepted", "deferred", "unknown"}
    /\ \E kind \in Receipts :
           Become(p, [Idle EXCEPT !.at = "receipt", !.mail = m, !.view = outbox[m], !.result = kind])
    /\ NoWrite

\* Mutant of Receipt: a deferral does not look at an earlier delivery.
ReceiptInAnyOrder(p) ==
    LET s == proc[p]
        delivered == s.result = "delivered"
        from == IF s.view.status = "unknown" THEN "uncertain" ELSE "none"
    IN  /\ At(p, "receipt")
        /\ IF CanTransition(s.mail, s.view, from)
           THEN Transition(s.mail, s.view, IF delivered THEN "accepted" ELSE s.result,
                           from, "settled", delivered)
           ELSE Missed
        /\ Become(p, Idle)
        /\ UNCHANGED <<challenge, standing, closed, today, calls>>

Receipt(p) ==
    LET s == proc[p]
        delivered == s.result = "delivered"
        status == IF delivered THEN "accepted" ELSE s.result
        from == IF s.view.status = "unknown" THEN "uncertain" ELSE "none"
    IN  /\ At(p, "receipt")
        /\ IF /\ CanTransition(s.mail, s.view, from)
              /\ s.result = "deferred" => ~ outbox[s.mail].delivered
           THEN Transition(s.mail, s.view, status, from, "settled", delivered)
           ELSE Missed
        /\ Become(p, Idle)
        /\ UNCHANGED <<challenge, standing, closed, today, calls>>

(***************************************************************************)
(* The environment: clocks, recipients, operators, evictions               *)
(***************************************************************************)
NextDay ==
    /\ today < MaxDay
    /\ today' = today + 1
    /\ UNCHANGED <<outbox, ledger, challenge, standing, closed, proc, calls>>

LeaseLapses(m) ==
    /\ outbox[m].lease = "live"
    /\ outbox' = [outbox EXCEPT ![m].lease = "lapsed"]
    /\ UNCHANGED <<ledger, challenge, standing, closed, today, proc, calls>>

\* A request opens its challenge and asks for the budget within seconds; the code
\* is valid for OTP_TTL (ten minutes).
DeadlinePasses(c) ==
    /\ challenge[c].state # "none" /\ ~ challenge[c].late
    /\ \A m \in Mails : Creating(m) => outbox[m].ref # c
    /\ challenge' = [challenge EXCEPT ![c].late = TRUE]
    /\ UNCHANGED <<outbox, ledger, standing, closed, today, proc, calls>>

\* consumeVerifiedOtp's guarded UPDATE: the user proves the code that was mailed
\* for the current generation.
Consume(c) ==
    /\ challenge[c].state = "open" /\ ~ challenge[c].late
    /\ \E m \in Mails : /\ outbox[m].ref = c /\ outbox[m].gen = challenge[c].gen
                        /\ calls[m] > 0
    /\ challenge' = [challenge EXCEPT ![c].state = "consumed"]
    /\ UNCHANGED <<outbox, ledger, standing, closed, today, proc, calls>>

Erased(m) == outbox[m].ref = NoRef

\* The account, its address, its seat or its events change: a recipient may come
\* back, an expired or superseded digest does not.
StandingMoves(m) ==
    /\ outbox[m].status # "absent" /\ ~ Erased(m) /\ outbox[m].user # NoUser
    /\ \E next \in IF IsAuth(outbox[m]) THEN {"eligible", "skipped"} ELSE Standings :
           /\ next # standing[m]
           /\ standing[m] \in {"eligible", "skipped"}
           /\ standing' = [standing EXCEPT ![m] = next]
    /\ UNCHANGED <<outbox, ledger, challenge, closed, today, proc, calls>>

\* cleanupDeletedAccountPage, for an account being deleted: later than any
\* request of that account still at work.
EraseMail(m) ==
    /\ outbox[m].status # "absent" /\ ~ Erased(m) /\ outbox[m].user # NoUser
    /\ standing[m] = "skipped"
    /\ ~ Creating(m)
    /\ outbox' = [outbox EXCEPT ![m].ref = NoRef, ![m].body = FALSE]
    /\ UNCHANGED <<ledger, challenge, standing, closed, today, proc, calls>>

Toggle(g) ==
    /\ closed' = IF g \in closed THEN closed \ {g} ELSE closed \union {g}
    /\ UNCHANGED <<outbox, ledger, challenge, standing, today, proc, calls>>

Crash(p) ==
    /\ ~ At(p, "idle")
    /\ Become(p, Idle)
    /\ NoWrite

(***************************************************************************)
(* The system                                                              *)
(***************************************************************************)
Senders == {Executor} \union FastPath

RequestStep(p) ==
    \/ \E c \in Challenges, m \in Mails : CreateChallenge(p, c, m)
    \/ ReserveBudget(p)
    \/ AbandonCreate(p)
    \/ \E c \in Challenges : ResendRead(p, c)
    \/ \E m \in Mails : ResendCommit(p, m)

SendStep(p) ==
    \/ Prepare(p) \/ PrepareThrows(p) \/ CheckGates(p) \/ FinishUncalled(p)
    \/ StartCall(p) \/ CallProvider(p) \/ Record(p) \/ RecordThrows(p) \/ PauseMail(p)

\* What the executor does with the row it holds.
ExecutorStep ==
    \/ Repair \/ FinishRejected \/ ReleaseOld \/ Refetch \/ Withdraw \/ Rereserve
    \/ \E m \in Mails : ApproveDispatch(m)

ExecutorPick ==
    \/ \E m \in Mails : RepairRead(m) \/ FinishRead(m) \/ RolloverRead(m)
    \/ \E u \in Users : ProposeDispatch(u)

SweepStep(p) == (\E m \in Mails : ExpireRead(p, m)) \/ Expire(p) \/ ForgetChallenges(p)
ConsumerStep(p) == (\E m \in Mails : ReceiptRead(p, m)) \/ Receipt(p)

Environment ==
    \/ NextDay
    \/ \E m \in Mails : LeaseLapses(m) \/ StandingMoves(m) \/ EraseMail(m)
    \/ \E c \in Challenges : DeadlinePasses(c) \/ Consume(c)
    \/ \E g \in MovableGates : Toggle(g)
    \/ \E p \in MayCrash : Crash(p)

Next ==
    \/ \E p \in Requests : RequestStep(p)
    \/ \E p \in Senders : SendStep(p) \/ \E m \in Mails : Claim(p, m)
    \/ ExecutorPick
    \/ ExecutorStep
    \/ \E p \in Sweepers : SweepList(p) \/ SweepStep(p)
    \/ \E p \in Consumers : ConsumerStep(p)
    \/ Environment

Spec == Init /\ [][Next]_vars
=============================================================================
