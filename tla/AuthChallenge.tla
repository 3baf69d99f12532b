--------------------------- MODULE AuthChallenge ----------------------------
(***************************************************************************)
(* The codes of one address in one browser: parallel guesses (runVerifyOtp) *)
(* against the attempts of a challenge, resends that rotate its code        *)
(* (runResendOtp), and the consumption of a proved code into a pending      *)
(* session (consumeVerifiedOtp).  The user of the address exists; its       *)
(* recovery epoch may move at any time.  Every D1 call is a step.           *)
(***************************************************************************)
EXTENDS Integers, FiniteSets, Sequences

CONSTANTS
    Challenges, NoChallenge,
    Keys,               \* idempotency keys of resends
    Verifiers, Resenders,
    OtpAttempts,        \* OTP_ATTEMPTS
    EmailVerifyHour,    \* EMAIL_VERIFY_ATTEMPTS_HOUR; a run lasts less than an hour
    PendingPerUser,     \* SESSION_PENDING_PER_USER
    MaxEpoch, MaxSessions

ChallengeConstants ==
    /\ {OtpAttempts, EmailVerifyHour, PendingPerUser} \subseteq Nat \ {0}
    /\ {MaxEpoch, MaxSessions} \subseteq Nat /\ NoChallenge \notin Challenges
    /\ IsFiniteSet(Challenges) /\ IsFiniteSet(Keys)
    /\ IsFiniteSet(Verifiers) /\ IsFiniteSet(Resenders)

VARIABLES challenge, order, resends, epoch, session, wrong, proc
vars == <<challenge, order, resends, epoch, session, wrong, proc>>

Procs == Verifiers \union Resenders
Wrong == <<NoChallenge, 0>>         \* a guess that is no code of the address
Idle == [at |-> "idle", guess |-> Wrong, left |-> {}, row |-> NoChallenge,
         gen |-> 0, epoch |-> 0, key |-> "none"]

Init ==
    /\ challenge = [c \in Challenges |-> [state |-> "none", kind |-> "login", gen |-> 0,
                                          attempts |-> 0, late |-> FALSE]]
    /\ order = <<>>                 \* challenges by creation
    /\ resends = {}                 \* auth_resend_intents: <<key, challenge>>
    /\ epoch = 0                    \* users.auth_epoch / recovery_epoch
    /\ session = <<>>               \* sessions opened: [from, gen, epoch, state]
    /\ wrong = [c \in Challenges |-> 0]     \* wrong codes compared so far (history)
    /\ proc = [p \in Procs |-> Idle]

At(p, step) == proc[p].at = step
Become(p, s) == proc' = [proc EXCEPT ![p] = s]
Open(c) == challenge[c].state = "open" /\ ~challenge[c].late
\* The tries behind a count per challenge, and the sum of attempts over all challenges
Tries(count) == {t \in Challenges \X (1..OtpAttempts) : t[2] <= count[t[1]]}
Spent == Cardinality(Tries([c \in Challenges |-> challenge[c].attempts]))
Pending == {i \in 1..Len(session) : session[i].state = "pending"}

-----------------------------------------------------------------------------
\* createChallenge: a challenge, or the decoy of an address that gets no mail
Create(c) ==
    /\ challenge[c].state = "none"
    /\ \E kind \in {"login", "equalization"} :
         challenge' = [challenge EXCEPT ![c].state = "open", ![c].kind = kind]
    /\ order' = Append(order, c)
    /\ UNCHANGED <<resends, epoch, session, wrong, proc>>

Expire(c) ==
    /\ challenge[c].state = "open" /\ ~challenge[c].late
    /\ challenge' = [challenge EXCEPT ![c].late = TRUE]
    /\ UNCHANGED <<order, resends, epoch, session, wrong, proc>>

\* The creating request lost the budget to a concurrent write
Abort(c) ==
    /\ challenge[c].state = "open" /\ challenge[c].kind = "login"
    /\ challenge' = [challenge EXCEPT ![c].state = "aborted"]
    /\ UNCHANGED <<order, resends, epoch, session, wrong, proc>>

\* The recovery epoch of the user moves: recovery, logout of all devices
MoveEpoch ==
    /\ epoch < MaxEpoch
    /\ epoch' = epoch + 1
    /\ UNCHANGED <<challenge, order, resends, session, wrong, proc>>

\* A pending session is activated or its time is up
EndPending(i) ==
    /\ i \in Pending
    /\ session' = [session EXCEPT ![i].state = "ended"]
    /\ UNCHANGED <<challenge, order, resends, epoch, wrong, proc>>

-----------------------------------------------------------------------------
(***************************************************************************)
(* runVerifyOtp                                                            *)
(***************************************************************************)

\* The rows as read, used newest first; what is compared later is this copy
RowOf(i) == [id |-> order[i], made |-> i, gen |-> challenge[order[i]].gen,
             attempts |-> challenge[order[i]].attempts]
Rows == {RowOf(i) : i \in {j \in 1..Len(order) : Open(order[j])}}
Newest(row, rows) == row \in rows /\ \A other \in rows : other.made <= row.made

\* Codes that were ever sent, and one that never was
Guesses == {Wrong} \union UNION {{<<c, g>> : g \in 0..challenge[c].gen} :
                                   c \in {d \in Challenges : challenge[d].state # "none"
                                                             /\ challenge[d].kind = "login"}}

Verify(v, guess) ==
    /\ At(v, "idle")
    /\ Spent < EmailVerifyHour
    /\ Rows # {}
    /\ Become(v, [Idle EXCEPT !.at = "next", !.guess = guess, !.left = Rows])
    /\ UNCHANGED <<challenge, order, resends, epoch, session, wrong>>

Exhausted(row) == row.attempts >= OtpAttempts

\* reserveAttempt: its guard is read with the row, in one statement
MayTry(c) == Open(c) /\ challenge[c].attempts < OtpAttempts /\ Spent < EmailVerifyHour

Matches(v, row) == challenge[row.id].kind = "login" /\ proc[v].guess = <<row.id, row.gen>>

\* The next row: passed over, or one attempt taken and then compared
PassOver(v, row) ==
    /\ Exhausted(row) \/ ~MayTry(row.id)
    /\ Become(v, [proc[v] EXCEPT !.left = @ \ {row}])
    /\ UNCHANGED <<challenge, wrong>>

Compare(v, row) ==
    LET rest == [proc[v] EXCEPT !.left = @ \ {row}]
    IN  /\ ~Exhausted(row) /\ MayTry(row.id)
        /\ challenge' = [challenge EXCEPT ![row.id].attempts = @ + 1]
        /\ IF Matches(v, row)
           THEN /\ Become(v, [rest EXCEPT !.at = "refund", !.row = row.id, !.gen = row.gen])
                /\ UNCHANGED wrong
           ELSE /\ Become(v, rest)
                /\ wrong' = [wrong EXCEPT ![row.id] = @ + 1]

Try(v) ==
    /\ At(v, "next")
    /\ \E row \in proc[v].left :
         Newest(row, proc[v].left) /\ (PassOver(v, row) \/ Compare(v, row))
    /\ UNCHANGED <<order, resends, epoch, session>>

\* The rows are used up: mismatch, attempts_exhausted or rate_limited
Refuse(v) ==
    /\ At(v, "next") /\ proc[v].left = {}
    /\ Become(v, Idle)
    /\ UNCHANGED <<challenge, order, resends, epoch, session, wrong>>

\* refundAttempt, then the answer that asks for a fresh cookie or the consumption
Refund(v) ==
    LET c == proc[v].row IN
    /\ At(v, "refund")
    /\ challenge' = [challenge EXCEPT ![c].attempts = IF @ > 0 THEN @ - 1 ELSE @]
    /\ \E next \in {"idle", "read"} :
         Become(v, IF next = "idle" THEN Idle ELSE [proc[v] EXCEPT !.at = "read"])
    /\ UNCHANGED <<order, resends, epoch, session, wrong>>

\* consumeVerifiedOtp reads the challenge and the user
ReadForConsume(v) ==
    LET c == proc[v].row IN
    /\ At(v, "read")
    /\ Become(v, IF challenge[c].gen = proc[v].gen
                 THEN [proc[v] EXCEPT !.at = "consume", !.epoch = epoch] ELSE Idle)
    /\ UNCHANGED <<challenge, order, resends, epoch, session, wrong>>

\* Mutant: nobody counts the pending sessions
ConsumableUncounted(v) ==
    LET c == proc[v].row IN
    /\ Open(c) /\ challenge[c].gen = proc[v].gen /\ challenge[c].attempts < OtpAttempts
    /\ proc[v].epoch = epoch

\* The guard of the commit
Consumable(v) ==
    LET c == proc[v].row IN
    /\ Open(c) /\ challenge[c].gen = proc[v].gen /\ challenge[c].attempts < OtpAttempts
    /\ proc[v].epoch = epoch
    /\ Cardinality(Pending) < PendingPerUser

Consume(v) ==
    LET c == proc[v].row IN
    /\ At(v, "consume")
    /\ Len(session) < MaxSessions
    /\ IF Consumable(v)
       THEN /\ challenge' = [challenge EXCEPT ![c].state = "consumed"]
            /\ session' = Append(session, [from |-> c, gen |-> proc[v].gen, epoch |-> proc[v].epoch,
                                           state |-> "pending"])
       ELSE UNCHANGED <<challenge, session>>
    /\ Become(v, Idle)
    /\ UNCHANGED <<order, resends, epoch, wrong>>

\* The isolate is evicted; an attempt taken and not returned stays taken
Die(v) ==
    /\ ~At(v, "idle")
    /\ Become(v, Idle)
    /\ UNCHANGED <<challenge, order, resends, epoch, session, wrong>>

-----------------------------------------------------------------------------
(***************************************************************************)
(* runResendOtp: the newest open challenge, then one CAS on its generation *)
(***************************************************************************)
Replay(r, key) ==
    /\ At(r, "idle")
    /\ ~\E c \in Challenges : <<key, c>> \in resends
    /\ Become(r, [Idle EXCEPT !.at = "latest", !.key = key])
    /\ UNCHANGED <<challenge, order, resends, epoch, session, wrong>>

ReadLatest(r) ==
    /\ At(r, "latest")
    /\ \/ \E row \in Rows :
            /\ Newest(row, Rows) /\ ~Exhausted(row)
            /\ Become(r, [proc[r] EXCEPT !.at = "rotate", !.row = row.id, !.gen = row.gen])
       \/ /\ \A row \in Rows : Newest(row, Rows) => Exhausted(row)
          /\ Become(r, Idle)
    /\ UNCHANGED <<challenge, order, resends, epoch, session, wrong>>

\* The key is unique in auth_resend_intents: a second batch with it is rolled back.
\* Budget and quota may refuse too (MailLedger, AuthQuota).
Rotate(r) ==
    LET s == proc[r]
        c == s.row
    IN  /\ At(r, "rotate")
        /\ \/ /\ Open(c) /\ challenge[c].gen = s.gen /\ challenge[c].attempts < OtpAttempts
              /\ ~\E d \in Challenges : <<s.key, d>> \in resends
              /\ challenge' = [challenge EXCEPT ![c].gen = @ + 1]
              /\ resends' = resends \union {<<s.key, c>>}
           \/ UNCHANGED <<challenge, resends>>
        /\ Become(r, Idle)
        /\ UNCHANGED <<order, epoch, session, wrong>>

VerifierStep(v) ==
    \/ \E guess \in Guesses : Verify(v, guess)
    \/ Try(v) \/ Refuse(v) \/ Refund(v) \/ ReadForConsume(v) \/ Consume(v) \/ Die(v)

Next ==
    \/ \E c \in Challenges : Create(c) \/ Expire(c) \/ Abort(c)
    \/ MoveEpoch
    \/ \E i \in 1..Len(session) : EndPending(i)
    \/ \E v \in Verifiers : VerifierStep(v)
    \/ \E r \in Resenders : (\E key \in Keys : Replay(r, key)) \/ ReadLatest(r) \/ Rotate(r)

Spec == Init /\ [][Next]_vars

-----------------------------------------------------------------------------
ChallengeRow == [state : {"none", "open", "aborted", "consumed"}, kind : {"login", "equalization"},
                 gen : Nat, attempts : 0..OtpAttempts, late : BOOLEAN]
Row == [id : Challenges, made : Nat, gen : Nat, attempts : 0..OtpAttempts]
Session == [from : Challenges, gen : Nat, epoch : 0..MaxEpoch, state : {"pending", "ended"}]
Proc == [at : {"idle", "next", "refund", "read", "consume", "latest", "rotate"},
         guess : (Challenges \union {NoChallenge}) \X Nat, left : SUBSET Row,
         row : Challenges \union {NoChallenge}, gen : Nat, epoch : 0..MaxEpoch,
         key : Keys \union {"none"}]

TypeOK ==
    /\ challenge \in [Challenges -> ChallengeRow]
    /\ order \in Seq(Challenges)
    /\ resends \subseteq Keys \X Challenges
    /\ epoch \in 0..MaxEpoch
    /\ session \in Seq(Session)
    /\ wrong \in [Challenges -> Nat]
    /\ proc \in [Procs -> Proc]

\* What a request relies on: the rows it has read exist; the key of a resend is one; after
\* a match it holds a code of that row, which is no decoy's, and that it guessed.
Made(c) == c \in Challenges /\ challenge[c].state # "none"
ProcHolds(p) ==
    LET x == proc[p] IN
    /\ \A row \in x.left : Made(row.id)
    /\ x.at \in {"latest", "rotate"} => x.key \in Keys
    /\ x.at = "rotate" => Made(x.row)
    /\ x.at \in {"refund", "read", "consume"} =>
         Made(x.row) /\ challenge[x.row].kind = "login" /\ x.guess = <<x.row, x.gen>>
ProcsHold == (\A i \in 1..Len(order) : Made(order[i])) /\ \A p \in Procs : ProcHolds(p)

\* verify.ts:90 and :107: however many requests guess at once, die in between or take
\* their attempt back after a hit, every wrong code that was compared is still counted,
\* so a challenge is never compared with more than OTP_ATTEMPTS wrong codes, whatever
\* is resent.
WrongCodesCounted == \A c \in Challenges : wrong[c] <= challenge[c].attempts /\ wrong[c] <= OtpAttempts

\* verify.ts:107: an attempt given back is one's own: beside the wrong codes, each request
\* that has matched and not returned its attempt still has it counted.
Holders(c) == {p \in Procs : At(p, "refund") /\ proc[p].row = c}
AttemptsCovered ==
    \A c \in Challenges : wrong[c] + Cardinality(Holders(c)) <= challenge[c].attempts

\* verify.ts:145: all challenges of the address together see at most
\* EMAIL_VERIFY_ATTEMPTS_HOUR wrong codes in an hour.
HourlyLimitKept == Cardinality(Tries(wrong)) <= EmailVerifyHour
SpentWithinHour == Spent <= EmailVerifyHour

\* consume.ts:86: a session comes from the code that was in force when it was opened,
\* from one challenge once, never from a decoy and never from a code that a resend had
\* replaced.
SessionFromCurrentCode ==
    /\ \A i \in 1..Len(session) :
         LET c == challenge[session[i].from] IN
         c.state = "consumed" /\ c.kind = "login" /\ c.gen = session[i].gen
    /\ \A i, j \in 1..Len(session) : i # j => session[i].from # session[j].from

\* A session that is opened carries the epochs the user has at that moment: a recovery
\* between the proof and the commit leaves no session behind.
NewSessionAtEpoch ==
  Len(session') > Len(session) => session'[Len(session')].epoch = epoch

\* The limit of pending sessions holds for consumptions that run at once.
PendingLimitKept == Cardinality(Pending) <= PendingPerUser

\* resend.ts:256: the same key rotates at most one challenge, and that once: every
\* generation has an accepted resend of its own.
RotatedOncePerKey ==
    /\ \A c \in Challenges : challenge[c].gen = Cardinality({k \in Keys : <<k, c>> \in resends})
    /\ \A r, s \in resends : r[1] = s[1] => r = s

\* What holds of the codes in every state; inductive.
CodesHold ==
    /\ TypeOK /\ ProcsHold /\ WrongCodesCounted /\ AttemptsCovered
    /\ HourlyLimitKept /\ SpentWithinHour /\ SessionFromCurrentCode
    /\ PendingLimitKept /\ RotatedOncePerKey
=============================================================================
