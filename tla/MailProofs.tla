----------------------------- MODULE MailProofs -----------------------------
(***************************************************************************)
(* The theorems about the outbox, in five parts: types, with what each     *)
(* step of an actor has chosen to work on; the fences, what an actor read  *)
(* earlier stays true of the row in the way the guarded writes need, under *)
(* every step of every other actor; what senders decide by; and the        *)
(* recount, every action moves the units of the ledger as it moves the     *)
(* mails they belong to.  The properties of MailProperties follow.  Last,  *)
(* the outbox implements MailPromise: every step of requests, executor,    *)
(* sweep and consumers is, mail by mail, a step of the promise or changes  *)
(* nothing it speaks of.                                                   *)
(***************************************************************************)
EXTENDS MailInvariant, MailRefinement, MailLedgerProofs, FiniteSetTheorems

(***************************************************************************)
(* Types                                                                   *)
(***************************************************************************)
LEMMA BlankTyped == Blank \in Rows
BY DEF Blank, NewRow, Rows, Statuses, Waiting, Pools, AuthPools, Intents, Owners

LEMMA NewRowTyped ==
    ASSUME NEW pool \in Pools, NEW intent \in Intents, NEW user \in Owners,
           NEW ref \in Challenges \union {Self, NoRef}, NEW gen \in Nat,
           NEW period \in Days \union {Unreserved}
    PROVE  NewRow(pool, intent, user, ref, gen, period) \in Rows
BY DEF NewRow, Rows, Statuses, Waiting

LEMMA IdleTyped == Idle \in ProcRows /\ StepFacts(Idle) /\ Idle.at = "idle" /\ Idle.todo = {}
<1>1. 0 \in Days
    BY LimitsAssumption DEF Days
<1> QED
    BY <1>1, BlankTyped
    DEF Idle, ProcRows, StepFacts, Steps, Intents, Owners, Snapshots, NoSnapshot, Standings, Results

\* One actor moves on, to a typed record that holds the facts of its step.
LEMMA MovesOn ==
    ASSUME Typed, NEW p \in Procs, NEW next \in ProcRows, StepFacts(next), Become(p, next)
    PROVE  proc' \in [Procs -> ProcRows] /\ \A q \in Procs : StepFacts(proc'[q])
BY DEF Typed, TypeOK, Become

\* An actor is done.
LEMMA GoesIdle ==
    ASSUME Typed, NEW p \in Procs, Become(p, Idle)
    PROVE  proc' \in [Procs -> ProcRows] /\ \A q \in Procs : StepFacts(proc'[q])
BY MovesOn, IdleTyped

LEMMA PoolOfType ==
    ASSUME NEW intent \in Intents
    PROVE  PoolOf(intent) \in Pools
BY DEF PoolOf, Pools, AuthPools, BusinessPools, Intents

LEMMA AfterTyped ==
    ASSUME NEW row \in Rows, NEW status \in Statuses, NEW delivered \in BOOLEAN
    PROVE  After(row, status, delivered) \in Rows
<1> DEFINE sent == row.sent \/ status = "calling_provider"
           known == row.known \/ status = "accepted"
           body == row.body /\ status = "retry_wait"
           owner == IF status = "calling_provider" THEN row.owner ELSE NoOwner
           lease == IF status = "calling_provider" THEN row.lease
                    ELSE IF status = "retry_wait" THEN "live" ELSE "none"
<1>1. sent \in BOOLEAN /\ known \in BOOLEAN /\ body \in BOOLEAN
    OBVIOUS
<1>2. owner \in {"do", "http", NoOwner} /\ lease \in {"none", "live", "lapsed"}
    BY DEF Rows
<1> DEFINE first == [row EXCEPT !.status = status, !.sent = sent, !.known = known]
           second == [first EXCEPT !.delivered = delivered, !.body = body]
<1>3. After(row, status, delivered) = [second EXCEPT !.owner = owner, !.lease = lease]
    BY DEF After, Rows
<1> HIDE DEF sent, known, body, owner, lease
<1>4. first \in Rows
    BY <1>1 DEF Rows
<1> HIDE DEF first
<1>5. second \in Rows
    BY <1>1, <1>4 DEF Rows
<1> HIDE DEF second
<1>6. [second EXCEPT !.owner = owner, !.lease = lease] \in Rows
    BY <1>2, <1>5 DEF Rows
<1> QED BY <1>3, <1>6

\* A row with some columns written anew is a row.
LEMMA RowWritten ==
    ASSUME NEW row \in Rows
    PROVE  /\ \A period \in Days, intent \in Intents :
                  [row EXCEPT !.period = period, !.intent = intent] \in Rows
           /\ \A period \in Days, intent \in Intents, version \in Nat :
                  [row EXCEPT !.period = period, !.intent = intent, !.version = version] \in Rows
           /\ \A status \in Statuses, version \in Nat, owner \in {"do", "http", NoOwner},
                 lease \in {"none", "live", "lapsed"} :
                  [row EXCEPT !.status = status, !.version = version, !.owner = owner,
                              !.lease = lease] \in Rows
           /\ \A status \in Statuses, version \in Nat :
                  [row EXCEPT !.period = Unreserved, !.status = status, !.version = version,
                              !.owner = NoOwner, !.lease = "none"] \in Rows
           /\ \A lease \in {"none", "live", "lapsed"} : [row EXCEPT !.lease = lease] \in Rows
           /\ \A status \in Statuses : [row EXCEPT !.status = status, !.body = FALSE] \in Rows
           /\ \A status \in Statuses :
                  [row EXCEPT !.status = status, !.body = FALSE, !.ref = NoRef] \in Rows
           /\ [row EXCEPT !.ref = NoRef, !.body = FALSE] \in Rows
<1>1. \A period \in Days, intent \in Intents :
          [row EXCEPT !.period = period, !.intent = intent] \in Rows
    BY DEF Rows
<1>2. \A period \in Days, intent \in Intents, version \in Nat :
          [row EXCEPT !.period = period, !.intent = intent, !.version = version] \in Rows
    BY DEF Rows
<1>3. \A status \in Statuses, version \in Nat, owner \in {"do", "http", NoOwner},
         lease \in {"none", "live", "lapsed"} :
          [row EXCEPT !.status = status, !.version = version, !.owner = owner,
                      !.lease = lease] \in Rows
    BY DEF Rows
<1>4. \A status \in Statuses, version \in Nat :
          [row EXCEPT !.period = Unreserved, !.status = status, !.version = version,
                      !.owner = NoOwner, !.lease = "none"] \in Rows
    BY DEF Rows
<1>5. \A lease \in {"none", "live", "lapsed"} : [row EXCEPT !.lease = lease] \in Rows
    BY DEF Rows
<1>6. \A status \in Statuses : [row EXCEPT !.status = status, !.body = FALSE] \in Rows
    BY DEF Rows
<1>7. \A status \in Statuses :
          [row EXCEPT !.status = status, !.body = FALSE, !.ref = NoRef] \in Rows
    BY DEF Rows
<1>8. [row EXCEPT !.ref = NoRef, !.body = FALSE] \in Rows
    BY DEF Rows
<1> QED BY <1>1, <1>2, <1>3, <1>4, <1>5, <1>6, <1>7, <1>8

\* transitionMail writes a typed row, whatever the view says.
LEMMA TransitionTyped ==
    ASSUME Typed, NEW m \in Mails, NEW view, NEW status \in Statuses, NEW from, NEW to,
           NEW delivered \in BOOLEAN, Transition(m, view, status, from, to, delivered)
    PROVE  outbox' \in [Mails -> Rows] /\ ledger' \in Ledgers
<1>1. After(outbox[m], status, delivered) \in Rows
    BY AfterTyped DEF Typed, TypeOK
<1> QED
    BY <1>1, MoveType DEF Typed, TypeOK, Transition

LEMMA TransitionOrMissTyped ==
    ASSUME Typed, NEW m \in Mails, NEW view, NEW status \in Statuses, NEW from, NEW to,
           TransitionOrMiss(m, view, status, from, to)
    PROVE  outbox' \in [Mails -> Rows] /\ ledger' \in Ledgers
BY TransitionTyped DEF TransitionOrMiss, Missed, Typed, TypeOK

LEMMA InitTyped == Init => Typed
<1>1. 0 \in Days
    BY LimitsAssumption DEF Days
<1>2. NoChallenge \in ChallengeRows
    BY <1>1 DEF NoChallenge, ChallengeRows, Owners
<1> QED
    BY <1>1, <1>2, BlankTyped, IdleTyped
    DEF Init, Typed, TypeOK, EmptyLedger, Ledgers, Standings

(***************************************************************************)
(* Requests                                                                *)
(***************************************************************************)
LEMMA RequestTyped ==
    ASSUME Typed, NEW p \in Requests, RequestStep(p)
    PROVE  Typed'
<1>p. p \in Procs /\ proc[p] \in ProcRows /\ StepFacts(proc[p])
    BY DEF Procs, Typed, TypeOK
<1>1. CASE \E c \in Challenges, m \in Mails : CreateChallenge(p, c, m)
    <2>1. PICK c \in Challenges, m \in Mails, intent \in OpenIntents, user \in Owners, purpose \in {"signup", "login"} :
              OpenChallenge(p, c, m, intent, purpose, user)
        BY <1>1 DEF CreateChallenge, Owners
    <2>2. intent \in Intents /\ PoolOf(intent) \in AuthPools
        BY ActorsAssumption DEF Intents, PoolOf, AuthPools
    <2> DEFINE next == [Idle EXCEPT !.at = "reserve", !.mail = m, !.ref = c,
                              !.intent = intent, !.day = today]
    <2>a. today \in Days
        BY DEF Typed, TypeOK
    <2>b. next \in ProcRows
        BY <2>2, <2>a, IdleTyped DEF ProcRows, Steps
    <2>c. next.at = "reserve" /\ next.mail = m /\ next.ref = c /\ next.intent = intent
        BY IdleTyped DEF ProcRows
    <2> HIDE DEF next
    <2>3. next \in ProcRows /\ StepFacts(next)
        BY <2>2, <2>b, <2>c DEF StepFacts
    <2>4. NewRow(PoolOf(intent), intent, user, c, 0, Unreserved) \in Rows
        BY <2>2, NewRowTyped, PoolOfType
    <2>5. proc' \in [Procs -> ProcRows] /\ \A q \in Procs : StepFacts(proc'[q])
        BY <1>p, <2>1, <2>3, MovesOn DEF OpenChallenge, next
    <2> QED
        BY <2>1, <2>4, <2>5 DEF OpenChallenge, Typed, TypeOK, ChallengeRows
<1>2. CASE ReserveBudget(p)
    <2>1. proc[p].mail \in Mails /\ proc[p].day \in Days /\ proc[p].intent \in Intents
        BY <1>2, <1>p DEF ReserveBudget, At, StepFacts, ProcRows
    <2>2. Become(p, Idle) \/ Become(p, [proc[p] EXCEPT !.at = "abandon"])
        BY <1>2 DEF ReserveBudget
    <2>3. proc[p].at = "reserve" => [proc[p] EXCEPT !.at = "abandon"] \in ProcRows
              /\ StepFacts([proc[p] EXCEPT !.at = "abandon"])
        BY <1>p DEF ProcRows, Steps, StepFacts
    <2>4. proc' \in [Procs -> ProcRows] /\ \A q \in Procs : StepFacts(proc'[q])
        BY <1>2, <1>p, <2>2, <2>3, MovesOn, IdleTyped DEF ReserveBudget, At
    <2>5. ledger' \in Ledgers
        BY <1>2, MoveType DEF ReserveBudget, Reserve, Missed, Typed, TypeOK
    <2>6. outbox' \in [Mails -> Rows]
        <3>1. [outbox[proc[p].mail] EXCEPT !.period = proc[p].day, !.intent = proc[p].intent] \in Rows
            BY <2>1, RowWritten DEF Typed, TypeOK
        <3> QED BY <1>2, <2>1, <3>1 DEF ReserveBudget, Missed, Typed, TypeOK
    <2> QED BY <1>2, <2>4, <2>5, <2>6 DEF ReserveBudget, Typed, TypeOK
<1>3. CASE AbandonCreate(p)
    <2>1. proc' \in [Procs -> ProcRows] /\ \A q \in Procs : StepFacts(proc'[q])
        BY <1>3, <1>p, GoesIdle DEF AbandonCreate
    <2>2. proc[p].mail \in Mails /\ proc[p].ref \in Challenges
        BY <1>3, <1>p DEF AbandonCreate, At, StepFacts
    <2>3. outbox' \in [Mails -> Rows]
        <3>1. [outbox[proc[p].mail] EXCEPT !.status = "skipped", !.body = FALSE, !.ref = NoRef] \in Rows
            BY <2>2, RowWritten DEF Typed, TypeOK, Statuses, Dropped
        <3> QED BY <1>3, <2>2, <3>1 DEF AbandonCreate, Typed, TypeOK
    <2>4. challenge' \in [Challenges -> ChallengeRows]
        <3>1. \A c \in ChallengeRows : [c EXCEPT !.state = "aborted"] \in ChallengeRows
            BY DEF ChallengeRows
        <3> QED BY <1>3, <2>2, <3>1 DEF AbandonCreate, Typed, TypeOK
    <2> QED BY <1>3, <2>1, <2>3, <2>4 DEF AbandonCreate, Typed, TypeOK
<1>4. CASE \E c \in Challenges : ResendRead(p, c)
    <2>1. PICK c \in Challenges : ResendRead(p, c)
        BY <1>4
    <2> DEFINE next == [Idle EXCEPT !.at = "resend", !.ref = c, !.gen = challenge[c].gen, !.day = today]
    <2>2. challenge[c].gen \in Nat
        BY DEF Typed, TypeOK, ChallengeRows
    <2>3. next \in ProcRows /\ StepFacts(next)
        <3>0. today \in Days
            BY DEF Typed, TypeOK
        <3>1. next \in ProcRows
            BY <2>2, IdleTyped, <3>0 DEF ProcRows, Steps
        <3>2. next.at = "resend" /\ next.ref = c
            BY IdleTyped DEF ProcRows
        <3> HIDE DEF next
        <3> QED BY <3>1, <3>2, <3>0 DEF StepFacts
    <2>4. proc' \in [Procs -> ProcRows] /\ \A q \in Procs : StepFacts(proc'[q])
        BY <1>p, <2>1, <2>3, MovesOn DEF ResendRead
    <2> QED BY <2>1, <2>4 DEF ResendRead, Typed, TypeOK
<1>5. CASE \E m \in Mails : ResendCommit(p, m)
    <2>1. PICK m \in Mails : ResendCommit(p, m)
        BY <1>5
    <2> DEFINE c == proc[p].ref
               older == {o \in Mails : outbox[o].ref = c /\ outbox[o].status \in Unsent}
               taken == Reserve(ledger, "existing_auth", proc[p].day, NoUser)
               refund(a) == Cardinality({o \in older : outbox[o].period # Unreserved
                                                       /\ a \in Charged(outbox[o])})
               fresh == NewRow("existing_auth", "auth_resend", challenge[c].user, c,
                               proc[p].gen + 1, proc[p].day)
    <2>2. c \in Challenges /\ proc[p].gen \in Nat /\ proc[p].day \in Days
        BY <2>1, <1>p DEF ResendCommit, At, StepFacts, ProcRows
    <2>3. proc' \in [Procs -> ProcRows] /\ \A q \in Procs : StepFacts(proc'[q])
        BY <2>1, <1>p, GoesIdle DEF ResendCommit
    <2>4. \/ UNCHANGED <<outbox, ledger, challenge>>
          \/ /\ challenge' = [challenge EXCEPT ![c].gen = proc[p].gen + 1]
             /\ ledger' = [taken EXCEPT !["reserved"] = [a \in Accounts |-> taken["reserved"][a] - refund(a)]]
             /\ outbox' = [o \in Mails |->
                   IF o = m THEN fresh
                   ELSE IF o \in older THEN [outbox[o] EXCEPT !.status = "superseded", !.body = FALSE]
                   ELSE outbox[o]]
        BY <2>1 DEF ResendCommit, Missed
    <2>5. challenge' \in [Challenges -> ChallengeRows]
        <3>1. proc[p].gen + 1 \in Nat /\ challenge[c] \in ChallengeRows
            BY <2>2 DEF Typed, TypeOK
        <3>2. [challenge[c] EXCEPT !.gen = proc[p].gen + 1] \in ChallengeRows
            BY <3>1 DEF ChallengeRows
        <3> HIDE DEF c, taken, fresh, older
        <3> QED BY <2>2, <2>4, <3>2 DEF Typed, TypeOK
    <2>6. ledger' \in Ledgers
        <3>1. taken \in Ledgers
            BY MoveType DEF Reserve, Typed, TypeOK
        <3>2. \A a \in Accounts : refund(a) \in Int
            BY FS_Subset, FS_CardinalityType, ActorsAssumption
        <3> DEFINE left == [a \in Accounts |-> taken["reserved"][a] - refund(a)]
        <3> HIDE DEF taken, refund
        <3>3. left \in [Accounts -> Int]
            BY <3>1, <3>2 DEF Ledgers, Columns
        <3> HIDE DEF left, fresh, older
        <3>4. [taken EXCEPT !["reserved"] = left] \in Ledgers
            BY <3>1, <3>3 DEF Ledgers
        <3> QED BY <2>4, <3>4 DEF left, Typed, TypeOK
    <2>7. outbox' \in [Mails -> Rows]
        <3>1. challenge[c].user \in Owners
            BY <2>2 DEF Typed, TypeOK, ChallengeRows
        <3>0. /\ "existing_auth" \in Pools /\ "auth_resend" \in Intents
              /\ c \in Challenges \union {Self, NoRef}
              /\ proc[p].gen + 1 \in Nat /\ proc[p].day \in Days \union {Unreserved}
            BY <2>2 DEF Pools, AuthPools, Intents
        <3>2. fresh \in Rows
            BY <3>0, <3>1, NewRowTyped
        <3> DEFINE stale(o) == [outbox[o] EXCEPT !.status = "superseded", !.body = FALSE]
        <3>3. \A o \in Mails : stale(o) \in Rows
            BY RowWritten DEF Typed, TypeOK, Statuses, Dropped
        <3>4. outbox \in [Mails -> Rows]
            BY DEF Typed, TypeOK
        <3>5. \/ outbox' = outbox
              \/ outbox' = [o \in Mails |-> IF o = m THEN fresh
                                           ELSE IF o \in older THEN stale(o) ELSE outbox[o]]
            BY <2>4
        <3> HIDE DEF fresh, older, stale
        <3> QED BY <3>2, <3>3, <3>4, <3>5
    <2>8. UNCHANGED <<standing, closed, today, calls>>
        BY <2>1 DEF ResendCommit
    <2> HIDE DEF c, taken, refund, older, fresh
    <2> QED BY <2>3, <2>5, <2>6, <2>7, <2>8 DEF Typed, TypeOK
<1> QED BY <1>1, <1>2, <1>3, <1>4, <1>5 DEF RequestStep

(***************************************************************************)
(* Sending                                                                 *)
(***************************************************************************)
LEMMA ClaimTyped ==
    ASSUME Typed, NEW p \in Procs, NEW m \in Mails, Claim(p, m)
    PROVE  Typed'
<1> DEFINE row == [outbox[m] EXCEPT !.status = "leased", !.version = outbox[m].version + 1,
                                    !.owner = OwnerOf(p), !.lease = "live"]
           next == [Idle EXCEPT !.at = "prepare", !.mail = m, !.view = row]
<1>1. row \in Rows /\ row.status = "leased"
    <2>1. outbox[m] \in Rows /\ outbox[m].version + 1 \in Nat
        BY DEF Typed, TypeOK, Rows
    <2>2. OwnerOf(p) \in {"do", "http", NoOwner} /\ "leased" \in Statuses
        BY DEF OwnerOf, Statuses, Waiting
    <2>3. row \in Rows
        BY <2>1, <2>2, RowWritten
    <2> QED BY <2>1, <2>3 DEF Rows
<1>2. outbox' = [outbox EXCEPT ![m] = row] /\ Become(p, next)
    BY DEF Claim
<1> HIDE DEF row
<1>3. next \in ProcRows /\ StepFacts(next)
    <2>1. next \in ProcRows
        BY <1>1, IdleTyped DEF ProcRows, Steps
    <2>2. next.at = "prepare" /\ next.mail = m /\ next.view = row
        BY IdleTyped DEF ProcRows
    <2> HIDE DEF next
    <2> QED BY <2>1, <2>2, <1>1 DEF StepFacts
<1>4. proc' \in [Procs -> ProcRows] /\ \A q \in Procs : StepFacts(proc'[q])
    BY <1>2, <1>3, MovesOn
<1> QED BY <1>1, <1>2, <1>4 DEF Claim, Typed, TypeOK

\* A sender that will not call has a status to write back.
LEMMA GivesUp ==
    ASSUME Typed, NEW p \in Procs, proc[p].at \in {"prepare", "gates", "start"},
           NEW status \in {"retry_wait", "skipped", "superseded", "expired", "failed"},
           GiveUp(p, status)
    PROVE  proc' \in [Procs -> ProcRows] /\ \A q \in Procs : StepFacts(proc'[q])
<1> DEFINE next == [proc[p] EXCEPT !.at = "writeback", !.result = status]
<1>1. proc[p] \in ProcRows /\ StepFacts(proc[p])
    BY DEF Typed, TypeOK
<1>2. next \in ProcRows /\ StepFacts(next)
    <2>1. status \in Results
        BY DEF Results, Statuses, Waiting, Dropped
    <2>2. next \in ProcRows
        BY <1>1, <2>1 DEF ProcRows, Steps
    <2>3. /\ next.at = "writeback" /\ next.result = status
          /\ next.mail = proc[p].mail /\ next.view = proc[p].view
        BY <1>1 DEF ProcRows
    <2> HIDE DEF next
    <2> QED BY <1>1, <2>2, <2>3 DEF StepFacts
<1> QED BY <1>2, MovesOn DEF GiveUp

LEMMA SnapshotTyped ==
    ASSUME Typed, NEW m \in Mails, NEW ref
    PROVE  Snapshot(m, ref) \in Snapshots
BY DEF Snapshot, Snapshots, Typed, TypeOK, ChallengeRows, Standings

LEMMA SendTyped ==
    ASSUME Typed, NEW p \in Procs, SendStep(p)
    PROVE  Typed'
<1>p. proc[p] \in ProcRows /\ StepFacts(proc[p])
    BY DEF Typed, TypeOK
<1>1. CASE Prepare(p)
    <2>1. proc[p].mail \in Mails /\ proc[p].at = "prepare"
        BY <1>1, <1>p DEF Prepare, At, StepFacts
    <2> DEFINE verdict == Verdict(proc[p].mail, proc[p].view)
               next == [proc[p] EXCEPT !.at = "gates",
                            !.snap = Snapshot(proc[p].mail, proc[p].view.ref)]
    <2>2. next \in ProcRows /\ StepFacts(next)
        <3>1. next \in ProcRows
            BY <1>p, <2>1, SnapshotTyped DEF ProcRows, Steps
        <3>2. next.at = "gates" /\ next.mail = proc[p].mail /\ next.view = proc[p].view
            BY <1>p DEF ProcRows
        <3> HIDE DEF next
        <3> QED BY <3>1, <3>2, <1>p, <2>1 DEF StepFacts
    <2>3. verdict \in {"fit", "skipped", "superseded", "expired", "failed"}
        BY <2>1 DEF Verdict, Typed, TypeOK, Standings
    <2>4. proc' \in [Procs -> ProcRows] /\ \A q \in Procs : StepFacts(proc'[q])
        BY <1>1, <2>1, <2>2, <2>3, MovesOn, GivesUp DEF Prepare
    <2> QED BY <1>1, <2>4 DEF Prepare, NoWrite, Typed, TypeOK
<1>2. CASE PrepareThrows(p)
    <2>1. proc' \in [Procs -> ProcRows] /\ \A q \in Procs : StepFacts(proc'[q])
        BY <1>2, GivesUp DEF PrepareThrows, At
    <2> QED BY <1>2, <2>1 DEF PrepareThrows, NoWrite, Typed, TypeOK
<1>3. CASE CheckGates(p)
    <2>1. [proc[p] EXCEPT !.at = "start"] \in ProcRows
          /\ (proc[p].at = "gates" => StepFacts([proc[p] EXCEPT !.at = "start"]))
        BY <1>p DEF ProcRows, Steps, StepFacts
    <2>2. proc' \in [Procs -> ProcRows] /\ \A q \in Procs : StepFacts(proc'[q])
        BY <1>3, <2>1, GivesUp, MovesOn DEF CheckGates, At
    <2> QED BY <1>3, <2>2 DEF CheckGates, NoWrite, Typed, TypeOK
<1>4. CASE FinishUncalled(p)
    <2>1. proc' \in [Procs -> ProcRows] /\ \A q \in Procs : StepFacts(proc'[q])
        BY <1>4, GoesIdle DEF FinishUncalled
    <2>2. proc[p].mail \in Mails /\ proc[p].result \in Statuses
        BY <1>4, <1>p DEF FinishUncalled, At, StepFacts, Statuses, Waiting, Dropped
    <2>3. outbox' \in [Mails -> Rows] /\ ledger' \in Ledgers
        BY <1>4, <2>2, TransitionOrMissTyped DEF FinishUncalled
    <2> QED BY <1>4, <2>1, <2>3 DEF FinishUncalled, Typed, TypeOK
<1>5. CASE StartCall(p)
    <2>1. proc[p].mail \in Mails /\ proc[p].at = "start"
        BY <1>5, <1>p DEF StartCall, At, StepFacts
    <2>2. [proc[p] EXCEPT !.at = "call"] \in ProcRows /\ StepFacts([proc[p] EXCEPT !.at = "call"])
        BY <1>p, <2>1 DEF ProcRows, Steps, StepFacts
    <2>3. proc' \in [Procs -> ProcRows] /\ \A q \in Procs : StepFacts(proc'[q])
        BY <1>5, <2>1, <2>2, GivesUp, MovesOn DEF StartCall
    <2>4. outbox' \in [Mails -> Rows] /\ ledger' \in Ledgers
        <3>1. "calling_provider" \in Statuses
            BY DEF Statuses
        <3> QED BY <1>5, <2>1, <3>1, TransitionTyped DEF StartCall, Missed, Typed, TypeOK
    <2> QED BY <1>5, <2>3, <2>4 DEF StartCall, Typed, TypeOK
<1>6. CASE CallProvider(p)
    <2>1. PICK result \in {"accepted", "rejected", "retry_wait", "unknown"} :
              Become(p, [proc[p] EXCEPT !.at = "record", !.result = result,
                                        !.view.status = "calling_provider"])
        BY <1>6 DEF CallProvider
    <2> DEFINE view == [proc[p].view EXCEPT !.status = "calling_provider"]
               next == [proc[p] EXCEPT !.at = "record", !.result = result, !.view = view]
    <2>2. view \in Rows /\ view.status = "calling_provider"
        BY <1>p DEF ProcRows, Rows, Statuses
    <2>3. Become(p, next) /\ proc[p].at = "call"
        BY <1>6, <1>p, <2>1 DEF CallProvider, At, ProcRows
    <2> HIDE DEF view
    <2>4. next \in ProcRows /\ StepFacts(next)
        <3>0. result \in Results
            BY DEF Results, Statuses, Answered, Waiting
        <3>1. next \in ProcRows
            BY <1>p, <2>2, <3>0 DEF ProcRows, Steps
        <3>2. next.at = "record" /\ next.mail = proc[p].mail /\ next.view = view /\ next.result = result
            BY <1>p DEF ProcRows
        <3> HIDE DEF next
        <3> QED BY <3>1, <3>2, <1>p, <2>2, <2>3, <3>0 DEF StepFacts
    <2>5. proc' \in [Procs -> ProcRows] /\ \A q \in Procs : StepFacts(proc'[q])
        BY <2>3, <2>4, MovesOn
    <2>6. calls' \in [Mails -> Nat]
        BY <1>6, <1>p, <2>3 DEF CallProvider, StepFacts, Typed, TypeOK
    <2> QED BY <1>6, <2>5, <2>6 DEF CallProvider, Typed, TypeOK
<1>7. CASE Record(p)
    <2>1. proc[p].mail \in Mails /\ proc[p].at = "record" /\ proc[p].result \in Statuses
        BY <1>7, <1>p DEF Record, At, StepFacts, Statuses, Answered, Waiting
    <2>2. [proc[p] EXCEPT !.at = "pause"] \in ProcRows /\ StepFacts([proc[p] EXCEPT !.at = "pause"])
        BY <1>p, <2>1 DEF ProcRows, Steps, StepFacts
    <2>3. proc' \in [Procs -> ProcRows] /\ \A q \in Procs : StepFacts(proc'[q])
        BY <1>7, <2>2, GoesIdle, MovesOn DEF Record
    <2>4. outbox' \in [Mails -> Rows] /\ ledger' \in Ledgers
        BY <1>7, <2>1, TransitionOrMissTyped DEF Record
    <2> QED BY <1>7, <2>3, <2>4 DEF Record, Typed, TypeOK
<1>8. CASE RecordThrows(p)
    <2>1. proc[p].mail \in Mails /\ "unknown" \in Statuses
        BY <1>8, <1>p DEF RecordThrows, At, StepFacts, Statuses
    <2>2. proc' \in [Procs -> ProcRows] /\ \A q \in Procs : StepFacts(proc'[q])
        BY <1>8, GoesIdle DEF RecordThrows
    <2>3. outbox' \in [Mails -> Rows] /\ ledger' \in Ledgers
        BY <1>8, <2>1, TransitionOrMissTyped DEF RecordThrows
    <2> QED BY <1>8, <2>2, <2>3 DEF RecordThrows, Typed, TypeOK
<1>9. CASE PauseMail(p)
    <2>1. proc' \in [Procs -> ProcRows] /\ \A q \in Procs : StepFacts(proc'[q])
        BY <1>9, GoesIdle DEF PauseMail
    <2> QED BY <1>9, <2>1 DEF PauseMail, Typed, TypeOK, Gates
<1> QED BY <1>1, <1>2, <1>3, <1>4, <1>5, <1>6, <1>7, <1>8, <1>9 DEF SendStep

(***************************************************************************)
(* The executor's own steps                                                *)
(***************************************************************************)
LEMMA RepairTyped ==
    ASSUME Typed, Repair
    PROVE  Typed'
<1> DEFINE view == proc[Executor].view
           m == proc[Executor].mail
<1>p. Executor \in Procs /\ m \in Mails
    BY DEF Procs, Repair, At, Typed, TypeOK, StepFacts
<1>1. proc' \in [Procs -> ProcRows] /\ \A q \in Procs : StepFacts(proc'[q])
    BY <1>p, GoesIdle DEF Repair
<1>2. CASE view.status = "calling_provider"
    <2>1. outbox' \in [Mails -> Rows] /\ ledger' \in Ledgers
        BY <1>2, <1>p, TransitionOrMissTyped DEF Repair, Statuses
    <2> QED BY <1>1, <2>1 DEF Repair, Typed, TypeOK
<1>3. CASE view.status # "calling_provider"
    <2>1. \/ outbox' = [outbox EXCEPT ![m].status = "pending", ![m].owner = NoOwner,
                            ![m].version = outbox[m].version + 1, ![m].lease = "none"]
          \/ outbox' = [outbox EXCEPT ![m].lease = "none"]
          \/ outbox' = outbox
        BY <1>3 DEF Repair
    <2>2. outbox[m] \in Rows /\ outbox[m].version + 1 \in Nat /\ "pending" \in Statuses
        BY <1>p DEF Typed, TypeOK, Rows, Statuses, Waiting
    <2>3. /\ [outbox[m] EXCEPT !.lease = "none"] \in Rows
          /\ [outbox[m] EXCEPT !.status = "pending", !.owner = NoOwner,
                   !.version = outbox[m].version + 1, !.lease = "none"] \in Rows
        BY <2>2 DEF Rows
    <2> HIDE DEF m
    <2>4. outbox' \in [Mails -> Rows]
        BY <2>1, <2>3, <1>p DEF Typed, TypeOK
    <2>5. ledger' = ledger
        BY <1>3 DEF Repair
    <2> QED BY <1>1, <2>4, <2>5 DEF Repair, Typed, TypeOK
<1> QED BY <1>2, <1>3

LEMMA IntentForPool ==
    ASSUME NEW row \in Rows, row.pool = PoolOf(row.intent)
    PROVE  IntentFor(row) \in Intents /\ PoolOf(IntentFor(row)) = row.pool
<1>1. row.pool \in Pools /\ row.intent \in Intents
    BY DEF Rows
<1>2. CASE row.pool = "new_registration"
    BY <1>2 DEF IntentFor, PoolOf, Intents
<1>3. CASE row.pool \in BusinessPools
    <2>1. IntentFor(row) = row.intent
        BY <1>3 DEF IntentFor, BusinessPools
    <2> QED BY <1>1, <2>1
<1>4. CASE row.pool = "existing_auth"
    <2>1. IntentFor(row) \in {"existing_auth_first_login", "auth_resend", "account_change_auth"}
        BY <1>4 DEF IntentFor, BusinessPools
    <2> QED BY <1>4, <2>1 DEF PoolOf, Intents
<1> QED BY <1>1, <1>2, <1>3, <1>4 DEF Pools, AuthPools, BusinessPools

LEMMA ExecutorTyped ==
    ASSUME Typed, \A m \in Mails : outbox[m].pool = PoolOf(outbox[m].intent), ExecutorStep
    PROVE  Typed'
<1> DEFINE s == proc[Executor]
           m == s.mail
<1>p. Executor \in Procs /\ s \in ProcRows /\ StepFacts(s)
    BY DEF Procs, Typed, TypeOK
<1>1. CASE Repair
    BY <1>1, RepairTyped
<1>2. CASE FinishRejected
    <2>1. proc' \in [Procs -> ProcRows] /\ \A q \in Procs : StepFacts(proc'[q])
        BY <1>2, <1>p, GoesIdle DEF FinishRejected
    <2>2. outbox' \in [Mails -> Rows] /\ ledger' \in Ledgers
        BY <1>2, <1>p, TransitionOrMissTyped DEF FinishRejected, At, StepFacts, Statuses, Dropped
    <2> QED BY <1>2, <2>1, <2>2 DEF FinishRejected, Typed, TypeOK
<1>3. CASE ReleaseOld
    <2>1. m \in Mails /\ s.at = "release"
        BY <1>3, <1>p DEF ReleaseOld, At, StepFacts
    <2>2. [s EXCEPT !.at = "refetch"] \in ProcRows /\ StepFacts([s EXCEPT !.at = "refetch"])
        BY <1>p, <2>1 DEF ProcRows, Steps, StepFacts
    <2>3. proc' \in [Procs -> ProcRows] /\ \A q \in Procs : StepFacts(proc'[q])
        BY <1>3, <1>p, <2>2, GoesIdle, MovesOn DEF ReleaseOld
    <2>4. outbox[m] \in Rows /\ outbox[m].version + 1 \in Nat /\ "pending" \in Statuses
        BY <2>1 DEF Typed, TypeOK, Rows, Statuses, Waiting
    <2>5. [outbox[m] EXCEPT !.period = Unreserved, !.status = "pending",
               !.version = outbox[m].version + 1, !.owner = NoOwner, !.lease = "none"] \in Rows
        BY <2>4 DEF Rows
    <2> DEFINE freed == [outbox[m] EXCEPT !.period = Unreserved, !.status = "pending",
               !.version = outbox[m].version + 1, !.owner = NoOwner, !.lease = "none"]
               back == Move(ledger, Charged(s.view), "reserved", "none")
    <2>6. \/ outbox' = [outbox EXCEPT ![m] = freed] /\ ledger' = back
          \/ outbox' = outbox /\ ledger' = ledger
        BY <1>3 DEF ReleaseOld, Missed
    <2>7. freed \in Rows /\ back \in Ledgers
        BY <2>5, MoveType DEF Typed, TypeOK
    <2> HIDE DEF freed, back
    <2>8. outbox' \in [Mails -> Rows] /\ ledger' \in Ledgers
        BY <2>1, <2>6, <2>7 DEF Typed, TypeOK
    <2> QED BY <1>3, <2>3, <2>8 DEF ReleaseOld, Typed, TypeOK
<1>4. CASE Refetch
    <2> DEFINE row == outbox[m]
    <2>1. m \in Mails /\ s.at = "refetch"
        BY <1>4, <1>p DEF Refetch, At, StepFacts
    <2>2. row \in Rows /\ IntentFor(row) \in Intents /\ PoolOf(IntentFor(row)) = row.pool
        BY <2>1, IntentForPool DEF Typed, TypeOK
    <2>3. [s EXCEPT !.at = "withdraw", !.view = row] \in ProcRows
          /\ [s EXCEPT !.at = "rereserve", !.view = row, !.intent = IntentFor(row)] \in ProcRows
        BY <1>p, <2>1, <2>2 DEF ProcRows, Steps
    <2>4. row.status = "pending" /\ row.period = Unreserved =>
              /\ StepFacts([s EXCEPT !.at = "withdraw", !.view = row])
              /\ StepFacts([s EXCEPT !.at = "rereserve", !.view = row, !.intent = IntentFor(row)])
        BY <1>p, <2>1, <2>2 DEF StepFacts, ProcRows
    <2>5. proc' \in [Procs -> ProcRows] /\ \A q \in Procs : StepFacts(proc'[q])
        BY <1>4, <1>p, <2>3, <2>4, GoesIdle, MovesOn DEF Refetch
    <2> QED BY <1>4, <2>5 DEF Refetch, NoWrite, Typed, TypeOK
<1>5. CASE Withdraw
    <2>1. proc' \in [Procs -> ProcRows] /\ \A q \in Procs : StepFacts(proc'[q])
        BY <1>5, <1>p, GoesIdle DEF Withdraw
    <2>2. outbox' \in [Mails -> Rows] /\ ledger' \in Ledgers
        BY <1>5, <1>p, TransitionOrMissTyped DEF Withdraw, At, StepFacts, Statuses, Dropped
    <2> QED BY <1>5, <2>1, <2>2 DEF Withdraw, Typed, TypeOK
<1>6. CASE Rereserve
    <2>1. m \in Mails /\ s.day \in Days /\ s.intent \in Intents
        BY <1>6, <1>p DEF Rereserve, At, StepFacts, ProcRows
    <2>2. proc' \in [Procs -> ProcRows] /\ \A q \in Procs : StepFacts(proc'[q])
        BY <1>6, <1>p, GoesIdle DEF Rereserve
    <2>3. outbox[m] \in Rows /\ outbox[m].version + 1 \in Nat
        BY <2>1 DEF Typed, TypeOK, Rows
    <2>4. [outbox[m] EXCEPT !.period = s.day, !.intent = s.intent,
                            !.version = outbox[m].version + 1] \in Rows
        BY <2>1, <2>3, RowWritten
    <2>5. outbox' \in [Mails -> Rows]
        BY <1>6, <2>1, <2>4 DEF Rereserve, Missed, Typed, TypeOK
    <2>6. ledger' \in Ledgers
        BY <1>6, MoveType DEF Rereserve, Reserve, Missed, Typed, TypeOK
    <2> QED BY <1>6, <2>2, <2>5, <2>6 DEF Rereserve, Typed, TypeOK
<1>7. CASE \E o \in Mails : ApproveDispatch(o)
    <2>1. PICK o \in Mails : ApproveDispatch(o)
        BY <1>7
    <2>2. proc' \in [Procs -> ProcRows] /\ \A q \in Procs : StepFacts(proc'[q])
        BY <2>1, <1>p, GoesIdle DEF ApproveDispatch
    <2>3. s.intent \in Intents /\ s.user \in Owners /\ s.day \in Days
        BY <1>p DEF ProcRows
    <2>4. NewRow(PoolOf(s.intent), s.intent, s.user, Self, 0, s.day) \in Rows
        BY <2>3, NewRowTyped, PoolOfType
    <2>5. outbox' \in [Mails -> Rows] /\ ledger' \in Ledgers
        BY <2>1, <2>4, MoveType DEF ApproveDispatch, Reserve, Missed, Typed, TypeOK
    <2> QED BY <2>1, <2>2, <2>5 DEF ApproveDispatch, Typed, TypeOK
<1> QED BY <1>1, <1>2, <1>3, <1>4, <1>5, <1>6, <1>7 DEF ExecutorStep

LEMMA PickTyped ==
    ASSUME Typed, ExecutorPick
    PROVE  Typed'
<1>p. Executor \in Procs
    BY DEF Procs
<1>1. CASE \E m \in Mails : RepairRead(m)
    <2>1. PICK m \in Mails : RepairRead(m)
        BY <1>1
    <2> DEFINE next == [Idle EXCEPT !.at = "repair", !.mail = m, !.view = outbox[m]]
    <2>3. outbox[m].status \in {"leased", "calling_provider", "retry_wait"}
        BY <2>1 DEF RepairRead
    <2>2. next \in ProcRows /\ StepFacts(next)
        <3>0. outbox[m] \in Rows
            BY DEF Typed, TypeOK
        <3>1. next \in ProcRows
            BY IdleTyped, <3>0 DEF ProcRows, Steps
        <3>2. next.at = "repair" /\ next.mail = m /\ next.view = outbox[m]
            BY IdleTyped DEF ProcRows
        <3> HIDE DEF next
        <3> QED BY <3>1, <3>2, <2>3, <3>0 DEF StepFacts
    <2> QED BY <1>p, <2>1, <2>2, MovesOn DEF RepairRead, NoWrite, Typed, TypeOK
<1>2. CASE \E m \in Mails : FinishRead(m)
    <2>1. PICK m \in Mails : FinishRead(m)
        BY <1>2
    <2> DEFINE next == [Idle EXCEPT !.at = "finish", !.mail = m, !.view = outbox[m]]
    <2>3. outbox[m].status = "retry_wait" /\ outbox[m].sent
        BY <2>1 DEF FinishRead
    <2>2. next \in ProcRows /\ StepFacts(next)
        <3>0. outbox[m] \in Rows
            BY DEF Typed, TypeOK
        <3>1. next \in ProcRows
            BY IdleTyped, <3>0 DEF ProcRows, Steps
        <3>2. next.at = "finish" /\ next.mail = m /\ next.view = outbox[m]
            BY IdleTyped DEF ProcRows
        <3> HIDE DEF next
        <3> QED BY <3>1, <3>2, <2>3, <3>0 DEF StepFacts
    <2> QED BY <1>p, <2>1, <2>2, MovesOn DEF FinishRead, NoWrite, Typed, TypeOK
<1>3. CASE \E m \in Mails : RolloverRead(m)
    <2>1. PICK m \in Mails : RolloverRead(m)
        BY <1>3
    <2> DEFINE next == [Idle EXCEPT !.mail = m, !.view = outbox[m], !.day = today,
                  !.at = IF outbox[m].period = Unreserved THEN "refetch" ELSE "release"]
    <2>3. outbox[m].status \in Waiting /\ ~ outbox[m].sent
        BY <2>1 DEF RolloverRead
    <2>2. next \in ProcRows /\ StepFacts(next)
        <3>0. outbox[m] \in Rows /\ today \in Days
            BY DEF Typed, TypeOK
        <3>1. next \in ProcRows
            BY IdleTyped, <3>0 DEF ProcRows, Steps
        <3>2. next.at \in {"refetch", "release"} /\ next.mail = m /\ next.view = outbox[m]
            BY IdleTyped DEF ProcRows
        <3> HIDE DEF next
        <3> QED BY <3>1, <3>2, <2>3, <3>0 DEF StepFacts
    <2> QED BY <1>p, <2>1, <2>2, MovesOn DEF RolloverRead, NoWrite, Typed, TypeOK
<1>4. CASE \E u \in Users : ProposeDispatch(u)
    <2>1. PICK u \in Users, intent \in DispatchIntents :
              /\ Become(Executor, [Idle EXCEPT !.at = "approve", !.intent = intent,
                                               !.user = u, !.day = today])
              /\ NoWrite
        BY <1>4 DEF ProposeDispatch
    <2> DEFINE next == [Idle EXCEPT !.at = "approve", !.intent = intent, !.user = u, !.day = today]
    <2>2. next \in ProcRows /\ StepFacts(next)
        <3>0. /\ today \in Days /\ u \in Owners
              /\ intent \in Intents /\ PoolOf(intent) \in BusinessPools
            BY ActorsAssumption DEF Typed, TypeOK, Owners
        <3>1. next \in ProcRows
            BY IdleTyped, <3>0 DEF ProcRows, Steps
        <3>2. next.at = "approve" /\ next.intent = intent /\ next.user = u
            BY IdleTyped DEF ProcRows
        <3> HIDE DEF next
        <3> QED BY <3>1, <3>2, <3>0 DEF StepFacts
    <2> QED BY <1>p, <2>1, <2>2, MovesOn DEF NoWrite, Typed, TypeOK
<1> QED BY <1>1, <1>2, <1>3, <1>4 DEF ExecutorPick

(***************************************************************************)
(* The sweep, the consumers and the environment                            *)
(***************************************************************************)
LEMMA SweepTyped ==
    ASSUME Typed, NEW p \in Sweepers, SweepList(p) \/ SweepStep(p)
    PROVE  Typed'
<1>p. p \in Procs /\ proc[p] \in ProcRows /\ StepFacts(proc[p])
    BY DEF Procs, Typed, TypeOK
<1>1. CASE SweepList(p)
    <2> DEFINE todo == {m \in Mails : /\ outbox[m].ref \in Challenges /\ outbox[m].body
                                      /\ challenge[outbox[m].ref].late
                                      /\ challenge[outbox[m].ref].state = "open"}
               over == {c \in Challenges : challenge[c].late /\ challenge[c].born < today}
               next == [Idle EXCEPT !.at = "sweep", !.over = over, !.todo = todo]
    <2>1. todo \in SUBSET Mails /\ over \in SUBSET Challenges
        OBVIOUS
    <2>2. Become(p, next) /\ NoWrite
        BY <1>1 DEF SweepList
    <2> HIDE DEF todo, over
    <2>3. next \in ProcRows /\ StepFacts(next)
        <3>1. next \in ProcRows
            BY <2>1, IdleTyped DEF ProcRows, Steps
        <3>2. next.at = "sweep"
            BY IdleTyped DEF ProcRows
        <3> HIDE DEF next
        <3> QED BY <3>1, <3>2 DEF StepFacts
    <2> QED BY <1>p, <2>2, <2>3, MovesOn DEF NoWrite, Typed, TypeOK
<1>2. CASE \E m \in Mails : ExpireRead(p, m)
    <2>1. PICK m \in Mails : ExpireRead(p, m)
        BY <1>2
    <2> DEFINE s == proc[p]
               next == [s EXCEPT !.at = "expire", !.mail = m, !.view = outbox[m], !.todo = s.todo \ {m}]
               skip == [s EXCEPT !.todo = s.todo \ {m}]
    <2>2. Become(p, next) \/ Become(p, skip)
        BY <2>1 DEF ExpireRead
    <2>3. s.todo \ {m} \in SUBSET Mails /\ outbox[m] \in Rows /\ s.at = "sweep"
        BY <1>p, <2>1 DEF ExpireRead, At, ProcRows, Typed, TypeOK
    <2>4. next \in ProcRows /\ StepFacts(next)
        <3>1. next \in ProcRows
            BY <1>p, <2>3 DEF ProcRows, Steps
        <3>2. next.at = "expire" /\ next.mail = m
            BY <1>p DEF ProcRows
        <3> HIDE DEF next
        <3> QED BY <3>1, <3>2 DEF StepFacts
    <2>5. skip \in ProcRows /\ StepFacts(skip)
        <3>1. skip \in ProcRows
            BY <1>p, <2>3 DEF ProcRows, Steps
        <3>2. skip.at = "sweep"
            BY <1>p, <2>3 DEF ProcRows
        <3> HIDE DEF skip
        <3> QED BY <3>1, <3>2 DEF StepFacts
    <2>6. proc' \in [Procs -> ProcRows] /\ \A q \in Procs : StepFacts(proc'[q])
        BY <1>p, <2>2, <2>4, <2>5, MovesOn
    <2> QED BY <2>1, <2>6 DEF ExpireRead, NoWrite, Typed, TypeOK
<1>3. CASE Expire(p)
    <2> DEFINE next == [Idle EXCEPT !.at = "sweep", !.over = proc[p].over, !.todo = proc[p].todo]
    <2>0. proc[p].over \in SUBSET Challenges /\ proc[p].todo \in SUBSET Mails
        BY <1>p DEF ProcRows
    <2>1. next \in ProcRows /\ StepFacts(next)
        <3>1. next \in ProcRows
            BY <2>0, IdleTyped DEF ProcRows, Steps
        <3>2. next.at = "sweep"
            BY IdleTyped DEF ProcRows
        <3> HIDE DEF next
        <3> QED BY <3>1, <3>2 DEF StepFacts
    <2>2. proc' \in [Procs -> ProcRows] /\ \A q \in Procs : StepFacts(proc'[q])
        BY <1>3, <1>p, <2>1, MovesOn DEF Expire
    <2>3. proc[p].mail \in Mails /\ "expired" \in Statuses
        BY <1>3, <1>p DEF Expire, At, StepFacts, Statuses, Dropped
    <2>4. outbox' \in [Mails -> Rows] /\ ledger' \in Ledgers
        BY <1>3, <2>3, TransitionOrMissTyped DEF Expire, Missed, Typed, TypeOK
    <2> QED BY <1>3, <2>2, <2>4 DEF Expire, Typed, TypeOK
<1>4. CASE ForgetChallenges(p)
    <2>1. proc' \in [Procs -> ProcRows] /\ \A q \in Procs : StepFacts(proc'[q])
        BY <1>4, <1>p, GoesIdle DEF ForgetChallenges
    <2>2. \A r \in ChallengeRows : [r EXCEPT !.state = "deleted"] \in ChallengeRows
        BY DEF ChallengeRows
    <2>3. challenge' \in [Challenges -> ChallengeRows]
        BY <1>4, <2>2 DEF ForgetChallenges, Typed, TypeOK
    <2> QED BY <1>4, <2>1, <2>3 DEF ForgetChallenges, Typed, TypeOK
<1> QED BY <1>1, <1>2, <1>3, <1>4 DEF SweepStep

LEMMA ConsumerTyped ==
    ASSUME Typed, NEW p \in Consumers, ConsumerStep(p)
    PROVE  Typed'
<1>p. p \in Procs /\ proc[p] \in ProcRows /\ StepFacts(proc[p])
    BY DEF Procs, Typed, TypeOK
<1>1. CASE \E m \in Mails : ReceiptRead(p, m)
    <2>1. PICK m \in Mails, kind \in Receipts :
              /\ ReceiptRead(p, m)
              /\ Become(p, [Idle EXCEPT !.at = "receipt", !.mail = m, !.view = outbox[m],
                                        !.result = kind])
        BY <1>1 DEF ReceiptRead
    <2> DEFINE next == [Idle EXCEPT !.at = "receipt", !.mail = m, !.view = outbox[m], !.result = kind]
    <2>3. outbox[m].status \in {"accepted", "deferred", "unknown"}
        BY <2>1 DEF ReceiptRead
    <2>2. next \in ProcRows /\ StepFacts(next)
        <3>0. outbox[m] \in Rows
            BY DEF Typed, TypeOK
        <3>1. next \in ProcRows
            BY IdleTyped, <3>0 DEF ProcRows, Steps, Results
        <3>2. next.at = "receipt" /\ next.mail = m /\ next.view = outbox[m] /\ next.result = kind
            BY IdleTyped DEF ProcRows
        <3> HIDE DEF next
        <3> QED BY <3>1, <3>2, <2>3, <3>0 DEF StepFacts
    <2> QED BY <1>p, <2>1, <2>2, MovesOn DEF ReceiptRead, NoWrite, Typed, TypeOK
<1>2. CASE Receipt(p)
    <2>1. proc' \in [Procs -> ProcRows] /\ \A q \in Procs : StepFacts(proc'[q])
        BY <1>2, <1>p, GoesIdle DEF Receipt
    <2> DEFINE delivered == proc[p].result = "delivered"
               status == IF delivered THEN "accepted" ELSE proc[p].result
    <2>2. proc[p].mail \in Mails /\ delivered \in BOOLEAN /\ status \in Statuses
        BY <1>2, <1>p DEF Receipt, At, StepFacts, Receipts, Statuses, Answered, Dropped
    <2>3. outbox' \in [Mails -> Rows] /\ ledger' \in Ledgers
        BY <1>2, <2>2, TransitionTyped DEF Receipt, Missed, Typed, TypeOK
    <2> QED BY <1>2, <2>1, <2>3 DEF Receipt, Typed, TypeOK
<1> QED BY <1>1, <1>2 DEF ConsumerStep

LEMMA EnvironmentTyped ==
    ASSUME Typed, Environment
    PROVE  Typed'
<1>1. CASE NextDay
    BY <1>1, LimitsAssumption DEF NextDay, Typed, TypeOK, Days
<1>2. CASE \E m \in Mails : LeaseLapses(m)
    <2>1. PICK m \in Mails : LeaseLapses(m)
        BY <1>2
    <2>2. [outbox[m] EXCEPT !.lease = "lapsed"] \in Rows
        BY RowWritten DEF Typed, TypeOK
    <2>3. outbox' \in [Mails -> Rows]
        BY <2>1, <2>2 DEF LeaseLapses, Typed, TypeOK
    <2> QED BY <2>1, <2>3 DEF LeaseLapses, Typed, TypeOK
<1>3. CASE \E m \in Mails : StandingMoves(m)
    BY <1>3 DEF StandingMoves, Typed, TypeOK, Standings
<1>4. CASE \E m \in Mails : EraseMail(m)
    <2>1. PICK m \in Mails : EraseMail(m)
        BY <1>4
    <2>2. [outbox[m] EXCEPT !.ref = NoRef, !.body = FALSE] \in Rows
        BY RowWritten DEF Typed, TypeOK
    <2>3. outbox' \in [Mails -> Rows]
        BY <2>1, <2>2 DEF EraseMail, Typed, TypeOK
    <2> QED BY <2>1, <2>3 DEF EraseMail, Typed, TypeOK
<1>5. CASE \E c \in Challenges : DeadlinePasses(c) \/ Consume(c)
    <2>1. PICK c \in Challenges : DeadlinePasses(c) \/ Consume(c)
        BY <1>5
    <2>2. /\ [challenge[c] EXCEPT !.late = TRUE] \in ChallengeRows
          /\ [challenge[c] EXCEPT !.state = "consumed"] \in ChallengeRows
        BY DEF Typed, TypeOK, ChallengeRows
    <2>3. challenge' \in [Challenges -> ChallengeRows]
        BY <2>1, <2>2 DEF DeadlinePasses, Consume, Typed, TypeOK
    <2> QED BY <2>1, <2>3 DEF DeadlinePasses, Consume, Typed, TypeOK
<1>6. CASE \E g \in MovableGates : Toggle(g)
    BY <1>6, ActorsAssumption DEF Toggle, Typed, TypeOK
<1>7. CASE \E p \in MayCrash : Crash(p)
    BY <1>7, ActorsAssumption, GoesIdle DEF Crash, NoWrite, Typed, TypeOK
<1> QED BY <1>1, <1>2, <1>3, <1>4, <1>5, <1>6, <1>7 DEF Environment

(***************************************************************************)
(* What any step may do to a row, to the creating request's mail, and to   *)
(* the record of the actors that take it.                                  *)
(***************************************************************************)
RowEvolves(m) ==
    LET old == outbox[m]
        new == outbox'[m]
    IN  old.status # "absent" =>
            /\ new.status # "absent"
            /\ new.pool = old.pool /\ new.user = old.user
            /\ old.version <= new.version
            /\ old.sent => new.sent /\ new.period = old.period
            /\ old.sent /\ old.status \notin {"calling_provider", "unknown"} =>
                   new.status \notin {"calling_provider", "unknown"}
            /\ old.status \in Terminal => new.status = old.status
            /\ new.version = old.version =>
                   /\ old.period # Unreserved \/ ~ Creating(m) => new.period = old.period
                   /\ old.status \notin Unsent /\ ~ old.sent => new.status \notin Unsent /\ ~ new.sent

ReadsWell(p) ==
    /\ proc'[p].at \in Fenced => ViewHolds(p)'
    /\ proc'[p].at \in {"withdraw", "expire"} =>
           /\ Created(proc'[p].mail)
           /\ proc'[p].view.version = outbox'[proc'[p].mail].version
                  => proc'[p].view.period = outbox'[proc'[p].mail].period
    /\ \A m \in proc'[p].todo : Created(m)

Creator(p) == p \in Requests /\ proc[p].at \in {"reserve", "abandon"}

CreatesWell(p) ==
    LET next == proc'[p] IN
    Creator(p)' =>
        \/ /\ Creator(p)
           /\ next.mail = proc[p].mail /\ next.ref = proc[p].ref /\ next.intent = proc[p].intent
        \/ /\ outbox[next.mail].status = "absent" /\ outbox'[next.mail].status # "absent"
           /\ outbox'[next.mail].pool = PoolOf(next.intent)
           /\ outbox'[next.mail].ref = next.ref
           /\ ~ challenge'[next.ref].late /\ challenge'[next.ref].state # "none"

CallsWell(p) ==
    proc'[p].at = "call" =>
        /\ ~ outbox[proc'[p].mail].sent /\ outbox'[proc'[p].mail].sent
        /\ calls'[proc'[p].mail] = calls[proc'[p].mail]

RefStays(P, m) ==
    outbox[m].status # "absent" /\ Creating(m) =>
        \/ outbox'[m].ref = outbox[m].ref
        \/ \E p \in P : Creator(p) /\ proc[p].mail = m /\ ~ Creator(p)'

ChallengeStays(c) ==
    challenge[c].state # "none" =>
        /\ challenge'[c].state # "none"
        /\ challenge'[c].late = challenge[c].late \/ \A p \in Requests : Creator(p) => proc[p].ref # c

CallsStay(P, m) ==
    \/ calls'[m] = calls[m]
    \/ \E p \in P : /\ proc[p].at = "call" /\ proc[p].mail = m
                    /\ calls'[m] = calls[m] + 1 /\ proc'[p].at # "call"

\* A step of the actors P (one of them, or none).
Evolution(P) ==
    /\ \A q \in Procs \ P : proc'[q] = proc[q]
    /\ \A m \in Mails : RowConsistent(m)' /\ RowEvolves(m)
    /\ \A p \in P : ReadsWell(p) /\ CreatesWell(p) /\ CallsWell(p)
    /\ \A m \in Mails : RefStays(P, m) /\ CallsStay(P, m)
    /\ \A c \in Challenges : ChallengeStays(c)

(***************************************************************************)
(* Such a step keeps the fences.                                           *)
(***************************************************************************)
\* A view that holds still holds when its row has evolved.
LEMMA ViewKept ==
    ASSUME Typed, Typed', NEW p \in Procs, proc[p].mail \in Mails, ViewHolds(p),
           RowEvolves(proc[p].mail),
           proc'[p].mail = proc[p].mail, proc'[p].view = proc[p].view
    PROVE  ViewHolds(p)'
<1> DEFINE view == proc[p].view
           row == outbox[proc[p].mail]
           new == outbox'[proc[p].mail]
<1>1. view.version \in Nat /\ row.version \in Nat /\ new.version \in Nat
    BY DEF Typed, TypeOK, ProcRows, Rows
<1> QED BY <1>1 DEF ViewHolds, RowEvolves

\* Nobody starts to create a mail that is there already.
LEMMA CreatedStays ==
    ASSUME Typed, NEW P \in SUBSET Procs, Evolution(P), NEW m \in Mails, Created(m)
    PROVE  Created(m)'
<1>1. outbox'[m].status # "absent"
    BY DEF Evolution, RowEvolves, Created
<1>2. ASSUME NEW p \in Requests, Creator(p)', proc'[p].mail = m
      PROVE  FALSE
    <2>1. ~ (Creator(p) /\ proc[p].mail = m)
        BY DEF Created, Creating, Creator
    <2>2. CASE p \in P
        BY <1>2, <2>1, <2>2 DEF Evolution, CreatesWell, Created
    <2>3. CASE p \notin P
        BY <1>2, <2>1, <2>3 DEF Evolution, Creator, Procs
    <2> QED BY <2>2, <2>3
<1> QED BY <1>1, <1>2 DEF Created, Creating, Creator

LEMMA FencesKept ==
    ASSUME Typed, Typed', Fences, NEW P \in SUBSET Procs, Evolution(P),
           \A p, q \in P : p = q
    PROVE  Fences'
<1>1. ASSUME NEW p \in Procs
      PROVE  ActorHolds(p)'
    <2>a. proc[p] \in ProcRows /\ proc'[p] \in ProcRows /\ StepFacts(proc[p]) /\ StepFacts(proc'[p])
        BY DEF Typed, TypeOK
    <2>1. CASE p \in P
        <3>1. ReadsWell(p)
            BY <2>1 DEF Evolution
        <3>2. \A m \in proc'[p].todo : m \in Mails
            BY <2>a DEF ProcRows
        <3>3. proc'[p].at \in {"withdraw", "expire"} => proc'[p].mail \in Mails
            BY <2>a DEF StepFacts
        <3>4. \A m \in proc'[p].todo : Created(m)'
            BY <3>1, <3>2, CreatedStays DEF ReadsWell
        <3>5. LateViewHolds(p)'
            BY <3>1, <3>3, CreatedStays DEF ReadsWell, LateViewHolds
        <3> QED BY <3>1, <3>4, <3>5 DEF ReadsWell, ActorHolds
    <2>2. CASE p \notin P
        <3>1. proc'[p] = proc[p] /\ ActorHolds(p)
            BY <2>2 DEF Evolution, Fences
        <3>2. proc[p].at \in Fenced => proc[p].mail \in Mails
            BY <2>a DEF StepFacts, Fenced
        <3>3. proc'[p].at \in Fenced => ViewHolds(p)'
            BY <3>1, <3>2, ViewKept DEF ActorHolds, Evolution
        <3>4. \A m \in proc'[p].todo : Created(m)'
            BY <2>a, <3>1, CreatedStays DEF ActorHolds, ProcRows
        <3>5. LateViewHolds(p)'
            <4> SUFFICES ASSUME proc[p].at \in {"withdraw", "expire"}
                         PROVE  /\ Created(proc[p].mail)'
                                /\ proc[p].view.version = outbox'[proc[p].mail].version
                                       => proc[p].view.period = outbox'[proc[p].mail].period
                BY <3>1 DEF LateViewHolds
            <4>0. PICK m \in Mails : m = proc[p].mail
                BY <3>2 DEF Fenced
            <4>1. Created(m) /\ ViewHolds(p)
                BY <4>0, <3>1, <3>2 DEF ActorHolds, LateViewHolds, Fenced
            <4>2. /\ proc[p].view.version \in Nat /\ outbox[m].version \in Nat
                  /\ outbox'[m].version \in Nat
                BY <2>a DEF Typed, TypeOK, ProcRows, Rows
            <4>3. RowEvolves(m) /\ proc[p].view.version <= outbox[m].version
                  /\ (proc[p].view.version = outbox[m].version => proc[p].view.period = outbox[m].period)
                BY <3>1, <4>0, <4>1 DEF Evolution, ViewHolds, ActorHolds, LateViewHolds
            <4>4. Created(m)'
                BY <4>1, CreatedStays
            <4>5. outbox[m].status # "absent" /\ ~ Creating(m)
                BY <4>1 DEF Created
            <4>6. proc[p].view.version = outbox'[m].version => proc[p].view.period = outbox'[m].period
                BY <4>2, <4>3, <4>5 DEF RowEvolves
            <4> QED BY <3>1, <4>0, <4>4, <4>6 DEF Created, Creating
        <3> QED BY <3>3, <3>4, <3>5 DEF ActorHolds
    <2> QED BY <2>1, <2>2
<1>2. ASSUME NEW p \in Procs
      PROVE  CallerHolds(p)'
    <2> SUFFICES ASSUME proc'[p].at = "call"
                 PROVE  /\ outbox'[proc'[p].mail].sent
                        /\ calls'[proc'[p].mail] = 0
                        /\ \A q \in Procs \ {p} :
                               proc'[q].at = "call" => proc'[q].mail # proc'[p].mail
        BY DEF CallerHolds
    <2> DEFINE m == proc'[p].mail
    <2>a. m \in Mails
        BY DEF Typed, TypeOK, StepFacts
    <2>b. calls[m] \in Nat /\ \A q \in Procs : proc[q].at = "call" =>
              outbox[proc[q].mail].sent /\ calls[proc[q].mail] = 0 /\ proc[q].mail \in Mails
        BY <2>a DEF Fences, CallerHolds, Typed, TypeOK, StepFacts
    <2>c. \A q \in Procs : proc[q].at = "call" => outbox[proc[q].mail].status # "absent"
        BY <2>b DEF Fences, RowConsistent
    <2>1. CASE p \in P
        <3>1. ~ outbox[m].sent /\ outbox'[m].sent /\ calls'[m] = calls[m]
            BY <2>1 DEF Evolution, CallsWell
        <3>2. calls[m] = 0
            BY <2>a, <2>b, <3>1 DEF Fences, CallIsRecorded
        <3>3. ASSUME NEW q \in Procs \ {p}, proc'[q].at = "call", proc'[q].mail = m
              PROVE  FALSE
            <4>1. q \notin P /\ proc[q].at = "call" /\ proc[q].mail = m
                BY <2>1, <3>3 DEF Evolution
            <4> QED BY <2>b, <3>1, <4>1
        <3> QED BY <3>1, <3>2, <3>3
    <2>2. CASE p \notin P
        <3>1. proc[p].at = "call" /\ proc[p].mail = m
            BY <2>2 DEF Evolution
        <3>2. outbox[m].sent /\ calls[m] = 0 /\ outbox[m].status # "absent"
            BY <2>b, <2>c, <3>1
        <3>3. outbox'[m].sent
            BY <2>a, <3>2 DEF Evolution, RowEvolves
        <3>4. \A q \in Procs \ {p} : proc[q].at = "call" => proc[q].mail # m
            BY <3>1 DEF Fences, CallerHolds
        <3>5. calls'[m] = 0
            BY <2>2, <2>a, <3>2, <3>4 DEF Evolution, CallsStay
        <3>6. ASSUME NEW q \in Procs \ {p}, proc'[q].at = "call", proc'[q].mail = m
              PROVE  FALSE
            <4>1. CASE q \in P
                BY <3>2, <3>6, <4>1 DEF Evolution, CallsWell
            <4>2. CASE q \notin P
                BY <3>4, <3>6, <4>2 DEF Evolution
            <4> QED BY <4>1, <4>2
        <3> QED BY <3>3, <3>5, <3>6
    <2> QED BY <2>1, <2>2
<1>3. ASSUME NEW p \in Requests
      PROVE  CreatorHolds(p)'
    <2> SUFFICES ASSUME Creator(p)'
                 PROVE  LET row == outbox'[proc'[p].mail] IN
                        /\ row.status # "absent"
                        /\ row.pool = PoolOf(proc'[p].intent)
                        /\ row.ref = proc'[p].ref
                        /\ ~ challenge'[proc'[p].ref].late
                        /\ challenge'[proc'[p].ref].state # "none"
                        /\ \A q \in Requests \ {p} : Creator(q)' => proc'[q].mail # proc'[p].mail
        BY DEF CreatorHolds, Creator
    <2>a. /\ p \in Procs /\ proc'[p].mail \in Mails /\ proc'[p].ref \in Challenges
          /\ \A q \in Requests : q \in Procs /\ (Creator(q) => proc[q].mail \in Mails /\ proc[q].ref \in Challenges)
        BY DEF Typed, TypeOK, StepFacts, Creator, Procs
    <2>b. \A q \in Requests : Creator(q) =>
              LET row == outbox[proc[q].mail] IN
              /\ row.status # "absent" /\ row.pool = PoolOf(proc[q].intent)
              /\ row.ref = proc[q].ref /\ ~ challenge[proc[q].ref].late
              /\ challenge[proc[q].ref].state # "none"
              /\ \A r \in Requests \ {q} : Creator(r) => proc[r].mail # proc[q].mail
        BY DEF Fences, CreatorHolds, Creator
    \* Creating either goes on or has just begun, on a mail that was absent.
    <2>c. \A q \in Requests : Creator(q)' =>
              \/ Creator(q) /\ proc'[q].mail = proc[q].mail /\ proc'[q].ref = proc[q].ref
                            /\ proc'[q].intent = proc[q].intent
              \/ q \in P /\ outbox[proc'[q].mail].status = "absent"
        BY <2>a DEF Evolution, CreatesWell, Creator
    <2>1. CASE Creator(p) /\ proc'[p].mail = proc[p].mail /\ proc'[p].ref = proc[p].ref
               /\ proc'[p].intent = proc[p].intent
        <3> DEFINE m == proc[p].mail
        <3>0. m \in Mails /\ proc[p].ref \in Challenges /\ Creating(m)
            BY <2>1, <2>a DEF Creating, Creator
        <3>1. RowEvolves(m) /\ RefStays(P, m) /\ Creating(m) /\ ChallengeStays(proc[p].ref)
            BY <3>0 DEF Evolution
        <3>2. outbox'[m].ref = outbox[m].ref
            BY <2>1, <2>a, <2>b, <3>1 DEF RefStays, Creator
        <3>3. \A q \in Requests \ {p} : Creator(q)' => proc'[q].mail # m
            BY <2>1, <2>a, <2>b, <2>c
        <3> QED BY <2>1, <2>a, <2>b, <3>1, <3>2, <3>3 DEF RowEvolves, ChallengeStays
    <2>2. CASE ~ (Creator(p) /\ proc'[p].mail = proc[p].mail /\ proc'[p].ref = proc[p].ref
                  /\ proc'[p].intent = proc[p].intent)
        <3>1. p \in P /\ outbox[proc'[p].mail].status = "absent"
            BY <2>2, <2>c
        <3>2. \A q \in Requests \ {p} : Creator(q)' => proc'[q].mail # proc'[p].mail
            BY <3>1, <2>a, <2>b, <2>c
        <3> QED BY <2>2, <3>1, <3>2 DEF Evolution, CreatesWell
    <2> QED BY <2>1, <2>2
<1>4. ASSUME NEW m \in Mails
      PROVE  calls'[m] <= 1 /\ (calls'[m] > 0 => outbox'[m].sent)
    <2>1. /\ calls[m] \in Nat /\ calls[m] <= 1 /\ (calls[m] > 0 => outbox[m].sent)
          /\ (outbox[m].status = "absent" => ~ outbox[m].sent)
        BY DEF Fences, AtMostOneCall, CallIsRecorded, RowConsistent, Typed, TypeOK
    <2>2. outbox[m].sent => outbox'[m].sent
        BY <2>1 DEF Evolution, RowEvolves
    <2>3. CASE calls'[m] = calls[m]
        BY <2>1, <2>2, <2>3
    <2>4. CASE calls'[m] # calls[m]
        <3>1. PICK p \in P : proc[p].at = "call" /\ proc[p].mail = m /\ calls'[m] = calls[m] + 1
            BY <2>4 DEF Evolution, CallsStay
        <3>2. outbox[m].sent /\ calls[m] = 0
            BY <3>1 DEF Fences, CallerHolds
        <3> QED BY <2>2, <3>1, <3>2
    <2> QED BY <2>3, <2>4
<1>5. \A m \in Mails : RowConsistent(m)'
    BY DEF Evolution
<1> QED BY <1>1, <1>2, <1>3, <1>4, <1>5 DEF Fences, CallIsRecorded, AtMostOneCall

-----------------------------------------------------------------------------
(***************************************************************************)
(* The actions, one by one                                                 *)
(***************************************************************************)
LEMMA Becomes ==
    ASSUME Typed, NEW p \in Procs, NEW next, Become(p, next)
    PROVE  proc'[p] = next /\ \A q \in Procs \ {p} : proc'[q] = proc[q]
BY DEF Typed, TypeOK, Become

LEMMA IdleReadsWell ==
    ASSUME Typed, NEW p \in Procs, Become(p, Idle)
    PROVE  /\ \A q \in Procs \ {p} : proc'[q] = proc[q]
           /\ ReadsWell(p) /\ ~ Creator(p)' /\ proc'[p].at = "idle"
BY Becomes, IdleTyped DEF ReadsWell, Creator, Fenced

LEMMA RowStays ==
    ASSUME Typed, Fences, NEW m \in Mails, outbox'[m] = outbox[m]
    PROVE  RowConsistent(m)' /\ RowEvolves(m)
<1>1. outbox[m].version \in Nat
    BY DEF Typed, TypeOK, Rows
<1> QED BY <1>1 DEF RowEvolves, RowConsistent, Fences

\* A step of p that touches no challenge, no reference of a mail and no call.
LEMMA WriteStep ==
    ASSUME Typed, Fences, NEW p \in Procs, \A q \in Procs \ {p} : proc'[q] = proc[q],
           \A m \in Mails : RowConsistent(m)' /\ RowEvolves(m),
           \A m \in Mails : outbox[m].status # "absent" => outbox'[m].ref = outbox[m].ref,
           UNCHANGED <<challenge, calls>>,
           ReadsWell(p), ~ Creator(p)', proc'[p].at # "call"
    PROVE  Evolution({p})
BY DEF Evolution, CreatesWell, CallsWell, RefStays, CallsStay, ChallengeStays

\* One that writes nothing.
LEMMA QuietStep ==
    ASSUME Typed, Fences, NEW p \in Procs, \A q \in Procs \ {p} : proc'[q] = proc[q],
           UNCHANGED <<outbox, challenge, calls>>,
           ReadsWell(p), ~ Creator(p)', proc'[p].at # "call"
    PROVE  Evolution({p})
BY RowStays, WriteStep

\* An actor that goes on with the row it holds.
LEMMA GoesOn ==
    ASSUME Typed, Typed', Fences, NEW p \in Procs, proc[p].at \in Fenced,
           NEW next, Become(p, next),
           next.mail = proc[p].mail, next.view = proc[p].view, next.todo = proc[p].todo,
           next.at \notin {"withdraw", "expire", "reserve", "abandon"},
           RowEvolves(proc[p].mail)
    PROVE  ReadsWell(p) /\ ~ Creator(p)'
<1>1. proc'[p] = next /\ proc[p].mail \in Mails
    BY Becomes DEF Typed, StepFacts, Fenced
<1>2. ViewHolds(p) /\ \A m \in proc[p].todo : Created(m)
    BY DEF Fences, ActorHolds
<1>3. ViewHolds(p)'
    BY <1>1, <1>2, ViewKept
<1> QED BY <1>1, <1>2, <1>3 DEF ReadsWell, Creator

(***************************************************************************)
(* transitionMail                                                          *)
(***************************************************************************)
LEMMA TransitionEvolves ==
    ASSUME Typed, Fences, NEW m \in Mails, NEW view, NEW status \in Statuses, NEW from, NEW to,
           NEW delivered \in BOOLEAN, Transition(m, view, status, from, to, delivered),
           outbox[m].status # "absent", outbox[m].status \notin Terminal,
           status \notin {"absent", "pending", "leased"},
           status = "calling_provider" =>
               outbox[m].status = "leased" /\ outbox[m].period # Unreserved,
           status = "unknown" => outbox[m].status = "calling_provider"
    PROVE  /\ \A o \in Mails : RowConsistent(o)' /\ RowEvolves(o)
           /\ \A o \in Mails : outbox'[o].ref = outbox[o].ref
<1> DEFINE row == outbox[m]
           new == After(row, status, delivered)
<1>1. outbox' = [outbox EXCEPT ![m] = new]
    BY DEF Transition
<1>2. row \in Rows /\ RowConsistent(m)
    BY DEF Typed, TypeOK, Fences
<1>3. /\ new.status = status /\ new.pool = row.pool /\ new.user = row.user /\ new.ref = row.ref
      /\ new.period = row.period /\ new.version = row.version /\ new.intent = row.intent
      /\ new.sent <=> row.sent \/ status = "calling_provider"
      /\ new.body <=> row.body /\ status = "retry_wait"
    BY <1>2 DEF After, Rows
<1> HIDE DEF new
<1>4. outbox'[m] = new /\ \A o \in Mails : o # m => outbox'[o] = outbox[o]
    BY <1>1 DEF Typed, TypeOK
<1>5. RowConsistent(m)'
    BY <1>2, <1>3, <1>4 DEF RowConsistent, Unsent, Waiting
<1>6. RowEvolves(m)
    <2>1. row.version \in Nat
        BY <1>2 DEF Rows
    <2> QED BY <1>2, <1>3, <1>4, <2>1 DEF RowEvolves, RowConsistent, Unsent
<1>7. \A o \in Mails : o # m => RowConsistent(o)' /\ RowEvolves(o) /\ outbox'[o].ref = outbox[o].ref
    BY <1>4, RowStays
<1> QED BY <1>3, <1>4, <1>5, <1>6, <1>7

LEMMA TransitionOrMissEvolves ==
    ASSUME Typed, Fences, NEW m \in Mails, NEW view, NEW status \in Statuses, NEW from, NEW to,
           TransitionOrMiss(m, view, status, from, to),
           outbox[m].status # "absent",
           SameLease(m, view) => outbox[m].status \notin Terminal,
           status \notin {"absent", "pending", "leased", "calling_provider"},
           status = "unknown" => view.status = "calling_provider"
    PROVE  /\ \A o \in Mails : RowConsistent(o)' /\ RowEvolves(o)
           /\ \A o \in Mails : outbox'[o].ref = outbox[o].ref
<1>1. CASE CanTransition(m, view, from)
    BY <1>1, TransitionEvolves DEF TransitionOrMiss, CanTransition, SameLease
<1>2. CASE ~ CanTransition(m, view, from)
    BY <1>2, RowStays DEF TransitionOrMiss, Missed
<1> QED BY <1>1, <1>2

\* A unit can only be taken from the rows of a real day.
LEMMA ChargedToDay ==
    ASSUME NEW row, NEW from, from # "none", SourceLeft(Charged(row), from)
    PROVE  row.period \in Days /\ row.period # Unreserved
<1>1. PoolRow(row.pool, row.period) \in Accounts
    BY DEF SourceLeft, Charged, ChargedRows
<1>2. row.period \in Days
    BY <1>1 DEF PoolRow, Accounts
<1> QED BY <1>2, LimitsAssumption DEF Days, Unreserved

\* An actor that ends with one guarded write of the row it holds.
LEMMA LastWrite ==
    ASSUME Typed, Typed', Fences, NEW p \in Procs, proc[p].at \in Fenced,
           NEW status \in Statuses, NEW from, NEW to,
           TransitionOrMiss(proc[p].mail, proc[p].view, status, from, to),
           proc[p].view.status \notin Terminal,
           status \notin {"absent", "pending", "leased", "calling_provider"},
           status = "unknown" => proc[p].view.status = "calling_provider",
           Become(p, Idle), UNCHANGED <<challenge, calls>>
    PROVE  Evolution({p})
<1>1. PICK m \in Mails : m = proc[p].mail
    BY DEF Typed, StepFacts, Fenced
<1>2. ViewHolds(p) /\ RowConsistent(m)
    BY DEF Fences, ActorHolds
<1>3. /\ \A o \in Mails : RowConsistent(o)' /\ RowEvolves(o)
      /\ \A o \in Mails : outbox'[o].ref = outbox[o].ref
    BY <1>1, <1>2, TransitionOrMissEvolves DEF ViewHolds, RowConsistent, SameLease
<1> QED BY <1>3, IdleReadsWell, WriteStep

(***************************************************************************)
(* Requests                                                                *)
(***************************************************************************)
LEMMA CreateEvolves ==
    ASSUME Typed, Typed', Fences, NEW p \in Requests, NEW c \in Challenges, NEW m \in Mails,
           CreateChallenge(p, c, m)
    PROVE  Evolution({p})
<1>1. PICK intent \in OpenIntents, user \in Owners, purpose \in {"signup", "login"} :
          OpenChallenge(p, c, m, intent, purpose, user)
    BY DEF CreateChallenge, Owners
<1> DEFINE row == NewRow(PoolOf(intent), intent, user, c, 0, Unreserved)
           next == [Idle EXCEPT !.at = "reserve", !.mail = m, !.ref = c,
                                !.intent = intent, !.day = today]
<1>2. /\ outbox[m].status = "absent" /\ challenge[c].state = "none"
      /\ outbox' = [outbox EXCEPT ![m] = row] /\ Become(p, next) /\ UNCHANGED calls
      /\ challenge'[c].state = "open" /\ ~ challenge'[c].late
      /\ \A d \in Challenges : d # c => challenge'[d] = challenge[d]
    BY <1>1 DEF OpenChallenge, AbsentMails, Typed, TypeOK
<1>3. /\ row.status = "pending" /\ row.pool = PoolOf(intent) /\ row.ref = c /\ ~ row.sent
      /\ row.intent = intent
    BY DEF NewRow
<1> HIDE DEF row
<1>4. /\ p \in Procs /\ proc'[p] = next /\ \A q \in Procs \ {p} : proc'[q] = proc[q]
      /\ outbox'[m] = row /\ \A o \in Mails : o # m => outbox'[o] = outbox[o]
    BY <1>2, Becomes DEF Procs, Typed, TypeOK
<1>5. /\ next.at = "reserve" /\ next.mail = m /\ next.ref = c /\ next.intent = intent
      /\ next.todo = {}
    BY IdleTyped DEF ProcRows
<1> HIDE DEF next
<1>6. ReadsWell(p) /\ CreatesWell(p) /\ CallsWell(p)
    BY <1>2, <1>3, <1>4, <1>5 DEF ReadsWell, CreatesWell, CallsWell, Fenced
<1>7. RowConsistent(m)' /\ RowEvolves(m)
    BY <1>2, <1>3, <1>4 DEF RowConsistent, RowEvolves, Unsent, Waiting
<1>8. \A o \in Mails : RowConsistent(o)' /\ RowEvolves(o) /\ RefStays({p}, o) /\ CallsStay({p}, o)
    BY <1>2, <1>4, <1>7, RowStays DEF RefStays, CallsStay
<1>9. \A d \in Challenges : ChallengeStays(d)
    BY <1>2 DEF ChallengeStays
<1> QED BY <1>4, <1>6, <1>8, <1>9 DEF Evolution

LEMMA ReserveEvolves ==
    ASSUME Typed, Typed', Fences, NEW p \in Requests, ReserveBudget(p)
    PROVE  Evolution({p})
<1>1. PICK m \in Mails : m = proc[p].mail
    BY DEF ReserveBudget, At, Typed, StepFacts, Procs
<1>p. p \in Procs /\ proc[p] \in ProcRows /\ Creator(p) /\ Creating(m) /\ proc[p].todo \in SUBSET Mails
    BY <1>1 DEF Procs, Typed, TypeOK, ReserveBudget, At, Creator, Creating, ProcRows
<1>2. \/ proc'[p] = Idle
      \/ proc'[p] = [proc[p] EXCEPT !.at = "abandon"]
    BY <1>p, Becomes DEF ReserveBudget
<1>3. \A q \in Procs \ {p} : proc'[q] = proc[q]
    BY <1>p, Becomes DEF ReserveBudget
<1>4. /\ proc'[p].at \in {"idle", "abandon"} /\ proc'[p].todo \in {{}, proc[p].todo}
      /\ proc'[p].at = "abandon" => /\ proc'[p].mail = proc[p].mail /\ proc'[p].ref = proc[p].ref
                                    /\ proc'[p].intent = proc[p].intent
    BY <1>p, <1>2, IdleTyped DEF ProcRows
<1>5. \A o \in proc'[p].todo : Created(o)
    BY <1>4, <1>p DEF Fences, ActorHolds
<1>6. ReadsWell(p) /\ CreatesWell(p) /\ CallsWell(p)
    BY <1>4, <1>5, <1>p DEF ReadsWell, CreatesWell, CallsWell, Fenced, Creator
<1>7. /\ \A o \in Mails : o # m => outbox'[o] = outbox[o]
      /\ \/ outbox'[m] = outbox[m]
         \/ /\ outbox[m].period = Unreserved /\ outbox[m].status \in Unsent
            /\ outbox'[m] = [outbox[m] EXCEPT !.period = proc[p].day, !.intent = proc[p].intent]
    BY <1>1 DEF ReserveBudget, Missed, Typed, TypeOK
<1>8. RowConsistent(m)' /\ RowEvolves(m) /\ outbox'[m].ref = outbox[m].ref
    <2>1. CASE outbox'[m] = outbox[m]
        BY <2>1, RowStays
    <2>2. CASE outbox'[m] # outbox[m]
        <3>1. /\ outbox[m] \in Rows /\ RowConsistent(m) /\ outbox[m].version \in Nat
              /\ outbox[m].status \in Unsent
              /\ outbox'[m] = [outbox[m] EXCEPT !.period = proc[p].day, !.intent = proc[p].intent]
              /\ outbox[m].period = Unreserved /\ outbox[m].pool = PoolOf(proc[p].intent)
            BY <1>1, <1>p, <1>7, <2>2 DEF Typed, TypeOK, Rows, Fences, CreatorHolds, Creator
        <3>2. /\ outbox'[m].status = outbox[m].status /\ outbox'[m].sent = outbox[m].sent
              /\ outbox'[m].body = outbox[m].body /\ outbox'[m].pool = outbox[m].pool
              /\ outbox'[m].user = outbox[m].user /\ outbox'[m].version = outbox[m].version
              /\ outbox'[m].intent = proc[p].intent /\ outbox'[m].ref = outbox[m].ref
            BY <3>1 DEF Rows
        <3> QED BY <1>p, <3>1, <3>2 DEF RowConsistent, RowEvolves, Unsent, Waiting
    <2> QED BY <2>1, <2>2
<1>9. \A o \in Mails : RowConsistent(o)' /\ RowEvolves(o) /\ outbox'[o].ref = outbox[o].ref
    BY <1>7, <1>8, RowStays
<1>10. UNCHANGED <<challenge, calls>>
    BY DEF ReserveBudget
<1> QED BY <1>3, <1>6, <1>9, <1>10 DEF Evolution, RefStays, CallsStay, ChallengeStays

LEMMA AbandonEvolves ==
    ASSUME Typed, Typed', Fences, NEW p \in Requests, AbandonCreate(p)
    PROVE  Evolution({p})
<1>1. PICK m \in Mails, c \in Challenges : m = proc[p].mail /\ c = proc[p].ref
    BY DEF AbandonCreate, At, Typed, StepFacts, Procs
<1>p. p \in Procs /\ Creator(p)
    BY DEF Procs, AbandonCreate, At, Creator
<1>2. /\ \A q \in Procs \ {p} : proc'[q] = proc[q]
      /\ ReadsWell(p) /\ ~ Creator(p)' /\ proc'[p].at = "idle"
    BY <1>p, IdleReadsWell DEF AbandonCreate
<1>3. CreatesWell(p) /\ CallsWell(p)
    BY <1>2 DEF CreatesWell, CallsWell
<1> DEFINE new == [outbox[m] EXCEPT !.status = "skipped", !.body = FALSE, !.ref = NoRef]
<1>4. /\ \A o \in Mails : o # m => outbox'[o] = outbox[o]
      /\ \/ outbox'[m] = outbox[m]
         \/ outbox[m].status = "pending" /\ outbox'[m] = new
    BY <1>1 DEF AbandonCreate, Typed, TypeOK
<1>5. RowConsistent(m)' /\ RowEvolves(m)
    <2>1. CASE outbox'[m] = outbox[m]
        BY <2>1, RowStays
    <2>2. CASE outbox'[m] # outbox[m]
        <3>1. /\ outbox[m] \in Rows /\ RowConsistent(m) /\ outbox[m].version \in Nat
              /\ outbox[m].status = "pending" /\ outbox'[m] = new
            BY <1>4, <2>2 DEF Typed, TypeOK, Rows, Fences
        <3>2. /\ new.status = "skipped" /\ ~ new.body /\ new.sent = outbox[m].sent
              /\ new.pool = outbox[m].pool /\ new.user = outbox[m].user
              /\ new.version = outbox[m].version /\ new.intent = outbox[m].intent
              /\ new.period = outbox[m].period
            BY <3>1 DEF Rows
        <3> HIDE DEF new
        <3> QED BY <3>1, <3>2 DEF RowConsistent, RowEvolves, Unsent, Waiting, Terminal
    <2> QED BY <2>1, <2>2
<1>6. \A o \in Mails : RowConsistent(o)' /\ RowEvolves(o)
    BY <1>4, <1>5, RowStays
<1>7. \A o \in Mails : RefStays({p}, o)
    BY <1>1, <1>p, <1>2, <1>4 DEF RefStays
<1>8. \A d \in Challenges : ChallengeStays(d)
    <2>1. \A d \in Challenges : 
              \/ challenge'[d] = challenge[d]
              \/ challenge'[d].state = "aborted" /\ challenge'[d].late = challenge[d].late
        BY <1>1 DEF AbandonCreate, Typed, TypeOK, ChallengeRows
    <2> QED BY <2>1 DEF ChallengeStays
<1>9. UNCHANGED calls
    BY DEF AbandonCreate
<1> QED BY <1>2, <1>3, <1>6, <1>7, <1>8, <1>9 DEF Evolution, CallsStay

LEMMA ResendReadEvolves ==
    ASSUME Typed, Typed', Fences, NEW p \in Requests, NEW c \in Challenges, ResendRead(p, c)
    PROVE  Evolution({p})
<1> DEFINE next == [Idle EXCEPT !.at = "resend", !.ref = c, !.gen = challenge[c].gen, !.day = today]
<1>1. p \in Procs /\ Become(p, next) /\ UNCHANGED <<outbox, challenge, calls>>
    BY DEF Procs, ResendRead
<1>2. next.at = "resend" /\ next.todo = {}
    BY IdleTyped DEF ProcRows
<1> HIDE DEF next
<1>3. proc'[p] = next /\ \A q \in Procs \ {p} : proc'[q] = proc[q]
    BY <1>1, Becomes
<1>4. ReadsWell(p) /\ ~ Creator(p)'
    BY <1>2, <1>3 DEF ReadsWell, Creator, Fenced
<1> QED BY <1>1, <1>2, <1>3, <1>4, QuietStep

LEMMA ResendCommitEvolves ==
    ASSUME Typed, Typed', Fences, NEW p \in Requests, NEW m \in Mails, ResendCommit(p, m)
    PROVE  Evolution({p})
<1> DEFINE c == proc[p].ref
           older == {o \in Mails : outbox[o].ref = c /\ outbox[o].status \in Unsent}
           fresh == NewRow("existing_auth", "auth_resend", challenge[c].user, c,
                           proc[p].gen + 1, proc[p].day)
           gone(o) == [outbox[o] EXCEPT !.status = "superseded", !.body = FALSE]
<1>p. p \in Procs /\ c \in Challenges
    BY DEF Procs, ResendCommit, At, Typed, StepFacts
<1>1. /\ \A q \in Procs \ {p} : proc'[q] = proc[q]
      /\ ReadsWell(p) /\ ~ Creator(p)' /\ proc'[p].at = "idle"
    BY <1>p, IdleReadsWell DEF ResendCommit
<1>2. outbox[m].status = "absent"
      /\ \/ UNCHANGED outbox
         \/ outbox' = [o \in Mails |-> IF o = m THEN fresh ELSE IF o \in older THEN gone(o) ELSE outbox[o]]
    BY DEF ResendCommit, AbsentMails, Missed
<1>3. /\ fresh.status = "pending" /\ ~ fresh.sent /\ fresh.pool = "existing_auth"
      /\ fresh.intent = "auth_resend"
    BY DEF NewRow
<1> HIDE DEF fresh
<1>4. ASSUME NEW o \in Mails
      PROVE  /\ RowConsistent(o)' /\ RowEvolves(o)
             /\ outbox[o].status # "absent" => outbox'[o].ref = outbox[o].ref
    <2>1. CASE outbox'[o] = outbox[o]
        BY <2>1, RowStays
    <2>2. CASE outbox'[o] # outbox[o] /\ o = m
        <3>1. outbox'[o] = fresh
            BY <1>2, <2>2
        <3> QED BY <1>2, <1>3, <2>2, <3>1 DEF RowConsistent, RowEvolves, Unsent, Waiting, PoolOf
    <2>3. CASE outbox'[o] # outbox[o] /\ o # m
        <3>1. outbox'[o] = gone(o) /\ outbox[o].status \in Unsent
            BY <1>2, <2>3
        <3>2. outbox[o] \in Rows /\ RowConsistent(o) /\ outbox[o].version \in Nat
            BY DEF Typed, TypeOK, Rows, Fences
        <3>3. /\ gone(o).status = "superseded" /\ ~ gone(o).body /\ gone(o).sent = outbox[o].sent
              /\ gone(o).pool = outbox[o].pool /\ gone(o).user = outbox[o].user
              /\ gone(o).version = outbox[o].version /\ gone(o).intent = outbox[o].intent
              /\ gone(o).period = outbox[o].period /\ gone(o).ref = outbox[o].ref
            BY <3>2 DEF Rows
        <3> HIDE DEF gone
        <3> QED BY <3>1, <3>2, <3>3 DEF RowConsistent, RowEvolves, Unsent, Waiting, Terminal
    <2> QED BY <2>1, <2>2, <2>3
<1>5. \A d \in Challenges : ChallengeStays(d)
    <2>1. UNCHANGED challenge \/ challenge' = [challenge EXCEPT ![c].gen = proc[p].gen + 1]
        BY DEF ResendCommit
    <2>2. challenge \in [Challenges -> ChallengeRows]
        BY DEF Typed, TypeOK
    <2> HIDE DEF c
    <2>3. \A d \in Challenges : challenge'[d].state = challenge[d].state
                                /\ challenge'[d].late = challenge[d].late
        BY <1>p, <2>1, <2>2 DEF ChallengeRows
    <2> QED BY <2>3 DEF ChallengeStays
<1>6. UNCHANGED calls
    BY DEF ResendCommit
<1>7. CreatesWell(p) /\ CallsWell(p)
    BY <1>1 DEF CreatesWell, CallsWell
<1> QED BY <1>1, <1>4, <1>5, <1>6, <1>7 DEF Evolution, RefStays, CallsStay

LEMMA RequestEvolves ==
    ASSUME Typed, Typed', Fences, NEW p \in Requests, RequestStep(p)
    PROVE  Evolution({p})
BY CreateEvolves, ReserveEvolves, AbandonEvolves, ResendReadEvolves, ResendCommitEvolves
   DEF RequestStep

(***************************************************************************)
(* Sending                                                                 *)
(***************************************************************************)
LEMMA ClaimEvolves ==
    ASSUME Typed, Typed', Fences, NEW p \in Procs, NEW m \in Mails, Claim(p, m)
    PROVE  Evolution({p})
<1> DEFINE row == [outbox[m] EXCEPT !.status = "leased", !.version = outbox[m].version + 1,
                                    !.owner = OwnerOf(p), !.lease = "live"]
           next == [Idle EXCEPT !.at = "prepare", !.mail = m, !.view = row]
<1>1. /\ outbox[m].status = "pending" /\ outbox' = [outbox EXCEPT ![m] = row] /\ Become(p, next)
      /\ UNCHANGED <<challenge, calls>>
    BY DEF Claim, Claimable
<1>2. outbox[m] \in Rows /\ RowConsistent(m) /\ outbox[m].version \in Nat
    BY DEF Typed, TypeOK, Rows, Fences
<1>3. /\ row.status = "leased" /\ row.version = outbox[m].version + 1 /\ row.pool = outbox[m].pool
      /\ row.user = outbox[m].user /\ row.sent = outbox[m].sent /\ row.body = outbox[m].body
      /\ row.period = outbox[m].period /\ row.intent = outbox[m].intent /\ row.ref = outbox[m].ref
    BY <1>2 DEF Rows
<1> HIDE DEF row
<1>4. next.at = "prepare" /\ next.mail = m /\ next.view = row /\ next.todo = {}
    BY IdleTyped DEF ProcRows
<1> HIDE DEF next
<1>5. /\ proc'[p] = next /\ \A q \in Procs \ {p} : proc'[q] = proc[q]
      /\ outbox'[m] = row /\ \A o \in Mails : o # m => outbox'[o] = outbox[o]
    BY <1>1, Becomes DEF Typed, TypeOK
<1>6. RowConsistent(m)' /\ RowEvolves(m)
    BY <1>1, <1>2, <1>3, <1>5 DEF RowConsistent, RowEvolves, Unsent, Waiting, Terminal
<1>7. ReadsWell(p) /\ ~ Creator(p)'
    BY <1>2, <1>3, <1>4, <1>5 DEF ReadsWell, ViewHolds, Creator, Fenced
<1>8. \A o \in Mails : RowConsistent(o)' /\ RowEvolves(o) /\ outbox'[o].ref = outbox[o].ref
    BY <1>3, <1>5, <1>6, RowStays
<1> QED BY <1>1, <1>4, <1>5, <1>7, <1>8, WriteStep

\* A sender that goes on with its mail, or will write back, without a write now.
LEMMA SenderMoves ==
    ASSUME Typed, Typed', Fences, NEW p \in Procs,
           proc[p].at \in {"prepare", "gates", "start", "record"},
           NEW next, Become(p, next), next.mail = proc[p].mail, next.view = proc[p].view,
           next.todo = proc[p].todo, next.at \in {"gates", "start", "writeback"},
           UNCHANGED <<outbox, challenge, calls>>
    PROVE  Evolution({p})
<1>1. proc[p].at \in Fenced /\ proc[p].mail \in Mails
    BY DEF Fenced, Typed, StepFacts
<1>2. RowEvolves(proc[p].mail)
    BY <1>1, RowStays
<1>3. ReadsWell(p) /\ ~ Creator(p)'
    BY <1>1, <1>2, GoesOn
<1> QED BY <1>3, Becomes, QuietStep

LEMMA GiveUpMoves ==
    ASSUME Typed, Typed', Fences, NEW p \in Procs, proc[p].at \in {"prepare", "gates", "start"},
           NEW status, GiveUp(p, status), UNCHANGED <<outbox, challenge, calls>>
    PROVE  Evolution({p})
<1> DEFINE next == [proc[p] EXCEPT !.at = "writeback", !.result = status]
<1>1. /\ next.mail = proc[p].mail /\ next.view = proc[p].view /\ next.todo = proc[p].todo
      /\ next.at = "writeback" /\ Become(p, next)
    BY DEF Typed, TypeOK, ProcRows, GiveUp
<1> HIDE DEF next
<1> QED BY <1>1, SenderMoves

LEMMA StartCallEvolves ==
    ASSUME Typed, Typed', Fences, NEW p \in Procs, StartCall(p)
    PROVE  Evolution({p})
<1>1. PICK m \in Mails : m = proc[p].mail
    BY DEF StartCall, At, Typed, StepFacts
<1>2. /\ proc[p].at = "start" /\ proc[p].at \in Fenced /\ UNCHANGED <<challenge, calls>>
      /\ ViewHolds(p) /\ proc[p].view.status = "leased" /\ RowConsistent(m)
    BY DEF StartCall, At, Fenced, Fences, ActorHolds, Typed, StepFacts
<1>3. CASE CallingGuard(p)
    <2> DEFINE next == [proc[p] EXCEPT !.at = "call"]
    <2>1. /\ Transition(m, proc[p].view, "calling_provider", "reserved", "uncertain", FALSE)
          /\ Become(p, next)
        BY <1>1, <1>3 DEF StartCall
    <2>2. SameLease(m, proc[p].view) /\ proc[p].view.period # Unreserved
        BY <1>1, <1>3, ChargedToDay DEF CallingGuard, CanTransition
    <2>3. outbox[m].status = "leased" /\ outbox[m].period # Unreserved /\ ~ outbox[m].sent
        BY <1>1, <1>2, <2>2 DEF SameLease, ViewHolds, RowConsistent, Unsent
    <2>4. "calling_provider" \in Statuses
        BY DEF Statuses
    <2>5. /\ \A o \in Mails : RowConsistent(o)' /\ RowEvolves(o)
          /\ \A o \in Mails : outbox'[o].ref = outbox[o].ref
        <3>1. outbox[m].status \notin Terminal
            BY <2>3 DEF Terminal
        <3> QED BY <2>1, <2>3, <2>4, <3>1, TransitionEvolves
    <2>6. /\ next.mail = proc[p].mail /\ next.view = proc[p].view /\ next.todo = proc[p].todo
          /\ next.at = "call"
        BY DEF Typed, TypeOK, ProcRows
    <2> HIDE DEF next
    <2>7. proc'[p] = next /\ \A q \in Procs \ {p} : proc'[q] = proc[q]
        BY <2>1, Becomes
    <2>8. ReadsWell(p) /\ ~ Creator(p)'
        BY <1>1, <1>2, <2>1, <2>5, <2>6, GoesOn
    <2>9. outbox'[m].sent
        BY <2>1, <2>4 DEF Transition, After, Typed, TypeOK, Rows
    <2>10. CallsWell(p) /\ CreatesWell(p)
        BY <1>1, <1>2, <2>3, <2>6, <2>7, <2>8, <2>9 DEF CallsWell, CreatesWell
    <2> QED BY <1>2, <2>5, <2>7, <2>8, <2>10
            DEF Evolution, RefStays, CallsStay, ChallengeStays
<1>4. CASE ~ CallingGuard(p)
    BY <1>2, <1>4, GiveUpMoves DEF StartCall, Missed
<1> QED BY <1>3, <1>4

LEMMA CallEvolves ==
    ASSUME Typed, Typed', Fences, NEW p \in Procs, CallProvider(p)
    PROVE  Evolution({p})
<1>1. PICK m \in Mails : m = proc[p].mail
    BY DEF CallProvider, At, Typed, StepFacts
<1>2. PICK result \in {"accepted", "rejected", "retry_wait", "unknown"} :
          Become(p, [proc[p] EXCEPT !.at = "record", !.result = result,
                                    !.view.status = "calling_provider"])
    BY DEF CallProvider
<1> DEFINE next == [proc[p] EXCEPT !.at = "record", !.result = result,
                                   !.view.status = "calling_provider"]
           view == proc[p].view
<1>3. /\ proc[p].at = "call" /\ ViewHolds(p) /\ UNCHANGED <<outbox, challenge>>
      /\ calls' = [calls EXCEPT ![m] = calls[m] + 1]
      /\ \A o \in proc[p].todo : Created(o)
    BY <1>1 DEF CallProvider, At, Fenced, Fences, ActorHolds
<1>4. /\ next.mail = m /\ next.todo = proc[p].todo /\ next.at = "record"
      /\ next.view.status = "calling_provider" /\ next.view.version = view.version
      /\ next.view.pool = view.pool /\ next.view.user = view.user /\ next.view.sent = view.sent
      /\ next.view.period = view.period
    BY <1>1 DEF Typed, TypeOK, ProcRows, Rows
<1> HIDE DEF next
<1>5. proc'[p] = next /\ \A q \in Procs \ {p} : proc'[q] = proc[q]
    BY <1>2, Becomes DEF next
<1>6. ReadsWell(p) /\ ~ Creator(p)'
    BY <1>1, <1>3, <1>4, <1>5 DEF ReadsWell, ViewHolds, Creator
<1>7. CallsWell(p) /\ CreatesWell(p)
    BY <1>4, <1>5, <1>6 DEF CallsWell, CreatesWell
<1>8. \A o \in Mails : CallsStay({p}, o)
    BY <1>1, <1>3, <1>4, <1>5 DEF CallsStay, Typed, TypeOK
<1> QED BY <1>3, <1>5, <1>6, <1>7, <1>8, RowStays DEF Evolution, RefStays, ChallengeStays

LEMMA RecordEvolves ==
    ASSUME Typed, Typed', Fences, NEW p \in Procs, Record(p)
    PROVE  Evolution({p})
<1>1. PICK m \in Mails : m = proc[p].mail
    BY DEF Record, At, Typed, StepFacts
<1>2. /\ proc[p].at = "record" /\ ViewHolds(p) /\ RowConsistent(m)
      /\ proc[p].view.status = "calling_provider"
      /\ proc[p].result \in {"accepted", "rejected", "retry_wait", "unknown"}
      /\ \A o \in proc[p].todo : Created(o)
    BY DEF Record, At, Fenced, Fences, ActorHolds, Typed, StepFacts
<1>3. /\ \A o \in Mails : RowConsistent(o)' /\ RowEvolves(o)
      /\ \A o \in Mails : outbox'[o].ref = outbox[o].ref
    <2>1. proc[p].result \in Statuses
        BY <1>2 DEF Statuses, Answered, Waiting
    <2>2. SameLease(m, proc[p].view) => outbox[m].status \notin Terminal
        BY <1>2 DEF SameLease, Terminal
    <2>3. TransitionOrMiss(m, proc[p].view, proc[p].result,
                           IF proc[p].result = "unknown" THEN "none" ELSE "uncertain", "settled")
        BY <1>1 DEF Record
    <2>4. outbox[m].status # "absent"
        BY <1>1, <1>2 DEF ViewHolds
    <2> QED BY <1>2, <2>1, <2>2, <2>3, <2>4, TransitionOrMissEvolves
<1> DEFINE pause == [proc[p] EXCEPT !.at = "pause"]
<1>4. pause.at = "pause" /\ pause.todo = proc[p].todo
    BY DEF Typed, TypeOK, ProcRows
<1> HIDE DEF pause
<1>5. Become(p, Idle) \/ Become(p, pause)
    BY DEF Record, pause
<1>6. /\ \A q \in Procs \ {p} : proc'[q] = proc[q]
      /\ ReadsWell(p) /\ ~ Creator(p)' /\ proc'[p].at # "call"
    <2>1. CASE Become(p, Idle)
        BY <2>1, IdleReadsWell
    <2>2. CASE Become(p, pause)
        BY <1>2, <1>4, <2>2, Becomes DEF ReadsWell, Creator, Fenced
    <2> QED BY <1>5, <2>1, <2>2
<1> QED BY <1>3, <1>6, WriteStep DEF Record

LEMMA SendEvolves ==
    ASSUME Typed, Typed', Fences, NEW p \in Procs, SendStep(p)
    PROVE  Evolution({p})
<1>p. proc[p] \in ProcRows /\ StepFacts(proc[p])
    BY DEF Typed, TypeOK
<1>1. CASE Prepare(p)
    <2> DEFINE next == [proc[p] EXCEPT !.at = "gates",
                            !.snap = Snapshot(proc[p].mail, proc[p].view.ref)]
    <2>1. /\ next.mail = proc[p].mail /\ next.view = proc[p].view /\ next.todo = proc[p].todo
          /\ next.at = "gates"
        BY <1>p DEF ProcRows
    <2>2. \/ Become(p, next)
          \/ GiveUp(p, Verdict(proc[p].mail, proc[p].view))
        BY <1>1 DEF Prepare
    <2>3. proc[p].at = "prepare" /\ UNCHANGED <<outbox, challenge, calls>>
        BY <1>1 DEF Prepare, At, NoWrite
    <2> HIDE DEF next
    <2> QED BY <2>1, <2>2, <2>3, SenderMoves, GiveUpMoves
<1>2. CASE PrepareThrows(p)
    BY <1>2, GiveUpMoves DEF PrepareThrows, At, NoWrite
<1>3. CASE CheckGates(p)
    <2> DEFINE next == [proc[p] EXCEPT !.at = "start"]
    <2>1. /\ next.mail = proc[p].mail /\ next.view = proc[p].view /\ next.todo = proc[p].todo
          /\ next.at = "start"
        BY <1>p DEF ProcRows
    <2>2. \/ Become(p, next)
          \/ \E status \in {"retry_wait", "expired"} : GiveUp(p, status)
        BY <1>3 DEF CheckGates
    <2>3. proc[p].at = "gates" /\ UNCHANGED <<outbox, challenge, calls>>
        BY <1>3 DEF CheckGates, At, NoWrite
    <2> HIDE DEF next
    <2> QED BY <2>1, <2>2, <2>3, SenderMoves, GiveUpMoves
<1>4. CASE FinishUncalled(p)
    <2>1. proc[p].at \in Fenced
          /\ proc[p].result \in {"retry_wait", "skipped", "superseded", "expired", "failed"}
        BY <1>4, <1>p DEF FinishUncalled, At, StepFacts, Fenced
    <2>2. proc[p].result \in Statuses
        BY <2>1 DEF Statuses, Waiting, Dropped
    <2>3. proc[p].view.status \notin Terminal
        BY <1>4, <1>p DEF FinishUncalled, At, StepFacts, Terminal
    <2> QED BY <1>4, <2>1, <2>2, <2>3, LastWrite DEF FinishUncalled
<1>5. CASE StartCall(p)
    BY <1>5, StartCallEvolves
<1>6. CASE CallProvider(p)
    BY <1>6, CallEvolves
<1>7. CASE Record(p)
    BY <1>7, RecordEvolves
<1>8. CASE RecordThrows(p)
    BY <1>8, <1>p, LastWrite DEF RecordThrows, At, StepFacts, Fenced, Statuses, Terminal
<1>9. CASE PauseMail(p)
    <2>1. Become(p, Idle) /\ UNCHANGED <<outbox, challenge, calls>>
        BY <1>9 DEF PauseMail
    <2> QED BY <2>1, IdleReadsWell, QuietStep
<1> QED BY <1>1, <1>2, <1>3, <1>4, <1>5, <1>6, <1>7, <1>8, <1>9 DEF SendStep

(***************************************************************************)
(* The executor's own steps                                                *)
(***************************************************************************)
\* An actor that reads a row into its view reads what is there.
LEMMA ReadStep ==
    ASSUME Typed, Typed', Fences, NEW p \in Procs, NEW m \in Mails, NEW next, Become(p, next),
           UNCHANGED <<outbox, challenge, calls>>,
           next.mail = m, next.view = outbox[m], outbox[m].status # "absent",
           \A o \in next.todo : Created(o),
           next.at \notin {"call", "reserve", "abandon"},
           next.at \in {"withdraw", "expire"} => Created(m)
    PROVE  Evolution({p})
<1>1. proc'[p] = next /\ \A q \in Procs \ {p} : proc'[q] = proc[q]
    BY Becomes
<1>2. outbox[m].version \in Nat
    BY DEF Typed, TypeOK, Rows
<1>3. ReadsWell(p) /\ ~ Creator(p)'
    <2>1. ViewHolds(p)'
        BY <1>1, <1>2 DEF ViewHolds, Unsent
    <2> QED BY <1>1, <2>1 DEF ReadsWell, Creator
<1> QED BY <1>1, <1>3, QuietStep

\* A mail whose intent is over is not being created any more.
LEMMA OverIsCreated ==
    ASSUME Typed, Fences, NEW m \in Mails, outbox[m].status # "absent", IntentOver(m)
    PROVE  Created(m)
<1> SUFFICES ASSUME NEW p \in Requests, Creator(p), proc[p].mail = m
             PROVE  FALSE
    BY DEF Created, Creating, Creator
<1>1. outbox[m].ref = proc[p].ref /\ proc[p].ref \in Challenges /\ ~ challenge[proc[p].ref].late
    BY DEF Fences, CreatorHolds, Creator, Typed, StepFacts, Procs
<1> QED BY <1>1, ActorsAssumption DEF IntentOver, Past

LEMMA RepairEvolves ==
    ASSUME Typed, Typed', Fences, Repair
    PROVE  Evolution({Executor})
<1> DEFINE view == proc[Executor].view
<1>p. Executor \in Procs
    BY DEF Procs
<1>1. PICK m \in Mails : m = proc[Executor].mail
    BY <1>p DEF Repair, At, Typed, StepFacts
<1>2. /\ ViewHolds(Executor) /\ RowConsistent(m)
      /\ view.status \in {"leased", "calling_provider", "retry_wait"} /\ view \in Rows
      /\ outbox[m] \in Rows /\ proc[Executor].at \in Fenced
    BY <1>p DEF Repair, At, Fenced, Fences, ActorHolds, Typed, TypeOK, StepFacts, ProcRows
<1>3. CASE view.status = "calling_provider"
    <2>1. TransitionOrMiss(proc[Executor].mail, view, "unknown", "none", "none")
          /\ Become(Executor, Idle) /\ UNCHANGED <<challenge, calls>>
        BY <1>3 DEF Repair
    <2> QED BY <1>p, <1>2, <1>3, <2>1, LastWrite DEF Statuses, Terminal
<1>4. CASE view.status # "calling_provider"
    <2> DEFINE back == [outbox[m] EXCEPT !.status = "pending", !.owner = NoOwner,
                                         !.version = outbox[m].version + 1, !.lease = "none"]
               kept == [outbox[m] EXCEPT !.lease = "none"]
    <2>1. /\ \A o \in Mails : o # m => outbox'[o] = outbox[o]
          /\ \/ outbox'[m] = outbox[m]
             \/ outbox'[m] = kept
             \/ /\ outbox'[m] = back
                /\ view.status = "leased" \/ ~ view.sent
                /\ outbox[m].status = view.status /\ outbox[m].version = view.version
        BY <1>1, <1>4 DEF Repair, Typed, TypeOK
    <2>2. /\ kept.status = outbox[m].status /\ kept.version = outbox[m].version
          /\ kept.pool = outbox[m].pool /\ kept.user = outbox[m].user
          /\ kept.sent = outbox[m].sent /\ kept.body = outbox[m].body /\ kept.ref = outbox[m].ref
          /\ kept.period = outbox[m].period /\ kept.intent = outbox[m].intent
          /\ back.status = "pending" /\ back.version = outbox[m].version + 1
          /\ back.pool = outbox[m].pool /\ back.user = outbox[m].user
          /\ back.sent = outbox[m].sent /\ back.body = outbox[m].body /\ back.ref = outbox[m].ref
          /\ back.period = outbox[m].period /\ back.intent = outbox[m].intent
          /\ outbox[m].version \in Nat
        BY <1>2 DEF Rows
    <2> HIDE DEF back, kept
    <2>3. outbox'[m] = back => ~ outbox[m].sent /\ outbox[m].status \in {"leased", "retry_wait"}
        <3>0. CASE outbox'[m] = outbox[m] \/ outbox'[m] = kept
            <4>1. outbox'[m].version = outbox[m].version
                BY <2>2, <3>0
            <4> QED BY <2>2, <4>1
        <3>1. CASE view.status = "leased" /\ outbox[m].status = view.status
            BY <1>2, <3>1 DEF RowConsistent, Unsent
        <3>2. CASE /\ view.status = "retry_wait" /\ ~ view.sent
                   /\ outbox[m].status = view.status /\ outbox[m].version = view.version
            BY <1>1, <1>2, <3>2 DEF ViewHolds
        <3>3. \/ outbox'[m] = outbox[m] \/ outbox'[m] = kept
              \/ /\ view.status = "leased" \/ ~ view.sent
                 /\ outbox[m].status = view.status /\ outbox[m].version = view.version
            BY <2>1
        <3> QED BY <1>2, <1>4, <3>0, <3>1, <3>2, <3>3
    <2>4. RowConsistent(m)' /\ RowEvolves(m) /\ outbox'[m].ref = outbox[m].ref
        <3>1. CASE outbox'[m] = outbox[m]
            BY <3>1, RowStays
        <3>2. CASE outbox'[m] = kept
            BY <1>2, <2>2, <3>2 DEF RowConsistent, RowEvolves
        <3>3. CASE outbox'[m] = back
            BY <1>2, <2>2, <2>3, <3>3 DEF RowConsistent, RowEvolves, Unsent, Waiting, Terminal
        <3> QED BY <2>1, <3>1, <3>2, <3>3
    <2>5. \A o \in Mails : RowConsistent(o)' /\ RowEvolves(o) /\ outbox'[o].ref = outbox[o].ref
        BY <2>1, <2>4, RowStays
    <2> QED BY <1>p, <2>5, IdleReadsWell, WriteStep DEF Repair
<1> QED BY <1>3, <1>4

LEMMA ReleaseEvolves ==
    ASSUME Typed, Typed', Fences, ReleaseOld
    PROVE  Evolution({Executor})
<1> DEFINE s == proc[Executor]
<1>p. Executor \in Procs /\ s \in ProcRows /\ s.at = "release"
    BY DEF Procs, ReleaseOld, At, Typed, TypeOK
<1>1. PICK m \in Mails : m = s.mail
    BY <1>p DEF Typed, StepFacts
<1>2. /\ ViewHolds(Executor) /\ RowConsistent(m) /\ outbox[m] \in Rows
      /\ s.view.status \in Waiting /\ \A o \in s.todo : Created(o)
    BY <1>p DEF Fenced, Fences, ActorHolds, Typed, TypeOK, StepFacts
<1> DEFINE new == [outbox[m] EXCEPT !.period = Unreserved, !.status = "pending",
                       !.version = outbox[m].version + 1, !.owner = NoOwner, !.lease = "none"]
           next == [s EXCEPT !.at = "refetch"]
<1>3. next.at = "refetch" /\ next.todo = s.todo
    BY <1>p DEF ProcRows
<1> HIDE DEF next
<1>4. /\ \A o \in Mails : o # m => outbox'[o] = outbox[o]
      /\ Become(Executor, Idle) \/ Become(Executor, next)
      /\ \/ outbox'[m] = outbox[m]
         \/ outbox'[m] = new /\ ~ outbox[m].sent /\ outbox[m].status = s.view.status
    <2> DEFINE admitted == SameIdentity(s.mail, s.view) /\ SourceLeft(Charged(s.view), "reserved")
    <2>1. CASE admitted
        <3>1. outbox' = [outbox EXCEPT ![m].period = Unreserved, ![m].status = "pending",
                  ![m].version = outbox[m].version + 1, ![m].owner = NoOwner, ![m].lease = "none"]
              /\ Become(Executor, next)
            BY <1>1, <2>1 DEF ReleaseOld, next
        <3>2. ~ outbox[m].sent /\ outbox[m].status = s.view.status
            BY <1>1, <2>1 DEF SameIdentity, SameLease
        <3> QED BY <3>1, <3>2 DEF Typed, TypeOK
    <2>2. CASE ~ admitted
        <3>1. Missed /\ Become(Executor, Idle)
            BY <2>2 DEF ReleaseOld
        <3>2. outbox' = outbox
            BY <3>1 DEF Missed
        <3> HIDE DEF new
        <3> QED BY <3>1, <3>2
    <2> QED BY <2>1, <2>2
<1>5. /\ new.status = "pending" /\ new.version = outbox[m].version + 1
      /\ new.pool = outbox[m].pool /\ new.user = outbox[m].user
      /\ new.sent = outbox[m].sent /\ new.body = outbox[m].body /\ new.ref = outbox[m].ref
      /\ new.period = Unreserved /\ new.intent = outbox[m].intent
      /\ outbox[m].version \in Nat
    BY <1>2 DEF Rows
<1> HIDE DEF new
<1>6. RowConsistent(m)' /\ RowEvolves(m) /\ outbox'[m].ref = outbox[m].ref
    <2>1. CASE outbox'[m] = outbox[m]
        BY <2>1, RowStays
    <2>2. CASE outbox'[m] = new /\ ~ outbox[m].sent /\ outbox[m].status = s.view.status
        <3>1. outbox[m].status \in Waiting
            BY <1>2, <2>2
        <3>2. RowConsistent(m)'
            BY <1>1, <1>2, <1>5, <2>2, <3>1 DEF RowConsistent, ViewHolds, Unsent, Waiting
        <3>3. outbox[m].status \notin Terminal /\ outbox'[m].status = "pending"
            BY <1>5, <2>2, <3>1 DEF Waiting, Terminal
        <3>4. RowEvolves(m)
            BY <1>5, <2>2, <3>3 DEF RowEvolves
        <3> QED BY <1>5, <2>2, <3>2, <3>4
    <2> QED BY <1>4, <2>1, <2>2
<1>7. \A o \in Mails : RowConsistent(o)' /\ RowEvolves(o) /\ outbox'[o].ref = outbox[o].ref
    BY <1>4, <1>6, RowStays
<1>8. /\ \A q \in Procs \ {Executor} : proc'[q] = proc[q]
      /\ ReadsWell(Executor) /\ ~ Creator(Executor)' /\ proc'[Executor].at # "call"
    BY <1>p, <1>2, <1>3, <1>4, IdleReadsWell, Becomes DEF ReadsWell, Creator, Fenced
<1> QED BY <1>p, <1>7, <1>8, WriteStep DEF ReleaseOld

LEMMA RefetchEvolves ==
    ASSUME Typed, Typed', Fences, Refetch
    PROVE  Evolution({Executor})
<1> DEFINE s == proc[Executor]
<1>p. Executor \in Procs /\ s \in ProcRows /\ s.at = "refetch"
    BY DEF Procs, Refetch, At, Typed, TypeOK
<1>1. PICK m \in Mails : m = s.mail
    BY <1>p DEF Typed, StepFacts
<1> DEFINE row == outbox[m]
           over == [s EXCEPT !.at = "withdraw", !.view = row]
           again == [s EXCEPT !.at = "rereserve", !.view = row, !.intent = IntentFor(row)]
<1>2. /\ over.at = "withdraw" /\ over.mail = m /\ over.view = row /\ over.todo = s.todo
      /\ again.at = "rereserve" /\ again.mail = m /\ again.view = row /\ again.todo = s.todo
    BY <1>p, <1>1 DEF ProcRows
<1>3. /\ UNCHANGED <<outbox, challenge, calls>>
      /\ \/ Become(Executor, Idle)
         \/ row.status = "pending" /\ IntentOver(m) /\ Become(Executor, over)
         \/ row.status = "pending" /\ Become(Executor, again)
    BY <1>1 DEF Refetch, NoWrite
<1> HIDE DEF over, again
<1>4. \A o \in s.todo : Created(o)
    BY <1>p DEF Fences, ActorHolds
<1>5. CASE Become(Executor, Idle)
    BY <1>p, <1>3, <1>5, IdleReadsWell, QuietStep
<1>6. CASE row.status = "pending" /\ IntentOver(m) /\ Become(Executor, over)
    BY <1>p, <1>2, <1>3, <1>4, <1>6, OverIsCreated, ReadStep
<1>7. CASE row.status = "pending" /\ Become(Executor, again)
    BY <1>p, <1>2, <1>3, <1>4, <1>7, ReadStep
<1> QED BY <1>3, <1>5, <1>6, <1>7

LEMMA RereserveEvolves ==
    ASSUME Typed, Typed', Fences, Rereserve
    PROVE  Evolution({Executor})
<1> DEFINE s == proc[Executor]
<1>p. Executor \in Procs /\ s \in ProcRows /\ s.at = "rereserve" /\ StepFacts(s)
    BY DEF Procs, Rereserve, At, Typed, TypeOK
<1>1. PICK m \in Mails : m = s.mail
    BY <1>p DEF StepFacts
<1>2. /\ ViewHolds(Executor) /\ RowConsistent(m) /\ outbox[m] \in Rows
      /\ PoolOf(s.intent) = s.view.pool
    BY <1>p DEF Fenced, Fences, ActorHolds, Typed, TypeOK, StepFacts
<1> DEFINE new == [outbox[m] EXCEPT !.period = s.day, !.intent = s.intent,
                                    !.version = outbox[m].version + 1]
<1>4. /\ \A o \in Mails : o # m => outbox'[o] = outbox[o]
      /\ \/ outbox'[m] = outbox[m]
         \/ outbox'[m] = new /\ ~ outbox[m].sent /\ outbox[m].status = s.view.status
    <2> DEFINE admitted == SameIdentity(s.mail, s.view)
                           /\ HasCapacity(ledger, s.intent, s.day, s.view.user)
    <2>1. CASE admitted
        <3>1. outbox' = [outbox EXCEPT ![m].period = s.day, ![m].intent = s.intent,
                                       ![m].version = outbox[m].version + 1]
            BY <1>1, <2>1 DEF Rereserve
        <3>2. ~ outbox[m].sent /\ outbox[m].status = s.view.status
            BY <1>1, <2>1 DEF SameIdentity, SameLease
        <3> QED BY <3>1, <3>2 DEF Typed, TypeOK
    <2>2. CASE ~ admitted
        <3>1. Missed
            BY <2>2 DEF Rereserve
        <3>2. outbox' = outbox
            BY <3>1 DEF Missed
        <3> HIDE DEF new
        <3> QED BY <3>1, <3>2
    <2> QED BY <2>1, <2>2
<1>5. /\ new.status = outbox[m].status /\ new.version = outbox[m].version + 1
      /\ new.pool = outbox[m].pool /\ new.user = outbox[m].user
      /\ new.sent = outbox[m].sent /\ new.body = outbox[m].body /\ new.ref = outbox[m].ref
      /\ new.intent = s.intent /\ outbox[m].version \in Nat
    BY <1>2 DEF Rows
<1> HIDE DEF new
<1>6. RowConsistent(m)' /\ RowEvolves(m) /\ outbox'[m].ref = outbox[m].ref
    <2>1. CASE outbox'[m] = outbox[m]
        BY <2>1, RowStays
    <2>2. CASE outbox'[m] = new /\ ~ outbox[m].sent /\ outbox[m].status = s.view.status
        <3>1. outbox[m].status = "pending"
            BY <1>p, <2>2 DEF StepFacts
        <3>2. RowConsistent(m)'
            BY <1>1, <1>2, <1>5, <2>2, <3>1 DEF RowConsistent, ViewHolds, Unsent, Waiting
        <3>3. outbox[m].status \notin Terminal /\ outbox'[m].status = "pending"
            BY <1>5, <2>2, <3>1 DEF Waiting, Terminal
        <3>4. RowEvolves(m)
            BY <1>5, <2>2, <3>3 DEF RowEvolves
        <3> QED BY <1>5, <2>2, <3>2, <3>4
    <2> QED BY <1>4, <2>1, <2>2
<1>7. \A o \in Mails : RowConsistent(o)' /\ RowEvolves(o) /\ outbox'[o].ref = outbox[o].ref
    BY <1>4, <1>6, RowStays
<1> QED BY <1>p, <1>7, IdleReadsWell, WriteStep DEF Rereserve

LEMMA ApproveEvolves ==
    ASSUME Typed, Typed', Fences, NEW m \in Mails, ApproveDispatch(m)
    PROVE  Evolution({Executor})
<1> DEFINE s == proc[Executor]
           new == NewRow(PoolOf(s.intent), s.intent, s.user, Self, 0, s.day)
<1>p. Executor \in Procs
    BY DEF Procs
<1>1. /\ outbox[m].status = "absent" /\ Become(Executor, Idle) /\ UNCHANGED <<challenge, calls>>
      /\ \A o \in Mails : o # m => outbox'[o] = outbox[o]
      /\ outbox'[m] = outbox[m] \/ outbox'[m] = new
    BY DEF ApproveDispatch, AbsentMails, Missed, Typed, TypeOK
<1>2. /\ new.status = "pending" /\ ~ new.sent /\ ~ new.body
      /\ new.pool = PoolOf(s.intent) /\ new.intent = s.intent
    BY DEF NewRow
<1> HIDE DEF new
<1>3. RowConsistent(m)' /\ RowEvolves(m)
    BY <1>1, <1>2, RowStays DEF RowConsistent, RowEvolves, Unsent, Waiting
<1>4. \A o \in Mails : /\ RowConsistent(o)' /\ RowEvolves(o)
                       /\ outbox[o].status # "absent" => outbox'[o].ref = outbox[o].ref
    BY <1>1, <1>3, RowStays
<1> QED BY <1>p, <1>1, <1>4, IdleReadsWell, WriteStep

LEMMA ExecutorEvolves ==
    ASSUME Typed, Typed', Fences, ExecutorStep
    PROVE  Evolution({Executor})
<1>p. Executor \in Procs
    BY DEF Procs
<1> DEFINE s == proc[Executor]
<1>0. "expired" \in Statuses
    BY DEF Statuses, Dropped
<1>1. CASE FinishRejected
    <2>1. /\ s.at = "finish" /\ Become(Executor, Idle) /\ UNCHANGED <<challenge, calls>>
          /\ TransitionOrMiss(s.mail, s.view, "expired", "none", "none")
        BY <1>1 DEF FinishRejected, At
    <2>2. s.at \in Fenced /\ s.view.status \notin Terminal
        BY <1>p, <2>1 DEF Fenced, Typed, StepFacts, Terminal
    <2> QED BY <1>p, <1>0, <2>1, <2>2, LastWrite
<1>2. CASE Withdraw
    <2>1. /\ s.at = "withdraw" /\ Become(Executor, Idle) /\ UNCHANGED <<challenge, calls>>
          /\ TransitionOrMiss(s.mail, s.view, "expired", "none", "none")
        BY <1>2 DEF Withdraw, At
    <2>2. s.at \in Fenced /\ s.view.status \notin Terminal
        BY <1>p, <2>1 DEF Fenced, Typed, StepFacts, Terminal
    <2> QED BY <1>p, <1>0, <2>1, <2>2, LastWrite
<1> QED BY <1>1, <1>2, RepairEvolves, ReleaseEvolves, RefetchEvolves, RereserveEvolves,
           ApproveEvolves DEF ExecutorStep

LEMMA PickEvolves ==
    ASSUME Typed, Typed', Fences, ExecutorPick
    PROVE  Evolution({Executor})
<1>p. Executor \in Procs
    BY DEF Procs
<1>1. ASSUME NEW m \in Mails, RepairRead(m) \/ FinishRead(m) \/ RolloverRead(m)
      PROVE  Evolution({Executor})
    <2> DEFINE dayed(at) == [Idle EXCEPT !.mail = m, !.view = outbox[m], !.day = today, !.at = at]
               plain(at) == [Idle EXCEPT !.at = at, !.mail = m, !.view = outbox[m]]
               steps == {"repair", "finish", "refetch", "release"}
               good(next) == /\ next.mail = m /\ next.view = outbox[m]
                             /\ next.todo = {} /\ next.at \in steps
    <2>0. \A at \in steps : good(dayed(at)) /\ good(plain(at))
        BY IdleTyped DEF ProcRows
    <2> HIDE DEF dayed, plain
    <2>1. PICK next : Become(Executor, next) /\ good(next)
        <3>1. CASE RepairRead(m)
            <4>1. Become(Executor, plain("repair"))
                BY <3>1 DEF RepairRead, plain
            <4> QED BY <2>0, <4>1
        <3>2. CASE FinishRead(m)
            <4>1. Become(Executor, plain("finish"))
                BY <3>2 DEF FinishRead, plain
            <4> QED BY <2>0, <4>1
        <3>3. CASE RolloverRead(m)
            <4>1. \E at \in {"refetch", "release"} : Become(Executor, dayed(at))
                BY <3>3 DEF RolloverRead, dayed
            <4> QED BY <2>0, <4>1
        <3> QED BY <1>1, <3>1, <3>2, <3>3
    <2>2. outbox[m].status # "absent" /\ UNCHANGED <<outbox, challenge, calls>>
        BY <1>1 DEF RepairRead, FinishRead, RolloverRead, NoWrite, Waiting
    <2> QED BY <1>p, <2>1, <2>2, ReadStep
<1>2. ASSUME NEW u \in Users, ProposeDispatch(u)
      PROVE  Evolution({Executor})
    <2>1. PICK intent : /\ Become(Executor, [Idle EXCEPT !.at = "approve", !.intent = intent,
                                                         !.user = u, !.day = today])
                        /\ NoWrite
        BY <1>2 DEF ProposeDispatch
    <2> DEFINE next == [Idle EXCEPT !.at = "approve", !.intent = intent, !.user = u, !.day = today]
    <2>2. next.at = "approve" /\ next.todo = {}
        BY IdleTyped DEF ProcRows
    <2> HIDE DEF next
    <2>3. proc'[Executor] = next /\ \A q \in Procs \ {Executor} : proc'[q] = proc[q]
        BY <1>p, <2>1, Becomes DEF next
    <2> QED BY <1>p, <2>1, <2>2, <2>3, QuietStep DEF ReadsWell, Creator, Fenced, NoWrite
<1> QED BY <1>1, <1>2 DEF ExecutorPick
(***************************************************************************)
(* The sweep and the receipts                                              *)
(***************************************************************************)
LEMMA ListEvolves ==
    ASSUME Typed, Typed', Fences, NEW p \in Sweepers, SweepList(p)
    PROVE  Evolution({p})
<1> DEFINE over == {c \in Challenges : challenge[c].late /\ challenge[c].born < today}
           todo == {m \in Mails : /\ outbox[m].ref \in Challenges /\ outbox[m].body
                                  /\ challenge[outbox[m].ref].late
                                  /\ challenge[outbox[m].ref].state = "open"}
<1>1. /\ Become(p, [Idle EXCEPT !.at = "sweep", !.over = over, !.todo = todo])
      /\ \A m \in todo : /\ m \in Mails /\ outbox[m].ref \in Challenges
                         /\ outbox[m].body /\ challenge[outbox[m].ref].late
      /\ UNCHANGED <<outbox, challenge, calls>>
    BY DEF SweepList, NoWrite
<1> HIDE DEF over, todo
<1> DEFINE next == [Idle EXCEPT !.at = "sweep", !.over = over, !.todo = todo]
<1>2. next.at = "sweep" /\ next.todo = todo
    BY IdleTyped DEF ProcRows
<1> HIDE DEF next
<1>3. p \in Procs /\ proc'[p] = next /\ \A q \in Procs \ {p} : proc'[q] = proc[q]
    BY <1>1, Becomes DEF Procs, next
<1>4. ASSUME NEW m \in todo
      PROVE  Created(m)
    <2>1. m \in Mails /\ IntentOver(m)
        BY <1>1 DEF IntentOver, Past
    <2>2. outbox[m].status # "absent"
        BY <1>1 DEF Fences, RowConsistent, Waiting
    <2> QED BY <2>1, <2>2, OverIsCreated
<1> QED BY <1>1, <1>2, <1>3, <1>4, QuietStep DEF ReadsWell, Creator, Fenced

LEMMA ExpireReadEvolves ==
    ASSUME Typed, Typed', Fences, NEW p \in Sweepers, NEW m \in Mails, ExpireRead(p, m)
    PROVE  Evolution({p})
<1> DEFINE s == proc[p]
           taken == [s EXCEPT !.at = "expire", !.mail = m, !.view = outbox[m], !.todo = s.todo \ {m}]
           passed == [s EXCEPT !.todo = s.todo \ {m}]
<1>p. p \in Procs /\ s \in ProcRows /\ s.at = "sweep"
    BY DEF Procs, ExpireRead, At, Typed, TypeOK
<1>1. /\ taken.at = "expire" /\ taken.mail = m /\ taken.view = outbox[m] /\ taken.todo = s.todo \ {m}
      /\ passed.at = "sweep" /\ passed.todo = s.todo \ {m}
    BY <1>p DEF ProcRows
<1>2. /\ m \in s.todo /\ UNCHANGED <<outbox, challenge, calls>>
      /\ Become(p, taken) \/ Become(p, passed)
    BY DEF ExpireRead, NoWrite
<1> HIDE DEF taken, passed
<1>3. \A o \in s.todo : Created(o)
    BY <1>p DEF Fences, ActorHolds
<1>4. CASE Become(p, taken)
    BY <1>p, <1>1, <1>2, <1>3, <1>4, ReadStep DEF Created
<1>5. CASE Become(p, passed)
    <2>1. proc'[p] = passed /\ \A q \in Procs \ {p} : proc'[q] = proc[q]
        BY <1>p, <1>5, Becomes
    <2> QED BY <1>p, <1>1, <1>2, <1>3, <2>1, QuietStep DEF ReadsWell, Creator, Fenced
<1> QED BY <1>2, <1>4, <1>5

LEMMA ExpireEvolves ==
    ASSUME Typed, Typed', Fences, NEW p \in Sweepers, Expire(p)
    PROVE  Evolution({p})
<1> DEFINE s == proc[p]
           next == [Idle EXCEPT !.at = "sweep", !.over = s.over, !.todo = s.todo]
<1>p. p \in Procs /\ s \in ProcRows /\ s.at = "expire"
    BY DEF Procs, Expire, At, Typed, TypeOK
<1>1. PICK m \in Mails : m = s.mail
    BY <1>p DEF Typed, StepFacts
<1>2. /\ outbox[m].status # "absent" /\ \A o \in s.todo : Created(o)
    BY <1>p, <1>1 DEF Fences, ActorHolds, ViewHolds, Fenced
<1>3. next.at = "sweep" /\ next.todo = s.todo
    BY IdleTyped DEF ProcRows
<1>4. /\ Become(p, next) /\ UNCHANGED <<challenge, calls>>
      /\ \/ Missed
         \/ /\ \E from : TransitionOrMiss(m, s.view, "expired", from, "none")
            /\ outbox[m].body
    BY <1>1 DEF Expire
<1> HIDE DEF next
<1>5. /\ \A o \in Mails : RowConsistent(o)' /\ RowEvolves(o)
      /\ \A o \in Mails : outbox'[o].ref = outbox[o].ref
    <2>1. CASE Missed
        BY <2>1, RowStays DEF Missed
    <2>2. CASE (\E from : TransitionOrMiss(m, s.view, "expired", from, "none")) /\ outbox[m].body
        <3>1. "expired" \in Statuses /\ outbox[m].status \notin Terminal
            BY <2>2 DEF Statuses, Dropped, Fences, RowConsistent, Waiting, Terminal
        <3> QED BY <1>2, <2>2, <3>1, TransitionOrMissEvolves
    <2> QED BY <1>4, <2>1, <2>2
<1>6. proc'[p] = next /\ \A q \in Procs \ {p} : proc'[q] = proc[q]
    BY <1>p, <1>4, Becomes
<1>7. ReadsWell(p) /\ ~ Creator(p)'
    BY <1>2, <1>3, <1>6 DEF ReadsWell, Creator, Fenced
<1> QED BY <1>p, <1>3, <1>4, <1>5, <1>6, <1>7, WriteStep

LEMMA SweepEvolves ==
    ASSUME Typed, Typed', Fences, NEW p \in Sweepers, SweepList(p) \/ SweepStep(p)
    PROVE  Evolution({p})
<1>1. CASE ForgetChallenges(p)
    <2>1. p \in Procs /\ Become(p, Idle) /\ UNCHANGED <<outbox, calls>>
        BY <1>1 DEF ForgetChallenges, Procs
    <2>2. \A c \in Challenges : \/ challenge'[c] = challenge[c]
                                \/ /\ challenge'[c].state = "deleted"
                                   /\ challenge'[c].late = challenge[c].late
        BY <1>1 DEF ForgetChallenges, Typed, TypeOK, ChallengeRows
    <2>3. \A c \in Challenges : ChallengeStays(c)
        BY <2>2 DEF ChallengeStays
    <2>4. \A m \in Mails : RowConsistent(m)' /\ RowEvolves(m) /\ RefStays({p}, m) /\ CallsStay({p}, m)
        BY <2>1, RowStays DEF RefStays, CallsStay
    <2> QED BY <2>1, <2>3, <2>4, IdleReadsWell DEF Evolution, CreatesWell, CallsWell
<1> QED BY <1>1, ListEvolves, ExpireReadEvolves, ExpireEvolves DEF SweepStep

LEMMA ConsumerEvolves ==
    ASSUME Typed, Typed', Fences, NEW p \in Consumers, ConsumerStep(p)
    PROVE  Evolution({p})
<1>p. p \in Procs
    BY DEF Procs
<1>1. ASSUME NEW m \in Mails, ReceiptRead(p, m)
      PROVE  Evolution({p})
    <2>1. PICK kind \in Receipts :
              Become(p, [Idle EXCEPT !.at = "receipt", !.mail = m, !.view = outbox[m], !.result = kind])
        BY <1>1 DEF ReceiptRead
    <2> DEFINE next == [Idle EXCEPT !.at = "receipt", !.mail = m, !.view = outbox[m], !.result = kind]
    <2>2. next.at = "receipt" /\ next.mail = m /\ next.view = outbox[m] /\ next.todo = {}
        BY IdleTyped DEF ProcRows
    <2>3. outbox[m].status # "absent" /\ UNCHANGED <<outbox, challenge, calls>> /\ Become(p, next)
        BY <1>1, <2>1 DEF ReceiptRead, NoWrite
    <2> HIDE DEF next
    <2> QED BY <1>p, <2>2, <2>3, ReadStep
<1>2. CASE Receipt(p)
    <2> DEFINE s == proc[p]
               status == IF s.result = "delivered" THEN "accepted" ELSE s.result
    <2>1. PICK m \in Mails : m = s.mail
        BY <1>p, <1>2 DEF Receipt, At, Typed, StepFacts
    <2>2. /\ outbox[m].status # "absent" /\ s.result \in Receipts
          /\ s.view.status \in {"accepted", "deferred", "unknown"}
        BY <1>p, <1>2, <2>1 DEF Receipt, At, Fences, ActorHolds, ViewHolds, Fenced, Typed, StepFacts
    <2>3. status \in Answered \union {"failed"}
        BY <2>2 DEF Receipts, Answered
    <2>4. /\ Become(p, Idle) /\ UNCHANGED <<challenge, calls>>
          /\ \/ Missed
             \/ \E delivered \in BOOLEAN : \E from :
                    Transition(m, s.view, status, from, "settled", delivered)
        <3>1. (s.result = "delivered") \in BOOLEAN
            OBVIOUS
        <3>2. \/ Missed
              \/ Transition(m, s.view, status, IF s.view.status = "unknown" THEN "uncertain" ELSE "none",
                            "settled", s.result = "delivered")
            BY <1>2, <2>1 DEF Receipt
        <3> QED BY <1>2, <3>1, <3>2 DEF Receipt
    <2> HIDE DEF status
    <2>5. /\ \A o \in Mails : RowConsistent(o)' /\ RowEvolves(o)
          /\ \A o \in Mails : outbox'[o].ref = outbox[o].ref
        <3>1. CASE Missed
            BY <3>1, RowStays DEF Missed
        <3>2. CASE ~ Missed
            <4>1. PICK delivered \in BOOLEAN :
                      \E from : Transition(m, s.view, status, from, "settled", delivered)
                BY <2>4, <3>2
            <4>2. status \in Statuses
                BY <2>3 DEF Statuses, Dropped
            <4>3. status \notin {"absent", "pending", "leased", "calling_provider", "unknown"}
                BY <2>3 DEF Answered
            <4>4. outbox[m].status \notin Terminal
                BY <2>2, <4>1 DEF Transition, CanTransition, SameLease, Terminal
            <4> QED BY <2>2, <4>1, <4>2, <4>3, <4>4, TransitionEvolves
        <3> QED BY <3>1, <3>2
    <2> QED BY <1>p, <2>4, <2>5, IdleReadsWell, WriteStep
<1> QED BY <1>1, <1>2 DEF ConsumerStep

(***************************************************************************)
(* The environment                                                         *)
(***************************************************************************)
\* A step of nobody that touches rows but neither calls nor challenges.
LEMMA NobodysStep ==
    ASSUME Typed, Fences, UNCHANGED <<proc, challenge, calls>>,
           \A m \in Mails : RowConsistent(m)' /\ RowEvolves(m),
           \A m \in Mails : outbox'[m].ref = outbox[m].ref \/ ~ Creating(m)
    PROVE  Evolution({})
BY DEF Evolution, RefStays, CallsStay, ChallengeStays

LEMMA LapseEvolves ==
    ASSUME Typed, Fences, NEW m \in Mails, LeaseLapses(m) \/ EraseMail(m)
    PROVE  Evolution({})
<1> DEFINE row == outbox[m]
           lapsed == [row EXCEPT !.lease = "lapsed"]
           erased == [row EXCEPT !.ref = NoRef, !.body = FALSE]
<1>1. row \in Rows /\ RowConsistent(m) /\ row.version \in Nat
    BY DEF Typed, TypeOK, Rows, Fences
<1>2. /\ lapsed.status = row.status /\ lapsed.pool = row.pool /\ lapsed.user = row.user
      /\ lapsed.version = row.version /\ lapsed.sent = row.sent /\ lapsed.body = row.body
      /\ lapsed.period = row.period /\ lapsed.intent = row.intent /\ lapsed.ref = row.ref
      /\ erased.status = row.status /\ erased.pool = row.pool /\ erased.user = row.user
      /\ erased.version = row.version /\ erased.sent = row.sent /\ ~ erased.body
      /\ erased.period = row.period /\ erased.intent = row.intent
    BY <1>1 DEF Rows
<1>3. /\ UNCHANGED <<proc, challenge, calls>> /\ \A o \in Mails : o # m => outbox'[o] = outbox[o]
      /\ \/ outbox'[m] = lapsed
         \/ outbox'[m] = erased /\ ~ Creating(m)
    BY DEF LeaseLapses, EraseMail, Typed, TypeOK
<1> HIDE DEF lapsed, erased
<1>4. RowConsistent(m)' /\ RowEvolves(m)
    BY <1>1, <1>2, <1>3 DEF RowConsistent, RowEvolves
<1>5. \A o \in Mails : RowConsistent(o)' /\ RowEvolves(o)
    BY <1>3, <1>4, RowStays
<1>6. \A o \in Mails : outbox'[o].ref = outbox[o].ref \/ ~ Creating(o)
    BY <1>2, <1>3
<1> QED BY <1>3, <1>5, <1>6, NobodysStep

LEMMA ChallengeMoves ==
    ASSUME Typed, Fences, NEW c \in Challenges, DeadlinePasses(c) \/ Consume(c)
    PROVE  Evolution({})
<1>1. UNCHANGED <<outbox, proc, calls>>
    BY DEF DeadlinePasses, Consume
<1>2. \A d \in Challenges : ChallengeStays(d)
    <2>1. CASE Consume(c)
        <3>1. \A d \in Challenges : \/ challenge'[d] = challenge[d]
                                    \/ /\ challenge'[d].state = "consumed"
                                       /\ challenge'[d].late = challenge[d].late
            BY <2>1 DEF Consume, Typed, TypeOK, ChallengeRows
        <3> QED BY <3>1 DEF ChallengeStays
    <2>2. CASE DeadlinePasses(c)
        <3>1. \A d \in Challenges : \/ challenge'[d] = challenge[d]
                                    \/ d = c /\ challenge'[d].state = challenge[d].state
            BY <2>2 DEF DeadlinePasses, Typed, TypeOK, ChallengeRows
        <3>2. ASSUME NEW p \in Requests, Creator(p)
              PROVE  proc[p].ref # c
            <4>1. proc[p].mail \in Mails /\ Creating(proc[p].mail)
                BY <3>2 DEF Creator, Creating, Typed, StepFacts, Procs
            <4>2. outbox[proc[p].mail].ref = proc[p].ref
                BY <3>2 DEF Fences, CreatorHolds, Creator
            <4> QED BY <2>2, <4>1, <4>2 DEF DeadlinePasses
        <3> QED BY <3>1, <3>2 DEF ChallengeStays
    <2> QED BY <2>1, <2>2
<1> QED BY <1>1, <1>2, RowStays DEF Evolution, RefStays, CallsStay

\* The environment's steps are nobody's, except a crash, which is its victim's.
LEMMA EnvironmentEvolves ==
    ASSUME Typed, Typed', Fences, Environment
    PROVE  \/ Evolution({})
           \/ \E p \in Procs : Evolution({p})
<1>1. ASSUME NEW p \in MayCrash, Crash(p)
      PROVE  p \in Procs /\ Evolution({p})
    <2>1. p \in Procs /\ Become(p, Idle) /\ UNCHANGED <<outbox, challenge, calls>>
        BY <1>1, ActorsAssumption DEF Crash, NoWrite
    <2> QED BY <2>1, IdleReadsWell, QuietStep
<1>2. ASSUME UNCHANGED <<outbox, proc, challenge, calls>>
      PROVE  Evolution({})
    BY <1>2, RowStays, NobodysStep
<1>3. CASE NextDay \/ (\E m \in Mails : StandingMoves(m)) \/ (\E g \in MovableGates : Toggle(g))
    BY <1>2, <1>3 DEF NextDay, StandingMoves, Toggle
<1> QED BY <1>1, <1>3, LapseEvolves, ChallengeMoves DEF Environment

(***************************************************************************)
(* Counting                                                                *)
(***************************************************************************)
LEMMA CountChanged ==
    ASSUME NEW S, NEW T, NEW x, IsFiniteSet(S), T \ {x} = S \ {x}
    PROVE  /\ Cardinality(S) \in Nat /\ Cardinality(T) \in Nat
           /\ Cardinality(T) = Cardinality(S) + (IF x \in T THEN 1 ELSE 0) - (IF x \in S THEN 1 ELSE 0)
<1> DEFINE R == S \ {x}
<1>1. IsFiniteSet(R) /\ Cardinality(R) = Cardinality(S) - (IF x \in S THEN 1 ELSE 0)
    <2>1. Cardinality(S) \in Nat
        BY FS_CardinalityType
    <2> QED BY <2>1, FS_RemoveElement
<1>2. CASE x \in T
    <2>1. T = R \union {x} /\ x \notin R
        BY <1>2
    <2>2. IsFiniteSet(T) /\ Cardinality(T) = Cardinality(R) + 1
        BY <1>1, <2>1, FS_AddElement
    <2>3. Cardinality(S) \in Nat /\ Cardinality(T) \in Nat
        BY <2>2, FS_CardinalityType
    <2> QED BY <1>1, <1>2, <2>2, <2>3
<1>3. CASE x \notin T
    <2>1. T = R
        BY <1>3
    <2>2. Cardinality(S) \in Nat /\ Cardinality(T) \in Nat
        BY <1>1, <2>1, FS_CardinalityType
    <2> QED BY <1>1, <1>3, <2>1, <2>2
<1> QED BY <1>2, <1>3

\* One row changes: its unit leaves its column and enters another.
LEMMA RowChanged ==
    ASSUME NEW m \in Mails, \A o \in Mails \ {m} : outbox'[o] = outbox[o], NEW c, NEW a
    PROVE  Units(c, a)' = Units(c, a) + (IF InColumn(outbox'[m], c, a) THEN 1 ELSE 0)
                                      - (IF InColumn(outbox[m], c, a) THEN 1 ELSE 0)
<1> DEFINE S == {o \in Mails : InColumn(outbox[o], c, a)}
           T == {o \in Mails : InColumn(outbox'[o], c, a)}
<1>1. IsFiniteSet(S)
    BY ActorsAssumption, FS_Subset
<1>2. T \ {m} = S \ {m}
    OBVIOUS
<1>3. Cardinality(T) = Cardinality(S) + (IF m \in T THEN 1 ELSE 0) - (IF m \in S THEN 1 ELSE 0)
    <2> HIDE DEF S, T
    <2> QED BY <1>1, <1>2, CountChanged
<1> QED BY <1>3 DEF Units, UnitsIn

LEMMA RecountAgrees ==
    ASSUME Typed, LedgerAgrees, NEW m \in Mails, \A o \in Mails \ {m} : outbox'[o] = outbox[o],
           \A c \in Columns, a \in Accounts :
               ledger'[c][a] = ledger[c][a] + (IF InColumn(outbox'[m], c, a) THEN 1 ELSE 0)
                                            - (IF InColumn(outbox[m], c, a) THEN 1 ELSE 0)
    PROVE  LedgerAgrees'
<1> SUFFICES ASSUME NEW c \in Columns, NEW a \in Accounts
             PROVE  ledger'[c][a] = Units(c, a)'
    BY DEF LedgerAgrees
<1>1. ledger[c][a] = Units(c, a)
    BY DEF LedgerAgrees
<1> QED BY <1>1, RowChanged

\* The unit of a mail moves with it.
LEMMA MoveAgrees ==
    ASSUME Typed, LedgerAgrees, NEW m \in Mails, \A o \in Mails \ {m} : outbox'[o] = outbox[o],
           NEW accounts, NEW from, NEW to,
           ColumnOf(outbox[m]) = from, from \in Columns => Charged(outbox[m]) = accounts,
           ColumnOf(outbox'[m]) = to, to \in Columns => Charged(outbox'[m]) = accounts,
           ledger' = Move(ledger, accounts, from, to)
    PROVE  LedgerAgrees'
<1>1. ASSUME NEW c \in Columns, NEW a \in Accounts
      PROVE  ledger'[c][a] = ledger[c][a] + (IF InColumn(outbox'[m], c, a) THEN 1 ELSE 0)
                                          - (IF InColumn(outbox[m], c, a) THEN 1 ELSE 0)
    <2>1. ledger'[c][a] = ledger[c][a] + (IF a \in accounts /\ c = to THEN 1 ELSE 0)
                                       - (IF a \in accounts /\ c = from THEN 1 ELSE 0)
        BY MoveAt DEF Typed, TypeOK
    <2>2. /\ InColumn(outbox'[m], c, a) <=> a \in accounts /\ c = to
          /\ InColumn(outbox[m], c, a) <=> a \in accounts /\ c = from
        BY DEF InColumn
    <2> QED BY <2>1, <2>2
<1> QED BY <1>1, RecountAgrees

\* A mail whose unit stays where it is.
LEMMA StayAgrees ==
    ASSUME Typed, LedgerAgrees, NEW m \in Mails, \A o \in Mails \ {m} : outbox'[o] = outbox[o],
           ColumnOf(outbox'[m]) = ColumnOf(outbox[m]),
           ColumnOf(outbox[m]) \in Columns => Charged(outbox'[m]) = Charged(outbox[m]),
           UNCHANGED ledger
    PROVE  LedgerAgrees'
<1>1. ASSUME NEW c \in Columns, NEW a \in Accounts
      PROVE  ledger'[c][a] = ledger[c][a] + (IF InColumn(outbox'[m], c, a) THEN 1 ELSE 0)
                                          - (IF InColumn(outbox[m], c, a) THEN 1 ELSE 0)
    <2>1. InColumn(outbox'[m], c, a) <=> InColumn(outbox[m], c, a)
        BY DEF InColumn
    <2>2. ledger'[c][a] = ledger[c][a] /\ ledger[c][a] \in Int
        BY DEF Typed, TypeOK, Ledgers
    <2> QED BY <2>1, <2>2
<1> QED BY <1>1, RecountAgrees

LEMMA NoWriteAgrees ==
    ASSUME LedgerAgrees, UNCHANGED <<outbox, ledger>>
    PROVE  LedgerAgrees'
BY DEF LedgerAgrees, Units, UnitsIn

\* A row that keeps what the ledger knows of it.
LEMMA SameUnit ==
    ASSUME NEW row, NEW new, new.pool = row.pool, new.user = row.user, new.period = row.period,
           new.sent = row.sent,
           \/ new.status = row.status
           \/ row.status \in Waiting /\ new.status \in Waiting
    PROVE  ColumnOf(new) = ColumnOf(row) /\ Charged(new) = Charged(row)
BY DEF ColumnOf, Charged, Waiting

(***************************************************************************)
(* transitionMail                                                          *)
(***************************************************************************)
LEMMA AfterUnit ==
    ASSUME NEW row \in Rows, NEW status, NEW delivered
    PROVE  /\ Charged(After(row, status, delivered)) = Charged(row)
           /\ ColumnOf(After(row, status, delivered)) =
                  IF row.period = Unreserved THEN "none"
                  ELSE IF row.sent \/ status = "calling_provider"
                  THEN IF status \in {"calling_provider", "unknown"} THEN "uncertain" ELSE "settled"
                  ELSE IF status \in Waiting THEN "reserved" ELSE "none"
<1> DEFINE new == After(row, status, delivered)
<1>1. /\ new.pool = row.pool /\ new.period = row.period /\ new.user = row.user
      /\ new.status = status
      /\ new.sent = (row.sent \/ status = "calling_provider")
    BY DEF After, Rows
<1> HIDE DEF new
<1>2. /\ Charged(new) = Charged(row)
      /\ ColumnOf(new) =
             IF row.period = Unreserved THEN "none"
             ELSE IF row.sent \/ status = "calling_provider"
             THEN IF status \in {"calling_provider", "unknown"} THEN "uncertain" ELSE "settled"
             ELSE IF status \in Waiting THEN "reserved" ELSE "none"
    BY <1>1 DEF Charged, ColumnOf
<1> QED BY <1>2 DEF new

LEMMA TransitionAgrees ==
    ASSUME Typed, LedgerAgrees, NEW m \in Mails, NEW view, NEW status, NEW from, NEW to,
           NEW delivered, Transition(m, view, status, from, to, delivered),
           from # "none" => ColumnOf(outbox[m]) = from /\ Charged(view) = Charged(outbox[m]),
           ColumnOf(After(outbox[m], status, delivered)) =
               IF from = "none" THEN ColumnOf(outbox[m]) ELSE to
    PROVE  LedgerAgrees'
<1> DEFINE new == After(outbox[m], status, delivered)
<1>1. outbox'[m] = new /\ \A o \in Mails \ {m} : outbox'[o] = outbox[o]
    BY DEF Transition, Typed, TypeOK
<1>2. Charged(new) = Charged(outbox[m])
    BY AfterUnit DEF Typed, TypeOK
<1> HIDE DEF new
<1>3. CASE from = "none"
    <2>1. UNCHANGED ledger
        BY <1>3 DEF Transition
    <2> QED BY <1>1, <1>2, <1>3, <2>1, StayAgrees DEF new
<1>4. CASE from # "none"
    <2>1. ledger' = Move(ledger, Charged(view), from, to)
        BY <1>4 DEF Transition
    <2> QED BY <1>1, <1>2, <1>4, <2>1, MoveAgrees DEF new
<1> QED BY <1>3, <1>4

\* A guarded write that takes a unit from a column takes the row's own.
LEMMA OwnUnit ==
    ASSUME Typed, NEW p \in Procs, proc[p].mail \in Mails, ViewHolds(p),
           SameLease(proc[p].mail, proc[p].view), NEW from, from # "none",
           SourceLeft(Charged(proc[p].view), from)
    PROVE  /\ Charged(proc[p].view) = Charged(outbox[proc[p].mail])
           /\ outbox[proc[p].mail].period # Unreserved
BY ChargedToDay DEF ViewHolds, SameLease, Charged

\* A guarded write that leaves the unit in its column.
LEMMA StaysAgrees ==
    ASSUME Typed, Fences, LedgerAgrees, NEW p \in Procs, proc[p].at \in Fenced,
           NEW status, NEW to, NEW delivered, NEW row, row = outbox[proc[p].mail],
           Transition(proc[p].mail, proc[p].view, status, "none", to, delivered),
           \/ row.period = Unreserved
           \/ row.status = "calling_provider" /\ status = "unknown"
           \/ ~ row.sent /\ row.status \in Waiting /\ status = "retry_wait"
           \/ row.sent /\ row.status \notin {"calling_provider", "unknown"}
                       /\ status \notin {"calling_provider", "unknown"}
           \/ ~ row.sent /\ row.status \notin Waiting
                         /\ status \notin Waiting \union {"calling_provider"}
    PROVE  LedgerAgrees'
<1>1. PICK m \in Mails : m = proc[p].mail
    BY DEF Typed, StepFacts, Fenced
<1>2. RowConsistent(m) /\ row \in Rows /\ row = outbox[m]
    BY <1>1 DEF Fences, Typed, TypeOK
<1> DEFINE new == After(outbox[m], status, delivered)
<1>3. ColumnOf(new) = IF row.period = Unreserved THEN "none"
                      ELSE IF row.sent \/ status = "calling_provider"
                      THEN IF status \in {"calling_provider", "unknown"} THEN "uncertain" ELSE "settled"
                      ELSE IF status \in Waiting THEN "reserved" ELSE "none"
    BY <1>2, AfterUnit
<1> HIDE DEF new
<1>4. ColumnOf(new) = ColumnOf(row)
    BY <1>2, <1>3 DEF ColumnOf, RowConsistent, Waiting
<1> QED BY <1>1, <1>2, <1>4, TransitionAgrees DEF new

\* One that takes the unit out of its column.
LEMMA TakesAgrees ==
    ASSUME Typed, Fences, LedgerAgrees, NEW p \in Procs, proc[p].at \in Fenced,
           NEW status, NEW from, NEW to, NEW delivered, NEW row, row = outbox[proc[p].mail],
           Transition(proc[p].mail, proc[p].view, status, from, to, delivered),
           \/ /\ from = "reserved" /\ row.status \in Waiting /\ ~ row.sent
              /\ \/ to = "none" /\ status \notin Waiting \union {"calling_provider"}
                 \/ to = "uncertain" /\ status = "calling_provider"
           \/ /\ from = "uncertain" /\ to = "settled"
              /\ row.status \in {"calling_provider", "unknown"}
              /\ status \notin {"calling_provider", "unknown"}
    PROVE  LedgerAgrees'
<1>1. PICK m \in Mails : m = proc[p].mail
    BY DEF Typed, StepFacts, Fenced
<1>2. ViewHolds(p) /\ RowConsistent(m) /\ row \in Rows /\ row = outbox[m] /\ from # "none"
    BY <1>1 DEF Fences, ActorHolds, Typed, TypeOK
<1>3. SameLease(m, proc[p].view) /\ SourceLeft(Charged(proc[p].view), from)
    BY <1>1 DEF Transition, CanTransition
<1>4. Charged(proc[p].view) = Charged(row) /\ row.period # Unreserved
    BY <1>1, <1>2, <1>3, OwnUnit
<1> DEFINE new == After(outbox[m], status, delivered)
<1>5. ColumnOf(new) = IF row.period = Unreserved THEN "none"
                      ELSE IF row.sent \/ status = "calling_provider"
                      THEN IF status \in {"calling_provider", "unknown"} THEN "uncertain" ELSE "settled"
                      ELSE IF status \in Waiting THEN "reserved" ELSE "none"
    BY <1>2, AfterUnit
<1> HIDE DEF new
<1>6. ColumnOf(row) = from /\ ColumnOf(new) = to
    BY <1>2, <1>4, <1>5 DEF ColumnOf, RowConsistent, Waiting
<1> QED BY <1>1, <1>2, <1>4, <1>6, TransitionAgrees DEF new

(***************************************************************************)
(* Requests                                                                *)
(***************************************************************************)
\* A fresh row, unreserved or charged to a day.
LEMMA NewRowUnit ==
    ASSUME NEW pool, NEW intent, NEW user, NEW ref, NEW gen, NEW period
    PROVE  LET new == NewRow(pool, intent, user, ref, gen, period)
           IN  /\ ColumnOf(new) = IF period = Unreserved THEN "none" ELSE "reserved"
               /\ Charged(new) = ChargedRows(pool, period, user)
BY DEF NewRow, ColumnOf, Charged, Waiting

LEMMA AbsentUnit ==
    ASSUME Fences, NEW m \in Mails, outbox[m].status = "absent"
    PROVE  ColumnOf(outbox[m]) = "none"
BY DEF Fences, RowConsistent, ColumnOf, Waiting

LEMMA CreateAgrees ==
    ASSUME Typed, Fences, LedgerAgrees, NEW p \in Requests, NEW c \in Challenges, NEW m \in Mails,
           CreateChallenge(p, c, m)
    PROVE  LedgerAgrees'
<1>1. PICK intent, user : \E purpose : OpenChallenge(p, c, m, intent, purpose, user)
    BY DEF CreateChallenge
<1> DEFINE row == NewRow(PoolOf(intent), intent, user, c, 0, Unreserved)
<1>2. /\ outbox[m].status = "absent" /\ outbox'[m] = row /\ UNCHANGED ledger
      /\ \A o \in Mails \ {m} : outbox'[o] = outbox[o]
    BY <1>1 DEF OpenChallenge, AbsentMails, Typed, TypeOK
<1>3. ColumnOf(row) = "none"
    BY NewRowUnit
<1> HIDE DEF row
<1> QED BY <1>2, <1>3, AbsentUnit, StayAgrees DEF Columns

LEMMA ReserveAgrees ==
    ASSUME Typed, Fences, LedgerAgrees, NEW p \in Requests, ReserveBudget(p)
    PROVE  LedgerAgrees'
<1> DEFINE s == proc[p]
           m == s.mail
           row == outbox[m]
           new == [row EXCEPT !.period = s.day, !.intent = s.intent]
           admitted == /\ HasCapacity(ledger, s.intent, s.day, NoUser)
                       /\ row.period = Unreserved
                       /\ row.status \in Unsent
<1>1. /\ m \in Mails /\ row \in Rows /\ RowConsistent(m) /\ row.pool = PoolOf(s.intent)
      /\ PoolOf(s.intent) \in AuthPools /\ s.day \in Days
    BY DEF ReserveBudget, At, Procs, Typed, TypeOK, StepFacts, ProcRows, Fences, CreatorHolds
<1>2. CASE admitted
    <2>1. outbox' = [outbox EXCEPT ![m].period = s.day, ![m].intent = s.intent]
          /\ ledger' = Reserve(ledger, PoolOf(s.intent), s.day, NoUser)
        BY <1>2 DEF ReserveBudget
    <2>2. outbox'[m] = new /\ \A o \in Mails \ {m} : outbox'[o] = outbox[o]
        BY <1>1, <2>1 DEF Typed, TypeOK
    <2>3. /\ new.pool = row.pool /\ new.user = row.user /\ new.sent = row.sent
          /\ new.status = row.status /\ new.period = s.day
        BY <1>1 DEF Rows
    <2> HIDE DEF new
    <2>4. ColumnOf(row) = "none" /\ ColumnOf(new) = "reserved"
        BY <1>1, <1>2, <2>3, LimitsAssumption
        DEF ColumnOf, RowConsistent, Unsent, Waiting, Unreserved, Days
    <2>5. Charged(new) = ChargedRows(PoolOf(s.intent), s.day, NoUser)
        BY <1>1, <2>3 DEF Charged, ChargedRows
    <2> QED BY <1>1, <2>1, <2>2, <2>4, <2>5, MoveAgrees DEF Reserve, Columns
<1>3. CASE ~ admitted
    BY <1>3, NoWriteAgrees DEF ReserveBudget, Missed
<1> QED BY <1>2, <1>3

LEMMA AbandonAgrees ==
    ASSUME Typed, Fences, LedgerAgrees, NEW p \in Requests, AbandonCreate(p)
    PROVE  LedgerAgrees'
<1> DEFINE m == proc[p].mail
           row == outbox[m]
           new == [row EXCEPT !.status = "skipped", !.body = FALSE, !.ref = NoRef]
<1>1. m \in Mails /\ row \in Rows
    BY DEF AbandonCreate, At, Procs, Typed, TypeOK, StepFacts
<1>2. UNCHANGED ledger /\ \A o \in Mails \ {m} : outbox'[o] = outbox[o]
    BY <1>1 DEF AbandonCreate, Typed, TypeOK
<1>3. \/ outbox'[m] = row
      \/ row.period = Unreserved /\ outbox'[m] = new
    BY <1>1 DEF AbandonCreate, Typed, TypeOK
<1>4. new.period = row.period
    BY <1>1 DEF Rows
<1> HIDE DEF new
<1>5. CASE outbox'[m] = row
    BY <1>1, <1>2, <1>5, StayAgrees
<1>6. CASE row.period = Unreserved /\ outbox'[m] = new
    <2>1. ColumnOf(row) = "none" /\ ColumnOf(new) = "none"
        BY <1>4, <1>6 DEF ColumnOf
    <2> QED BY <1>1, <1>2, <1>6, <2>1, StayAgrees DEF Columns
<1> QED BY <1>3, <1>5, <1>6

\* A resend gives back, in one batch, the unit of every mail it supersedes and takes
\* one for the mail it adds.
LEMMA ResendAgrees ==
    ASSUME Typed, Fences, LedgerAgrees, NEW p \in Requests, NEW m \in Mails, ResendCommit(p, m)
    PROVE  LedgerAgrees'
<1> DEFINE s == proc[p]
           c == s.ref
           older == {o \in Mails : outbox[o].ref = c /\ outbox[o].status \in Unsent}
           taken == Reserve(ledger, "existing_auth", s.day, NoUser)
           refund(a) == Cardinality({o \in older : outbox[o].period # Unreserved /\ a \in Charged(outbox[o])})
           fresh == NewRow("existing_auth", "auth_resend", challenge[c].user, c, s.gen + 1, s.day)
           gone(o) == [outbox[o] EXCEPT !.status = "superseded", !.body = FALSE]
<1>1. CASE Missed
    BY <1>1, NoWriteAgrees DEF Missed
<1>2. CASE ~ Missed
    <2>1. /\ ledger' = [taken EXCEPT !["reserved"] = [a \in Accounts |-> taken["reserved"][a] - refund(a)]]
          /\ outbox' = [o \in Mails |-> IF o = m THEN fresh ELSE IF o \in older THEN gone(o) ELSE outbox[o]]
          /\ outbox[m].status = "absent"
        BY <1>2 DEF ResendCommit, AbsentMails
    <2>2. s.day \in Days /\ s.day # Unreserved /\ taken \in Ledgers
        BY LimitsAssumption, MoveType DEF Procs, Typed, TypeOK, ProcRows, Days, Unreserved, Reserve
    <2>3. /\ ColumnOf(fresh) = "reserved"
          /\ Charged(fresh) = ChargedRows("existing_auth", s.day, NoUser)
        <3>1. /\ ColumnOf(fresh) = "reserved"
              /\ Charged(fresh) = ChargedRows("existing_auth", s.day, challenge[c].user)
            BY <2>2, NewRowUnit
        <3> QED BY <3>1 DEF ChargedRows, AuthPools
    <2>4. ColumnOf(outbox[m]) = "none" /\ m \notin older
        BY <2>1, AbsentUnit DEF Unsent
    <2>5. ASSUME NEW o \in older
          PROVE  /\ ColumnOf(gone(o)) = "none"
                 /\ ColumnOf(outbox[o]) = IF outbox[o].period = Unreserved THEN "none" ELSE "reserved"
        <3>1. outbox[o] \in Rows /\ outbox[o].status \in Unsent /\ ~ outbox[o].sent
            BY DEF Fences, RowConsistent, Typed, TypeOK
        <3>2. gone(o).status = "superseded" /\ gone(o).sent = outbox[o].sent
            BY <3>1 DEF Rows
        <3> HIDE DEF gone
        <3> QED BY <3>1, <3>2 DEF ColumnOf, Unsent, Waiting
    <2>6. ASSUME NEW d \in Columns, NEW a \in Accounts
          PROVE  ledger'[d][a] = Units(d, a)'
        <3> DEFINE S == {o \in Mails : InColumn(outbox[o], d, a)}
                   T == {o \in Mails : InColumn(outbox'[o], d, a)}
                   R == {o \in older : outbox[o].period # Unreserved /\ a \in Charged(outbox[o])}
        <3>1. IsFiniteSet(S) /\ ledger[d][a] = Cardinality(S) /\ Units(d, a)' = Cardinality(T)
            BY ActorsAssumption, FS_Subset DEF LedgerAgrees, Units, UnitsIn
        <3>2. taken[d][a] = ledger[d][a]
                  + (IF a \in ChargedRows("existing_auth", s.day, NoUser) /\ d = "reserved" THEN 1 ELSE 0)
            <4>1. taken[d][a] = ledger[d][a]
                      + (IF a \in ChargedRows("existing_auth", s.day, NoUser) /\ d = "reserved" THEN 1 ELSE 0)
                      - (IF a \in ChargedRows("existing_auth", s.day, NoUser) /\ d = "none" THEN 1 ELSE 0)
                BY MoveAt DEF Reserve, Typed, TypeOK
            <4>2. d # "none" /\ ledger[d][a] \in Int
                BY DEF Columns, Typed, TypeOK, Ledgers
            <4> HIDE DEF taken
            <4> QED BY <4>1, <4>2
        <3>3. m \notin S /\ (m \in T <=> a \in ChargedRows("existing_auth", s.day, NoUser) /\ d = "reserved")
            BY <2>1, <2>3, <2>4 DEF InColumn, Columns
        <3>4. ASSUME NEW o \in Mails, o # m
              PROVE  o \in T <=> o \in S /\ o \notin older
            <4>1. CASE o \in older
                BY <2>1, <2>5, <3>4, <4>1 DEF InColumn, Columns
            <4>2. CASE o \notin older
                BY <2>1, <3>4, <4>2
            <4> QED BY <4>1, <4>2
        <3>5. CASE d = "reserved"
            <4>1. R \subseteq S /\ \A o \in S : o \in older => o \in R
                BY <2>5, <3>5 DEF InColumn
            <4>2. IsFiniteSet(S \ R) /\ Cardinality(S \ R) = Cardinality(S) - Cardinality(R)
                <5>1. S \cap R = R
                    BY <4>1
                <5> HIDE DEF S, R
                <5> QED BY SMTT(40), <3>1, <5>1, FS_Difference
            <4>3. T \ {m} = (S \ R) \ {m} /\ m \notin S \ R
                BY <3>3, <3>4, <4>1
            <4>4. Cardinality(T) = Cardinality(S \ R) + (IF m \in T THEN 1 ELSE 0)
                <5> DEFINE A == S \ R
                <5>1. IsFiniteSet(A) /\ T \ {m} = A \ {m} /\ m \notin A
                    BY <4>2, <4>3
                <5> HIDE DEF A, T
                <5>2. /\ Cardinality(A) \in Nat
                      /\ Cardinality(T) = Cardinality(A) + (IF m \in T THEN 1 ELSE 0)
                                                         - (IF m \in A THEN 1 ELSE 0)
                    BY <5>1, CountChanged
                <5> QED BY <5>1, <5>2 DEF A
            <4>5. ledger'[d][a] = taken[d][a] - Cardinality(R)
                BY <2>1, <2>2, <3>5 DEF Ledgers
            <4>6. Cardinality(S) \in Nat /\ Cardinality(R) \in Nat
                <5>1. IsFiniteSet(R)
                    BY <3>1, <4>1, FS_Subset
                <5> QED BY <3>1, <5>1, FS_CardinalityType
            <4> HIDE DEF S, R, T, taken
            <4> QED BY <3>1, <3>2, <3>3, <3>5, <4>2, <4>4, <4>5, <4>6
        <3>6. CASE d # "reserved"
            <4>1. T = S
                BY <2>5, <3>3, <3>4, <3>6 DEF InColumn, Columns
            <4>2. ledger'[d][a] = taken[d][a]
                BY <2>1, <2>2, <3>6 DEF Ledgers
            <4>3. ledger[d][a] \in Int
                BY DEF Typed, TypeOK, Ledgers
            <4> HIDE DEF S, T, taken
            <4> QED BY <3>1, <3>2, <3>6, <4>1, <4>2, <4>3
        <3> QED BY <3>5, <3>6
    <2> QED BY <2>6 DEF LedgerAgrees
<1> QED BY <1>1, <1>2

LEMMA RequestAgrees ==
    ASSUME Typed, Fences, LedgerAgrees, NEW p \in Requests, RequestStep(p)
    PROVE  LedgerAgrees'
<1>1. CASE \E c \in Challenges : ResendRead(p, c)
    BY <1>1, NoWriteAgrees DEF ResendRead
<1> QED BY <1>1, CreateAgrees, ReserveAgrees, AbandonAgrees, ResendAgrees DEF RequestStep

(***************************************************************************)
(* Sending                                                                 *)
(***************************************************************************)
LEMMA ClaimAgrees ==
    ASSUME Typed, LedgerAgrees, NEW p \in Procs, NEW m \in Mails, Claim(p, m)
    PROVE  LedgerAgrees'
<1> DEFINE row == outbox[m]
           new == [row EXCEPT !.status = "leased", !.version = row.version + 1,
                              !.owner = OwnerOf(p), !.lease = "live"]
<1>1. /\ row \in Rows /\ row.status = "pending" /\ UNCHANGED ledger /\ outbox'[m] = new
      /\ \A o \in Mails \ {m} : outbox'[o] = outbox[o]
    BY DEF Claim, Claimable, Typed, TypeOK
<1>2. /\ new.pool = row.pool /\ new.user = row.user /\ new.sent = row.sent
      /\ new.status = "leased" /\ new.period = row.period
    BY <1>1 DEF Rows
<1> HIDE DEF new
<1>3. ColumnOf(new) = ColumnOf(row) /\ Charged(new) = Charged(row)
    BY <1>1, <1>2, SameUnit DEF Waiting
<1> QED BY <1>1, <1>3, StayAgrees

LEMMA SendAgrees ==
    ASSUME Typed, Fences, LedgerAgrees, NEW p \in Procs, SendStep(p)
    PROVE  LedgerAgrees'
<1> DEFINE s == proc[p]
           row == outbox[s.mail]
<1>1. CASE Prepare(p) \/ PrepareThrows(p) \/ CheckGates(p) \/ CallProvider(p) \/ PauseMail(p)
    BY <1>1, NoWriteAgrees DEF Prepare, PrepareThrows, CheckGates, CallProvider, PauseMail, NoWrite
<1>2. CASE s.at \in Fenced
    <2>1. s.mail \in Mails /\ StepFacts(s)
        BY <1>2 DEF Typed, StepFacts, Fenced
    <2>2. RowConsistent(s.mail)
        BY <2>1 DEF Fences
    <2>0. CASE Missed
        BY <2>0, NoWriteAgrees DEF Missed
    <2>3. CASE FinishUncalled(p) /\ ~ Missed
        <3>1. s.view.status = "leased"
              /\ s.result \in {"retry_wait", "skipped", "superseded", "expired", "failed"}
            BY <2>1, <2>3 DEF StepFacts, FinishUncalled, At
        <3>2. Transition(s.mail, s.view, s.result,
                         IF s.result = "retry_wait" THEN "none" ELSE "reserved", "none", FALSE)
            BY <2>3 DEF FinishUncalled, TransitionOrMiss
        <3>3. row.status = "leased" /\ ~ row.sent
            BY <2>2, <3>1, <3>2 DEF Transition, CanTransition, SameLease, RowConsistent, Unsent
        <3>4. CASE s.result = "retry_wait"
            <4>1. Transition(s.mail, s.view, s.result, "none", "none", FALSE)
                BY <3>2, <3>4
            <4> QED BY <1>2, <3>3, <3>4, <4>1, StaysAgrees DEF Waiting
        <3>5. CASE s.result # "retry_wait"
            <4>1. Transition(s.mail, s.view, s.result, "reserved", "none", FALSE)
                BY <3>2, <3>5
            <4>2. s.result \notin Waiting \union {"calling_provider"} /\ row.status \in Waiting
                BY <3>1, <3>3, <3>5 DEF Waiting
            <4> DEFINE result == s.result
            <4> HIDE DEF result
            <4>3. /\ Transition(s.mail, s.view, result, "reserved", "none", FALSE)
                  /\ result \notin Waiting \union {"calling_provider"}
                BY <4>1, <4>2 DEF result
            <4> QED BY <1>2, <3>3, <4>2, <4>3, TakesAgrees
        <3> QED BY <3>4, <3>5
    <2>4. CASE StartCall(p) /\ ~ Missed
        <3>1. s.view.status = "leased"
            BY <2>1, <2>4 DEF StepFacts, StartCall, At
        <3>2. Transition(s.mail, s.view, "calling_provider", "reserved", "uncertain", FALSE)
            BY <2>4 DEF StartCall
        <3>3. row.status \in Waiting /\ ~ row.sent
            BY <2>2, <3>1, <3>2 DEF Transition, CanTransition, SameLease, RowConsistent, Unsent, Waiting
        <3> QED BY <1>2, <3>2, <3>3, TakesAgrees
    <2>5. CASE Record(p) /\ ~ Missed
        <3>1. s.view.status = "calling_provider"
              /\ s.result \in {"accepted", "rejected", "retry_wait", "unknown"}
            BY <2>1, <2>5 DEF StepFacts, Record, At
        <3>2. Transition(s.mail, s.view, s.result,
                         IF s.result = "unknown" THEN "none" ELSE "uncertain", "settled", FALSE)
            BY <2>5 DEF Record, TransitionOrMiss
        <3>3. row.status = "calling_provider"
            BY <3>1, <3>2 DEF Transition, CanTransition, SameLease
        <3>4. CASE s.result = "unknown"
            <4>1. Transition(s.mail, s.view, s.result, "none", "settled", FALSE)
                BY <3>2, <3>4
            <4> QED BY <1>2, <3>3, <3>4, <4>1, StaysAgrees
        <3>5. CASE s.result # "unknown"
            <4>1. Transition(s.mail, s.view, s.result, "uncertain", "settled", FALSE)
                BY <3>2, <3>5
            <4> DEFINE result == s.result
            <4> HIDE DEF result
            <4>2. /\ Transition(s.mail, s.view, result, "uncertain", "settled", FALSE)
                  /\ result \notin {"calling_provider", "unknown"}
                BY <3>1, <3>5, <4>1 DEF result
            <4> QED BY <1>2, <3>3, <4>2, TakesAgrees
        <3> QED BY <3>4, <3>5
    <2>6. CASE RecordThrows(p) /\ ~ Missed
        <3>1. s.view.status = "calling_provider"
            BY <2>1, <2>6 DEF StepFacts, RecordThrows, At
        <3>2. Transition(s.mail, s.view, "unknown", "none", "none", FALSE)
            BY <2>6 DEF RecordThrows, TransitionOrMiss
        <3>3. row.status = "calling_provider"
            BY <3>1, <3>2 DEF Transition, CanTransition, SameLease
        <3> QED BY <1>2, <3>2, <3>3, StaysAgrees
    <2> QED BY <1>1, <2>0, <2>3, <2>4, <2>5, <2>6 DEF SendStep
<1>3. CASE FinishUncalled(p) \/ StartCall(p) \/ Record(p) \/ RecordThrows(p)
    BY <1>2, <1>3 DEF FinishUncalled, StartCall, Record, RecordThrows, At, Fenced
<1> QED BY <1>1, <1>3 DEF SendStep

(***************************************************************************)
(* The executor                                                            *)
(***************************************************************************)
LEMMA RepairAgrees ==
    ASSUME Typed, Fences, LedgerAgrees, Repair
    PROVE  LedgerAgrees'
<1> DEFINE s == proc[Executor]
           m == s.mail
           row == outbox[m]
           back == [row EXCEPT !.status = "pending", !.owner = NoOwner,
                               !.version = row.version + 1, !.lease = "none"]
           kept == [row EXCEPT !.lease = "none"]
<1>1. /\ Executor \in Procs /\ s.at \in Fenced /\ m \in Mails /\ row \in Rows /\ RowConsistent(m)
      /\ ViewHolds(Executor)
      /\ s.view.status \in {"leased", "calling_provider", "retry_wait"}
    BY DEF Procs, Repair, At, Fenced, Fences, ActorHolds, Typed, TypeOK, StepFacts
<1>2. CASE s.view.status = "calling_provider"
    <2>1. Transition(m, s.view, "unknown", "none", "none", FALSE) \/ Missed
        BY <1>2 DEF Repair, TransitionOrMiss
    <2>2. CASE Missed
        BY <2>2, NoWriteAgrees DEF Missed
    <2>3. CASE Transition(m, s.view, "unknown", "none", "none", FALSE)
        <3>1. row.status = "calling_provider"
            BY <1>2, <2>3 DEF Transition, CanTransition, SameLease
        <3> QED BY <1>1, <2>3, <3>1, StaysAgrees
    <2> QED BY <2>1, <2>2, <2>3
<1>3. CASE s.view.status # "calling_provider"
    <2>1. /\ UNCHANGED ledger /\ \A o \in Mails \ {m} : outbox'[o] = outbox[o]
          /\ \/ outbox'[m] = row
             \/ outbox'[m] = kept
             \/ outbox'[m] = back /\ row.status \in Waiting
        BY <1>1, <1>3 DEF Repair, Typed, TypeOK, Waiting
    <2>2. /\ kept.pool = row.pool /\ kept.user = row.user /\ kept.period = row.period
          /\ kept.sent = row.sent /\ kept.status = row.status
          /\ back.pool = row.pool /\ back.user = row.user /\ back.period = row.period
          /\ back.sent = row.sent /\ back.status = "pending"
        BY <1>1 DEF Rows
    <2> HIDE DEF back, kept
    <2>3. /\ ColumnOf(outbox'[m]) = ColumnOf(row)
          /\ Charged(outbox'[m]) = Charged(row)
        BY <2>1, <2>2, SameUnit DEF Waiting
    <2> QED BY <1>1, <2>1, <2>3, StayAgrees
<1> QED BY <1>2, <1>3

LEMMA ReleaseAgrees ==
    ASSUME Typed, Fences, LedgerAgrees, ReleaseOld
    PROVE  LedgerAgrees'
<1> DEFINE s == proc[Executor]
           m == s.mail
           row == outbox[m]
           new == [row EXCEPT !.period = Unreserved, !.status = "pending",
                       !.version = row.version + 1, !.owner = NoOwner, !.lease = "none"]
           admitted == SameIdentity(m, s.view) /\ SourceLeft(Charged(s.view), "reserved")
<1>1. /\ Executor \in Procs /\ m \in Mails /\ row \in Rows /\ ViewHolds(Executor)
      /\ s.view.status \in Waiting
    BY DEF Procs, ReleaseOld, At, Fenced, Fences, ActorHolds, Typed, TypeOK, StepFacts
<1>2. CASE ~ admitted
    BY <1>2, NoWriteAgrees DEF ReleaseOld, Missed
<1>3. CASE admitted
    <2>1. /\ outbox' = [outbox EXCEPT ![m].period = Unreserved, ![m].status = "pending",
                  ![m].version = outbox[m].version + 1, ![m].owner = NoOwner, ![m].lease = "none"]
          /\ ledger' = Move(ledger, Charged(s.view), "reserved", "none")
        BY <1>3 DEF ReleaseOld
    <2>2. outbox'[m] = new /\ \A o \in Mails \ {m} : outbox'[o] = outbox[o]
        BY <1>1, <2>1 DEF Typed, TypeOK
    <2>3. Charged(s.view) = Charged(row) /\ row.period # Unreserved
        BY <1>1, <1>3, OwnUnit DEF SameIdentity
    <2>4. row.status \in Waiting /\ ~ row.sent
        BY <1>1, <1>3 DEF SameIdentity, SameLease
    <2>5. new.period = Unreserved
        BY <1>1 DEF Rows
    <2> HIDE DEF new
    <2>6. ColumnOf(row) = "reserved" /\ ColumnOf(new) = "none"
        BY <2>3, <2>4, <2>5 DEF ColumnOf
    <2> QED BY <1>1, <2>1, <2>2, <2>3, <2>6, MoveAgrees DEF Columns
<1> QED BY <1>2, <1>3

LEMMA RereserveAgrees ==
    ASSUME Typed, Fences, LedgerAgrees, Rereserve
    PROVE  LedgerAgrees'
<1> DEFINE s == proc[Executor]
           m == s.mail
           row == outbox[m]
           new == [row EXCEPT !.period = s.day, !.intent = s.intent, !.version = row.version + 1]
           admitted == SameIdentity(m, s.view) /\ HasCapacity(ledger, s.intent, s.day, s.view.user)
<1>1. /\ m \in Mails /\ row \in Rows /\ ViewHolds(Executor) /\ s.day \in Days
      /\ s.view.status = "pending" /\ s.view.period = Unreserved
    BY DEF Procs, Rereserve, At, Fenced, Fences, ActorHolds, Typed, TypeOK, StepFacts, ProcRows
<1>2. CASE ~ admitted
    BY <1>2, NoWriteAgrees DEF Rereserve, Missed
<1>3. CASE admitted
    <2>1. /\ outbox' = [outbox EXCEPT ![m].period = s.day, ![m].intent = s.intent,
                                      ![m].version = outbox[m].version + 1]
          /\ ledger' = Reserve(ledger, s.view.pool, s.day, s.view.user)
        BY <1>3 DEF Rereserve
    <2>2. outbox'[m] = new /\ \A o \in Mails \ {m} : outbox'[o] = outbox[o]
        BY <1>1, <2>1 DEF Typed, TypeOK
    <2>3. /\ row.period = Unreserved /\ row.status = "pending" /\ ~ row.sent
          /\ row.pool = s.view.pool /\ row.user = s.view.user
        BY <1>1, <1>3 DEF SameIdentity, SameLease, ViewHolds
    <2>4. /\ new.period = s.day /\ new.status = "pending" /\ ~ new.sent
          /\ new.pool = s.view.pool /\ new.user = s.view.user
        BY <1>1, <2>3 DEF Rows
    <2> HIDE DEF new
    <2>5. ColumnOf(row) = "none" /\ ColumnOf(new) = "reserved"
        BY <1>1, <2>3, <2>4, LimitsAssumption DEF ColumnOf, Waiting, Unreserved, Days
    <2>6. Charged(new) = ChargedRows(s.view.pool, s.day, s.view.user)
        BY <2>4 DEF Charged
    <2> QED BY <1>1, <2>1, <2>2, <2>5, <2>6, MoveAgrees DEF Columns, Reserve
<1> QED BY <1>2, <1>3

LEMMA ApproveAgrees ==
    ASSUME Typed, Fences, LedgerAgrees, NEW m \in Mails, ApproveDispatch(m)
    PROVE  LedgerAgrees'
<1> DEFINE s == proc[Executor]
           new == NewRow(PoolOf(s.intent), s.intent, s.user, Self, 0, s.day)
<1>1. s.day \in Days /\ s.day # Unreserved
    BY LimitsAssumption DEF Procs, Typed, TypeOK, ProcRows, Days, Unreserved
<1>2. \/ Missed
      \/ /\ outbox'[m] = new /\ \A o \in Mails \ {m} : outbox'[o] = outbox[o]
         /\ ledger' = Reserve(ledger, PoolOf(s.intent), s.day, s.user)
         /\ outbox[m].status = "absent"
    BY DEF ApproveDispatch, AbsentMails, Typed, TypeOK
<1>3. ColumnOf(new) = "reserved" /\ Charged(new) = ChargedRows(PoolOf(s.intent), s.day, s.user)
    BY <1>1, NewRowUnit
<1> HIDE DEF new
<1>4. CASE Missed
    BY <1>4, NoWriteAgrees DEF Missed
<1>5. CASE ~ Missed
    BY <1>2, <1>3, <1>5, AbsentUnit, MoveAgrees DEF Columns, Reserve
<1> QED BY <1>4, <1>5

LEMMA ExecutorAgrees ==
    ASSUME Typed, Fences, LedgerAgrees, ExecutorStep \/ ExecutorPick
    PROVE  LedgerAgrees'
<1> DEFINE s == proc[Executor]
           row == outbox[s.mail]
<1>1. Executor \in Procs
    BY DEF Procs
<1>2. CASE FinishRejected
    <2>1. /\ s.at \in Fenced /\ s.mail \in Mails /\ ViewHolds(Executor)
          /\ s.view.status = "retry_wait" /\ s.view.sent
        BY <1>1, <1>2 DEF FinishRejected, At, Fenced, Typed, StepFacts, Fences, ActorHolds
    <2>2. Transition(s.mail, s.view, "expired", "none", "none", FALSE) \/ Missed
        BY <1>2 DEF FinishRejected, TransitionOrMiss
    <2>3. CASE Missed
        BY <2>3, NoWriteAgrees DEF Missed
    <2>4. CASE Transition(s.mail, s.view, "expired", "none", "none", FALSE)
        <3>1. row.status = "retry_wait" /\ row.sent
            BY <2>1, <2>4 DEF Transition, CanTransition, SameLease, ViewHolds
        <3> QED BY <1>1, <2>1, <2>4, <3>1, StaysAgrees
    <2> QED BY <2>2, <2>3, <2>4
<1>3. CASE Withdraw
    <2>1. /\ s.at \in Fenced /\ s.at = "withdraw" /\ s.mail \in Mails /\ LateViewHolds(Executor)
          /\ s.view.period = Unreserved
        BY <1>1, <1>3 DEF Withdraw, At, Fenced, Typed, StepFacts, Fences, ActorHolds
    <2>2. Transition(s.mail, s.view, "expired", "none", "none", FALSE) \/ Missed
        BY <1>3 DEF Withdraw, TransitionOrMiss
    <2>3. CASE Missed
        BY <2>3, NoWriteAgrees DEF Missed
    <2>4. CASE Transition(s.mail, s.view, "expired", "none", "none", FALSE)
        <3>1. row.period = Unreserved
            BY <2>1, <2>4 DEF Transition, CanTransition, SameLease, LateViewHolds
        <3> QED BY <1>1, <2>1, <2>4, <3>1, StaysAgrees
    <2> QED BY <2>2, <2>3, <2>4
<1>4. CASE Refetch \/ ExecutorPick
    BY <1>4, NoWriteAgrees
    DEF Refetch, ExecutorPick, RepairRead, FinishRead, RolloverRead, ProposeDispatch, NoWrite
<1> QED BY <1>2, <1>3, <1>4, RepairAgrees, ReleaseAgrees, RereserveAgrees, ApproveAgrees DEF ExecutorStep

(***************************************************************************)
(* The sweep, the receipts and the environment                             *)
(***************************************************************************)
LEMMA ExpireAgrees ==
    ASSUME Typed, Fences, LedgerAgrees, NEW p \in Sweepers, Expire(p)
    PROVE  LedgerAgrees'
<1> DEFINE s == proc[p]
           row == outbox[s.mail]
<1>1. /\ p \in Procs /\ s.at = "expire" /\ s.at \in Fenced /\ s.mail \in Mails
      /\ LateViewHolds(p) /\ RowConsistent(s.mail)
    BY DEF Procs, Expire, At, Fenced, Typed, StepFacts, Fences, ActorHolds
<1>2. CASE Missed
    BY <1>2, NoWriteAgrees DEF Missed
<1>3. CASE ~ Missed
    <2>1. /\ row.body
          /\ Transition(s.mail, s.view, "expired",
                        IF s.view.period = Unreserved THEN "none" ELSE "reserved", "none", FALSE)
        BY <1>3 DEF Expire, TransitionOrMiss
    <2>2. row.status \in Waiting /\ ~ row.sent
        BY <1>1, <2>1 DEF RowConsistent
    <2>3. CASE s.view.period = Unreserved
        <3>1. Transition(s.mail, s.view, "expired", "none", "none", FALSE)
            BY <2>1, <2>3
        <3>2. row.period = Unreserved
            BY <1>1, <2>3, <3>1 DEF Transition, CanTransition, SameLease, LateViewHolds
        <3> QED BY <1>1, <3>1, <3>2, StaysAgrees
    <2>4. CASE s.view.period # Unreserved
        <3>1. Transition(s.mail, s.view, "expired", "reserved", "none", FALSE)
            BY <2>1, <2>4
        <3>2. "expired" \notin Waiting \union {"calling_provider"}
            BY DEF Waiting
        <3> QED BY <1>1, <2>2, <3>1, <3>2, TakesAgrees
    <2> QED BY <2>3, <2>4
<1> QED BY <1>2, <1>3

LEMMA SweepAgrees ==
    ASSUME Typed, Fences, LedgerAgrees, NEW p \in Sweepers, SweepList(p) \/ SweepStep(p)
    PROVE  LedgerAgrees'
<1>1. CASE ~ Expire(p)
    BY <1>1, NoWriteAgrees DEF SweepList, SweepStep, ExpireRead, ForgetChallenges, NoWrite
<1> QED BY <1>1, ExpireAgrees

LEMMA ConsumerAgrees ==
    ASSUME Typed, Fences, LedgerAgrees, NEW p \in Consumers, ConsumerStep(p)
    PROVE  LedgerAgrees'
<1> DEFINE s == proc[p]
           row == outbox[s.mail]
           status == IF s.result = "delivered" THEN "accepted" ELSE s.result
<1>1. CASE \E m \in Mails : ReceiptRead(p, m)
    BY <1>1, NoWriteAgrees DEF ReceiptRead, NoWrite
<1>2. CASE Receipt(p) /\ Missed
    BY <1>2, NoWriteAgrees DEF Missed
<1>3. CASE Receipt(p) /\ ~ Missed
    <2>1. /\ p \in Procs /\ s.at \in Fenced /\ s.mail \in Mails /\ RowConsistent(s.mail)
          /\ s.view.status \in {"accepted", "deferred", "unknown"} /\ s.result \in Receipts
        BY <1>3 DEF Procs, Receipt, At, Fenced, Typed, StepFacts, Fences
    <2>2. Transition(s.mail, s.view, status, IF s.view.status = "unknown" THEN "uncertain" ELSE "none",
                     "settled", s.result = "delivered")
        BY <1>3 DEF Receipt
    <2>3. status \notin Waiting \union {"calling_provider", "unknown"}
        BY <2>1 DEF Receipts, Waiting
    <2>4. row.status = s.view.status
        BY <2>2 DEF Transition, CanTransition, SameLease
    <2> HIDE DEF status
    <2> DEFINE delivered == s.result = "delivered"
    <2> HIDE DEF delivered
    <2>5. CASE s.view.status = "unknown"
        <3>1. Transition(s.mail, s.view, status, "uncertain", "settled", delivered)
            BY <2>2, <2>5 DEF delivered
        <3> QED BY <2>1, <2>3, <2>4, <2>5, <3>1, TakesAgrees
    <2>6. CASE s.view.status # "unknown"
        <3>1. Transition(s.mail, s.view, status, "none", "settled", delivered)
            BY <2>2, <2>6 DEF delivered
        <3>2. row.status \notin Waiting \union {"calling_provider", "unknown"}
            BY <2>1, <2>4, <2>6 DEF Waiting
        <3> QED BY <2>1, <2>3, <3>1, <3>2, StaysAgrees
    <2> QED BY <2>5, <2>6
<1> QED BY <1>1, <1>2, <1>3 DEF ConsumerStep

LEMMA EnvironmentAgrees ==
    ASSUME Typed, LedgerAgrees, Environment
    PROVE  LedgerAgrees'
<1>1. ASSUME NEW m \in Mails, LeaseLapses(m) \/ EraseMail(m)
      PROVE  LedgerAgrees'
    <2> DEFINE row == outbox[m]
               lapsed == [row EXCEPT !.lease = "lapsed"]
               erased == [row EXCEPT !.ref = NoRef, !.body = FALSE]
    <2>1. /\ row \in Rows /\ UNCHANGED ledger /\ \A o \in Mails \ {m} : outbox'[o] = outbox[o]
          /\ outbox'[m] = lapsed \/ outbox'[m] = erased
        BY <1>1 DEF LeaseLapses, EraseMail, Typed, TypeOK
    <2>2. /\ lapsed.pool = row.pool /\ lapsed.user = row.user /\ lapsed.period = row.period
          /\ lapsed.sent = row.sent /\ lapsed.status = row.status
          /\ erased.pool = row.pool /\ erased.user = row.user /\ erased.period = row.period
          /\ erased.sent = row.sent /\ erased.status = row.status
        BY <2>1 DEF Rows
    <2> HIDE DEF lapsed, erased
    <2>3. ColumnOf(outbox'[m]) = ColumnOf(row) /\ Charged(outbox'[m]) = Charged(row)
        BY <2>1, <2>2, SameUnit
    <2> QED BY <2>1, <2>3, StayAgrees
<1>2. CASE UNCHANGED <<outbox, ledger>>
    BY <1>2, NoWriteAgrees
<1> QED BY <1>1, <1>2
        DEF Environment, NextDay, StandingMoves, DeadlinePasses, Consume, Toggle, Crash, NoWrite

-----------------------------------------------------------------------------
(***************************************************************************)
(* Types and fences                                                        *)
(***************************************************************************)
LEMMA InitFences == Init => Fences
<1> SUFFICES ASSUME Init PROVE Fences
    OBVIOUS
<1>1. \A p \in Procs : proc[p].at = "idle" /\ proc[p].todo = {}
    BY IdleTyped DEF Init
<1>2. \A m \in Mails : RowConsistent(m) /\ calls[m] = 0
    BY DEF Init, Blank, NewRow, RowConsistent, Unsent, PoolOf
<1>3. \A p \in Procs : ActorHolds(p) /\ CallerHolds(p)
    BY <1>1 DEF ActorHolds, LateViewHolds, CallerHolds, Fenced
<1>4. \A p \in Requests : CreatorHolds(p)
    BY <1>1 DEF CreatorHolds, Procs
<1> QED BY <1>2, <1>3, <1>4 DEF Fences, CallIsRecorded, AtMostOneCall

LEMMA NextTyped ==
    ASSUME Typed, Fences, Next
    PROVE  Typed'
<1>1. \A m \in Mails : outbox[m].pool = PoolOf(outbox[m].intent)
    BY DEF Fences, RowConsistent
<1>2. \A p \in Senders : p \in Procs
    BY ActorsAssumption DEF Senders, Procs
<1> QED BY <1>1, <1>2, RequestTyped, SendTyped, ClaimTyped, PickTyped, ExecutorTyped, SweepTyped,
           ConsumerTyped, EnvironmentTyped DEF Next

\* Whoever takes a step, it is an evolution of that actor or of nobody.
LEMMA NextEvolves ==
    ASSUME Typed, Fences, Next
    PROVE  Evolution({}) \/ \E p \in Procs : Evolution({p})
<1>1. Typed'
    BY NextTyped
<1>2. /\ Executor \in Procs
      /\ \A p \in Requests \union Senders \union Sweepers \union Consumers : p \in Procs
    BY ActorsAssumption DEF Senders, Procs
<1> QED BY <1>1, <1>2, RequestEvolves, SendEvolves, ClaimEvolves, PickEvolves, ExecutorEvolves,
           SweepEvolves, ConsumerEvolves, EnvironmentEvolves DEF Next

LEMMA NextKeepsFences ==
    ASSUME Typed, Fences, Next
    PROVE  Fences'
BY NextTyped, NextEvolves, FencesKept

LEMMA StutterKeeps ==
    ASSUME Typed, Fences, UNCHANGED vars
    PROVE  Typed' /\ Fences'
<1>1. Typed'
    BY DEF Typed, TypeOK, vars
<1>2. Evolution({})
    BY RowStays, NobodysStep DEF vars
<1> QED BY <1>1, <1>2, FencesKept

LEMMA SafeAlways == Spec => [](Typed /\ Fences)
<1>1. Init => Typed /\ Fences
    BY InitTyped, InitFences
<1>2. Typed /\ Fences /\ [Next]_vars => (Typed /\ Fences)'
    BY NextTyped, NextKeepsFences, StutterKeeps
<1> QED BY <1>1, <1>2, PTL DEF Spec

\* Every variable keeps its type, whatever the number of mails, actors and users.
THEOREM TypesAreKept == Spec => []TypeOK
<1>1. Typed => TypeOK
    BY DEF Typed
<1> QED BY <1>1, SafeAlways, PTL

\* The provider is asked at most once for each mail (send.ts, claimMail,
\* repairMailPage and the fast path together).
THEOREM NeverCalledTwice == Spec => []AtMostOneCall
<1>1. Fences => AtMostOneCall
    BY DEF Fences
<1> QED BY <1>1, SafeAlways, PTL

\* A mail the provider was asked for carries the committed mark of it.
THEOREM CallsAreRecorded == Spec => []CallIsRecorded
<1>1. Fences => CallIsRecorded
    BY DEF Fences
<1> QED BY <1>1, SafeAlways, PTL

\* The encrypted code is only in rows that still wait for their call.
THEOREM CodesAreErased == Spec => []CodeErased
<1>1. Fences => CodeErased
    BY DEF Fences, RowConsistent, CodeErased
<1> QED BY <1>1, SafeAlways, PTL

(***************************************************************************)
(* What no step may do to a row                                            *)
(***************************************************************************)
LEMMA NextRowEvolves ==
    ASSUME Typed, Fences, Next, NEW m \in Mails
    PROVE  RowEvolves(m) /\ RowConsistent(m)'
BY NextEvolves DEF Evolution

\* A mail that was called keeps its unit and its day, and is never claimable again.
THEOREM CallsAreNeverRefunded == Spec => CalledNeverRefunded
<1>1. Typed /\ Fences /\ [Next]_vars
          => [\A m \in Mails : outbox[m].sent =>
                /\ outbox'[m].sent /\ outbox'[m].period = outbox[m].period
                /\ outbox'[m].status \notin {"pending", "leased"}
                /\ ColumnOf(outbox[m]) = "settled" => ColumnOf(outbox'[m]) = "settled"]_vars
    <2> SUFFICES ASSUME Typed, Fences, Next, NEW m \in Mails, outbox[m].sent
                 PROVE  /\ outbox'[m].sent /\ outbox'[m].period = outbox[m].period
                        /\ outbox'[m].status \notin {"pending", "leased"}
                        /\ ColumnOf(outbox[m]) = "settled" => ColumnOf(outbox'[m]) = "settled"
        OBVIOUS
    <2>1. RowEvolves(m) /\ RowConsistent(m)' /\ RowConsistent(m)
        BY NextRowEvolves DEF Fences
    <2>2. outbox[m].status # "absent"
        BY <2>1 DEF RowConsistent
    <2> QED BY <2>1, <2>2 DEF RowEvolves, RowConsistent, ColumnOf, Unsent
<1> QED BY <1>1, SafeAlways, PTL DEF Spec, CalledNeverRefunded

\* No late answer, receipt, sweep or rollover revives a mail that has ended.
THEOREM EndedStaysEnded == Spec => TerminalIsFinal
<1>1. Typed /\ Fences /\ [Next]_vars
          => [\A m \in Mails : outbox[m].status \in Terminal => outbox'[m].status = outbox[m].status]_vars
    <2> SUFFICES ASSUME Typed, Fences, Next, NEW m \in Mails, outbox[m].status \in Terminal
                 PROVE  outbox'[m].status = outbox[m].status
        OBVIOUS
    <2> QED BY NextRowEvolves DEF RowEvolves, Terminal
<1> QED BY <1>1, SafeAlways, PTL DEF Spec, TerminalIsFinal

(***************************************************************************)
(* What a sender decides by                                                *)
(***************************************************************************)
\* What any step may do to a mail as far as the review of its sender goes: only a fit
\* one is called, a new one is not leased yet, and under its version a leased one
\* changes only by the erasing of its account.
RowReviewed(m) ==
    LET old == outbox[m]
        new == outbox'[m]
    IN  /\ Starts(m) => FitToCall(m)
        /\ old.status = "absent" =>
               \/ new.status = "absent" /\ new.pool = old.pool /\ new.ref = old.ref
               \/ new.status = "pending" /\ (IsAuth(new) => new.ref # Self)
        /\ old.status # "absent" =>
               /\ new.ref \in {old.ref, NoRef}
               /\ new.version = old.version /\ new.status = "leased" =>
                      /\ old.status = "leased" /\ new.gen = old.gen
                      /\ new.ref = NoRef \/ (new.ref = old.ref /\ new.body = old.body)
               /\ new.status = "deferred" =>
                      \/ old.status = "deferred" /\ new.delivered = old.delivered
                      \/ ~ old.delivered /\ ~ new.delivered

StandingStays(m) ==
    \/ standing'[m] = standing[m]
    \/ /\ outbox[m].status # "absent"
       /\ IsAuth(outbox[m]) => standing'[m] \in {"eligible", "skipped"}

Review ==
    /\ \A m \in Mails : RowReviewed(m) /\ StandingStays(m)
    /\ \A p \in Procs : proc'[p] = proc[p] \/ SenderHolds(p)'

LEMMA InitReviews == Init => Reviews
<1> SUFFICES ASSUME Init PROVE Reviews
    OBVIOUS
<1>1. \A p \in Procs : proc[p].at = "idle"
    BY IdleTyped DEF Init
<1>2. Blank.status = "absent" /\ Blank.ref = NoRef
    BY DEF Blank, NewRow
<1>3. \A m \in Mails : outbox[m] = Blank /\ standing[m] = "eligible"
    BY DEF Init
<1> QED BY <1>1, <1>2, <1>3, ActorsAssumption DEF Reviews, MailHolds, SenderHolds

LEMMA ReviewsKept ==
    ASSUME Typed, Typed', Fences, Reviews, Review, \A m \in Mails : RowEvolves(m)
    PROVE  Reviews'
<1>1. ASSUME NEW m \in Mails
      PROVE  MailHolds(m)'
    <2>1. MailHolds(m) /\ RowReviewed(m) /\ StandingStays(m) /\ RowEvolves(m)
        BY DEF Reviews, Review
    <2>2. CASE outbox[m].status = "absent"
        BY <2>1, <2>2 DEF MailHolds, RowReviewed, StandingStays, IsAuth
    <2>3. CASE outbox[m].status # "absent"
        <3>1. /\ IsAuth(outbox'[m]) <=> IsAuth(outbox[m])
              /\ outbox'[m].status # "absent"
            BY <2>1, <2>3 DEF RowEvolves, IsAuth
        <3> QED BY <2>1, <2>3, <3>1, ActorsAssumption DEF MailHolds, RowReviewed, StandingStays
    <2> QED BY <2>2, <2>3
<1>2. ASSUME NEW p \in Procs, proc'[p] = proc[p]
      PROVE  SenderHolds(p)'
    <2>1. SenderHolds(p)
        BY DEF Reviews
    <2>2. SnapHolds(p) => SnapHolds(p)'
        BY <1>2 DEF SnapHolds, IsAuth
    <2>3. ASSUME proc[p].at \in {"prepare", "gates", "start"}
          PROVE  LeaseHolds(p)'
        <3>1. PICK m \in Mails : m = proc[p].mail
            BY <2>3 DEF Typed, StepFacts
        <3>2. /\ LeaseHolds(p) /\ RowReviewed(m) /\ RowEvolves(m)
              /\ outbox[m].status # "absent" /\ proc[p].view.version <= outbox[m].version
            BY <2>1, <2>3, <3>1 DEF SenderHolds, Review, Fences, ActorHolds, ViewHolds, Fenced
        <3>3. /\ proc[p].view.version \in Nat /\ outbox[m].version \in Nat
              /\ outbox'[m].version \in Nat
            BY DEF Typed, TypeOK, ProcRows, Rows
        <3>4. outbox'[m].version = proc[p].view.version => outbox[m].version = proc[p].view.version
            BY <3>2, <3>3 DEF RowEvolves
        <3> QED BY <1>2, <3>1, <3>2, <3>4 DEF LeaseHolds, RowReviewed, IsAuth
    <2> QED BY <1>2, <2>1, <2>2, <2>3 DEF SenderHolds
<1> QED BY <1>1, <1>2 DEF Reviews, Review

\* Rows that stay, or change only in what no sender looks at.
LEMMA SameReviewed ==
    ASSUME NEW m \in Mails, outbox'[m] = outbox[m]
    PROVE  RowReviewed(m)
BY DEF RowReviewed, Starts

LEMMA LittleReviewed ==
    ASSUME NEW m \in Mails, outbox[m].status # "absent", outbox'[m].status = outbox[m].status,
           outbox'[m].gen = outbox[m].gen, outbox'[m].delivered = outbox[m].delivered,
           \/ outbox'[m].ref = NoRef
           \/ outbox'[m].ref = outbox[m].ref /\ outbox'[m].body = outbox[m].body
    PROVE  RowReviewed(m)
BY DEF RowReviewed, Starts

\* Rows that are not leased, called or put off now.
LEMMA ElseReviewed ==
    ASSUME NEW m \in Mails, outbox[m].status # "absent",
           outbox'[m].ref \in {outbox[m].ref, NoRef},
           outbox'[m].status \notin {"leased", "calling_provider", "deferred"}
    PROVE  RowReviewed(m)
BY DEF RowReviewed, Starts

\* A step of an actor that is no sender's decision.
LEMMA OthersReviewed ==
    ASSUME Typed, NEW p \in Procs, NEW next, Become(p, next),
           next.at \notin {"prepare", "gates", "start"},
           UNCHANGED standing, \A m \in Mails : RowReviewed(m)
    PROVE  Review
BY Becomes DEF Review, StandingStays, SenderHolds

LEMMA QuietReviewed ==
    ASSUME Typed, NEW p \in Procs, NEW next, Become(p, next),
           next.at \notin {"prepare", "gates", "start"}, UNCHANGED <<standing, outbox>>
    PROVE  Review
BY SameReviewed, OthersReviewed

LEMMA TransitionReviewed ==
    ASSUME Typed, NEW m \in Mails, NEW view, NEW status \in Statuses, NEW from, NEW to,
           NEW delivered \in BOOLEAN, Transition(m, view, status, from, to, delivered),
           outbox[m].status # "absent", status # "leased",
           status = "deferred" => ~ outbox[m].delivered /\ ~ delivered,
           status = "calling_provider" => FitToCall(m)
    PROVE  \A o \in Mails : RowReviewed(o)
<1> DEFINE row == outbox[m]
           new == After(row, status, delivered)
<1>1. row \in Rows
    BY DEF Typed, TypeOK
<1>2. new.status = status /\ new.ref = row.ref /\ new.delivered = delivered
    BY <1>1 DEF After, Rows
<1>3. outbox'[m] = new /\ \A o \in Mails : o # m => outbox'[o] = outbox[o]
    BY DEF Transition, Typed, TypeOK
<1> HIDE DEF new
<1>4. RowReviewed(m)
    BY <1>2, <1>3 DEF RowReviewed, Starts
<1> QED BY <1>3, <1>4, SameReviewed

\* An actor that ends with one guarded write, which is no call and no deferral.
LEMMA WriteReviewed ==
    ASSUME Typed, Fences, NEW p \in Procs, proc[p].at \in Fenced,
           NEW status \in Statuses, NEW from, NEW to,
           TransitionOrMiss(proc[p].mail, proc[p].view, status, from, to),
           status \notin {"leased", "calling_provider", "deferred"},
           NEW next, Become(p, next), next.at \notin {"prepare", "gates", "start"},
           UNCHANGED standing
    PROVE  Review
<1>1. PICK m \in Mails : m = proc[p].mail
    BY DEF Typed, StepFacts, Fenced
<1>2. outbox[m].status # "absent"
    BY <1>1 DEF Fences, ActorHolds, ViewHolds
<1>3. CASE CanTransition(m, proc[p].view, from)
    <2>1. Transition(m, proc[p].view, status, from, to, FALSE)
        BY <1>1, <1>3 DEF TransitionOrMiss
    <2> QED BY <1>2, <2>1, TransitionReviewed, OthersReviewed
<1>4. CASE ~ CanTransition(m, proc[p].view, from)
    BY <1>1, <1>4, QuietReviewed DEF TransitionOrMiss, Missed
<1> QED BY <1>3, <1>4

(***************************************************************************)
(* The actions, one by one                                                 *)
(***************************************************************************)
LEMMA CreateReviewed ==
    ASSUME Typed, NEW p \in Requests, NEW c \in Challenges, NEW m \in Mails,
           CreateChallenge(p, c, m)
    PROVE  Review
<1>1. PICK intent \in OpenIntents, user \in Owners, purpose \in {"signup", "login"} :
          OpenChallenge(p, c, m, intent, purpose, user)
    BY DEF CreateChallenge, Owners
<1> DEFINE row == NewRow(PoolOf(intent), intent, user, c, 0, Unreserved)
           next == [Idle EXCEPT !.at = "reserve", !.mail = m, !.ref = c,
                                !.intent = intent, !.day = today]
<1>2. /\ outbox[m].status = "absent" /\ outbox' = [outbox EXCEPT ![m] = row]
      /\ Become(p, next) /\ UNCHANGED standing
    BY <1>1 DEF OpenChallenge, AbsentMails
<1>3. row.status = "pending" /\ row.ref = c
    BY DEF NewRow
<1> HIDE DEF row
<1>4. next.at = "reserve"
    BY IdleTyped DEF ProcRows
<1> HIDE DEF next
<1>5. outbox'[m] = row /\ \A o \in Mails : o # m => outbox'[o] = outbox[o]
    BY <1>2 DEF Typed, TypeOK
<1>6. RowReviewed(m)
    BY <1>2, <1>3, <1>5, ActorsAssumption DEF RowReviewed, Starts
<1>7. \A o \in Mails : RowReviewed(o)
    BY <1>5, <1>6, SameReviewed
<1> QED BY <1>2, <1>4, <1>7, OthersReviewed DEF Procs

LEMMA ReserveReviewed ==
    ASSUME Typed, Fences, NEW p \in Requests, ReserveBudget(p)
    PROVE  Review
<1>1. PICK m \in Mails : m = proc[p].mail
    BY DEF ReserveBudget, At, Typed, StepFacts, Procs
<1>2. p \in Procs /\ proc[p] \in ProcRows /\ outbox[m].status # "absent" /\ outbox[m] \in Rows
    BY <1>1 DEF Procs, Typed, TypeOK, Fences, CreatorHolds, ReserveBudget, At
<1> DEFINE next == [proc[p] EXCEPT !.at = "abandon"]
<1>3. (Become(p, Idle) \/ Become(p, next)) /\ UNCHANGED standing
    BY DEF ReserveBudget
<1>4. next.at = "abandon" /\ Idle.at = "idle"
    BY <1>2, IdleTyped DEF ProcRows
<1> HIDE DEF next
<1>5. /\ \A o \in Mails : o # m => outbox'[o] = outbox[o]
      /\ \/ outbox'[m] = outbox[m]
         \/ outbox'[m] = [outbox[m] EXCEPT !.period = proc[p].day, !.intent = proc[p].intent]
    BY <1>1 DEF ReserveBudget, Missed, Typed, TypeOK
<1>6. /\ outbox'[m].status = outbox[m].status /\ outbox'[m].gen = outbox[m].gen
      /\ outbox'[m].delivered = outbox[m].delivered /\ outbox'[m].ref = outbox[m].ref
      /\ outbox'[m].body = outbox[m].body
    BY <1>2, <1>5 DEF Rows
<1>7. \A o \in Mails : RowReviewed(o)
    BY <1>2, <1>5, <1>6, LittleReviewed, SameReviewed
<1> QED BY <1>2, <1>3, <1>4, <1>7, OthersReviewed

LEMMA AbandonReviewed ==
    ASSUME Typed, Fences, NEW p \in Requests, AbandonCreate(p)
    PROVE  Review
<1>1. PICK m \in Mails : m = proc[p].mail
    BY DEF AbandonCreate, At, Typed, StepFacts, Procs
<1>2. p \in Procs /\ outbox[m].status # "absent" /\ outbox[m] \in Rows
    BY <1>1 DEF Procs, Typed, TypeOK, Fences, CreatorHolds, AbandonCreate, At
<1>3. Become(p, Idle) /\ Idle.at = "idle" /\ UNCHANGED standing
    BY IdleTyped DEF AbandonCreate
<1>4. /\ \A o \in Mails : o # m => outbox'[o] = outbox[o]
      /\ \/ outbox'[m] = outbox[m]
         \/ outbox'[m] = [outbox[m] EXCEPT !.status = "skipped", !.body = FALSE, !.ref = NoRef]
    BY <1>1 DEF AbandonCreate, Typed, TypeOK
<1>5. outbox'[m] = outbox[m] \/ (outbox'[m].status = "skipped" /\ outbox'[m].ref = NoRef)
    BY <1>2, <1>4 DEF Rows
<1>6. \A o \in Mails : RowReviewed(o)
    BY <1>2, <1>4, <1>5, ElseReviewed, SameReviewed
<1> QED BY <1>2, <1>3, <1>6, OthersReviewed

LEMMA ResendReviewed ==
    ASSUME Typed, Fences, NEW p \in Requests, NEW m \in Mails, ResendCommit(p, m)
    PROVE  Review
<1> DEFINE c == proc[p].ref
           older == {o \in Mails : outbox[o].ref = c /\ outbox[o].status \in Unsent}
           fresh == NewRow("existing_auth", "auth_resend", challenge[c].user, c,
                           proc[p].gen + 1, proc[p].day)
           gone(o) == [outbox[o] EXCEPT !.status = "superseded", !.body = FALSE]
<1>1. p \in Procs /\ c \in Challenges
    BY DEF Procs, ResendCommit, At, Typed, StepFacts
<1>2. /\ outbox[m].status = "absent"
      /\ \/ UNCHANGED outbox
         \/ outbox' = [o \in Mails |-> IF o = m THEN fresh ELSE IF o \in older THEN gone(o) ELSE outbox[o]]
    BY DEF ResendCommit, AbsentMails, Missed
<1>3. Become(p, Idle) /\ Idle.at = "idle" /\ UNCHANGED standing
    BY IdleTyped DEF ResendCommit
<1>4. fresh.status = "pending" /\ fresh.ref = c
    BY DEF NewRow
<1>5. \A o \in Mails : gone(o).status = "superseded" /\ gone(o).ref = outbox[o].ref
    BY DEF Typed, TypeOK, Rows
<1> HIDE DEF fresh, gone
<1>6. ASSUME NEW o \in Mails
      PROVE  RowReviewed(o)
    <2>1. CASE outbox'[o] = outbox[o]
        BY <2>1, SameReviewed
    <2>2. CASE outbox'[o] # outbox[o] /\ o = m
        <3>1. outbox'[o] = fresh
            BY <1>2, <2>2
        <3> QED BY <1>1, <1>2, <1>4, <2>2, <3>1, ActorsAssumption DEF RowReviewed, Starts
    <2>3. CASE outbox'[o] # outbox[o] /\ o # m
        <3>1. outbox'[o] = gone(o) /\ outbox[o].status # "absent"
            BY <1>2, <2>3 DEF Unsent
        <3> QED BY <1>5, <3>1, ElseReviewed
    <2> QED BY <2>1, <2>2, <2>3
<1> QED BY <1>1, <1>3, <1>6, OthersReviewed

LEMMA RequestReviewed ==
    ASSUME Typed, Fences, NEW p \in Requests, RequestStep(p)
    PROVE  Review
<1>1. ASSUME NEW c \in Challenges, ResendRead(p, c)
      PROVE  Review
    <2> DEFINE next == [Idle EXCEPT !.at = "resend", !.ref = c, !.gen = challenge[c].gen, !.day = today]
    <2>1. next.at = "resend"
        BY IdleTyped DEF ProcRows
    <2>2. p \in Procs /\ Become(p, next) /\ UNCHANGED <<standing, outbox>>
        BY <1>1 DEF ResendRead, Procs
    <2> HIDE DEF next
    <2> QED BY <2>1, <2>2, QuietReviewed
<1> QED BY <1>1, CreateReviewed, ReserveReviewed, AbandonReviewed, ResendReviewed DEF RequestStep

LEMMA ClaimReviewed ==
    ASSUME Typed, Typed', Fences, Reviews, NEW p \in Procs, NEW m \in Mails, Claim(p, m)
    PROVE  Review
<1> DEFINE row == [outbox[m] EXCEPT !.status = "leased", !.version = outbox[m].version + 1,
                                    !.owner = OwnerOf(p), !.lease = "live"]
           next == [Idle EXCEPT !.at = "prepare", !.mail = m, !.view = row]
<1>1. /\ outbox[m].status = "pending" /\ outbox' = [outbox EXCEPT ![m] = row] /\ Become(p, next)
      /\ UNCHANGED standing
    BY DEF Claim, Claimable
<1>2. outbox[m] \in Rows /\ outbox[m].version \in Nat /\ MailHolds(m)
    BY DEF Typed, TypeOK, Rows, Reviews
<1>3. /\ row.status = "leased" /\ row.version = outbox[m].version + 1 /\ row.pool = outbox[m].pool
      /\ row.ref = outbox[m].ref
    BY <1>2 DEF Rows
<1> HIDE DEF row
<1>4. next.at = "prepare" /\ next.mail = m /\ next.view = row
    BY IdleTyped DEF ProcRows
<1> HIDE DEF next
<1>5. /\ proc'[p] = next /\ \A q \in Procs \ {p} : proc'[q] = proc[q]
      /\ outbox'[m] = row /\ \A o \in Mails : o # m => outbox'[o] = outbox[o]
    BY <1>1, Becomes DEF Typed, TypeOK
<1>6. RowReviewed(m)
    BY <1>1, <1>2, <1>3, <1>5 DEF RowReviewed, Starts
<1>7. SenderHolds(p)'
    BY <1>2, <1>3, <1>4, <1>5 DEF SenderHolds, LeaseHolds, MailHolds, IsAuth
<1> QED BY <1>1, <1>5, <1>6, <1>7, SameReviewed DEF Review, StandingStays

\* A sender that decides to go on, or to write back, keeps what it decided by.
LEMMA GoesOnReviewed ==
    ASSUME Typed, Reviews, NEW p \in Procs, proc[p].at \in {"prepare", "gates", "start"},
           NEW next, Become(p, next), UNCHANGED <<outbox, standing>>,
           \/ next.at = "writeback"
           \/ /\ next.at \in {"gates", "start"}
              /\ next.view = proc[p].view /\ next.mail = proc[p].mail
              /\ proc'[p] = next => SnapHolds(p)'
    PROVE  Review
<1>1. proc'[p] = next /\ \A q \in Procs \ {p} : proc'[q] = proc[q]
    BY Becomes
<1>2. CASE next.at = "writeback"
    BY <1>2, QuietReviewed
<1>3. CASE next.at # "writeback"
    <2>1. LeaseHolds(p)
        BY DEF Reviews, SenderHolds
    <2>2. LeaseHolds(p)'
        BY <1>1, <1>3, <2>1 DEF LeaseHolds, IsAuth
    <2>3. SenderHolds(p)'
        BY <1>1, <1>3, <2>2 DEF SenderHolds
    <2> QED BY <1>1, <2>3, SameReviewed DEF Review, StandingStays
<1> QED BY <1>2, <1>3

LEMMA GiveUpReviewed ==
    ASSUME Typed, NEW p \in Procs, NEW status, GiveUp(p, status), UNCHANGED <<outbox, standing>>
    PROVE  Review
<1> DEFINE next == [proc[p] EXCEPT !.at = "writeback", !.result = status]
<1>1. next.at = "writeback" /\ Become(p, next)
    BY DEF Typed, TypeOK, ProcRows, GiveUp
<1> HIDE DEF next
<1> QED BY <1>1, QuietReviewed

\* The preflight calls a mail fit by the challenge, the code and the recipient it saw.
LEMMA PrepareReviewed ==
    ASSUME Typed, Fences, Reviews, NEW p \in Procs, Prepare(p)
    PROVE  Review
<1> DEFINE view == proc[p].view
           next == [proc[p] EXCEPT !.at = "gates", !.snap = Snapshot(proc[p].mail, proc[p].view.ref)]
<1>1. /\ proc[p].at = "prepare" /\ UNCHANGED <<outbox, standing>> /\ proc[p] \in ProcRows
      /\ view \in Rows /\ LeaseHolds(p)
    BY DEF Prepare, At, NoWrite, Typed, TypeOK, ProcRows, Reviews, SenderHolds
<1>2. CASE Verdict(proc[p].mail, view) = "fit"
    <2>1. PICK m \in Mails : m = proc[p].mail
        BY <1>1 DEF Typed, StepFacts
    <2>2. PICK snap : snap = Snapshot(m, view.ref)
        OBVIOUS
    <2>3. /\ next.at = "gates" /\ next.view = view /\ next.mail = m /\ next.snap = snap
        BY <1>1, <2>1, <2>2 DEF ProcRows
    <2>4. Become(p, next)
        BY <1>2 DEF Prepare
    <2> HIDE DEF next
    <2>5. CASE IsAuth(view)
        <3>1. view.ref \in Challenges
            BY <1>1, <1>2, <2>5 DEF LeaseHolds, Verdict, Rows
        <3>2. /\ challenge[view.ref].state = "open" /\ standing[m] # "skipped"
              /\ view.body /\ view.gen = challenge[view.ref].gen
            BY <1>2, <2>1, <2>5, <3>1 DEF Verdict
        <3>3. snap.state = "open" /\ snap.gen = view.gen /\ snap.fit # "skipped"
            BY <2>2, <3>1, <3>2 DEF Snapshot
        <3>4. proc'[p] = next => SnapHolds(p)'
            BY <2>3, <2>5, <3>1, <3>2, <3>3 DEF SnapHolds, IsAuth
        <3> QED BY <1>1, <2>1, <2>3, <2>4, <3>4, GoesOnReviewed
    <2>6. CASE ~ IsAuth(view)
        <3>1. view.ref \notin Challenges /\ standing[m] = "eligible"
            BY <1>2, <2>1, <2>6, ActorsAssumption DEF Verdict, Typed, TypeOK, Standings
        <3>2. snap.fit = "eligible"
            BY <2>2, <3>1 DEF Snapshot
        <3>3. proc'[p] = next => SnapHolds(p)'
            BY <2>3, <3>1, <3>2 DEF SnapHolds
        <3> QED BY <1>1, <2>1, <2>3, <2>4, <3>3, GoesOnReviewed
    <2> QED BY <2>5, <2>6
<1>3. CASE Verdict(proc[p].mail, view) # "fit"
    BY <1>1, <1>3, GiveUpReviewed DEF Prepare
<1> QED BY <1>2, <1>3

LEMMA GatesReviewed ==
    ASSUME Typed, Reviews, NEW p \in Procs, CheckGates(p)
    PROVE  Review
<1> DEFINE next == [proc[p] EXCEPT !.at = "start"]
<1>1. /\ proc[p].at = "gates" /\ UNCHANGED <<outbox, standing>> /\ proc[p] \in ProcRows
      /\ SnapHolds(p)
    BY DEF CheckGates, At, NoWrite, Typed, TypeOK, Reviews, SenderHolds
<1>2. /\ next.at = "start" /\ next.view = proc[p].view /\ next.mail = proc[p].mail
      /\ next.snap = proc[p].snap
    BY <1>1 DEF ProcRows
<1>3. Become(p, next) \/ \E status \in {"retry_wait", "expired"} : GiveUp(p, status)
    BY DEF CheckGates
<1> HIDE DEF next
<1>4. proc'[p] = next => SnapHolds(p)'
    BY <1>1, <1>2 DEF SnapHolds, IsAuth
<1> QED BY <1>1, <1>2, <1>3, <1>4, GoesOnReviewed, GiveUpReviewed

\* The guard of the call compares the whole of it again, in the same statement that
\* commits the call.
LEMMA GuardFits ==
    ASSUME Typed, Fences, Reviews, NEW p \in Procs, proc[p].at = "start", CallingGuard(p)
    PROVE  FitToCall(proc[p].mail)
<1> DEFINE view == proc[p].view
           snap == proc[p].snap
<1>1. PICK m \in Mails : m = proc[p].mail
    BY DEF Typed, StepFacts
<1>2. /\ outbox[m].status = "leased" /\ outbox[m].version = view.version
      /\ outbox[m].period = today /\ Snapshot(m, view.ref) = snap
      /\ NeededGates(outbox[m].pool) \intersect closed = {}
    <2>1. view.status = "leased" /\ outbox[m].pool = view.pool
        BY <1>1 DEF Typed, StepFacts, Fences, ActorHolds, ViewHolds, Fenced
    <2> QED BY <1>1, <2>1 DEF CallingGuard, CanTransition, SameLease
<1>3. /\ outbox[m].gen = view.gen
      /\ outbox[m].ref = NoRef \/ (outbox[m].ref = view.ref /\ outbox[m].body = view.body)
      /\ SnapHolds(p) /\ MailHolds(m) /\ outbox[m].pool = view.pool
    BY <1>1, <1>2 DEF Reviews, SenderHolds, LeaseHolds, Fences, ActorHolds, ViewHolds, Fenced
<1>4. CASE view.ref \in Challenges
    <2>1. snap.state = challenge[view.ref].state /\ snap.gen = challenge[view.ref].gen
          /\ snap.fit = standing[m]
        BY <1>2, <1>4 DEF Snapshot
    <2>2. /\ view.body /\ challenge[view.ref].state = "open" /\ challenge[view.ref].gen = view.gen
          /\ standing[m] = "eligible"
        BY <1>3, <1>4, <2>1 DEF SnapHolds, MailHolds, IsAuth
    <2> QED BY <1>1, <1>2, <1>3, <2>2, ActorsAssumption DEF FitToCall
<1>5. CASE view.ref \notin Challenges
    <2>1. standing[m] \in {"eligible", "expired"}
        BY <1>2, <1>3, <1>5 DEF Snapshot, SnapHolds
    <2> QED BY <1>1, <1>2, <1>3, <1>5, <2>1, ActorsAssumption DEF FitToCall
<1> QED BY <1>4, <1>5

LEMMA StartCallReviewed ==
    ASSUME Typed, Fences, Reviews, NEW p \in Procs, StartCall(p)
    PROVE  Review
<1>1. PICK m \in Mails : m = proc[p].mail
    BY DEF StartCall, At, Typed, StepFacts
<1>2. /\ proc[p].at = "start" /\ UNCHANGED standing /\ proc[p] \in ProcRows
      /\ outbox[m].status # "absent"
    BY <1>1 DEF StartCall, At, Typed, TypeOK, Fences, ActorHolds, ViewHolds, Fenced
<1>3. CASE CallingGuard(p)
    <2> DEFINE next == [proc[p] EXCEPT !.at = "call"]
    <2>1. /\ Transition(m, proc[p].view, "calling_provider", "reserved", "uncertain", FALSE)
          /\ Become(p, next)
        BY <1>1, <1>3 DEF StartCall
    <2>2. next.at = "call"
        BY <1>2 DEF ProcRows
    <2> HIDE DEF next
    <2>3. FitToCall(m) /\ "calling_provider" \in Statuses
        BY <1>1, <1>2, <1>3, GuardFits DEF Statuses
    <2> QED BY <1>2, <2>1, <2>2, <2>3, TransitionReviewed, OthersReviewed
<1>4. CASE ~ CallingGuard(p)
    BY <1>2, <1>4, GiveUpReviewed DEF StartCall, Missed
<1> QED BY <1>3, <1>4

LEMMA SendReviewed ==
    ASSUME Typed, Fences, Reviews, NEW p \in Procs, SendStep(p)
    PROVE  Review
<1>0. proc[p] \in ProcRows /\ StepFacts(proc[p]) /\ Idle.at = "idle"
    BY IdleTyped DEF Typed, TypeOK
<1>1. CASE PrepareThrows(p)
    BY <1>1, GiveUpReviewed DEF PrepareThrows, NoWrite
<1>2. CASE FinishUncalled(p)
    <2>1. proc[p].at \in Fenced
          /\ proc[p].result \in {"retry_wait", "skipped", "superseded", "expired", "failed"}
        BY <1>0, <1>2 DEF FinishUncalled, At, StepFacts, Fenced
    <2>2. proc[p].result \in Statuses
        BY <2>1 DEF Statuses, Waiting, Dropped
    <2> QED BY <1>0, <1>2, <2>1, <2>2, WriteReviewed DEF FinishUncalled
<1>3. CASE CallProvider(p)
    <2>1. PICK result \in {"accepted", "rejected", "retry_wait", "unknown"} :
              Become(p, [proc[p] EXCEPT !.at = "record", !.result = result,
                                        !.view.status = "calling_provider"])
        BY <1>3 DEF CallProvider
    <2> DEFINE next == [proc[p] EXCEPT !.at = "record", !.result = result,
                                       !.view.status = "calling_provider"]
    <2>2. next.at = "record" /\ Become(p, next) /\ UNCHANGED <<outbox, standing>>
        BY <1>0, <1>3, <2>1 DEF ProcRows, CallProvider
    <2> HIDE DEF next
    <2> QED BY <2>2, QuietReviewed
<1>4. CASE Record(p)
    <2> DEFINE next == [proc[p] EXCEPT !.at = "pause"]
    <2>1. next.at = "pause"
        BY <1>0 DEF ProcRows
    <2>2. /\ Become(p, Idle) \/ Become(p, next)
          /\ UNCHANGED standing /\ proc[p].at \in Fenced
          /\ proc[p].result \in {"accepted", "rejected", "retry_wait", "unknown"}
          /\ \E from : TransitionOrMiss(proc[p].mail, proc[p].view, proc[p].result, from, "settled")
        BY <1>0, <1>4 DEF Record, At, StepFacts, Fenced
    <2> HIDE DEF next
    <2>3. proc[p].result \in Statuses
        BY <2>2 DEF Statuses, Waiting, Answered
    <2> QED BY <1>0, <2>1, <2>2, <2>3, WriteReviewed
<1>5. CASE RecordThrows(p)
    <2>1. "unknown" \in Statuses /\ proc[p].at \in Fenced
        BY <1>5 DEF Statuses, RecordThrows, At, Fenced
    <2> QED BY <1>0, <1>5, <2>1, WriteReviewed DEF RecordThrows
<1>6. CASE PauseMail(p)
    BY <1>0, <1>6, QuietReviewed DEF PauseMail
<1> QED BY <1>1, <1>2, <1>3, <1>4, <1>5, <1>6, PrepareReviewed, GatesReviewed, StartCallReviewed
        DEF SendStep

LEMMA RepairReviewed ==
    ASSUME Typed, Fences, Repair
    PROVE  Review
<1> DEFINE view == proc[Executor].view
<1>1. Executor \in Procs /\ proc[Executor].at \in Fenced /\ Idle.at = "idle"
    BY IdleTyped DEF Procs, Repair, At, Fenced
<1>2. PICK m \in Mails : m = proc[Executor].mail
    BY <1>1 DEF Repair, At, Typed, StepFacts
<1>3. outbox[m] \in Rows /\ outbox[m].status # "absent" /\ Become(Executor, Idle) /\ UNCHANGED standing
    BY <1>1, <1>2 DEF Typed, TypeOK, Fences, ActorHolds, ViewHolds, Repair
<1>4. CASE view.status = "calling_provider"
    <2>1. TransitionOrMiss(proc[Executor].mail, view, "unknown", "none", "none")
          /\ "unknown" \in Statuses
        BY <1>4 DEF Repair, Statuses
    <2> QED BY <1>1, <1>3, <2>1, WriteReviewed
<1>5. CASE view.status # "calling_provider"
    <2> DEFINE back == [outbox[m] EXCEPT !.status = "pending", !.owner = NoOwner,
                                         !.version = outbox[m].version + 1, !.lease = "none"]
               kept == [outbox[m] EXCEPT !.lease = "none"]
    <2>1. /\ \A o \in Mails : o # m => outbox'[o] = outbox[o]
          /\ outbox'[m] = outbox[m] \/ outbox'[m] = kept \/ outbox'[m] = back
        BY <1>2, <1>5 DEF Repair, Typed, TypeOK
    <2>2. /\ kept.status = outbox[m].status /\ kept.gen = outbox[m].gen /\ kept.ref = outbox[m].ref
          /\ kept.delivered = outbox[m].delivered /\ kept.body = outbox[m].body
          /\ back.status = "pending" /\ back.ref = outbox[m].ref
        BY <1>3 DEF Rows
    <2> HIDE DEF back, kept
    <2>3. \A o \in Mails : RowReviewed(o)
        BY <1>3, <2>1, <2>2, SameReviewed, LittleReviewed, ElseReviewed
    <2> QED BY <1>1, <1>3, <2>3, OthersReviewed
<1> QED BY <1>4, <1>5

LEMMA ReleaseReviewed ==
    ASSUME Typed, Fences, ReleaseOld
    PROVE  Review
<1> DEFINE s == proc[Executor]
           next == [s EXCEPT !.at = "refetch"]
<1>1. /\ Executor \in Procs /\ s \in ProcRows /\ s.at = "release" /\ Idle.at = "idle"
      /\ UNCHANGED standing
    BY IdleTyped DEF Procs, ReleaseOld, At, Typed, TypeOK
<1>2. PICK m \in Mails : m = s.mail
    BY <1>1 DEF Typed, StepFacts
<1>3. outbox[m] \in Rows /\ outbox[m].status # "absent"
    BY <1>1, <1>2 DEF Typed, TypeOK, Fences, ActorHolds, ViewHolds, Fenced
<1>4. /\ Become(Executor, Idle) \/ Become(Executor, next)
      /\ \A o \in Mails : o # m => outbox'[o] = outbox[o]
      /\ \/ outbox'[m] = outbox[m]
         \/ outbox'[m] = [outbox[m] EXCEPT !.period = Unreserved, !.status = "pending",
                !.version = outbox[m].version + 1, !.owner = NoOwner, !.lease = "none"]
    BY <1>2 DEF ReleaseOld, Missed, Typed, TypeOK
<1>5. next.at = "refetch"
    BY <1>1 DEF ProcRows
<1> HIDE DEF next
<1>6. outbox'[m] = outbox[m] \/ (outbox'[m].status = "pending" /\ outbox'[m].ref = outbox[m].ref)
    BY <1>3, <1>4 DEF Rows
<1>7. \A o \in Mails : RowReviewed(o)
    BY <1>3, <1>4, <1>6, SameReviewed, ElseReviewed
<1> QED BY <1>1, <1>4, <1>5, <1>7, OthersReviewed

LEMMA RefetchReviewed ==
    ASSUME Typed, Refetch
    PROVE  Review
<1> DEFINE s == proc[Executor]
           row == outbox[s.mail]
           over == [s EXCEPT !.at = "withdraw", !.view = row]
           again == [s EXCEPT !.at = "rereserve", !.view = row, !.intent = IntentFor(row)]
<1>1. /\ Executor \in Procs /\ s \in ProcRows /\ Idle.at = "idle" /\ UNCHANGED <<standing, outbox>>
    BY IdleTyped DEF Procs, Refetch, NoWrite, Typed, TypeOK
<1>2. over.at = "withdraw" /\ again.at = "rereserve"
    BY <1>1 DEF ProcRows
<1>3. Become(Executor, Idle) \/ Become(Executor, over) \/ Become(Executor, again)
    BY DEF Refetch
<1> HIDE DEF over, again
<1> QED BY <1>1, <1>2, <1>3, QuietReviewed

LEMMA RereserveReviewed ==
    ASSUME Typed, Fences, Rereserve
    PROVE  Review
<1> DEFINE s == proc[Executor]
<1>1. /\ Executor \in Procs /\ s.at = "rereserve" /\ Idle.at = "idle" /\ UNCHANGED standing
      /\ Become(Executor, Idle)
    BY IdleTyped DEF Procs, Rereserve, At
<1>2. PICK m \in Mails : m = s.mail
    BY <1>1 DEF Typed, StepFacts
<1>3. /\ outbox[m] \in Rows /\ outbox[m].status # "absent" /\ s.view.status = "pending"
    BY <1>1, <1>2 DEF Typed, TypeOK, StepFacts, Fences, ActorHolds, ViewHolds, Fenced
<1>4. /\ \A o \in Mails : o # m => outbox'[o] = outbox[o]
      /\ \/ outbox'[m] = outbox[m]
         \/ /\ outbox[m].status = s.view.status
            /\ outbox'[m] = [outbox[m] EXCEPT !.period = s.day, !.intent = s.intent,
                                              !.version = outbox[m].version + 1]
    BY <1>2 DEF Rereserve, SameIdentity, SameLease, Missed, Typed, TypeOK
<1>5. outbox'[m] = outbox[m] \/ (outbox'[m].status = "pending" /\ outbox'[m].ref = outbox[m].ref)
    BY <1>3, <1>4 DEF Rows
<1>6. \A o \in Mails : RowReviewed(o)
    BY <1>3, <1>4, <1>5, SameReviewed, ElseReviewed
<1> QED BY <1>1, <1>6, OthersReviewed

LEMMA ApproveReviewed ==
    ASSUME Typed, NEW m \in Mails, ApproveDispatch(m)
    PROVE  Review
<1> DEFINE s == proc[Executor]
           row == NewRow(PoolOf(s.intent), s.intent, s.user, Self, 0, s.day)
<1>1. /\ Executor \in Procs /\ Idle.at = "idle" /\ Become(Executor, Idle) /\ UNCHANGED standing
      /\ outbox[m].status = "absent" /\ PoolOf(s.intent) \in BusinessPools
    BY IdleTyped DEF Procs, ApproveDispatch, AbsentMails, At, Typed, StepFacts
<1>2. row.status = "pending" /\ row.pool = PoolOf(s.intent)
    BY DEF NewRow
<1>3. /\ \A o \in Mails : o # m => outbox'[o] = outbox[o]
      /\ outbox'[m] = outbox[m] \/ outbox'[m] = row
    BY DEF ApproveDispatch, Missed, Typed, TypeOK
<1> HIDE DEF row
<1>4. ~ IsAuth(row)
    BY <1>1, <1>2 DEF IsAuth, AuthPools, BusinessPools
<1>5. RowReviewed(m)
    BY <1>1, <1>2, <1>3, <1>4, SameReviewed DEF RowReviewed, Starts
<1> QED BY <1>1, <1>3, <1>5, SameReviewed, OthersReviewed

LEMMA ExecutorReviewed ==
    ASSUME Typed, Fences, ExecutorStep
    PROVE  Review
<1>1. Executor \in Procs /\ "expired" \in Statuses /\ Idle.at = "idle"
    BY IdleTyped DEF Procs, Statuses, Dropped
<1>2. CASE FinishRejected
    <2>1. proc[Executor].at \in Fenced
        BY <1>2 DEF FinishRejected, At, Fenced
    <2> QED BY <1>1, <1>2, <2>1, WriteReviewed DEF FinishRejected
<1>3. CASE Withdraw
    <2>1. proc[Executor].at \in Fenced
        BY <1>3 DEF Withdraw, At, Fenced
    <2> QED BY <1>1, <1>3, <2>1, WriteReviewed DEF Withdraw
<1> QED BY <1>2, <1>3, RepairReviewed, ReleaseReviewed, RefetchReviewed, RereserveReviewed,
           ApproveReviewed DEF ExecutorStep

LEMMA PickReviewed ==
    ASSUME Typed, ExecutorPick
    PROVE  Review
<1>1. /\ Executor \in Procs /\ UNCHANGED <<standing, outbox>>
    BY DEF Procs, ExecutorPick, RepairRead, FinishRead, RolloverRead, ProposeDispatch, NoWrite
<1>2. \E next : Become(Executor, next) /\ next.at \notin {"prepare", "gates", "start"}
    <2>1. ASSUME NEW m \in Mails, RepairRead(m) \/ FinishRead(m) \/ RolloverRead(m)
          PROVE  \E next : Become(Executor, next) /\ next.at \notin {"prepare", "gates", "start"}
        <3> DEFINE dayed(at) == [Idle EXCEPT !.mail = m, !.view = outbox[m], !.day = today, !.at = at]
                   plain(at) == [Idle EXCEPT !.at = at, !.mail = m, !.view = outbox[m]]
        <3>1. PICK at \in {"repair", "finish", "refetch", "release"} :
                  Become(Executor, dayed(at)) \/ Become(Executor, plain(at))
            BY <2>1 DEF RepairRead, FinishRead, RolloverRead
        <3>2. dayed(at).at = at /\ plain(at).at = at
            BY IdleTyped DEF ProcRows
        <3> HIDE DEF dayed, plain
        <3>3. CASE Become(Executor, dayed(at))
            BY <3>2, <3>3
        <3>4. CASE Become(Executor, plain(at))
            BY <3>2, <3>4
        <3> QED BY <3>1, <3>3, <3>4
    <2>2. ASSUME NEW u \in Users, ProposeDispatch(u)
          PROVE  \E next : Become(Executor, next) /\ next.at \notin {"prepare", "gates", "start"}
        <3>1. PICK intent : Become(Executor, [Idle EXCEPT !.at = "approve", !.intent = intent,
                                                          !.user = u, !.day = today])
            BY <2>2 DEF ProposeDispatch
        <3> DEFINE next == [Idle EXCEPT !.at = "approve", !.intent = intent, !.user = u, !.day = today]
        <3>2. next.at = "approve" /\ Become(Executor, next)
            BY <3>1, IdleTyped DEF ProcRows
        <3> HIDE DEF next
        <3> QED BY <3>2
    <2> QED BY <2>1, <2>2 DEF ExecutorPick
<1> QED BY <1>1, <1>2, QuietReviewed

LEMMA SweepReviewed ==
    ASSUME Typed, Fences, NEW p \in Sweepers, SweepList(p) \/ SweepStep(p)
    PROVE  Review
<1> DEFINE s == proc[p]
<1>1. p \in Procs /\ s \in ProcRows /\ Idle \in ProcRows /\ Idle.at = "idle"
    BY IdleTyped DEF Procs, Typed, TypeOK
<1>2. CASE SweepList(p)
    <2>1. PICK over, todo : Become(p, [Idle EXCEPT !.at = "sweep", !.over = over, !.todo = todo])
        BY <1>2 DEF SweepList
    <2> DEFINE next == [Idle EXCEPT !.at = "sweep", !.over = over, !.todo = todo]
    <2>2. next.at = "sweep" /\ Become(p, next) /\ UNCHANGED <<standing, outbox>>
        BY <1>1, <1>2, <2>1 DEF ProcRows, SweepList, NoWrite
    <2> HIDE DEF next
    <2> QED BY <1>1, <2>2, QuietReviewed
<1>3. ASSUME NEW m \in Mails, ExpireRead(p, m)
      PROVE  Review
    <2> DEFINE taken == [s EXCEPT !.at = "expire", !.mail = m, !.view = outbox[m], !.todo = s.todo \ {m}]
               passed == [s EXCEPT !.todo = s.todo \ {m}]
    <2>1. taken.at = "expire" /\ passed.at = "sweep"
        BY <1>1, <1>3 DEF ProcRows, ExpireRead, At
    <2>2. (Become(p, taken) \/ Become(p, passed)) /\ UNCHANGED <<standing, outbox>>
        BY <1>3 DEF ExpireRead, NoWrite
    <2> HIDE DEF taken, passed
    <2> QED BY <1>1, <2>1, <2>2, QuietReviewed
<1>4. CASE Expire(p)
    <2> DEFINE next == [Idle EXCEPT !.at = "sweep", !.over = s.over, !.todo = s.todo]
    <2>1. next.at = "sweep" /\ Become(p, next) /\ UNCHANGED standing /\ s.at \in Fenced
        BY <1>1, <1>4 DEF ProcRows, Expire, At, Fenced
    <2>2. \/ UNCHANGED outbox
          \/ \E from : TransitionOrMiss(s.mail, s.view, "expired", from, "none")
        BY <1>4 DEF Expire, Missed
    <2>3. "expired" \in Statuses
        BY DEF Statuses, Dropped
    <2> HIDE DEF next
    <2> QED BY <1>1, <2>1, <2>2, <2>3, QuietReviewed, WriteReviewed
<1>5. CASE ForgetChallenges(p)
    BY <1>1, <1>5, QuietReviewed DEF ForgetChallenges
<1> QED BY <1>2, <1>3, <1>4, <1>5 DEF SweepStep

\* A receipt puts off only a mail that is not known to be delivered.
LEMMA ConsumerReviewed ==
    ASSUME Typed, Fences, NEW p \in Consumers, ConsumerStep(p)
    PROVE  Review
<1>1. p \in Procs /\ Idle.at = "idle"
    BY IdleTyped DEF Procs
<1>2. ASSUME NEW m \in Mails, ReceiptRead(p, m)
      PROVE  Review
    <2>1. PICK kind \in Receipts :
              Become(p, [Idle EXCEPT !.at = "receipt", !.mail = m, !.view = outbox[m], !.result = kind])
        BY <1>2 DEF ReceiptRead
    <2> DEFINE next == [Idle EXCEPT !.at = "receipt", !.mail = m, !.view = outbox[m], !.result = kind]
    <2>2. next.at = "receipt" /\ Become(p, next) /\ UNCHANGED <<standing, outbox>>
        BY <1>2, <2>1, IdleTyped DEF ProcRows, ReceiptRead, NoWrite
    <2> HIDE DEF next
    <2> QED BY <1>1, <2>2, QuietReviewed
<1>3. CASE Receipt(p)
    <2> DEFINE s == proc[p]
               status == IF s.result = "delivered" THEN "accepted" ELSE s.result
    <2>1. PICK m \in Mails : m = s.mail
        BY <1>1, <1>3 DEF Receipt, At, Typed, StepFacts
    <2>2. outbox[m].status # "absent" /\ s.result \in Receipts
        BY <1>1, <1>3, <2>1 DEF Receipt, At, Fences, ActorHolds, ViewHolds, Fenced, Typed, StepFacts
    <2>3. status \in Answered \union {"failed"}
        BY <2>2 DEF Receipts, Answered
    <2>4. status \in Statuses /\ status \notin {"leased", "calling_provider"}
        BY <2>3 DEF Statuses, Dropped, Answered
    <2>5. PICK delivered \in BOOLEAN : delivered = (s.result = "delivered")
        OBVIOUS
    <2>6. /\ Become(p, Idle) /\ UNCHANGED standing
          /\ \/ UNCHANGED outbox
             \/ /\ \E from : Transition(m, s.view, status, from, "settled", delivered)
                /\ s.result = "deferred" => ~ outbox[m].delivered
        BY <1>3, <2>1, <2>5 DEF Receipt, Missed
    <2>7. status = "deferred" => s.result = "deferred" /\ ~ delivered
        BY <2>5
    <2> HIDE DEF status
    <2>8. CASE UNCHANGED outbox
        BY <1>1, <2>6, <2>8, QuietReviewed
    <2>9. CASE /\ \E from : Transition(m, s.view, status, from, "settled", delivered)
               /\ s.result = "deferred" => ~ outbox[m].delivered
        <3>1. \A o \in Mails : RowReviewed(o)
            BY <2>2, <2>4, <2>7, <2>9, TransitionReviewed
        <3> QED BY <1>1, <2>6, <3>1, OthersReviewed
    <2> QED BY <2>6, <2>8, <2>9
<1> QED BY <1>2, <1>3 DEF ConsumerStep

LEMMA EnvironmentReviewed ==
    ASSUME Typed, Environment
    PROVE  Review
<1>1. ASSUME NEW p \in MayCrash, Crash(p)
      PROVE  Review
    BY <1>1, IdleTyped, QuietReviewed, ActorsAssumption DEF Crash, NoWrite
<1>2. ASSUME NEW m \in Mails, LeaseLapses(m) \/ EraseMail(m)
      PROVE  Review
    <2> DEFINE row == outbox[m]
               lapsed == [row EXCEPT !.lease = "lapsed"]
               erased == [row EXCEPT !.ref = NoRef, !.body = FALSE]
    <2>1. /\ UNCHANGED <<standing, proc>> /\ \A o \in Mails : o # m => outbox'[o] = outbox[o]
          /\ outbox'[m] = lapsed \/ (outbox'[m] = erased /\ row.status # "absent")
        BY <1>2 DEF LeaseLapses, EraseMail, Typed, TypeOK
    <2>2. /\ lapsed.pool = row.pool
          /\ lapsed.status = row.status /\ lapsed.gen = row.gen /\ lapsed.ref = row.ref
          /\ lapsed.delivered = row.delivered /\ lapsed.body = row.body
          /\ erased.status = row.status /\ erased.gen = row.gen /\ erased.ref = NoRef
          /\ erased.delivered = row.delivered
        BY DEF Typed, TypeOK, Rows
    <2> HIDE DEF lapsed, erased
    <2>3. RowReviewed(m)
        <3>1. CASE row.status # "absent"
            BY <2>1, <2>2, <3>1, LittleReviewed
        <3>2. CASE row.status = "absent"
            BY <2>1, <2>2, <3>2 DEF RowReviewed, Starts
        <3> QED BY <3>1, <3>2
    <2> QED BY <2>1, <2>3, SameReviewed DEF Review, StandingStays
<1>3. ASSUME NEW m \in Mails, StandingMoves(m)
      PROVE  Review
    <2>1. /\ UNCHANGED <<outbox, proc>> /\ outbox[m].status # "absent"
          /\ \A o \in Mails : o # m => standing'[o] = standing[o]
          /\ IsAuth(outbox[m]) => standing'[m] \in {"eligible", "skipped"}
        BY <1>3 DEF StandingMoves, Typed, TypeOK
    <2> QED BY <2>1, SameReviewed DEF Review, StandingStays
<1>4. CASE UNCHANGED <<outbox, proc, standing>>
    BY <1>4, SameReviewed DEF Review, StandingStays
<1> QED BY <1>1, <1>2, <1>3, <1>4 DEF Environment, NextDay, DeadlinePasses, Consume, Toggle

LEMMA NextReviewed ==
    ASSUME Typed, Fences, Reviews, Next
    PROVE  Review /\ Reviews'
<1>1. Typed'
    BY NextTyped
<1>2. \A p \in Senders : p \in Procs
    BY ActorsAssumption DEF Senders, Procs
<1>3. Review
    BY <1>1, <1>2, RequestReviewed, SendReviewed, ClaimReviewed, PickReviewed, ExecutorReviewed,
       SweepReviewed, ConsumerReviewed, EnvironmentReviewed DEF Next
<1> QED BY <1>1, <1>3, NextRowEvolves, ReviewsKept

LEMMA ReviewsAlways == Spec => [](Typed /\ Fences /\ Reviews)
<1>1. Typed /\ Fences /\ Reviews /\ [Next]_vars => Reviews'
    <2>1. CASE Next
        BY <2>1, NextReviewed
    <2>2. CASE UNCHANGED vars
        BY <2>2 DEF vars, Reviews, MailHolds, SenderHolds, LeaseHolds, SnapHolds, IsAuth
    <2> QED BY <2>1, <2>2
<1> QED BY <1>1, InitReviews, SafeAlways, PTL DEF Spec

\* No call is committed for a code that was replaced or consumed, a recipient who
\* may not be written to, a switch that is off or a budget of another day, however
\* long ago the sender looked (send.ts, the calling guard).
THEOREM CallsAreFit == Spec => NeverCallsObsolete
<1>1. Typed /\ Fences /\ Reviews /\ [Next]_vars
          => [\A m \in Mails : Starts(m) => FitToCall(m)]_vars
    BY NextReviewed DEF Review, RowReviewed
<1> QED BY <1>1, ReviewsAlways, PTL DEF Spec, NeverCallsObsolete

\* Receipts in any order never put a delivered mail off (recordMailReceipt).
THEOREM DeliveryIsKept == Spec => DeliveredNotDeferred
<1>1. Typed /\ Fences /\ Reviews /\ [Next]_vars
          => [\A m \in Mails : outbox[m].delivered => outbox'[m].status # "deferred"]_vars
    <2> SUFFICES ASSUME Typed, Fences, Reviews, Next, NEW m \in Mails, outbox[m].delivered
                 PROVE  outbox'[m].status # "deferred"
        OBVIOUS
    <2>1. RowReviewed(m) /\ MailHolds(m)
        BY NextReviewed DEF Review, Reviews
    <2> QED BY <2>1 DEF RowReviewed, MailHolds
<1> QED BY <1>1, ReviewsAlways, PTL DEF Spec, DeliveredNotDeferred

(***************************************************************************)
(* The ledger                                                              *)
(***************************************************************************)
LEMMA InitAgrees == Init => LedgerAgrees
<1> SUFFICES ASSUME Init, NEW c \in Columns, NEW a \in Accounts
             PROVE  ledger[c][a] = Units(c, a)
    BY DEF LedgerAgrees
<1>1. \A m \in Mails : ColumnOf(outbox[m]) = "none"
    BY DEF Init, Blank, NewRow, ColumnOf
<1>2. {m \in Mails : InColumn(outbox[m], c, a)} = {}
    BY <1>1 DEF InColumn, Columns
<1>3. ledger[c][a] = 0
    BY DEF Init, EmptyLedger
<1> QED BY <1>2, <1>3, FS_EmptySet DEF Units, UnitsIn

LEMMA NextAgrees ==
    ASSUME Typed, Fences, LedgerAgrees, Next
    PROVE  LedgerAgrees'
<1>1. \A p \in Senders : p \in Procs
    BY ActorsAssumption DEF Senders, Procs
<1> QED BY <1>1, RequestAgrees, SendAgrees, ClaimAgrees, ExecutorAgrees, SweepAgrees,
           ConsumerAgrees, EnvironmentAgrees DEF Next

\* The strengthened invariant: types, the fences every actor relies on between its
\* read and its write, the ledger as a recount, and what senders decide by.  Each step
\* of the outbox keeps it, which none of the properties alone would be.
THEOREM InductiveAlways == Spec => []Inductive
<1>1. Init => LedgerAgrees
    BY InitAgrees
<1>2. Typed /\ Fences /\ LedgerAgrees /\ [Next]_vars => LedgerAgrees'
    <2>1. CASE Next
        BY <2>1, NextAgrees
    <2>2. CASE UNCHANGED vars
        BY <2>2, NoWriteAgrees DEF vars
    <2> QED BY <2>1, <2>2
<1> QED BY <1>1, <1>2, SafeAlways, ReviewsAlways, PTL DEF Spec, Inductive

\* The counters of usage_periods are always a recount of the mails, whatever the
\* actors interleave, crash and retry.
THEOREM LedgerIsARecount == Spec => []LedgerAgrees
<1>1. Inductive => LedgerAgrees
    BY DEF Inductive
<1> QED BY <1>1, InductiveAlways, PTL

\* The caller's first look and the guard that admits the mail never disagree about a
\* ledger the outbox can reach, since a recount is never negative (decision.ts:171).
THEOREM DecisionsAgree == Spec => []DecisionMatchesGuard(ledger)
<1>1. Inductive => DecisionMatchesGuard(ledger)
    <2> SUFFICES ASSUME Inductive
                 PROVE  DecisionMatchesGuard(ledger)
        OBVIOUS
    <2>1. ledger \in Ledgers
        BY DEF Inductive, Typed, TypeOK
    <2>2. ASSUME NEW c \in Columns, NEW a \in Accounts
          PROVE  ledger[c][a] >= 0
        <3>1. IsFiniteSet({m \in Mails : InColumn(outbox[m], c, a)})
            BY FS_Subset, ActorsAssumption
        <3>2. Units(c, a) \in Nat
            BY <3>1, FS_CardinalityType DEF Units, UnitsIn
        <3>3. ledger[c][a] = Units(c, a)
            BY DEF Inductive, LedgerAgrees
        <3> QED BY <3>2, <3>3
    <2> QED BY <2>1, <2>2, DecisionAlwaysMatches
<1> QED BY <1>1, InductiveAlways, PTL

(***************************************************************************)
(* The outbox implements the promise                                       *)
(***************************************************************************)
\* A step the promise allows, read through the refinement mapping.
Promised == [Promise!PromiseNext]_<<FateNow, MailNow>>

(***************************************************************************)
(* The promise counts in the same ledger                                   *)
(***************************************************************************)
LEMMA SameCardinality ==
    ASSUME NEW S
    PROVE  Promise!Cardinality(S) = Cardinality(S)
BY DEF Promise!Cardinality, Cardinality

LEMMA SameTerms ==
    /\ Promise!Columns = Columns /\ Promise!Accounts = Accounts /\ Promise!Unreserved = Unreserved
    /\ Promise!Intents = Intents /\ Promise!Owners = Owners /\ Promise!Days = Days
    /\ Promise!AuthPools = AuthPools
    /\ \A intent : Promise!PoolOf(intent) = PoolOf(intent)
    /\ \A pool, day, user : Promise!ChargedRows(pool, day, user) = ChargedRows(pool, day, user)
BY DEF Promise!Columns, Columns, Promise!Accounts, Accounts, Promise!Unreserved, Unreserved,
       Promise!Intents, Intents, Promise!Owners, Owners, Promise!Days, Days, Promise!Pools, Pools,
       Promise!AuthPools, AuthPools, Promise!BusinessPools, BusinessPools, Promise!PoolOf, PoolOf,
       Promise!ChargedRows, ChargedRows, Promise!PoolRow, PoolRow, Promise!UserRow, UserRow

LEMMA SameCapacity ==
    ASSUME NEW l, NEW intent, NEW day, NEW user
    PROVE  Promise!HasCapacity(l, intent, day, user) <=> HasCapacity(l, intent, day, user)
BY DEF Promise!HasCapacity, HasCapacity, Promise!Occupancy, Occupancy, Promise!AuthTotal, AuthTotal,
       Promise!RowLimit, RowLimit, Promise!AuthTotalLimit, AuthTotalLimit, Promise!UserLimit, UserLimit,
       Promise!DayLimit, DayLimit, Promise!PoolOf, PoolOf, Promise!PoolRow, PoolRow,
       Promise!UserRow, UserRow, Promise!AuthPools, AuthPools, Promise!BusinessPools, BusinessPools

(***************************************************************************)
(* The books and the room in them                                          *)
(***************************************************************************)
\* A mail holds a unit of the promise exactly when the ledger counts it.
LEMMA HoldsSame ==
    ASSUME NEW m \in Mails, RowConsistent(m)
    PROVE  /\ Promise!Holds(m) <=> HoldsUnit(m)
           /\ \A c \in Columns, a \in Accounts :
                  InColumn(outbox[m], c, a) <=>
                      /\ Promise!Holds(m) /\ Promise!ColumnOfFate[FateOf(outbox[m])] = c
                      /\ a \in ChargedRows(outbox[m].pool, outbox[m].period, outbox[m].user)
<1> DEFINE row == outbox[m]
<1>1. FateNow[m] = FateOf(row) /\ MailNow[m].day = row.period
    BY DEF FateNow, MailNow, EntryOf
<1>2. /\ DOMAIN Promise!ColumnOfFate = {"waiting", "called", "answered"}
      /\ Promise!ColumnOfFate["waiting"] = "reserved"
      /\ Promise!ColumnOfFate["called"] = "uncertain"
      /\ Promise!ColumnOfFate["answered"] = "settled"
    BY DEF Promise!ColumnOfFate
<1>3. Promise!Holds(m) <=> FateOf(row) \in {"waiting", "called", "answered"} /\ row.period # Unreserved
    BY <1>1, <1>2, SameTerms DEF Promise!Holds
<1>4. /\ HoldsUnit(m) <=> FateOf(row) \in {"waiting", "called", "answered"} /\ row.period # Unreserved
      /\ HoldsUnit(m) => Promise!ColumnOfFate[FateOf(row)] = ColumnOf(row)
    BY <1>2 DEF HoldsUnit, FateOf, ColumnOf, RowConsistent, Waiting
<1> QED BY <1>3, <1>4 DEF InColumn, Charged, HoldsUnit, Columns

\* The stored counters are the promise's books.
LEMMA BooksAgree ==
    ASSUME Typed, Fences, LedgerAgrees
    PROVE  Promise!Books = ledger
<1> DEFINE counted(c, a) ==
        {m \in Mails : /\ Promise!Holds(m) /\ Promise!ColumnOfFate[FateNow[m]] = c
                       /\ a \in ChargedRows(MailNow[m].pool, MailNow[m].day, MailNow[m].user)}
<1>1. ASSUME NEW c \in Columns, NEW a \in Accounts
      PROVE  ledger[c][a] = Cardinality(counted(c, a))
    <2>1. \A m \in Mails : /\ FateNow[m] = FateOf(outbox[m])
                           /\ MailNow[m].pool = outbox[m].pool /\ MailNow[m].user = outbox[m].user
                           /\ MailNow[m].day = outbox[m].period
        BY DEF FateNow, MailNow, EntryOf
    <2>2. \A m \in Mails : m \in counted(c, a) <=> InColumn(outbox[m], c, a)
        BY <2>1, HoldsSame DEF Fences
    <2>3. counted(c, a) = {m \in Mails : InColumn(outbox[m], c, a)}
        BY <2>2
    <2> HIDE DEF counted
    <2> QED BY <2>3 DEF LedgerAgrees, Units, UnitsIn
<1>2. Promise!Books = [c \in Columns |-> [a \in Accounts |-> Cardinality(counted(c, a))]]
    BY SameTerms, SameCardinality DEF Promise!Books
<1> HIDE DEF counted
<1>3. ledger = [c \in Columns |-> [a \in Accounts |-> ledger[c][a]]]
    BY DEF Typed, TypeOK, Ledgers
<1> QED BY <1>1, <1>2, <1>3

\* What the guarded UPDATE admits, the promise has room for.
LEMMA AdmittedHasRoom ==
    ASSUME Typed, Fences, LedgerAgrees, NEW intent \in Intents, NEW day, NEW user, NEW payer,
           HasCapacity(ledger, intent, day, payer),
           PoolOf(intent) \in AuthPools \/ payer = user
    PROVE  Promise!HasRoom(intent, day, user)
<1>1. Promise!Books = ledger
    BY BooksAgree
<1>2. PoolOf(intent) \in AuthPools => PoolOf(intent) \notin BusinessPools
    BY DEF AuthPools, BusinessPools
<1>3. HasCapacity(ledger, intent, day, Promise!Payer(PoolOf(intent), user))
    BY <1>2, SameTerms DEF Promise!Payer, HasCapacity
<1> QED BY <1>1, <1>3, SameTerms, SameCapacity DEF Promise!HasRoom

(***************************************************************************)
(* One mail at a time                                                      *)
(***************************************************************************)
LEMMA OneMail ==
    ASSUME NEW m \in Mails, \A o \in Mails \ {m} : outbox'[o] = outbox[o]
    PROVE  /\ FateNow' = [FateNow EXCEPT ![m] = FateOf(outbox'[m])]
           /\ MailNow' = [MailNow EXCEPT ![m] = EntryOf(outbox'[m])]
           /\ FateNow[m] = FateOf(outbox[m]) /\ MailNow[m] = EntryOf(outbox[m])
BY DEF FateNow, MailNow

LEMMA NothingPromised ==
    ASSUME NEW m \in Mails, \A o \in Mails \ {m} : outbox'[o] = outbox[o],
           FateOf(outbox'[m]) = FateOf(outbox[m]), EntryOf(outbox'[m]) = EntryOf(outbox[m])
    PROVE  Promised
<1>1. FateNow' = FateNow /\ MailNow' = MailNow
    BY DEF FateNow, MailNow
<1> QED BY <1>1 DEF Promised

LEMMA NoWritePromised ==
    ASSUME UNCHANGED outbox
    PROVE  Promised
BY DEF Promised, FateNow, MailNow

\* A mail that keeps its entry and moves from waiting to its end, or on from its call.
LEMMA FatePromised ==
    ASSUME NEW m \in Mails, \A o \in Mails \ {m} : outbox'[o] = outbox[o],
           EntryOf(outbox'[m]) = EntryOf(outbox[m]),
           \/ FateOf(outbox'[m]) = FateOf(outbox[m])
           \/ FateOf(outbox[m]) = "waiting" /\ FateOf(outbox'[m]) = "dropped"
           \/ /\ FateOf(outbox[m]) = "waiting" /\ FateOf(outbox'[m]) = "called"
              /\ outbox[m].period # Unreserved
           \/ FateOf(outbox[m]) = "called" /\ FateOf(outbox'[m]) = "answered"
    PROVE  Promised
<1>1. /\ FateNow' = [FateNow EXCEPT ![m] = FateOf(outbox'[m])] /\ MailNow' = MailNow
      /\ FateNow[m] = FateOf(outbox[m]) /\ MailNow[m].day = outbox[m].period
    BY OneMail DEF MailNow, EntryOf
<1>2. CASE FateOf(outbox'[m]) = FateOf(outbox[m])
    BY <1>2, NothingPromised
<1>3. CASE FateOf(outbox[m]) = "waiting" /\ FateOf(outbox'[m]) = "dropped"
    <2>1. Promise!Drop(m)
        BY <1>1, <1>3 DEF Promise!Drop
    <2> QED BY <2>1 DEF Promised, Promise!PromiseNext
<1>4. CASE /\ FateOf(outbox[m]) = "waiting" /\ FateOf(outbox'[m]) = "called"
           /\ outbox[m].period # Unreserved
    <2>1. Promise!Call(m)
        BY <1>1, <1>4, SameTerms DEF Promise!Call
    <2> QED BY <2>1 DEF Promised, Promise!PromiseNext
<1>5. CASE FateOf(outbox[m]) = "called" /\ FateOf(outbox'[m]) = "answered"
    <2>1. Promise!Answer(m)
        BY <1>1, <1>5 DEF Promise!Answer
    <2> QED BY <2>1 DEF Promised, Promise!PromiseNext
<1> QED BY <1>2, <1>3, <1>4, <1>5

\* A waiting mail that takes a unit there is room for, or gives its unit back.
LEMMA ChargePromised ==
    ASSUME NEW m \in Mails, \A o \in Mails \ {m} : outbox'[o] = outbox[o],
           FateOf(outbox[m]) = "waiting", FateOf(outbox'[m]) = "waiting",
           outbox[m].period = Unreserved, NEW intent \in Intents, NEW day \in Days,
           PoolOf(intent) = outbox[m].pool, Promise!HasRoom(intent, day, outbox[m].user),
           outbox'[m].pool = outbox[m].pool, outbox'[m].user = outbox[m].user,
           outbox'[m].period = day, outbox'[m].intent = intent
    PROVE  Promised
<1>1. FateNow' = FateNow
    BY DEF FateNow
<1>a. /\ MailNow' = [MailNow EXCEPT ![m] = EntryOf(outbox'[m])]
      /\ FateNow[m] = "waiting" /\ MailNow[m] = EntryOf(outbox[m])
    BY OneMail
<1>2. /\ MailNow[m].day = Unreserved /\ MailNow[m].pool = outbox[m].pool
      /\ MailNow[m].user = outbox[m].user /\ MailNow \in [Mails -> {EntryOf(outbox[o]) : o \in Mails}]
    BY <1>a DEF EntryOf, MailNow
<1>3. MailNow' = [MailNow EXCEPT ![m].day = day, ![m].intent = intent]
    <2> DEFINE old == EntryOf(outbox[m])
               dated == [old EXCEPT !.day = day]
    <2>1. old = [pool |-> outbox[m].pool, intent |-> outbox[m].intent,
                 user |-> outbox[m].user, day |-> outbox[m].period]
        BY DEF EntryOf
    <2> HIDE DEF old
    <2>2. dated = [pool |-> outbox[m].pool, intent |-> outbox[m].intent,
                   user |-> outbox[m].user, day |-> day]
        BY <2>1
    <2> HIDE DEF dated
    <2>3. [dated EXCEPT !.intent = intent] = [pool |-> outbox[m].pool, intent |-> intent,
                                              user |-> outbox[m].user, day |-> day]
        BY <2>2
    <2>4. EntryOf(outbox'[m]) = [dated EXCEPT !.intent = intent]
        BY <2>3 DEF EntryOf
    <2>5. m \in DOMAIN MailNow /\ MailNow[m] = old
        BY DEF MailNow, old
    <2> HIDE DEF MailNow
    <2>6. MailNow' = [MailNow EXCEPT ![m] = [[MailNow[m] EXCEPT !.day = day] EXCEPT !.intent = intent]]
        BY <1>a, <2>4, <2>5 DEF dated
    <2> QED BY <2>5, <2>6
<1>4. Promise!Charge(m)
    BY <1>1, <1>a, <1>2, <1>3, SameTerms DEF Promise!Charge
<1> QED BY <1>4 DEF Promised, Promise!PromiseNext

LEMMA DischargePromised ==
    ASSUME NEW m \in Mails, \A o \in Mails \ {m} : outbox'[o] = outbox[o],
           FateOf(outbox[m]) = "waiting", FateOf(outbox'[m]) = "waiting",
           outbox[m].period # Unreserved,
           EntryOf(outbox'[m]) = [EntryOf(outbox[m]) EXCEPT !.day = Unreserved]
    PROVE  Promised
<1>1. FateNow' = FateNow
    BY DEF FateNow
<1>a. /\ MailNow' = [MailNow EXCEPT ![m] = EntryOf(outbox'[m])]
      /\ FateNow[m] = "waiting" /\ MailNow[m] = EntryOf(outbox[m])
    BY OneMail
<1>2. MailNow[m].day = outbox[m].period /\ MailNow' = [MailNow EXCEPT ![m].day = Unreserved]
    BY <1>a DEF EntryOf, MailNow
<1>3. Promise!Discharge(m)
    BY <1>1, <1>a, <1>2, SameTerms DEF Promise!Discharge
<1> QED BY <1>3 DEF Promised, Promise!PromiseNext

\* A new mail without a unit.
LEMMA PostPromised ==
    ASSUME NEW m \in Mails, \A o \in Mails \ {m} : outbox'[o] = outbox[o],
           FateOf(outbox[m]) = "none", FateOf(outbox'[m]) = "waiting",
           NEW intent \in Intents, NEW user \in Owners,
           EntryOf(outbox'[m]) = Promise!Entry(intent, user, Unreserved)
    PROVE  Promised
<1>1. Promise!Post(m)
    BY OneMail, SameTerms DEF Promise!Post
<1> QED BY <1>1 DEF Promised, Promise!PromiseNext

\* A new mail with its unit, in the place of the replaced ones.
LEMMA PostChargedPromised ==
    ASSUME NEW m \in Mails, NEW replaced \in SUBSET (Mails \ {m}),
           \A o \in replaced : /\ FateOf(outbox[o]) = "waiting" /\ FateOf(outbox'[o]) = "dropped"
                               /\ EntryOf(outbox'[o]) = EntryOf(outbox[o]),
           \A o \in Mails \ (replaced \union {m}) : outbox'[o] = outbox[o],
           FateOf(outbox[m]) = "none", FateOf(outbox'[m]) = "waiting",
           NEW intent \in Intents, NEW user \in Owners, NEW day \in Days,
           Promise!HasRoom(intent, day, user),
           EntryOf(outbox'[m]) = Promise!Entry(intent, user, day)
    PROVE  Promised
<1>1. FateNow' = [o \in Mails |-> IF o = m THEN "waiting"
                                  ELSE IF o \in replaced THEN "dropped" ELSE FateNow[o]]
    BY DEF FateNow
<1>2. MailNow' = [MailNow EXCEPT ![m] = Promise!Entry(intent, user, day)]
    <2>1. \A o \in Mails : EntryOf(outbox'[o]) = IF o = m THEN Promise!Entry(intent, user, day)
                                                ELSE EntryOf(outbox[o])
        OBVIOUS
    <2> QED BY <2>1 DEF MailNow
<1>3. FateNow[m] = "none" /\ \A o \in replaced : FateNow[o] = "waiting"
    BY DEF FateNow
<1>4. Promise!PostCharged(m, replaced)
    BY <1>1, <1>2, <1>3, SameTerms DEF Promise!PostCharged
<1> QED BY <1>4 DEF Promised, Promise!PromiseNext

(***************************************************************************)
(* transitionMail                                                          *)
(***************************************************************************)
LEMMA AfterFate ==
    ASSUME NEW row \in Rows, NEW status, NEW delivered, status # "absent"
    PROVE  /\ EntryOf(After(row, status, delivered)) = EntryOf(row)
           /\ FateOf(After(row, status, delivered)) =
                  IF row.sent \/ status = "calling_provider"
                  THEN IF status \in {"calling_provider", "unknown"} THEN "called" ELSE "answered"
                  ELSE IF status \in Waiting THEN "waiting" ELSE "dropped"
<1> DEFINE new == After(row, status, delivered)
<1>1. /\ new.pool = row.pool /\ new.intent = row.intent /\ new.user = row.user
      /\ new.period = row.period /\ new.status = status
      /\ new.sent = (row.sent \/ status = "calling_provider")
    BY DEF After, Rows
<1> HIDE DEF new
<1>2. /\ EntryOf(new) = EntryOf(row)
      /\ FateOf(new) = IF row.sent \/ status = "calling_provider"
                       THEN IF status \in {"calling_provider", "unknown"} THEN "called" ELSE "answered"
                       ELSE IF status \in Waiting THEN "waiting" ELSE "dropped"
    BY <1>1 DEF EntryOf, FateOf
<1> QED BY <1>2 DEF new

\* A guarded write ends a waiting mail, starts its call or answers it, or leaves
\* it where it stands.
LEMMA TransitionPromised ==
    ASSUME Typed, Fences, NEW m \in Mails, NEW view, NEW status, NEW from, NEW to, NEW delivered,
           Transition(m, view, status, from, to, delivered), status # "absent",
           NEW row, row = outbox[m],
           \/ row.status \in Waiting /\ ~ row.sent /\ status # "calling_provider"
           \/ /\ row.status \in Waiting /\ ~ row.sent /\ status = "calling_provider"
              /\ row.period # Unreserved
           \/ row.status \in {"calling_provider", "unknown"} /\ status # "calling_provider"
           \/ /\ row.status \notin Waiting \union {"absent", "calling_provider", "unknown"}
              /\ status \notin Waiting \union {"calling_provider", "unknown"}
           \/ row.sent /\ row.status = "retry_wait" /\ status = "expired"
    PROVE  Promised
<1> DEFINE new == After(row, status, delivered)
<1>1. outbox'[m] = new /\ \A o \in Mails \ {m} : outbox'[o] = outbox[o]
    BY DEF Transition, Typed, TypeOK
<1>2. row \in Rows /\ RowConsistent(m)
    BY DEF Typed, TypeOK, Fences
<1>3. /\ EntryOf(new) = EntryOf(row)
      /\ FateOf(new) = IF row.sent \/ status = "calling_provider"
                       THEN IF status \in {"calling_provider", "unknown"} THEN "called" ELSE "answered"
                       ELSE IF status \in Waiting THEN "waiting" ELSE "dropped"
    BY <1>2, AfterFate
<1> HIDE DEF new
<1>4. \/ FateOf(new) = FateOf(row)
      \/ FateOf(row) = "waiting" /\ FateOf(new) = "dropped"
      \/ FateOf(row) = "waiting" /\ FateOf(new) = "called" /\ row.period # Unreserved
      \/ FateOf(row) = "called" /\ FateOf(new) = "answered"
    BY <1>2, <1>3 DEF FateOf, RowConsistent, Waiting
<1> QED BY <1>1, <1>3, <1>4, FatePromised

(***************************************************************************)
(* Requests                                                                *)
(***************************************************************************)
LEMMA NewRowFate ==
    ASSUME NEW intent, NEW user, NEW ref, NEW gen, NEW day
    PROVE  LET new == NewRow(PoolOf(intent), intent, user, ref, gen, day)
           IN  FateOf(new) = "waiting" /\ EntryOf(new) = Promise!Entry(intent, user, day)
BY SameTerms DEF NewRow, FateOf, EntryOf, Promise!Entry, Waiting

LEMMA CreatePromised ==
    ASSUME Typed, NEW p \in Requests, NEW c \in Challenges, NEW m \in Mails, CreateChallenge(p, c, m)
    PROVE  Promised
<1>1. PICK intent \in Intents, user \in Owners : \E purpose : OpenChallenge(p, c, m, intent, purpose, user)
    BY ActorsAssumption DEF CreateChallenge, Owners, Intents
<1> DEFINE new == NewRow(PoolOf(intent), intent, user, c, 0, Unreserved)
<1>2. /\ outbox[m].status = "absent" /\ outbox'[m] = new
      /\ \A o \in Mails \ {m} : outbox'[o] = outbox[o]
    BY <1>1 DEF OpenChallenge, AbsentMails, Typed, TypeOK
<1>3. FateOf(new) = "waiting" /\ EntryOf(new) = Promise!Entry(intent, user, Unreserved)
    BY NewRowFate
<1>4. FateOf(outbox[m]) = "none"
    BY <1>2 DEF FateOf
<1> HIDE DEF new
<1> QED BY <1>2, <1>3, <1>4, PostPromised

LEMMA ReservePromised ==
    ASSUME Typed, Fences, LedgerAgrees, NEW p \in Requests, ReserveBudget(p)
    PROVE  Promised
<1> DEFINE s == proc[p]
           m == s.mail
           row == outbox[m]
           new == [row EXCEPT !.period = s.day, !.intent = s.intent]
           admitted == /\ HasCapacity(ledger, s.intent, s.day, NoUser)
                       /\ row.period = Unreserved
                       /\ row.status \in Unsent
<1>1. /\ m \in Mails /\ row \in Rows /\ RowConsistent(m) /\ row.pool = PoolOf(s.intent)
      /\ PoolOf(s.intent) \in AuthPools /\ s.day \in Days /\ s.intent \in Intents
    BY DEF ReserveBudget, At, Procs, Typed, TypeOK, StepFacts, ProcRows, Fences, CreatorHolds
<1>2. CASE admitted
    <2>1. outbox'[m] = new /\ \A o \in Mails \ {m} : outbox'[o] = outbox[o]
        BY <1>1, <1>2 DEF ReserveBudget, Typed, TypeOK
    <2>2. /\ new.status = row.status /\ new.sent = row.sent /\ row.status \in Waiting /\ ~ row.sent
        BY <1>1, <1>2 DEF Rows, RowConsistent, Unsent, Waiting
    <2>3. /\ new.pool = row.pool /\ new.user = row.user
          /\ new.period = s.day /\ new.intent = s.intent
        BY <1>1 DEF Rows
    <2> HIDE DEF new
    <2>4. FateOf(row) = "waiting" /\ FateOf(new) = "waiting"
        BY <2>2 DEF FateOf, Waiting
    <2>5. Promise!HasRoom(s.intent, s.day, row.user)
        BY <1>1, <1>2, AdmittedHasRoom
    <2> QED BY <1>1, <1>2, <2>1, <2>3, <2>4, <2>5, ChargePromised
<1>3. CASE ~ admitted
    BY <1>3, NoWritePromised DEF ReserveBudget, Missed
<1> QED BY <1>2, <1>3

LEMMA AbandonPromised ==
    ASSUME Typed, Fences, NEW p \in Requests, AbandonCreate(p)
    PROVE  Promised
<1> DEFINE m == proc[p].mail
           row == outbox[m]
           new == [row EXCEPT !.status = "skipped", !.body = FALSE, !.ref = NoRef]
<1>1. m \in Mails /\ row \in Rows /\ RowConsistent(m)
    BY DEF AbandonCreate, At, Procs, Typed, TypeOK, StepFacts, Fences
<1>2. \/ UNCHANGED outbox
      \/ /\ row.status = "pending" /\ outbox'[m] = new
         /\ \A o \in Mails \ {m} : outbox'[o] = outbox[o]
    BY <1>1 DEF AbandonCreate, Typed, TypeOK
<1>3. new.status = "skipped" /\ new.sent = row.sent /\ EntryOf(new) = EntryOf(row)
    BY <1>1 DEF Rows, EntryOf
<1> HIDE DEF new
<1>4. row.status = "pending" => FateOf(row) = "waiting" /\ FateOf(new) = "dropped"
    BY <1>1, <1>3 DEF FateOf, RowConsistent, Unsent, Waiting
<1> QED BY <1>1, <1>2, <1>3, <1>4, NoWritePromised, FatePromised

LEMMA ResendPromised ==
    ASSUME Typed, Fences, LedgerAgrees, NEW p \in Requests, NEW m \in Mails, ResendCommit(p, m)
    PROVE  Promised
<1> DEFINE s == proc[p]
           c == s.ref
           older == {o \in Mails : outbox[o].ref = c /\ outbox[o].status \in Unsent}
           user == challenge[c].user
           fresh == NewRow("existing_auth", "auth_resend", user, c, s.gen + 1, s.day)
           gone(o) == [outbox[o] EXCEPT !.status = "superseded", !.body = FALSE]
<1>1. CASE Missed
    BY <1>1, NoWritePromised DEF Missed
<1>2. CASE ~ Missed
    <2>1. /\ outbox' = [o \in Mails |-> IF o = m THEN fresh ELSE IF o \in older THEN gone(o) ELSE outbox[o]]
          /\ outbox[m].status = "absent" /\ HasCapacity(ledger, "auth_resend", s.day, NoUser)
        BY <1>2 DEF ResendCommit, AbsentMails
    <2>2. /\ s.day \in Days /\ user \in Owners /\ "auth_resend" \in Intents
          /\ PoolOf("auth_resend") = "existing_auth" /\ "existing_auth" \in AuthPools
        BY DEF ResendCommit, At, Procs, Typed, TypeOK, StepFacts, ProcRows, ChallengeRows, Intents,
               PoolOf, AuthPools
    <2>3. m \notin older /\ FateOf(outbox[m]) = "none"
        BY <2>1 DEF Unsent, FateOf
    <2>4. FateOf(fresh) = "waiting" /\ EntryOf(fresh) = Promise!Entry("auth_resend", user, s.day)
        <3>1. fresh = NewRow(PoolOf("auth_resend"), "auth_resend", user, c, s.gen + 1, s.day)
            BY <2>2
        <3> HIDE DEF fresh, user, c, s
        <3> QED BY <3>1, NewRowFate
    <2>5. ASSUME NEW o \in older
          PROVE  /\ FateOf(outbox[o]) = "waiting" /\ FateOf(gone(o)) = "dropped"
                 /\ EntryOf(gone(o)) = EntryOf(outbox[o])
        <3>1. outbox[o] \in Rows /\ outbox[o].status \in Unsent /\ ~ outbox[o].sent
            BY DEF Fences, RowConsistent, Typed, TypeOK
        <3>2. /\ gone(o).status = "superseded" /\ gone(o).sent = outbox[o].sent
              /\ EntryOf(gone(o)) = EntryOf(outbox[o])
            BY <3>1 DEF Rows, EntryOf
        <3> HIDE DEF gone
        <3> QED BY <3>1, <3>2 DEF FateOf, Unsent, Waiting
    <2>6. Promise!HasRoom("auth_resend", s.day, user)
        <3> HIDE DEF user
        <3> QED BY <2>1, <2>2, AdmittedHasRoom
    <2>7. /\ older \in SUBSET (Mails \ {m}) /\ outbox'[m] = fresh
          /\ \A o \in older : outbox'[o] = gone(o)
          /\ \A o \in Mails \ (older \union {m}) : outbox'[o] = outbox[o]
        BY <2>1, <2>3
    <2> HIDE DEF older, fresh, gone, user
    <2> QED BY <2>2, <2>3, <2>4, <2>5, <2>6, <2>7, PostChargedPromised
<1> QED BY <1>1, <1>2

LEMMA RequestPromised ==
    ASSUME Typed, Fences, LedgerAgrees, NEW p \in Requests, RequestStep(p)
    PROVE  Promised
<1>1. CASE \E c \in Challenges : ResendRead(p, c)
    BY <1>1, NoWritePromised DEF ResendRead
<1> QED BY <1>1, CreatePromised, ReservePromised, AbandonPromised, ResendPromised DEF RequestStep

(***************************************************************************)
(* Sending                                                                 *)
(***************************************************************************)
\* A row that changes nothing the promise speaks of.
LEMMA SameFate ==
    ASSUME NEW row, NEW new, new.pool = row.pool, new.intent = row.intent, new.user = row.user,
           new.period = row.period, new.sent = row.sent,
           \/ new.status = row.status
           \/ row.status \in Waiting /\ new.status \in Waiting /\ ~ row.sent
    PROVE  FateOf(new) = FateOf(row) /\ EntryOf(new) = EntryOf(row)
BY DEF FateOf, EntryOf, Waiting

LEMMA ClaimPromised ==
    ASSUME Typed, Fences, NEW p \in Procs, NEW m \in Mails, Claim(p, m)
    PROVE  Promised
<1> DEFINE row == outbox[m]
           new == [row EXCEPT !.status = "leased", !.version = row.version + 1,
                              !.owner = OwnerOf(p), !.lease = "live"]
<1>1. /\ row \in Rows /\ row.status = "pending" /\ ~ row.sent /\ outbox'[m] = new
      /\ \A o \in Mails \ {m} : outbox'[o] = outbox[o]
    BY DEF Claim, Claimable, Typed, TypeOK, Fences, RowConsistent, Unsent
<1>2. /\ new.pool = row.pool /\ new.user = row.user /\ new.sent = row.sent
      /\ new.status = "leased" /\ new.period = row.period /\ new.intent = row.intent
    BY <1>1 DEF Rows
<1> HIDE DEF new
<1>3. FateOf(new) = FateOf(row) /\ EntryOf(new) = EntryOf(row)
    BY <1>1, <1>2, SameFate DEF Waiting
<1> QED BY <1>1, <1>3, NothingPromised

LEMMA SendPromised ==
    ASSUME Typed, Fences, NEW p \in Procs, SendStep(p)
    PROVE  Promised
<1> DEFINE s == proc[p]
           row == outbox[s.mail]
<1>1. CASE Prepare(p) \/ PrepareThrows(p) \/ CheckGates(p) \/ CallProvider(p) \/ PauseMail(p)
    BY <1>1, NoWritePromised
    DEF Prepare, PrepareThrows, CheckGates, CallProvider, PauseMail, NoWrite
<1>2. CASE Missed
    BY <1>2, NoWritePromised DEF Missed
<1>3. CASE FinishUncalled(p) /\ ~ Missed
    <2>1. /\ s.mail \in Mails /\ s.view.status = "leased" /\ RowConsistent(s.mail)
          /\ s.result \in {"retry_wait", "skipped", "superseded", "expired", "failed"}
        BY <1>3 DEF FinishUncalled, At, Typed, StepFacts, Fences
    <2>2. Transition(s.mail, s.view, s.result,
                     IF s.result = "retry_wait" THEN "none" ELSE "reserved", "none", FALSE)
        BY <1>3 DEF FinishUncalled, TransitionOrMiss
    <2>3. row.status \in Waiting /\ ~ row.sent
        BY <2>1, <2>2 DEF Transition, CanTransition, SameLease, RowConsistent, Unsent, Waiting
    <2> DEFINE m == s.mail
               view == s.view
               status == s.result
               from == IF s.result = "retry_wait" THEN "none" ELSE "reserved"
    <2>4. /\ m \in Mails /\ Transition(m, view, status, from, "none", FALSE)
          /\ status # "absent" /\ status # "calling_provider" /\ row = outbox[m]
        BY <2>1, <2>2
    <2> HIDE DEF m, view, status, from, row
    <2> QED BY <2>3, <2>4, TransitionPromised
<1>4. CASE StartCall(p) /\ ~ Missed
    <2>1. s.mail \in Mails /\ s.view.status = "leased" /\ RowConsistent(s.mail)
        BY <1>4 DEF StartCall, At, Typed, StepFacts, Fences
    <2>2. /\ Transition(s.mail, s.view, "calling_provider", "reserved", "uncertain", FALSE)
          /\ row.period = today
        BY <1>4 DEF StartCall, CallingGuard
    <2>3. row.status \in Waiting /\ ~ row.sent
        BY <2>1, <2>2 DEF Transition, CanTransition, SameLease, RowConsistent, Unsent, Waiting
    <2>4. row.period # Unreserved
        BY <2>2, LimitsAssumption DEF Typed, TypeOK, Days, Unreserved
    <2> QED BY <2>1, <2>2, <2>3, <2>4, TransitionPromised
<1>5. CASE Record(p) /\ ~ Missed
    <2>1. /\ s.mail \in Mails /\ s.view.status = "calling_provider"
          /\ s.result \in {"accepted", "rejected", "retry_wait", "unknown"}
        BY <1>5 DEF Record, At, Typed, StepFacts
    <2>2. Transition(s.mail, s.view, s.result,
                     IF s.result = "unknown" THEN "none" ELSE "uncertain", "settled", FALSE)
        BY <1>5 DEF Record, TransitionOrMiss
    <2>3. row.status = "calling_provider"
        BY <2>1, <2>2 DEF Transition, CanTransition, SameLease
    <2> DEFINE m == s.mail
               view == s.view
               status == s.result
               from == IF s.result = "unknown" THEN "none" ELSE "uncertain"
    <2>4. /\ m \in Mails /\ Transition(m, view, status, from, "settled", FALSE)
          /\ status # "absent" /\ status # "calling_provider" /\ row = outbox[m]
        BY <2>1, <2>2
    <2> HIDE DEF m, view, status, from, row
    <2> QED BY <2>3, <2>4, TransitionPromised
<1>6. CASE RecordThrows(p) /\ ~ Missed
    <2>1. s.mail \in Mails /\ s.view.status = "calling_provider"
        BY <1>6 DEF RecordThrows, At, Typed, StepFacts
    <2>2. Transition(s.mail, s.view, "unknown", "none", "none", FALSE)
        BY <1>6 DEF RecordThrows, TransitionOrMiss
    <2>3. row.status = "calling_provider"
        BY <2>1, <2>2 DEF Transition, CanTransition, SameLease
    <2> DEFINE m == s.mail
               view == s.view
               status == "unknown"
    <2>4. /\ m \in Mails /\ Transition(m, view, status, "none", "none", FALSE) /\ row = outbox[m]
          /\ status \notin {"absent", "calling_provider"}
        BY <2>1, <2>2
    <2> HIDE DEF m, view, row, status
    <2> QED BY <2>3, <2>4, TransitionPromised
<1> QED BY <1>1, <1>2, <1>3, <1>4, <1>5, <1>6 DEF SendStep

(***************************************************************************)
(* The executor                                                            *)
(***************************************************************************)
LEMMA RepairPromised ==
    ASSUME Typed, Fences, Repair
    PROVE  Promised
<1> DEFINE s == proc[Executor]
           m == s.mail
           row == outbox[m]
           back == [row EXCEPT !.status = "pending", !.owner = NoOwner,
                               !.version = row.version + 1, !.lease = "none"]
           kept == [row EXCEPT !.lease = "none"]
<1>1. /\ m \in Mails /\ row \in Rows /\ RowConsistent(m) /\ ViewHolds(Executor)
      /\ s.view.status \in {"leased", "calling_provider", "retry_wait"}
    BY DEF Procs, Repair, At, Fenced, Fences, ActorHolds, Typed, TypeOK, StepFacts
<1>2. CASE s.view.status = "calling_provider"
    <2>1. Transition(m, s.view, "unknown", "none", "none", FALSE) \/ Missed
        BY <1>2 DEF Repair, TransitionOrMiss
    <2>2. CASE Missed
        BY <2>2, NoWritePromised DEF Missed
    <2>3. CASE Transition(m, s.view, "unknown", "none", "none", FALSE)
        <3>1. row.status = "calling_provider"
            BY <1>2, <2>3 DEF Transition, CanTransition, SameLease
        <3> DEFINE view == s.view
                   status == "unknown"
        <3>2. /\ m \in Mails /\ Transition(m, view, status, "none", "none", FALSE) /\ row = outbox[m]
              /\ status \notin {"absent", "calling_provider"}
            BY <1>1, <2>3
        <3> HIDE DEF m, view, row, status
        <3> QED BY <3>1, <3>2, TransitionPromised
    <2> QED BY <2>1, <2>2, <2>3
<1>3. CASE s.view.status # "calling_provider"
    <2> DEFINE returned == /\ s.view.status = "leased" \/ ~ s.view.sent
                           /\ row.status = s.view.status /\ row.version = s.view.version
    <2>1. /\ \A o \in Mails \ {m} : outbox'[o] = outbox[o]
          /\ \/ outbox'[m] = row
             \/ outbox'[m] = kept
             \/ outbox'[m] = back /\ returned
        BY <1>1, <1>3 DEF Repair, Typed, TypeOK
    <2>2. returned => row.status \in Waiting /\ ~ row.sent
        BY <1>1, <1>3 DEF ViewHolds, RowConsistent, Waiting, Unsent
    <2>3. /\ kept.pool = row.pool /\ kept.user = row.user /\ kept.period = row.period
          /\ kept.sent = row.sent /\ kept.status = row.status /\ kept.intent = row.intent
          /\ back.pool = row.pool /\ back.user = row.user /\ back.period = row.period
          /\ back.sent = row.sent /\ back.status = "pending" /\ back.intent = row.intent
        BY <1>1 DEF Rows
    <2> HIDE DEF back, kept, returned
    <2>4. FateOf(outbox'[m]) = FateOf(row) /\ EntryOf(outbox'[m]) = EntryOf(row)
        BY <2>1, <2>2, <2>3, SameFate DEF Waiting
    <2> QED BY <1>1, <2>1, <2>4, NothingPromised
<1> QED BY <1>2, <1>3

LEMMA ReleasePromised ==
    ASSUME Typed, Fences, ReleaseOld
    PROVE  Promised
<1> DEFINE s == proc[Executor]
           m == s.mail
           row == outbox[m]
           new == [row EXCEPT !.period = Unreserved, !.status = "pending",
                       !.version = row.version + 1, !.owner = NoOwner, !.lease = "none"]
           admitted == SameIdentity(m, s.view) /\ SourceLeft(Charged(s.view), "reserved")
<1>1. /\ Executor \in Procs /\ m \in Mails /\ row \in Rows /\ ViewHolds(Executor)
      /\ s.view.status \in Waiting
    BY DEF Procs, ReleaseOld, At, Fenced, Fences, ActorHolds, Typed, TypeOK, StepFacts
<1>2. CASE ~ admitted
    BY <1>2, NoWritePromised DEF ReleaseOld, Missed
<1>3. CASE admitted
    <2>1. outbox'[m] = new /\ \A o \in Mails \ {m} : outbox'[o] = outbox[o]
        BY <1>1, <1>3 DEF ReleaseOld, Typed, TypeOK
    <2>2. row.period # Unreserved /\ row.status \in Waiting /\ ~ row.sent
        BY <1>1, <1>3, OwnUnit DEF SameIdentity, SameLease
    <2>3. /\ new.pool = row.pool /\ new.user = row.user /\ new.intent = row.intent
          /\ new.period = Unreserved /\ new.status = "pending" /\ new.sent = row.sent
        BY <1>1 DEF Rows
    <2> HIDE DEF new
    <2>4. FateOf(row) = "waiting" /\ FateOf(new) = "waiting"
        BY <2>2, <2>3 DEF FateOf, Waiting
    <2>5. EntryOf(new) = [EntryOf(row) EXCEPT !.day = Unreserved]
        BY <2>3 DEF EntryOf
    <2> QED BY <1>1, <2>1, <2>2, <2>4, <2>5, DischargePromised
<1> QED BY <1>2, <1>3

LEMMA RereservePromised ==
    ASSUME Typed, Fences, LedgerAgrees, Rereserve
    PROVE  Promised
<1> DEFINE s == proc[Executor]
           m == s.mail
           row == outbox[m]
           new == [row EXCEPT !.period = s.day, !.intent = s.intent, !.version = row.version + 1]
           admitted == SameIdentity(m, s.view) /\ HasCapacity(ledger, s.intent, s.day, s.view.user)
<1>1. /\ m \in Mails /\ row \in Rows /\ ViewHolds(Executor) /\ s.day \in Days /\ s.intent \in Intents
      /\ s.view.status = "pending" /\ s.view.period = Unreserved /\ PoolOf(s.intent) = s.view.pool
    BY DEF Procs, Rereserve, At, Fenced, Fences, ActorHolds, Typed, TypeOK, StepFacts, ProcRows
<1>2. CASE ~ admitted
    BY <1>2, NoWritePromised DEF Rereserve, Missed
<1>3. CASE admitted
    <2>1. outbox'[m] = new /\ \A o \in Mails \ {m} : outbox'[o] = outbox[o]
        BY <1>1, <1>3 DEF Rereserve, Typed, TypeOK
    <2>2. /\ row.period = Unreserved /\ row.status = "pending" /\ ~ row.sent
          /\ row.pool = s.view.pool /\ row.user = s.view.user
        BY <1>1, <1>3 DEF SameIdentity, SameLease, ViewHolds
    <2>3. /\ new.pool = row.pool /\ new.user = row.user /\ new.intent = s.intent
          /\ new.period = s.day /\ new.status = row.status /\ new.sent = row.sent
        BY <1>1 DEF Rows
    <2> HIDE DEF new
    <2>4. FateOf(row) = "waiting" /\ FateOf(new) = "waiting"
        BY <2>2, <2>3 DEF FateOf, Waiting
    <2>5. Promise!HasRoom(s.intent, s.day, row.user)
        BY <1>1, <1>3, <2>2, AdmittedHasRoom
    <2> QED BY <1>1, <2>1, <2>2, <2>3, <2>4, <2>5, ChargePromised
<1> QED BY <1>2, <1>3

LEMMA ApprovePromised ==
    ASSUME Typed, Fences, LedgerAgrees, NEW m \in Mails, ApproveDispatch(m)
    PROVE  Promised
<1> DEFINE s == proc[Executor]
           new == NewRow(PoolOf(s.intent), s.intent, s.user, Self, 0, s.day)
<1>1. s.day \in Days /\ s.intent \in Intents /\ s.user \in Owners
    BY DEF Procs, Typed, TypeOK, ProcRows
<1>2. CASE Missed
    BY <1>2, NoWritePromised DEF Missed
<1>3. CASE ~ Missed
    <2>1. /\ outbox'[m] = new /\ \A o \in Mails \ {m} : outbox'[o] = outbox[o]
          /\ HasCapacity(ledger, s.intent, s.day, s.user) /\ outbox[m].status = "absent"
        BY <1>3 DEF ApproveDispatch, AbsentMails, Typed, TypeOK
    <2>2. Promise!HasRoom(s.intent, s.day, s.user)
        BY <1>1, <2>1, AdmittedHasRoom
    <2>3. FateOf(new) = "waiting" /\ EntryOf(new) = Promise!Entry(s.intent, s.user, s.day)
        BY NewRowFate
    <2>4. FateOf(outbox[m]) = "none"
        BY <2>1 DEF FateOf
    <2> HIDE DEF new
    <2>5. {} \in SUBSET (Mails \ {m}) /\ \A o \in {} : FALSE
        OBVIOUS
    <2>6. \A o \in Mails \ ({} \union {m}) : outbox'[o] = outbox[o]
        BY <2>1
    <2> QED BY <1>1, <2>1, <2>2, <2>3, <2>4, <2>5, <2>6, PostChargedPromised
<1> QED BY <1>2, <1>3

LEMMA ExecutorPromised ==
    ASSUME Typed, Fences, LedgerAgrees, ExecutorStep \/ ExecutorPick
    PROVE  Promised
<1> DEFINE s == proc[Executor]
           row == outbox[s.mail]
<1>1. Executor \in Procs
    BY DEF Procs
<1>2. CASE FinishRejected
    <2>1. s.mail \in Mails /\ ViewHolds(Executor) /\ s.view.status = "retry_wait" /\ s.view.sent
        BY <1>1, <1>2 DEF FinishRejected, At, Fenced, Typed, StepFacts, Fences, ActorHolds
    <2>2. Transition(s.mail, s.view, "expired", "none", "none", FALSE) \/ Missed
        BY <1>2 DEF FinishRejected, TransitionOrMiss
    <2>3. CASE Missed
        BY <2>3, NoWritePromised DEF Missed
    <2>4. CASE Transition(s.mail, s.view, "expired", "none", "none", FALSE)
        <3>1. row.status = "retry_wait" /\ row.sent
            BY <2>1, <2>4 DEF Transition, CanTransition, SameLease, ViewHolds
        <3> QED BY <2>1, <2>4, <3>1, TransitionPromised
    <2> QED BY <2>2, <2>3, <2>4
<1>3. CASE Withdraw
    <2>1. s.mail \in Mails /\ RowConsistent(s.mail) /\ s.view.status = "pending"
        BY <1>1, <1>3 DEF Withdraw, At, Typed, StepFacts, Fences
    <2>2. Transition(s.mail, s.view, "expired", "none", "none", FALSE) \/ Missed
        BY <1>3 DEF Withdraw, TransitionOrMiss
    <2>3. CASE Missed
        BY <2>3, NoWritePromised DEF Missed
    <2>4. CASE Transition(s.mail, s.view, "expired", "none", "none", FALSE)
        <3>1. row.status \in Waiting /\ ~ row.sent
            BY <2>1, <2>4 DEF Transition, CanTransition, SameLease, RowConsistent, Unsent, Waiting
        <3> DEFINE m == s.mail
                   view == s.view
                   status == "expired"
        <3>2. /\ m \in Mails /\ Transition(m, view, status, "none", "none", FALSE) /\ row = outbox[m]
              /\ status \notin {"absent", "calling_provider"}
            BY <2>1, <2>4
        <3> HIDE DEF m, view, row, status
        <3> QED BY <3>1, <3>2, TransitionPromised
    <2> QED BY <2>2, <2>3, <2>4
<1>4. CASE Refetch \/ ExecutorPick
    BY <1>4, NoWritePromised
    DEF Refetch, ExecutorPick, RepairRead, FinishRead, RolloverRead, ProposeDispatch, NoWrite
<1> QED BY <1>2, <1>3, <1>4, RepairPromised, ReleasePromised, RereservePromised, ApprovePromised
        DEF ExecutorStep

(***************************************************************************)
(* The sweep, the receipts and the environment                             *)
(***************************************************************************)
LEMMA SweepPromised ==
    ASSUME Typed, Fences, NEW p \in Sweepers, SweepList(p) \/ SweepStep(p)
    PROVE  Promised
<1> DEFINE s == proc[p]
           row == outbox[s.mail]
           from == IF s.view.period = Unreserved THEN "none" ELSE "reserved"
<1>1. CASE ~ Expire(p) \/ Missed
    BY <1>1, NoWritePromised DEF SweepList, SweepStep, ExpireRead, ForgetChallenges, NoWrite, Missed
<1>2. CASE Expire(p) /\ ~ Missed
    <2>1. s.mail \in Mails /\ RowConsistent(s.mail)
        BY <1>2 DEF Procs, Expire, At, Typed, StepFacts, Fences
    <2>2. row.body /\ Transition(s.mail, s.view, "expired", from, "none", FALSE)
        BY <1>2 DEF Expire, TransitionOrMiss
    <2>3. row.status \in Waiting /\ ~ row.sent
        BY <2>1, <2>2 DEF RowConsistent
    <2> DEFINE m == s.mail
               view == s.view
               status == "expired"
    <2>4. /\ m \in Mails /\ Transition(m, view, status, from, "none", FALSE) /\ row = outbox[m]
          /\ status \notin {"absent", "calling_provider"}
        BY <2>1, <2>2
    <2> HIDE DEF m, view, row, from, status
    <2> QED BY <2>3, <2>4, TransitionPromised
<1> QED BY <1>1, <1>2

LEMMA ConsumerPromised ==
    ASSUME Typed, Fences, NEW p \in Consumers, ConsumerStep(p)
    PROVE  Promised
<1> DEFINE s == proc[p]
           row == outbox[s.mail]
           status == IF s.result = "delivered" THEN "accepted" ELSE s.result
           from == IF s.view.status = "unknown" THEN "uncertain" ELSE "none"
           delivered == s.result = "delivered"
<1>1. CASE \E m \in Mails : ReceiptRead(p, m)
    BY <1>1, NoWritePromised DEF ReceiptRead, NoWrite
<1>2. CASE Receipt(p) /\ Missed
    BY <1>2, NoWritePromised DEF Missed
<1>3. CASE Receipt(p) /\ ~ Missed
    <2>1. /\ s.mail \in Mails /\ s.view.status \in {"accepted", "deferred", "unknown"}
          /\ s.result \in Receipts
        BY <1>3 DEF Procs, Receipt, At, Typed, StepFacts
    <2>2. Transition(s.mail, s.view, status, from, "settled", delivered)
        BY <1>3 DEF Receipt
    <2>3. status \notin Waiting \union {"absent", "calling_provider", "unknown"}
        BY <2>1 DEF Receipts, Waiting
    <2>4. row.status \in {"accepted", "deferred", "unknown"}
        BY <2>1, <2>2 DEF Transition, CanTransition, SameLease
    <2> HIDE DEF status, from, delivered
    <2> QED BY <2>1, <2>2, <2>3, <2>4, TransitionPromised DEF Waiting
<1> QED BY <1>1, <1>2, <1>3 DEF ConsumerStep

LEMMA EnvironmentPromised ==
    ASSUME Typed, Environment
    PROVE  Promised
<1>1. ASSUME NEW m \in Mails, LeaseLapses(m) \/ EraseMail(m)
      PROVE  Promised
    <2> DEFINE row == outbox[m]
               lapsed == [row EXCEPT !.lease = "lapsed"]
               erased == [row EXCEPT !.ref = NoRef, !.body = FALSE]
    <2>1. /\ row \in Rows /\ \A o \in Mails \ {m} : outbox'[o] = outbox[o]
          /\ outbox'[m] = lapsed \/ outbox'[m] = erased
        BY <1>1 DEF LeaseLapses, EraseMail, Typed, TypeOK
    <2>2. /\ lapsed.pool = row.pool /\ lapsed.user = row.user /\ lapsed.period = row.period
          /\ lapsed.sent = row.sent /\ lapsed.status = row.status /\ lapsed.intent = row.intent
          /\ erased.pool = row.pool /\ erased.user = row.user /\ erased.period = row.period
          /\ erased.sent = row.sent /\ erased.status = row.status /\ erased.intent = row.intent
        BY <2>1 DEF Rows
    <2> HIDE DEF lapsed, erased
    <2>3. FateOf(outbox'[m]) = FateOf(row) /\ EntryOf(outbox'[m]) = EntryOf(row)
        BY <2>1, <2>2, SameFate
    <2> QED BY <2>1, <2>3, NothingPromised
<1>2. CASE UNCHANGED outbox
    BY <1>2, NoWritePromised
<1> QED BY <1>1, <1>2
        DEF Environment, NextDay, StandingMoves, DeadlinePasses, Consume, Toggle, Crash, NoWrite

(***************************************************************************)
(* The outbox implements its promise                                       *)
(***************************************************************************)
LEMMA InitPromised == Init => Promise!PromiseInit
<1> SUFFICES ASSUME Init PROVE Promise!PromiseInit
    OBVIOUS
<1>1. FateOf(Blank) = "none" /\ EntryOf(Blank) = Promise!Entry("auth_resend", NoUser, Unreserved)
    BY SameTerms DEF Blank, NewRow, FateOf, EntryOf, Promise!Entry, PoolOf
<1>2. /\ FateNow = [m \in Mails |-> "none"]
      /\ MailNow = [m \in Mails |-> Promise!Entry("auth_resend", NoUser, Unreserved)]
    BY <1>1 DEF Init, FateNow, MailNow
<1> QED BY <1>2, SameTerms DEF Promise!PromiseInit

LEMMA NextPromised ==
    ASSUME Typed, Fences, LedgerAgrees, Next
    PROVE  Promised
<1>1. \A p \in Senders : p \in Procs
    BY ActorsAssumption DEF Senders, Procs
<1> QED BY <1>1, RequestPromised, SendPromised, ClaimPromised, ExecutorPromised, SweepPromised,
           ConsumerPromised, EnvironmentPromised DEF Next

\* Mail by mail, the outbox does only what the promise allows: what its counters
\* admit is what a count of the charged mails has room for, and no mail is called
\* twice, refunded after its call, or dropped without its unit going back.
THEOREM OutboxKeepsPromise == Spec => KeepsPromise
<1>1. Init => Promise!PromiseInit
    BY InitPromised
<1>2. Inductive /\ [Next]_vars => [Promise!PromiseNext]_<<FateNow, MailNow>>
    <2>1. CASE Next
        BY <2>1, NextPromised DEF Inductive, Promised
    <2>2. CASE UNCHANGED vars
        BY <2>2, NoWritePromised DEF vars, Promised
    <2> QED BY <2>1, <2>2
<1> QED BY <1>1, <1>2, InductiveAlways, PTL DEF Spec, KeepsPromise, Promise!PromiseSpec

(***************************************************************************)
(* What the counters count                                                 *)
(***************************************************************************)
LEMMA HoldsByFate ==
    ASSUME NEW row, row.status = "absent" => ~ row.sent
    PROVE  ColumnOf(row) # "none" <=> /\ FateOf(row) \in {"waiting", "called", "answered"}
                                      /\ EntryOf(row).day # Unreserved
BY DEF ColumnOf, FateOf, EntryOf, Waiting

\* The three columns of a row of usage_periods count the mails charged to it.
LEMMA OccupancyCounts ==
    ASSUME Typed, LedgerAgrees, NEW a \in Accounts
    PROVE  LET T == {m \in Mails : HoldsUnit(m) /\ a \in Charged(outbox[m])}
           IN  IsFiniteSet(T) /\ Occupancy(ledger, a) = Cardinality(T)
<1> DEFINE In(c) == {m \in Mails : InColumn(outbox[m], c, a)}
           R == In("reserved")
           S == In("settled")
           U == In("uncertain")
           T == {m \in Mails : HoldsUnit(m) /\ a \in Charged(outbox[m])}
<1>1. IsFiniteSet(R) /\ IsFiniteSet(S) /\ IsFiniteSet(U) /\ IsFiniteSet(T)
    BY ActorsAssumption, FS_Subset
<1>2. /\ ledger["reserved"][a] = Cardinality(R) /\ ledger["settled"][a] = Cardinality(S)
      /\ ledger["uncertain"][a] = Cardinality(U)
    BY DEF LedgerAgrees, Columns, Units, UnitsIn
<1>3. T = (R \union S) \union U /\ R \cap S = {} /\ (R \union S) \cap U = {}
    BY DEF HoldsUnit, InColumn, ColumnOf
<1> HIDE DEF R, S, U, T
<1>4. IsFiniteSet(R \union S) /\ Cardinality(R \union S) = Cardinality(R) + Cardinality(S)
    <2>1. /\ IsFiniteSet(R \union S)
          /\ Cardinality(R \union S) = Cardinality(R) + Cardinality(S) - Cardinality({})
        BY <1>1, <1>3, FS_Union
    <2>2. Cardinality(R) \in Nat /\ Cardinality(S) \in Nat
        BY <1>1, FS_CardinalityType
    <2> QED BY <2>1, <2>2, FS_EmptySet
<1>5. Cardinality(T) = Cardinality(R) + Cardinality(S) + Cardinality(U)
    <2>1. Cardinality(T) = Cardinality(R \union S) + Cardinality(U) - Cardinality({})
        BY <1>1, <1>3, <1>4, FS_Union
    <2>2. Cardinality(R) \in Nat /\ Cardinality(S) \in Nat /\ Cardinality(U) \in Nat
        BY <1>1, FS_CardinalityType
    <2> QED BY <1>4, <2>1, <2>2, FS_EmptySet
<1> QED BY <1>1, <1>2, <1>5 DEF Occupancy, T

LEMMA PoolOccupancy ==
    ASSUME Typed, LedgerAgrees, NEW pool \in Pools, NEW day \in Days
    PROVE  /\ IsFiniteSet(MailsOf({pool}, day))
           /\ Occupancy(ledger, PoolRow(pool, day)) = Cardinality(MailsOf({pool}, day))
<1> DEFINE a == PoolRow(pool, day)
<1>1. a \in Accounts
    BY DEF PoolRow, Accounts, Owners
<1>2. {m \in Mails : HoldsUnit(m) /\ a \in Charged(outbox[m])} = MailsOf({pool}, day)
    BY DEF MailsOf, Charged, ChargedRows, PoolRow, UserRow
<1> QED BY <1>1, <1>2, OccupancyCounts

LEMMA UserOccupancy ==
    ASSUME Typed, LedgerAgrees, NEW pool \in BusinessPools, NEW day \in Days, NEW u \in Users
    PROVE  /\ IsFiniteSet({m \in MailsOf({pool}, day) : outbox[m].user = u})
           /\ Occupancy(ledger, UserRow(pool, day, u))
                  = Cardinality({m \in MailsOf({pool}, day) : outbox[m].user = u})
<1> DEFINE a == UserRow(pool, day, u)
<1>1. a \in Accounts /\ u # NoUser /\ pool \notin AuthPools
    BY UsersAssumption DEF UserRow, Accounts, Owners, Pools, AuthPools, BusinessPools
<1>2. {m \in Mails : HoldsUnit(m) /\ a \in Charged(outbox[m])}
          = {m \in MailsOf({pool}, day) : outbox[m].user = u}
    BY <1>1 DEF MailsOf, Charged, ChargedRows, PoolRow, UserRow
<1> QED BY <1>1, <1>2, OccupancyCounts

LEMMA AuthOccupancy ==
    ASSUME Typed, LedgerAgrees, NEW day \in Days
    PROVE  /\ IsFiniteSet(MailsOf(AuthPools, day))
           /\ AuthTotal(ledger, day) = Cardinality(MailsOf(AuthPools, day))
<1> DEFINE E == MailsOf({"existing_auth"}, day)
           N == MailsOf({"new_registration"}, day)
<1>1. /\ IsFiniteSet(E) /\ Occupancy(ledger, PoolRow("existing_auth", day)) = Cardinality(E)
      /\ IsFiniteSet(N) /\ Occupancy(ledger, PoolRow("new_registration", day)) = Cardinality(N)
    BY PoolOccupancy DEF Pools, AuthPools
<1>2. MailsOf(AuthPools, day) = E \union N /\ E \cap N = {}
    BY DEF MailsOf, AuthPools
<1> HIDE DEF E, N
<1>3. Cardinality(E \union N) = Cardinality(E) + Cardinality(N) - Cardinality({})
      /\ IsFiniteSet(E \union N)
    BY <1>1, <1>2, FS_Union
<1>4. Cardinality(E) \in Nat /\ Cardinality(N) \in Nat
    BY <1>1, FS_CardinalityType
<1> QED BY <1>1, <1>2, <1>3, <1>4, FS_EmptySet DEF AuthTotal

(***************************************************************************)
(* Who may hold a unit after a step                                        *)
(***************************************************************************)
\* A mail that holds a unit held it before, under the same entry.
Keeps(m) == HoldsUnit(m)' => HoldsUnit(m) /\ EntryOf(outbox'[m]) = EntryOf(outbox[m])

\* What a mail must have had room for when it took its unit.
RoomFor(entry) ==
    /\ entry.intent \in Intents /\ entry.pool = PoolOf(entry.intent)
    /\ HasCapacity(ledger, entry.intent, entry.day, Promise!Payer(entry.pool, entry.user))

\* Each step gives at most one mail a unit, and that mail had room for it.
LEMMA HoldersGrow ==
    ASSUME Typed, Fences, LedgerAgrees, Fences', Promised
    PROVE  \E x \in Mails \union {NoMail} :
               /\ \A m \in Mails \ {x} : Keeps(m)
               /\ x \in Mails => Keeps(x) \/ RoomFor(EntryOf(outbox'[x]))
<1> DEFINE Live(fate, entry) == fate \in {"waiting", "called", "answered"} /\ entry.day # Unreserved
<1>1. ASSUME NEW m \in Mails
      PROVE  /\ FateNow[m] = FateOf(outbox[m]) /\ MailNow[m] = EntryOf(outbox[m])
             /\ FateNow'[m] = FateOf(outbox'[m]) /\ MailNow'[m] = EntryOf(outbox'[m])
             /\ HoldsUnit(m) <=> Live(FateNow[m], MailNow[m])
             /\ HoldsUnit(m)' <=> Live(FateNow'[m], MailNow'[m])
    <2>1. /\ FateNow[m] = FateOf(outbox[m]) /\ MailNow[m] = EntryOf(outbox[m])
          /\ FateNow'[m] = FateOf(outbox'[m]) /\ MailNow'[m] = EntryOf(outbox'[m])
        BY DEF FateNow, MailNow
    <2>2. /\ outbox[m].status = "absent" => ~ outbox[m].sent
          /\ outbox'[m].status = "absent" => ~ outbox'[m].sent
        BY DEF Fences, RowConsistent
    <2> QED BY <2>1, <2>2, HoldsByFate DEF HoldsUnit
<1> HIDE DEF FateNow, MailNow
<1>2. ASSUME NEW m \in Mails, Live(FateNow'[m], MailNow'[m]) =>
                 Live(FateNow[m], MailNow[m]) /\ MailNow'[m] = MailNow[m]
      PROVE  Keeps(m)
    BY <1>1, <1>2 DEF Keeps
<1>3. ASSUME NEW intent \in Intents, NEW day, NEW user, Promise!HasRoom(intent, day, user)
      PROVE  HasCapacity(ledger, intent, day, Promise!Payer(PoolOf(intent), user))
    BY <1>3, BooksAgree, SameTerms, SameCapacity DEF Promise!HasRoom
<1>4. CASE UNCHANGED <<FateNow, MailNow>>
    <2>1. \A m \in Mails : Keeps(m)
        BY <1>2, <1>4
    <2> QED BY <2>1, ActorsAssumption
<1>5. ASSUME NEW x \in Mails,
             \/ Promise!Post(x) \/ Promise!Discharge(x) \/ Promise!Drop(x)
             \/ Promise!Call(x) \/ Promise!Answer(x)
      PROVE  \A m \in Mails : Keeps(m)
    <2> SUFFICES ASSUME NEW m \in Mails, Live(FateNow'[m], MailNow'[m])
                 PROVE  Live(FateNow[m], MailNow[m]) /\ MailNow'[m] = MailNow[m]
        BY <1>2
    <2>1. DOMAIN FateNow = Mails /\ DOMAIN MailNow = Mails
        BY DEF FateNow, MailNow
    <2>2. CASE Promise!Post(x)
        BY <1>5, <2>1, <2>2, SameTerms DEF Promise!Post, Promise!Entry
    <2>3. CASE Promise!Discharge(x)
        <3>1. /\ m # x => FateNow'[m] = FateNow[m] /\ MailNow'[m] = MailNow[m]
              /\ MailNow'[x].day = Unreserved
            BY <1>1, <2>1, <2>3, SameTerms DEF Promise!Discharge, EntryOf
        <3> QED BY <3>1
    <2>4. CASE Promise!Drop(x)
        BY <2>1, <2>4 DEF Promise!Drop
    <2>5. CASE Promise!Call(x)
        BY <2>1, <2>5, SameTerms DEF Promise!Call
    <2>6. CASE Promise!Answer(x)
        BY <2>1, <2>6 DEF Promise!Answer
    <2> QED BY <1>5, <2>2, <2>3, <2>4, <2>5, <2>6
<1>6. ASSUME NEW x \in Mails, NEW replaced \in SUBSET (Mails \ {x}), Promise!PostCharged(x, replaced)
      PROVE  (\A m \in Mails \ {x} : Keeps(m)) /\ RoomFor(EntryOf(outbox'[x]))
    <2>1. PICK intent \in Promise!Intents, user \in Promise!Owners, day \in Promise!Days :
              /\ Promise!HasRoom(intent, day, user)
              /\ FateNow' = [o \in Mails |-> IF o = x THEN "waiting"
                                            ELSE IF o \in replaced THEN "dropped" ELSE FateNow[o]]
              /\ MailNow' = [MailNow EXCEPT ![x] = Promise!Entry(intent, user, day)]
        BY <1>6 DEF Promise!PostCharged
    <2>2. DOMAIN MailNow = Mails
        BY DEF MailNow
    <2>3. EntryOf(outbox'[x]) = [pool |-> PoolOf(intent), intent |-> intent, user |-> user, day |-> day]
        BY <1>1, <2>1, <2>2, SameTerms DEF Promise!Entry
    <2>4. RoomFor(EntryOf(outbox'[x]))
        BY <1>3, <2>1, <2>3, SameTerms DEF RoomFor
    <2>5. ASSUME NEW m \in Mails \ {x} PROVE Keeps(m)
        <3>1. /\ FateNow'[m] = "dropped" \/ FateNow'[m] = FateNow[m]
              /\ MailNow'[m] = MailNow[m]
            BY <2>1, <2>2
        <3> QED BY <1>2, <3>1
    <2> QED BY <2>4, <2>5
<1>7. ASSUME NEW x \in Mails, Promise!Charge(x)
      PROVE  (\A m \in Mails \ {x} : Keeps(m)) /\ RoomFor(EntryOf(outbox'[x]))
    <2>1. PICK intent \in Intents, day \in Days :
              /\ PoolOf(intent) = MailNow[x].pool
              /\ Promise!HasRoom(intent, day, MailNow[x].user)
              /\ MailNow' = [MailNow EXCEPT ![x].day = day, ![x].intent = intent]
              /\ FateNow' = FateNow
        BY <1>7, SameTerms DEF Promise!Charge
    <2>2. DOMAIN MailNow = Mails
        BY DEF MailNow
    <2>3. /\ EntryOf(outbox'[x]).pool = PoolOf(intent) /\ EntryOf(outbox'[x]).intent = intent
          /\ EntryOf(outbox'[x]).user = MailNow[x].user /\ EntryOf(outbox'[x]).day = day
        <3>1. MailNow'[x] = [[MailNow[x] EXCEPT !.day = day] EXCEPT !.intent = intent]
            BY <2>1, <2>2
        <3>2. MailNow[x] = [pool |-> outbox[x].pool, intent |-> outbox[x].intent,
                            user |-> outbox[x].user, day |-> outbox[x].period]
            BY <1>1 DEF EntryOf
        <3> DEFINE dated == [MailNow[x] EXCEPT !.day = day]
        <3>3. dated = [pool |-> outbox[x].pool, intent |-> outbox[x].intent,
                       user |-> outbox[x].user, day |-> day]
            BY <3>2
        <3>4. MailNow'[x] = [dated EXCEPT !.intent = intent]
            BY <3>1
        <3> HIDE DEF dated
        <3>5. MailNow'[x] = [pool |-> outbox[x].pool, intent |-> intent,
                             user |-> outbox[x].user, day |-> day]
            BY <3>3, <3>4
        <3> QED BY <1>1, <2>1, <3>2, <3>5
    <2>4. RoomFor(EntryOf(outbox'[x]))
        <3>1. HasCapacity(ledger, intent, day, Promise!Payer(PoolOf(intent), MailNow[x].user))
            BY <1>3, <2>1
        <3> QED BY <2>3, <3>1 DEF RoomFor
    <2>5. ASSUME NEW m \in Mails \ {x} PROVE Keeps(m)
        <3>1. FateNow'[m] = FateNow[m] /\ MailNow'[m] = MailNow[m]
            BY <2>1, <2>2
        <3> QED BY <1>2, <3>1
    <2> QED BY <2>4, <2>5
<1> QED BY <1>4, <1>5, <1>6, <1>7 DEF Promised, Promise!PromiseNext

(***************************************************************************)
(* Quotas and floors                                                       *)
(***************************************************************************)
LEMMA OneMore ==
    ASSUME NEW S, NEW T, NEW x, NEW limit \in Int, IsFiniteSet(S), T \subseteq S \union {x},
           Cardinality(S) <= limit, T \subseteq S \/ Cardinality(S) < limit
    PROVE  Cardinality(T) <= limit
<1>1. Cardinality(S) \in Nat
    BY FS_CardinalityType
<1>2. CASE T \subseteq S
    <2>1. Cardinality(T) <= Cardinality(S) /\ Cardinality(T) \in Nat
        BY <1>2, FS_Subset, FS_CardinalityType
    <2> QED BY <1>1, <2>1
<1>3. CASE ~ T \subseteq S
    <2>1. x \notin S
        BY <1>3
    <2>2. IsFiniteSet(S \union {x}) /\ Cardinality(S \union {x}) = Cardinality(S) + 1
        BY <2>1, FS_AddElement
    <2>3. Cardinality(T) <= Cardinality(S \union {x}) /\ Cardinality(T) \in Nat
        BY <2>2, FS_Subset, FS_CardinalityType
    <2> QED BY <1>1, <1>3, <2>2, <2>3
<1> QED BY <1>2, <1>3

\* The mails of a kind that hold a unit stay within a limit, if a mail of that kind
\* is given one only below it.
LEMMA WithinLimit ==
    ASSUME Typed, Fences, LedgerAgrees, Fences', Promised, NEW kind, NEW limit \in Int,
           Cardinality({m \in Mails : HoldsUnit(m) /\ EntryOf(outbox[m]) \in kind}) <= limit,
           \A entry \in kind : RoomFor(entry) =>
               Cardinality({m \in Mails : HoldsUnit(m) /\ EntryOf(outbox[m]) \in kind}) < limit
    PROVE  Cardinality({m \in Mails : HoldsUnit(m)' /\ EntryOf(outbox'[m]) \in kind}) <= limit
<1> DEFINE S == {m \in Mails : HoldsUnit(m) /\ EntryOf(outbox[m]) \in kind}
           T == {m \in Mails : HoldsUnit(m)' /\ EntryOf(outbox'[m]) \in kind}
<1>1. PICK x \in Mails \union {NoMail} :
          /\ \A m \in Mails \ {x} : Keeps(m)
          /\ x \in Mails => Keeps(x) \/ RoomFor(EntryOf(outbox'[x]))
    BY HoldersGrow
<1>2. IsFiniteSet(S)
    BY ActorsAssumption, FS_Subset
<1>3. \A m \in T : Keeps(m) => m \in S
    BY DEF Keeps
<1>4. T \subseteq S \union {x}
    BY <1>1, <1>3
<1>5. T \subseteq S \/ Cardinality(S) < limit
    <2>1. CASE x \in T /\ ~ Keeps(x)
        BY <1>1, <2>1
    <2>2. CASE ~ (x \in T /\ ~ Keeps(x))
        BY <1>1, <1>3, <2>2
    <2> QED BY <2>1, <2>2
<1> HIDE DEF S, T
<1>6. Cardinality(S) <= limit
    BY DEF S
<1>7. Cardinality(T) <= limit
    BY <1>2, <1>4, <1>5, <1>6, OneMore
<1> QED BY <1>7 DEF T

\* The entries of some pools, intents and users on a day.
Kind(pools, intents, users, day) == [pool: pools, intent: intents, user: users, day: {day}]

LEMMA KindsHeld ==
    ASSUME Typed, NEW pools \in SUBSET Pools, NEW intents \in SUBSET Intents,
           NEW users \in SUBSET Owners, NEW day \in Days
    PROVE  {m \in Mails : HoldsUnit(m) /\ EntryOf(outbox[m]) \in Kind(pools, intents, users, day)}
               = {m \in MailsOf(pools, day) : outbox[m].intent \in intents /\ outbox[m].user \in users}
BY DEF Kind, MailsOf, EntryOf

LEMMA KindsHeldAfter ==
    ASSUME Typed', NEW pools \in SUBSET Pools, NEW intents \in SUBSET Intents,
           NEW users \in SUBSET Owners, NEW day \in Days
    PROVE  {m \in Mails : HoldsUnit(m)' /\ EntryOf(outbox'[m]) \in Kind(pools, intents, users, day)}
               = {m \in MailsOf(pools, day)' : outbox'[m].intent \in intents /\ outbox'[m].user \in users}
BY DEF Kind, MailsOf, EntryOf

\* The same limit, said of the mails of a kind.
LEMMA KindWithinLimit ==
    ASSUME Typed, Fences, LedgerAgrees, Typed', Fences', Promised,
           NEW pools \in SUBSET Pools, NEW intents \in SUBSET Intents,
           NEW users \in SUBSET Owners, NEW day \in Days, NEW limit \in Int,
           Cardinality({m \in MailsOf(pools, day) :
               outbox[m].intent \in intents /\ outbox[m].user \in users}) <= limit,
           \A entry \in Kind(pools, intents, users, day) : RoomFor(entry) =>
               Cardinality({m \in MailsOf(pools, day) :
                   outbox[m].intent \in intents /\ outbox[m].user \in users}) < limit
    PROVE  Cardinality({m \in MailsOf(pools, day)' :
               outbox'[m].intent \in intents /\ outbox'[m].user \in users}) <= limit
<1> DEFINE kind == Kind(pools, intents, users, day)
           S == {m \in MailsOf(pools, day) : outbox[m].intent \in intents /\ outbox[m].user \in users}
           T == {m \in MailsOf(pools, day)' : outbox'[m].intent \in intents /\ outbox'[m].user \in users}
<1>1. /\ {m \in Mails : HoldsUnit(m) /\ EntryOf(outbox[m]) \in kind} = S
      /\ {m \in Mails : HoldsUnit(m)' /\ EntryOf(outbox'[m]) \in kind} = T
    BY KindsHeld, KindsHeldAfter
<1>2. Cardinality(S) <= limit /\ \A entry \in kind : RoomFor(entry) => Cardinality(S) < limit
    OBVIOUS
<1> HIDE DEF kind, S, T
<1>3. Cardinality(T) <= limit
    BY <1>1, <1>2, WithinLimit
<1> QED BY <1>3 DEF T

\* Every mail is of some intent and of some owner.
LEMMA AnyKind ==
    ASSUME Typed, NEW pools \in SUBSET Pools, NEW day \in Days
    PROVE  {m \in MailsOf(pools, day) : outbox[m].intent \in Intents /\ outbox[m].user \in Owners}
               = MailsOf(pools, day)
BY DEF MailsOf, Typed, TypeOK, Rows

LEMMA AnyKindAfter ==
    ASSUME Typed', NEW pools \in SUBSET Pools, NEW day \in Days
    PROVE  {m \in MailsOf(pools, day)' : outbox'[m].intent \in Intents /\ outbox'[m].user \in Owners}
               = MailsOf(pools, day)'
BY DEF MailsOf, Typed, TypeOK, Rows

LEMMA PoolWithinLimit ==
    ASSUME Typed, Fences, LedgerAgrees, Typed', Fences', Promised,
           NEW pool \in Pools, NEW day \in Days,
           Cardinality(MailsOf({pool}, day)) <= DayLimit(pool)
    PROVE  Cardinality(MailsOf({pool}, day)') <= DayLimit(pool)
<1>1. DayLimit(pool) \in Int /\ {pool} \in SUBSET Pools
    BY LimitsAssumption DEF DayLimit, Pools, AuthPools, BusinessPools
<1>2. ASSUME NEW entry \in Kind({pool}, Intents, Owners, day), RoomFor(entry)
      PROVE  Cardinality(MailsOf({pool}, day)) < DayLimit(pool)
    <2>1. entry.pool = pool /\ entry.day = day
        BY DEF Kind
    <2>2. PoolOf(entry.intent) = pool /\ Occupancy(ledger, PoolRow(pool, day)) < RowLimit(entry.intent)
        BY <1>2, <2>1 DEF RoomFor, HasCapacity
    <2>3. RowLimit(entry.intent) <= DayLimit(pool) /\ RowLimit(entry.intent) \in Int
        BY <1>1, <2>2, LimitsAssumption DEF RowLimit, DayLimit, PoolOf
    <2>4. /\ Occupancy(ledger, PoolRow(pool, day)) = Cardinality(MailsOf({pool}, day))
          /\ Cardinality(MailsOf({pool}, day)) \in Nat
        BY PoolOccupancy, FS_CardinalityType
    <2> QED BY <1>1, <2>2, <2>3, <2>4
<1> DEFINE S == MailsOf({pool}, day)
           T == MailsOf({pool}, day)'
<1>3. /\ {m \in MailsOf({pool}, day) : outbox[m].intent \in Intents /\ outbox[m].user \in Owners} = S
      /\ {m \in MailsOf({pool}, day)' : outbox'[m].intent \in Intents /\ outbox'[m].user \in Owners} = T
    BY <1>1, AnyKind, AnyKindAfter
<1>4. /\ Cardinality(S) <= DayLimit(pool) /\ DayLimit(pool) \in Int
      /\ \A entry \in Kind({pool}, Intents, Owners, day) :
             RoomFor(entry) => Cardinality(S) < DayLimit(pool)
    BY <1>1, <1>2
<1>5. Intents \in SUBSET Intents /\ Owners \in SUBSET Owners
    OBVIOUS
<1> HIDE DEF S, T
<1>6. Cardinality(T) <= DayLimit(pool)
    BY <1>1, <1>3, <1>4, <1>5, KindWithinLimit
<1> QED BY <1>6 DEF T

LEMMA AuthWithinLimit ==
    ASSUME Typed, Fences, LedgerAgrees, Typed', Fences', Promised, NEW day \in Days,
           Cardinality(MailsOf(AuthPools, day)) <= AuthDay
    PROVE  Cardinality(MailsOf(AuthPools, day)') <= AuthDay
<1>1. AuthDay \in Int /\ AuthPools \in SUBSET Pools
    BY LimitsAssumption DEF Pools
<1>2. ASSUME NEW entry \in Kind(AuthPools, Intents, Owners, day), RoomFor(entry)
      PROVE  Cardinality(MailsOf(AuthPools, day)) < AuthDay
    <2>1. entry.pool \in AuthPools /\ entry.day = day
        BY DEF Kind
    <2>2. AuthTotal(ledger, day) < AuthTotalLimit(entry.intent)
        BY <1>2, <2>1 DEF RoomFor, HasCapacity
    <2>3. AuthTotalLimit(entry.intent) <= AuthDay /\ AuthTotalLimit(entry.intent) \in Int
        BY LimitsAssumption DEF AuthTotalLimit
    <2>4. /\ AuthTotal(ledger, day) = Cardinality(MailsOf(AuthPools, day))
          /\ Cardinality(MailsOf(AuthPools, day)) \in Nat
        BY AuthOccupancy, FS_CardinalityType
    <2> QED BY <1>1, <2>2, <2>3, <2>4
<1> DEFINE S == MailsOf(AuthPools, day)
           T == MailsOf(AuthPools, day)'
<1>3. /\ {m \in MailsOf(AuthPools, day) : outbox[m].intent \in Intents /\ outbox[m].user \in Owners} = S
      /\ {m \in MailsOf(AuthPools, day)' : outbox'[m].intent \in Intents /\ outbox'[m].user \in Owners} = T
    BY <1>1, AnyKind, AnyKindAfter
<1>4. /\ Cardinality(S) <= AuthDay /\ AuthDay \in Int
      /\ \A entry \in Kind(AuthPools, Intents, Owners, day) :
             RoomFor(entry) => Cardinality(S) < AuthDay
    BY <1>1, <1>2
<1>5. Intents \in SUBSET Intents /\ Owners \in SUBSET Owners
    OBVIOUS
<1> HIDE DEF S, T
<1>6. Cardinality(T) <= AuthDay
    BY <1>1, <1>3, <1>4, <1>5, KindWithinLimit
<1> QED BY <1>6 DEF T

LEMMA UserWithinLimit ==
    ASSUME Typed, Fences, LedgerAgrees, Typed', Fences', Promised,
           NEW pool \in BusinessPools, NEW day \in Days, NEW u \in Users,
           Cardinality({m \in MailsOf({pool}, day) : outbox[m].user = u}) <= UserLimit(pool)
    PROVE  Cardinality({m \in MailsOf({pool}, day)' : outbox'[m].user = u}) <= UserLimit(pool)
<1> DEFINE S == {m \in MailsOf({pool}, day) : outbox[m].user = u}
           T == {m \in MailsOf({pool}, day)' : outbox'[m].user = u}
<1>1. /\ UserLimit(pool) \in Int /\ {pool} \in SUBSET Pools /\ {u} \in SUBSET Owners
      /\ pool \notin AuthPools /\ u # NoUser
    BY LimitsAssumption, UsersAssumption DEF UserLimit, Pools, BusinessPools, AuthPools, Owners
<1>2. ASSUME NEW entry \in Kind({pool}, Intents, {u}, day), RoomFor(entry)
      PROVE  Cardinality(S) < UserLimit(pool)
    <2>1. entry.pool = pool /\ entry.day = day /\ entry.user = u
        BY DEF Kind
    <2>2. PoolOf(entry.intent) = pool /\ HasCapacity(ledger, entry.intent, day, u)
        BY <1>1, <1>2, <2>1, SameTerms DEF RoomFor, Promise!Payer
    <2>3. Occupancy(ledger, UserRow(pool, day, u)) < UserLimit(pool)
        BY <1>1, <2>2 DEF HasCapacity
    <2> QED BY <2>3, UserOccupancy
<1>3. /\ {m \in MailsOf({pool}, day) : outbox[m].intent \in Intents /\ outbox[m].user \in {u}} = S
      /\ {m \in MailsOf({pool}, day)' : outbox'[m].intent \in Intents /\ outbox'[m].user \in {u}} = T
    BY DEF MailsOf, Typed, TypeOK, Rows
<1>4. Cardinality(S) <= UserLimit(pool)
    OBVIOUS
<1> HIDE DEF S, T
<1>5. Cardinality(T) <= UserLimit(pool)
    BY <1>1, <1>2, <1>3, <1>4, KindWithinLimit
<1> QED BY <1>5 DEF T

LEMMA AuthFloorKept ==
    ASSUME Typed, Fences, LedgerAgrees, Typed', Fences', Promised, NEW day \in Days,
           Cardinality({m \in MailsOf(AuthPools, day) : outbox[m].intent # "existing_auth_first_login"})
               <= AuthDay - AuthFloor
    PROVE  Cardinality({m \in MailsOf(AuthPools, day)' : outbox'[m].intent # "existing_auth_first_login"})
               <= AuthDay - AuthFloor
<1> DEFINE S == {m \in MailsOf(AuthPools, day) : outbox[m].intent # "existing_auth_first_login"}
           T == {m \in MailsOf(AuthPools, day)' : outbox'[m].intent # "existing_auth_first_login"}
           others == Intents \ {"existing_auth_first_login"}
<1>1. /\ AuthDay - AuthFloor \in Int /\ AuthPools \in SUBSET Pools /\ others \in SUBSET Intents
    BY LimitsAssumption DEF Pools
<1>2. ASSUME NEW entry \in Kind(AuthPools, others, Owners, day), RoomFor(entry)
      PROVE  Cardinality(S) < AuthDay - AuthFloor
    <2>1. entry.pool \in AuthPools /\ entry.day = day /\ entry.intent # "existing_auth_first_login"
        BY DEF Kind
    <2>2. AuthTotal(ledger, day) < AuthDay - AuthFloor
        BY <1>2, <2>1 DEF RoomFor, HasCapacity, AuthTotalLimit
    <2>3. /\ AuthTotal(ledger, day) = Cardinality(MailsOf(AuthPools, day))
          /\ Cardinality(MailsOf(AuthPools, day)) \in Nat
          /\ Cardinality(S) <= Cardinality(MailsOf(AuthPools, day)) /\ Cardinality(S) \in Nat
        BY AuthOccupancy, FS_CardinalityType, FS_Subset
    <2> QED BY <1>1, <2>2, <2>3
<1>3. /\ {m \in MailsOf(AuthPools, day) : outbox[m].intent \in others /\ outbox[m].user \in Owners} = S
      /\ {m \in MailsOf(AuthPools, day)' : outbox'[m].intent \in others /\ outbox'[m].user \in Owners} = T
    BY DEF MailsOf, Typed, TypeOK, Rows
<1>4. Cardinality(S) <= AuthDay - AuthFloor
    OBVIOUS
<1> HIDE DEF S, T, others
<1>5. Cardinality(T) <= AuthDay - AuthFloor
    BY <1>1, <1>2, <1>3, <1>4, KindWithinLimit
<1> QED BY <1>5 DEF T

LEMMA UrgentFloorKept ==
    ASSUME Typed, Fences, LedgerAgrees, Typed', Fences', Promised, NEW day \in Days,
           Cardinality({m \in MailsOf({"urgent_business"}, day) :
               outbox[m].intent # "urgent_cancelled_or_retracted"}) <= UrgentDay - UrgentFloor
    PROVE  Cardinality({m \in MailsOf({"urgent_business"}, day)' :
               outbox'[m].intent # "urgent_cancelled_or_retracted"}) <= UrgentDay - UrgentFloor
<1> DEFINE urgent == {"urgent_business"}
           S == {m \in MailsOf(urgent, day) : outbox[m].intent # "urgent_cancelled_or_retracted"}
           T == {m \in MailsOf(urgent, day)' : outbox'[m].intent # "urgent_cancelled_or_retracted"}
           others == Intents \ {"urgent_cancelled_or_retracted"}
<1>1. UrgentDay - UrgentFloor \in Int /\ urgent \in SUBSET Pools /\ others \in SUBSET Intents
    BY LimitsAssumption DEF Pools, BusinessPools
<1>2. ASSUME NEW entry \in Kind(urgent, others, Owners, day), RoomFor(entry)
      PROVE  Cardinality(S) < UrgentDay - UrgentFloor
    <2>1. /\ entry.pool = "urgent_business" /\ entry.day = day
          /\ entry.intent \in Intents /\ entry.intent # "urgent_cancelled_or_retracted"
        BY DEF Kind
    <2>2. /\ PoolOf(entry.intent) = "urgent_business"
          /\ Occupancy(ledger, PoolRow("urgent_business", day)) < RowLimit(entry.intent)
        BY <1>2, <2>1 DEF RoomFor, HasCapacity
    <2>3. RowLimit(entry.intent) = UrgentDay - UrgentFloor
        BY <2>1, <2>2 DEF RowLimit, PoolOf, Intents
    <2>4. /\ Occupancy(ledger, PoolRow("urgent_business", day)) = Cardinality(MailsOf(urgent, day))
          /\ Cardinality(MailsOf(urgent, day)) \in Nat
          /\ Cardinality(S) <= Cardinality(MailsOf(urgent, day)) /\ Cardinality(S) \in Nat
        BY <1>1, PoolOccupancy, FS_CardinalityType, FS_Subset
    <2> QED BY <1>1, <2>2, <2>3, <2>4
<1>3. /\ {m \in MailsOf(urgent, day) : outbox[m].intent \in others /\ outbox[m].user \in Owners} = S
      /\ {m \in MailsOf(urgent, day)' : outbox'[m].intent \in others /\ outbox'[m].user \in Owners} = T
    BY DEF MailsOf, Typed, TypeOK, Rows
<1>4. Cardinality(S) <= UrgentDay - UrgentFloor
    OBVIOUS
<1> HIDE DEF S, T, others, urgent
<1>5. Cardinality(T) <= UrgentDay - UrgentFloor
    BY <1>1, <1>2, <1>3, <1>4, KindWithinLimit
<1> QED BY <1>5 DEF T, urgent

\* At the beginning nobody holds a unit.
LEMMA InitWithinLimits == Init => QuotaRespected /\ FloorsKept
<1> SUFFICES ASSUME Init PROVE QuotaRespected /\ FloorsKept
    OBVIOUS
<1>1. \A m \in Mails : ~ HoldsUnit(m)
    BY DEF Init, Blank, NewRow, HoldsUnit, ColumnOf
<1>2. \A pools, day : MailsOf(pools, day) = {}
    BY <1>1 DEF MailsOf
<1>3. Cardinality({}) = 0
    BY FS_EmptySet
<1>4. \A pool \in Pools : DayLimit(pool) \in Nat /\ UserLimit(pool) \in Nat
    BY LimitsAssumption DEF DayLimit, UserLimit, Pools, AuthPools, BusinessPools
<1>5. QuotaRespected
    <2> SUFFICES ASSUME NEW day \in Days
                 PROVE  /\ \A pool \in Pools : Cardinality(MailsOf({pool}, day)) <= DayLimit(pool)
                        /\ Cardinality(MailsOf(AuthPools, day)) <= AuthDay
                        /\ \A pool \in BusinessPools, u \in Users :
                               Cardinality({m \in MailsOf({pool}, day) : outbox[m].user = u}) <= UserLimit(pool)
        BY DEF QuotaRespected
    <2>1. \A pool \in BusinessPools, u \in Users : {m \in MailsOf({pool}, day) : outbox[m].user = u} = {}
        BY <1>2
    <2>2. \A pool \in Pools : Cardinality(MailsOf({pool}, day)) <= DayLimit(pool)
        BY <1>2, <1>3, <1>4
    <2>3. Cardinality(MailsOf(AuthPools, day)) <= AuthDay
        BY <1>2, <1>3, LimitsAssumption
    <2>4. \A pool \in BusinessPools : pool \in Pools
        BY DEF Pools
    <2>5. ASSUME NEW pool \in BusinessPools, NEW u \in Users
          PROVE  Cardinality({m \in MailsOf({pool}, day) : outbox[m].user = u}) <= UserLimit(pool)
        <3> DEFINE S == {m \in MailsOf({pool}, day) : outbox[m].user = u}
        <3>1. S = {} /\ UserLimit(pool) \in Nat
            BY <1>4, <2>1, <2>4
        <3> HIDE DEF S
        <3>2. Cardinality(S) <= UserLimit(pool)
            BY <1>3, <3>1
        <3> QED BY <3>2 DEF S
    <2> QED BY <2>2, <2>3, <2>5
<1>6. FloorsKept
    BY <1>2, <1>3, LimitsAssumption DEF FloorsKept
<1> QED BY <1>5, <1>6

LEMMA NextWithinLimits ==
    ASSUME Typed, Fences, LedgerAgrees, Typed', Fences', Promised
    PROVE  /\ QuotaRespected => QuotaRespected'
           /\ FloorsKept => FloorsKept'
<1>1. ASSUME QuotaRespected PROVE QuotaRespected'
    BY <1>1, PoolWithinLimit, AuthWithinLimit, UserWithinLimit DEF QuotaRespected
<1>2. ASSUME FloorsKept PROVE FloorsKept'
    BY <1>2, AuthFloorKept, UrgentFloorKept DEF FloorsKept
<1> QED BY <1>1, <1>2

LEMMA LimitsAlways == Spec => [](QuotaRespected /\ FloorsKept)
<1>1. Init => QuotaRespected /\ FloorsKept
    BY InitWithinLimits
<1>2. Inductive /\ Inductive' /\ [Next]_vars /\ QuotaRespected /\ FloorsKept
          => (QuotaRespected /\ FloorsKept)'
    <2> SUFFICES ASSUME Inductive, Inductive', [Next]_vars, QuotaRespected, FloorsKept
                 PROVE  (QuotaRespected /\ FloorsKept)'
        OBVIOUS
    <2>1. Typed /\ Fences /\ LedgerAgrees /\ Typed' /\ Fences'
        BY DEF Inductive
    <2>2. Promised
        <3>1. CASE Next
            BY <2>1, <3>1, NextPromised
        <3>2. CASE UNCHANGED vars
            BY <3>2, NoWritePromised DEF vars
        <3> QED BY <3>1, <3>2
    <2> QED BY <2>1, <2>2, NextWithinLimits
<1> QED BY <1>1, <1>2, InductiveAlways, PTL DEF Spec

\* The mails charged to a day stay within the day's limits, of each pool, of both
\* authentication pools together and of each user, whatever is reserved, released,
\* moved to another day and expired meanwhile.
THEOREM QuotasAlways == Spec => []QuotaRespected
BY LimitsAlways, PTL

\* The floors of first logins and of cancellations are never eaten into by others.
THEOREM FloorsAlways == Spec => []FloorsKept
BY LimitsAlways, PTL
=============================================================================
