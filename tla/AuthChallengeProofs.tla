------------------------ MODULE AuthChallengeProofs -------------------------
(***************************************************************************)
(* The codes of one address, for any number of challenges, requests and    *)
(* resends and all limits.  CodesHold is inductive: what a request holds    *)
(* stays true of the rows, and the attempts that are counted cover the      *)
(* wrong codes and the requests that still have one to give back.           *)
(***************************************************************************)
EXTENDS AuthChallenge, FiniteSetTheorems, TLAPS

\* The inductive part of CodesHold; the rest follows from it.
Core ==
    /\ TypeOK /\ ProcsHold /\ AttemptsCovered /\ SpentWithinHour
    /\ SessionFromCurrentCode /\ PendingLimitKept /\ RotatedOncePerKey

(***************************************************************************)
(* Frames: what a step leaves alone keeps its part of the invariant         *)
(***************************************************************************)
\* No code is rotated; beside that, nobody takes or returns an attempt.
Unrotated == \A c \in Challenges : challenge'[c].gen = challenge[c].gen
Calm == Unrotated /\ \A c \in Challenges : challenge'[c].attempts = challenge[c].attempts
\* No challenge disappears and none that exists changes its kind.
Lasting == \A c \in Challenges : challenge[c].state # "none" =>
              challenge'[c].state # "none" /\ challenge'[c].kind = challenge[c].kind
\* A consumed challenge stays as it is, apart from its attempts.
Settled == \A c \in Challenges : challenge[c].state = "consumed" =>
              /\ challenge'[c].state = "consumed" /\ challenge'[c].kind = challenge[c].kind
              /\ challenge'[c].gen = challenge[c].gen

\* What a request relies on stays true when rows only last and the request waits.
LEMMA ProcsKept ==
    ASSUME Core, Lasting, NEW p \in Procs, proc'[p] = proc[p]
    PROVE  ProcHolds(p)'
<1>1. ProcHolds(p) /\ Lasting
    BY DEF Core, ProcsHold
<1> QED BY <1>1 DEF ProcHolds, Made, Lasting

\* All requests wait.
LEMMA AllProcsKept ==
    ASSUME Core, Lasting, UNCHANGED <<order, proc>>
    PROVE  ProcsHold'
<1>1. \A p \in Procs : ProcHolds(p)'
    BY ProcsKept
<1>2. \A i \in 1..Len(order) : Made(order[i])'
    BY DEF Core, ProcsHold, Made, Lasting
<1> QED BY <1>1, <1>2 DEF ProcsHold

\* One request moves.
LEMMA OtherProcsKept ==
    ASSUME Core, Lasting, NEW p \in Procs, NEW x, Become(p, x), UNCHANGED order,
           ProcHolds(p)'
    PROVE  ProcsHold'
<1>1. \A q \in Procs \ {p} : proc'[q] = proc[q]
    BY DEF Become, Core, TypeOK
<1>2. \A q \in Procs \ {p} : ProcHolds(q)'
    BY <1>1, ProcsKept
<1>3. \A i \in 1..Len(order) : Made(order[i])'
    BY DEF Core, ProcsHold, Made, Lasting
<1> QED BY <1>2, <1>3 DEF ProcsHold

\* The tries behind a smaller count are fewer.
LEMMA FewerTries ==
    ASSUME ChallengeConstants, NEW f \in [Challenges -> Nat], NEW g \in [Challenges -> Nat],
           \A c \in Challenges : f[c] <= g[c]
    PROVE  /\ IsFiniteSet(Tries(g)) /\ IsFiniteSet(Tries(f))
           /\ Cardinality(Tries(f)) \in Nat /\ Cardinality(Tries(g)) \in Nat
           /\ Cardinality(Tries(f)) <= Cardinality(Tries(g))
<1>1. OtpAttempts \in Nat /\ IsFiniteSet(Challenges)
    BY DEF ChallengeConstants
<1>2. IsFiniteSet(1..OtpAttempts)
    BY <1>1, FS_Interval
<1>3. IsFiniteSet(Challenges \X (1..OtpAttempts))
    BY <1>1, <1>2, FS_Product
<1>4. Tries(f) \subseteq Tries(g) /\ Tries(g) \subseteq Challenges \X (1..OtpAttempts)
    BY <1>1 DEF Tries
<1>5. IsFiniteSet(Tries(g)) /\ IsFiniteSet(Tries(f))
    BY <1>3, <1>4, FS_Subset
<1> QED BY <1>4, <1>5, FS_Subset, FS_CardinalityType

\* One more on one challenge is one more try.
LEMMA OneMoreTry ==
    ASSUME ChallengeConstants, NEW f \in [Challenges -> Nat], NEW g \in [Challenges -> Nat],
           NEW c \in Challenges, f[c] < OtpAttempts, g = [f EXCEPT ![c] = @ + 1]
    PROVE  Cardinality(Tries(g)) = Cardinality(Tries(f)) + 1
<1>1. OtpAttempts \in Nat /\ f[c] \in Nat
    BY DEF ChallengeConstants
<1>2. Tries(g) = Tries(f) \union {<<c, f[c] + 1>>}
    <2>1. ASSUME NEW t \in Challenges \X (1..OtpAttempts)
          PROVE  t[2] <= g[t[1]] <=> t[2] <= f[t[1]] \/ t = <<c, f[c] + 1>>
        <3>1. t[1] \in Challenges /\ t[2] \in Nat /\ t = <<t[1], t[2]>> /\ f[t[1]] \in Nat
            BY <1>1
        <3>2. CASE t[1] = c
            BY <3>1, <3>2, <1>1
        <3>3. CASE t[1] # c
            BY <3>1, <3>3, <1>1
        <3> QED BY <3>2, <3>3
    <2>2. <<c, f[c] + 1>> \in Challenges \X (1..OtpAttempts)
        BY <1>1
    <2> QED BY <2>1, <2>2 DEF Tries
<1>3. <<c, f[c] + 1>> \notin Tries(f)
    BY <1>1 DEF Tries
<1>4. IsFiniteSet(Tries(f))
    <2>1. \A d \in Challenges : f[d] <= f[d]
        OBVIOUS
    <2> QED BY <2>1, FewerTries
<1> QED BY <1>2, <1>3, <1>4, FS_AddElement

\* Attempts per challenge, as a count.
Attempts == [c \in Challenges |-> challenge[c].attempts]

LEMMA AttemptsTyped ==
    ASSUME ChallengeConstants, TypeOK
    PROVE  Attempts \in [Challenges -> Nat]
<1>1. OtpAttempts \in Nat
    BY DEF ChallengeConstants
<1>2. \A c \in Challenges : challenge[c].attempts \in Nat
    BY <1>1 DEF TypeOK, ChallengeRow
<1> QED BY <1>2 DEF Attempts

\* The limit of the hour follows from what is counted.
LEMMA HourFollows ==
    ASSUME ChallengeConstants, TypeOK, WrongCodesCounted, SpentWithinHour
    PROVE  HourlyLimitKept
<1>1. wrong \in [Challenges -> Nat] /\ Attempts \in [Challenges -> Nat]
    BY AttemptsTyped DEF TypeOK
<1>2. \A c \in Challenges : wrong[c] <= Attempts[c]
    BY DEF WrongCodesCounted, Attempts
<1>3. Cardinality(Tries(wrong)) <= Cardinality(Tries(Attempts))
      /\ Cardinality(Tries(wrong)) \in Nat /\ Cardinality(Tries(Attempts)) \in Nat
    BY <1>1, <1>2, FewerTries
<1>4. Spent = Cardinality(Tries(Attempts))
    BY DEF Spent, Attempts
<1>5. EmailVerifyHour \in Nat
    BY DEF ChallengeConstants
<1> QED BY <1>3, <1>4, <1>5 DEF SpentWithinHour, HourlyLimitKept

\* Requests are finitely many, those with an attempt to give back included.
LEMMA RequestsFinite ==
    ASSUME ChallengeConstants, NEW S \in SUBSET Procs
    PROVE  IsFiniteSet(S) /\ Cardinality(S) \in Nat
<1>1. IsFiniteSet(Procs)
    BY FS_Union DEF Procs, ChallengeConstants
<1> QED BY <1>1, FS_Subset, FS_CardinalityType

\* What covers the wrong codes bounds them.
LEMMA WrongFollows ==
    ASSUME ChallengeConstants, TypeOK, AttemptsCovered
    PROVE  WrongCodesCounted
<1> SUFFICES ASSUME NEW c \in Challenges
             PROVE  wrong[c] <= challenge[c].attempts /\ wrong[c] <= OtpAttempts
    BY DEF WrongCodesCounted
<1>1. OtpAttempts \in Nat
    BY DEF ChallengeConstants
<1>2. wrong[c] \in Nat /\ challenge[c].attempts \in 0..OtpAttempts
    BY DEF TypeOK, ChallengeRow
<1>3. Cardinality(Holders(c)) \in Nat
    <2>1. Holders(c) \subseteq Procs
        BY DEF Holders
    <2> QED BY <2>1, RequestsFinite
<1>4. wrong[c] + Cardinality(Holders(c)) <= challenge[c].attempts
    BY DEF AttemptsCovered
<1> QED BY <1>1, <1>2, <1>3, <1>4

\* The rest of CodesHold follows.
LEMMA CoreIsAll ==
    ASSUME ChallengeConstants, Core
    PROVE  CodesHold
<1>1. TypeOK /\ AttemptsCovered /\ SpentWithinHour
    BY DEF Core
<1>2. WrongCodesCounted
    BY <1>1, WrongFollows
<1>3. HourlyLimitKept
    BY <1>1, <1>2, HourFollows
<1> QED BY <1>2, <1>3 DEF Core, CodesHold

\* Nobody takes or returns an attempt.
LEMMA AttemptsKept ==
    ASSUME ChallengeConstants, Core, Calm, UNCHANGED wrong, \A c \in Challenges : Holders(c)' = Holders(c)
    PROVE  AttemptsCovered' /\ SpentWithinHour'
<1>1. AttemptsCovered'
    BY DEF Core, AttemptsCovered, Calm
<1>2. Spent' = Spent
    BY DEF Spent, Tries, Calm
<1> QED BY <1>1, <1>2 DEF Core, SpentWithinHour

\* A request moves that neither had nor has an attempt to give back.
LEMMA HoldersKept ==
    ASSUME Core, NEW p \in Procs, NEW x, Become(p, x), ~At(p, "refund"), x.at # "refund"
    PROVE  \A c \in Challenges : Holders(c)' = Holders(c)
<1>1. proc'[p] = x /\ \A q \in Procs \ {p} : proc'[q] = proc[q]
    BY DEF Become, Core, TypeOK
<1> QED BY <1>1 DEF Holders, At

\* Nobody opens or ends a session.
LEMMA SessionsKept ==
    ASSUME Core, Settled, UNCHANGED session
    PROVE  SessionFromCurrentCode' /\ PendingLimitKept'
<1>1. PendingLimitKept'
    BY DEF Core, PendingLimitKept, Pending
<1>2. SessionFromCurrentCode'
    <2>1. \A i \in 1..Len(session) : session[i] \in Session
        BY DEF Core, TypeOK
    <2>2. \A i \in 1..Len(session) : session[i].from \in Challenges
        BY <2>1 DEF Session
    <2> QED BY <2>2 DEF Core, SessionFromCurrentCode, Settled
<1> QED BY <1>1, <1>2

\* No code is rotated.
LEMMA KeysKept ==
    ASSUME Core, Unrotated, UNCHANGED resends
    PROVE  RotatedOncePerKey'
BY DEF Core, RotatedOncePerKey, Unrotated

(***************************************************************************)
(* The initial state                                                        *)
(***************************************************************************)
LEMMA InitHolds ==
    ASSUME ChallengeConstants, Init
    PROVE  Core
<1>1. {OtpAttempts, EmailVerifyHour, PendingPerUser} \subseteq Nat \ {0} /\ MaxEpoch \in Nat
    BY DEF ChallengeConstants
<1>2. TypeOK
    <2>1. Idle \in Proc
        BY <1>1 DEF Idle, Wrong, Proc
    <2> QED BY <1>1, <2>1 DEF Init, TypeOK, ChallengeRow
<1>3. ProcsHold
    BY DEF Init, ProcsHold, ProcHolds, Idle
<1>4. AttemptsCovered
    <2> SUFFICES ASSUME NEW c \in Challenges
                 PROVE  wrong[c] + Cardinality(Holders(c)) <= challenge[c].attempts
        BY DEF AttemptsCovered
    <2>1. Holders(c) = {}
        BY DEF Holders, At, Init, Idle
    <2> QED BY <2>1, FS_EmptySet DEF Init
<1>5. SpentWithinHour
    <2>1. Tries([c \in Challenges |-> challenge[c].attempts]) = {}
        <3>1. \A t \in Challenges \X (1..OtpAttempts) : t[1] \in Challenges /\ t[2] > 0
            BY <1>1
        <3> QED BY <3>1 DEF Tries, Init
    <2>2. Spent = 0
        BY <2>1, FS_EmptySet DEF Spent
    <2>3. EmailVerifyHour \in Nat
        BY <1>1
    <2> QED BY <2>2, <2>3 DEF SpentWithinHour
<1>6. SessionFromCurrentCode
    BY DEF Init, SessionFromCurrentCode
<1>7. PendingLimitKept
    <2>1. Pending = {}
        BY DEF Pending, Init
    <2> QED BY <1>1, <2>1, FS_EmptySet DEF PendingLimitKept
<1>8. RotatedOncePerKey
    <2>1. \A c \in Challenges : {k \in Keys : <<k, c>> \in resends} = {}
        BY DEF Init
    <2> QED BY <2>1, FS_EmptySet DEF Init, RotatedOncePerKey
<1> QED BY <1>2, <1>3, <1>4, <1>5, <1>6, <1>7, <1>8 DEF Core

(***************************************************************************)
(* The environment                                                          *)
(***************************************************************************)
LEMMA CreateHolds ==
    ASSUME ChallengeConstants, Core, NEW c \in Challenges, Create(c)
    PROVE  Core'
<1>1. PICK kind \in {"login", "equalization"} :
        challenge' = [challenge EXCEPT ![c].state = "open", ![c].kind = kind]
    BY DEF Create
<1>2. TypeOK /\ challenge[c].state = "none" /\ order' = Append(order, c)
      /\ UNCHANGED <<resends, epoch, session, wrong, proc>>
    BY DEF Create, Core
<1>3. TypeOK'
    <2>1. challenge' \in [Challenges -> ChallengeRow]
        BY <1>1, <1>2 DEF TypeOK, ChallengeRow
    <2>2. order' \in Seq(Challenges)
        BY <1>2 DEF TypeOK
    <2> QED BY <1>2, <2>1, <2>2 DEF TypeOK
<1>4. Calm /\ Lasting /\ Settled
    BY <1>1, <1>2 DEF Calm, Unrotated, Lasting, Settled, TypeOK
<1>5. ProcsHold'
    <2>1. \A p \in Procs : ProcHolds(p)'
        BY <1>2, <1>4, ProcsKept
    <2>2. ASSUME NEW i \in 1..Len(order')
          PROVE  Made(order[i])'
        <3>1. order \in Seq(Challenges) /\ Len(order') = Len(order) + 1
            BY <1>2 DEF TypeOK
        <3>2. CASE i \in 1..Len(order)
            <4>1. order'[i] = order[i]
                BY <3>1, <3>2, <1>2
            <4>2. Made(order[i])
                BY <3>2 DEF Core, ProcsHold
            <4> QED BY <4>1, <4>2, <1>4 DEF Made, Lasting
        <3>3. CASE i = Len(order) + 1
            <4>1. order'[i] = c
                BY <3>1, <3>3, <1>2
            <4> QED BY <4>1, <1>1, <1>2 DEF Made, TypeOK
        <3> QED BY <3>1, <3>2, <3>3
    <2> QED BY <2>1, <2>2 DEF ProcsHold
<1>6. \A d \in Challenges : Holders(d)' = Holders(d)
    BY <1>2 DEF Holders, At
<1>7. AttemptsCovered' /\ SpentWithinHour'
    BY <1>2, <1>4, <1>6, AttemptsKept
<1>8. SessionFromCurrentCode' /\ PendingLimitKept'
    BY <1>2, <1>4, SessionsKept
<1>9. RotatedOncePerKey'
    BY <1>2, <1>4, KeysKept DEF Calm
<1> QED BY <1>3, <1>5, <1>7, <1>8, <1>9 DEF Core

\* A step that only ends a challenge, or that no challenge sees.
LEMMA QuietHolds ==
    ASSUME ChallengeConstants, Core, TypeOK', Calm, Lasting, Settled,
           UNCHANGED <<order, resends, session, wrong, proc>>
    PROVE  Core'
<1>1. ProcsHold'
    BY AllProcsKept
<1>2. \A d \in Challenges : Holders(d)' = Holders(d)
    BY DEF Holders, At
<1>3. AttemptsCovered' /\ SpentWithinHour'
    BY <1>2, AttemptsKept
<1>4. SessionFromCurrentCode' /\ PendingLimitKept'
    BY SessionsKept
<1>5. RotatedOncePerKey'
    BY KeysKept DEF Calm
<1> QED BY <1>1, <1>3, <1>4, <1>5 DEF Core

LEMMA ExpireHolds ==
    ASSUME ChallengeConstants, Core, NEW c \in Challenges, Expire(c)
    PROVE  Core'
<1>1. TypeOK' /\ Calm /\ Lasting /\ Settled
    BY DEF Expire, Core, TypeOK, ChallengeRow, Calm, Unrotated, Lasting, Settled
<1> QED BY <1>1, QuietHolds DEF Expire

LEMMA AbortHolds ==
    ASSUME ChallengeConstants, Core, NEW c \in Challenges, Abort(c)
    PROVE  Core'
<1>1. TypeOK' /\ Calm /\ Lasting /\ Settled
    BY DEF Abort, Core, TypeOK, ChallengeRow, Calm, Unrotated, Lasting, Settled
<1> QED BY <1>1, QuietHolds DEF Abort

LEMMA EpochHolds ==
    ASSUME ChallengeConstants, Core, MoveEpoch
    PROVE  Core'
<1>1. MaxEpoch \in Nat
    BY DEF ChallengeConstants
<1>2. TypeOK' /\ Calm /\ Lasting /\ Settled
    BY <1>1 DEF MoveEpoch, Core, TypeOK, Calm, Unrotated, Lasting, Settled
<1> QED BY <1>2, QuietHolds DEF MoveEpoch

\* Pending sessions are finitely many.
LEMMA PendingFinite ==
    ASSUME Core
    PROVE  IsFiniteSet(Pending) /\ Cardinality(Pending) \in Nat
<1>1. Len(session) \in Nat
    BY DEF Core, TypeOK
<1>2. IsFiniteSet(1..Len(session))
    BY <1>1, FS_Interval
<1>3. Pending \subseteq 1..Len(session)
    BY DEF Pending
<1> QED BY <1>2, <1>3, FS_Subset, FS_CardinalityType

LEMMA EndPendingHolds ==
    ASSUME ChallengeConstants, Core, NEW i \in 1..Len(session), EndPending(i)
    PROVE  Core'
<1>1. TypeOK /\ session \in Seq(Session) /\ session[i] \in Session
      /\ session' = [session EXCEPT ![i].state = "ended"]
      /\ UNCHANGED <<challenge, order, resends, epoch, wrong, proc>>
    BY DEF Core, TypeOK, EndPending
<1>2. session' \in Seq(Session) /\ Len(session') = Len(session)
    <2>1. [session[i] EXCEPT !.state = "ended"] \in Session
        BY <1>1 DEF Session
    <2>2. session' = [session EXCEPT ![i] = [session[i] EXCEPT !.state = "ended"]]
        BY <1>1
    <2> QED BY <1>1, <2>1, <2>2
<1>3. ASSUME NEW j \in 1..Len(session)
      PROVE  /\ session'[j].from = session[j].from
             /\ session'[j].gen = session[j].gen
             /\ session'[j].state = "pending" => session[j].state = "pending"
    <2>1. session[j] \in Session
        BY <1>1
    <2> QED BY <1>1, <2>1 DEF Session
<1>4. TypeOK'
    BY <1>1, <1>2 DEF TypeOK
<1>5. Calm /\ Lasting
    BY <1>1 DEF Calm, Unrotated, Lasting
<1>6. ProcsHold'
    BY <1>1, <1>5, AllProcsKept
<1>7. \A d \in Challenges : Holders(d)' = Holders(d)
    BY <1>1 DEF Holders, At
<1>8. AttemptsCovered' /\ SpentWithinHour'
    BY <1>1, <1>5, <1>7, AttemptsKept
<1>9. SessionFromCurrentCode'
    BY <1>1, <1>2, <1>3 DEF Core, SessionFromCurrentCode
<1>10. PendingLimitKept'
    <2>1. Pending' \subseteq Pending
        BY <1>2, <1>3 DEF Pending
    <2>2. IsFiniteSet(Pending) /\ Cardinality(Pending) \in Nat
        BY PendingFinite
    <2>3. Cardinality(Pending') <= Cardinality(Pending) /\ Cardinality(Pending') \in Nat
        BY <2>1, <2>2, FS_Subset, FS_CardinalityType
    <2>4. PendingPerUser \in Nat /\ Cardinality(Pending) <= PendingPerUser
        BY DEF Core, PendingLimitKept, ChallengeConstants
    <2> QED BY <2>2, <2>3, <2>4 DEF PendingLimitKept
<1>11. RotatedOncePerKey'
    BY <1>1, <1>5, KeysKept DEF Calm
<1> QED BY <1>4, <1>6, <1>8, <1>9, <1>10, <1>11 DEF Core

(***************************************************************************)
(* Requests that only read                                                  *)
(***************************************************************************)
\* A request that neither had nor has an attempt to give back moves; the rows stay.
LEMMA ReadHolds ==
    ASSUME ChallengeConstants, Core, NEW p \in Procs, NEW x \in Proc, Become(p, x),
           ~At(p, "refund"), x.at # "refund", ProcHolds(p)',
           UNCHANGED <<challenge, order, resends, epoch, session, wrong>>
    PROVE  Core'
<1>1. TypeOK'
    BY DEF Core, TypeOK, Become
<1>2. Calm /\ Lasting /\ Settled
    BY DEF Calm, Unrotated, Lasting, Settled
<1>3. ProcsHold'
    BY <1>2, OtherProcsKept
<1>4. \A d \in Challenges : Holders(d)' = Holders(d)
    BY HoldersKept
<1>5. AttemptsCovered' /\ SpentWithinHour'
    BY <1>2, <1>4, AttemptsKept
<1>6. SessionFromCurrentCode' /\ PendingLimitKept'
    BY <1>2, SessionsKept
<1>7. RotatedOncePerKey'
    BY <1>2, KeysKept DEF Calm
<1> QED BY <1>1, <1>3, <1>5, <1>6, <1>7 DEF Core

\* An idle request holds nothing.
LEMMA IdleTyped ==
    ASSUME ChallengeConstants
    PROVE  Idle \in Proc
<1>1. MaxEpoch \in Nat
    BY DEF ChallengeConstants
<1> QED BY <1>1 DEF Idle, Wrong, Proc

LEMMA IdleHolds ==
    ASSUME ChallengeConstants, NEW p \in Procs, proc'[p] = Idle
    PROVE  ProcHolds(p)'
BY DEF ProcHolds, Idle

\* The rows a request reads exist.
LEMMA RowsTyped ==
    ASSUME ChallengeConstants, Core
    PROVE  Rows \subseteq Row /\ \A row \in Rows : Made(row.id)
<1>1. ASSUME NEW i \in 1..Len(order)
      PROVE  RowOf(i) \in Row /\ Made(RowOf(i).id)
    <2>1. order[i] \in Challenges /\ i \in Nat /\ Made(order[i])
        BY DEF Core, TypeOK, ProcsHold
    <2>2. challenge[order[i]].gen \in Nat /\ challenge[order[i]].attempts \in 0..OtpAttempts
        BY <2>1 DEF Core, TypeOK, ChallengeRow
    <2> QED BY <2>1, <2>2 DEF RowOf, Row
<1> QED BY <1>1 DEF Rows

LEMMA BecomesIt ==
    ASSUME Core, NEW p \in Procs, NEW x, Become(p, x)
    PROVE  proc'[p] = x /\ proc[p] \in Proc
BY DEF Core, TypeOK, Become

LEMMA VerifyHolds ==
    ASSUME ChallengeConstants, Core, NEW v \in Verifiers, NEW guess \in Guesses, Verify(v, guess)
    PROVE  Core'
<1> DEFINE x == [Idle EXCEPT !.at = "next", !.guess = guess, !.left = Rows]
<1>1. v \in Procs /\ Become(v, x) /\ x.at # "refund" /\ ~At(v, "refund")
      /\ UNCHANGED <<challenge, order, resends, epoch, session, wrong>>
    BY DEF Verify, Procs, At, Idle
<1>2. guess \in (Challenges \union {NoChallenge}) \X Nat
    <2>1. \A c \in Challenges : challenge[c].gen \in Nat
        BY DEF Core, TypeOK, ChallengeRow
    <2> QED BY <2>1 DEF Guesses, Wrong
<1>3. Rows \subseteq Row /\ \A row \in Rows : Made(row.id)
    BY RowsTyped
<1>4. x \in Proc
    BY <1>2, <1>3, IdleTyped DEF Idle, Proc
<1>5. ProcHolds(v)'
    <2>1. proc'[v] = x /\ x.left = Rows /\ x.at = "next"
        BY <1>1, BecomesIt DEF Idle
    <2>2. \A row \in Rows : Made(row.id)'
        BY <1>1, <1>3 DEF Made
    <2> QED BY <2>1, <2>2 DEF ProcHolds
<1> HIDE DEF x
<1> QED BY <1>1, <1>4, <1>5, ReadHolds

LEMMA PassOverHolds ==
    ASSUME ChallengeConstants, Core, NEW v \in Verifiers, At(v, "next"), NEW row, PassOver(v, row),
           UNCHANGED <<order, resends, epoch, session>>
    PROVE  Core'
<1> DEFINE x == [proc[v] EXCEPT !.left = @ \ {row}]
<1>1. v \in Procs /\ Become(v, x) /\ ~At(v, "refund") /\ proc[v] \in Proc /\ ProcHolds(v)
      /\ UNCHANGED <<challenge, wrong>>
    BY BecomesIt DEF PassOver, Procs, At, Core, ProcsHold
<1>2. x \in Proc /\ x.at = "next" /\ x.left \subseteq proc[v].left
    BY <1>1 DEF Proc, At
<1>3. ProcHolds(v)'
    <2>1. proc'[v] = x
        BY <1>1, BecomesIt
    <2> QED BY <1>1, <1>2, <2>1 DEF ProcHolds, Made
<1> HIDE DEF x
<1> QED BY <1>1, <1>2, <1>3, ReadHolds

LEMMA RefuseHolds ==
    ASSUME ChallengeConstants, Core, NEW v \in Verifiers, Refuse(v)
    PROVE  Core'
<1>1. v \in Procs /\ Become(v, Idle) /\ ~At(v, "refund") /\ Idle.at # "refund"
      /\ UNCHANGED <<challenge, order, resends, epoch, session, wrong>>
    BY DEF Refuse, Procs, At, Idle
<1>2. ProcHolds(v)'
    BY <1>1, BecomesIt, IdleHolds
<1> QED BY <1>1, <1>2, IdleTyped, ReadHolds

LEMMA ReadForConsumeHolds ==
    ASSUME ChallengeConstants, Core, NEW v \in Verifiers, ReadForConsume(v)
    PROVE  Core'
<1> DEFINE y == [proc[v] EXCEPT !.at = "consume", !.epoch = epoch]
           x == IF challenge[proc[v].row].gen = proc[v].gen THEN y ELSE Idle
<1>1. v \in Procs /\ Become(v, x) /\ At(v, "read") /\ ~At(v, "refund") /\ proc[v] \in Proc /\ ProcHolds(v)
      /\ UNCHANGED <<challenge, order, resends, epoch, session, wrong>>
    BY BecomesIt DEF ReadForConsume, Procs, At, Core, ProcsHold
<1>2. y \in Proc /\ y.at = "consume" /\ Idle.at = "idle"
    <2>1. epoch \in 0..MaxEpoch
        BY DEF Core, TypeOK
    <2> QED BY <1>1, <2>1 DEF Proc, Idle
<1>3. proc'[v] = x
    BY <1>1, BecomesIt
<1>4. ProcHolds(v)'
    <2>1. CASE x = y
        <3>1. /\ proc'[v].at = "consume" /\ proc'[v].left = proc[v].left /\ proc'[v].row = proc[v].row
              /\ proc'[v].gen = proc[v].gen /\ proc'[v].guess = proc[v].guess
            BY <1>1, <1>3, <2>1 DEF Proc
        <3> QED BY <1>1, <3>1 DEF ProcHolds, Made, At
    <2>2. CASE x = Idle
        BY <1>1, <1>3, <2>2, IdleHolds
    <2> QED BY <2>1, <2>2
<1>5. x \in Proc /\ x.at # "refund"
    BY <1>2, IdleTyped
<1> HIDE DEF x
<1> QED BY <1>1, <1>4, <1>5, ReadHolds

LEMMA ReplayHolds ==
    ASSUME ChallengeConstants, Core, NEW r \in Resenders, NEW key \in Keys, Replay(r, key)
    PROVE  Core'
<1> DEFINE x == [Idle EXCEPT !.at = "latest", !.key = key]
<1>1. r \in Procs /\ Become(r, x) /\ ~At(r, "refund") /\ x.at # "refund"
      /\ UNCHANGED <<challenge, order, resends, epoch, session, wrong>>
    BY DEF Replay, Procs, At, Idle
<1>2. x \in Proc /\ x.left = {} /\ x.at = "latest" /\ x.key \in Keys
    BY IdleTyped DEF Idle, Proc
<1>3. ProcHolds(r)'
    <2>1. proc'[r] = x
        BY <1>1, BecomesIt
    <2> QED BY <1>2, <2>1 DEF ProcHolds
<1> HIDE DEF x
<1> QED BY <1>1, <1>2, <1>3, ReadHolds

LEMMA ReadLatestHolds ==
    ASSUME ChallengeConstants, Core, NEW r \in Resenders, ReadLatest(r)
    PROVE  Core'
<1>1. r \in Procs /\ At(r, "latest") /\ ~At(r, "refund") /\ proc[r] \in Proc /\ ProcHolds(r)
      /\ UNCHANGED <<challenge, order, resends, epoch, session, wrong>>
    BY DEF ReadLatest, Procs, At, Core, ProcsHold, TypeOK
<1>2. ASSUME NEW row \in Rows, 
             Become(r, [proc[r] EXCEPT !.at = "rotate", !.row = row.id, !.gen = row.gen])
      PROVE  Core'
    <2> DEFINE x == [proc[r] EXCEPT !.at = "rotate", !.row = row.id, !.gen = row.gen]
    <2>1. row \in Row /\ Made(row.id)
        BY RowsTyped
    <2>2. x \in Proc /\ x.at = "rotate" /\ x.row = row.id /\ x.left = proc[r].left /\ x.key = proc[r].key
        BY <1>1, <2>1 DEF Proc, Row
    <2>3. ProcHolds(r)'
        <3>1. proc'[r] = x
            BY <1>1, <1>2, BecomesIt
        <3> QED BY <1>1, <2>1, <2>2, <3>1 DEF ProcHolds, Made, At
    <2> HIDE DEF x
    <2> QED BY <1>1, <1>2, <2>2, <2>3, ReadHolds DEF x
<1>3. CASE Become(r, Idle)
    <2>1. ProcHolds(r)' /\ Idle.at # "refund"
        BY <1>1, <1>3, BecomesIt, IdleHolds DEF Idle
    <2> QED BY <1>1, <1>3, <2>1, IdleTyped, ReadHolds
<1> QED BY <1>2, <1>3 DEF ReadLatest

(***************************************************************************)
(* Requests that write                                                      *)
(***************************************************************************)
LEMMA CompareHolds ==
    ASSUME ChallengeConstants, Core, NEW v \in Verifiers, At(v, "next"), NEW row \in proc[v].left,
           Compare(v, row), UNCHANGED <<order, resends, epoch, session>>
    PROVE  Core'
<1> DEFINE c == row.id
           rest == [proc[v] EXCEPT !.left = @ \ {row}]
           hit == [rest EXCEPT !.at = "refund", !.row = row.id, !.gen = row.gen]
<1>1. v \in Procs /\ proc[v] \in Proc /\ proc[v].at = "next" /\ ProcHolds(v) /\ TypeOK
    BY DEF Procs, At, Core, ProcsHold, TypeOK
<1>2. row \in Row /\ c \in Challenges /\ row.gen \in Nat /\ Made(c)
    BY <1>1 DEF Proc, Row, ProcHolds
<1>3. /\ challenge' = [challenge EXCEPT ![c].attempts = @ + 1]
      /\ challenge[c].attempts < OtpAttempts /\ Spent < EmailVerifyHour
      /\ challenge[c].state = "open"
      /\ \/ Matches(v, row) /\ Become(v, hit) /\ UNCHANGED wrong
         \/ Become(v, rest) /\ wrong' = [wrong EXCEPT ![c] = @ + 1]
    BY DEF Compare, MayTry, Open
<1>4. OtpAttempts \in Nat /\ EmailVerifyHour \in Nat /\ challenge[c].attempts \in Nat
    <2>1. OtpAttempts \in Nat /\ EmailVerifyHour \in Nat
        BY DEF ChallengeConstants
    <2> QED BY <1>1, <1>2, <2>1 DEF TypeOK, ChallengeRow
<1>5. /\ rest \in Proc /\ rest.at = "next" /\ rest.left \subseteq proc[v].left
      /\ hit \in Proc /\ hit.at = "refund" /\ hit.left \subseteq proc[v].left
      /\ hit.row = c /\ hit.gen = row.gen /\ hit.guess = proc[v].guess
    BY <1>1, <1>2 DEF Proc
<1>6. challenge' \in [Challenges -> ChallengeRow]
    <2> HIDE DEF c
    <2>1. challenge[c].attempts + 1 \in 0..OtpAttempts
        BY <1>3, <1>4
    <2>2. challenge' = [challenge EXCEPT ![c].attempts = challenge[c].attempts + 1]
        BY <1>3
    <2> QED BY <1>1, <1>2, <2>1, <2>2 DEF TypeOK, ChallengeRow
<1>7. TypeOK'
    <2>1. wrong' \in [Challenges -> Nat]
        <3> HIDE DEF c
        <3>1. wrong \in [Challenges -> Nat] /\ wrong[c] + 1 \in Nat
            BY <1>1, <1>2 DEF TypeOK
        <3>2. wrong' = wrong \/ wrong' = [wrong EXCEPT ![c] = wrong[c] + 1]
            BY <1>3
        <3> QED BY <1>2, <3>1, <3>2
    <2>2. proc' \in [Procs -> Proc]
        BY <1>1, <1>3, <1>5 DEF TypeOK, Become
    <2> QED BY <1>1, <1>6, <2>1, <2>2 DEF TypeOK
<1>8. Unrotated /\ Lasting /\ Settled
    BY <1>1, <1>2, <1>3 DEF Unrotated, Lasting, Settled, TypeOK
<1>9. ProcsHold'
    <2>1. CASE Matches(v, row) /\ Become(v, hit)
        <3>1. proc'[v] = hit
            BY <1>1, <2>1, BecomesIt
        <3>2. challenge[c].kind = "login" /\ proc[v].guess = <<c, row.gen>>
            BY <2>1 DEF Matches
        <3>3. Made(c)' /\ challenge'[c].kind = "login" /\ \A r \in hit.left : Made(r.id)'
            BY <1>1, <1>2, <1>5, <1>8, <3>2 DEF Made, Lasting, ProcHolds
        <3>4. ProcHolds(v)'
            BY <1>5, <3>1, <3>2, <3>3 DEF ProcHolds
        <3> HIDE DEF hit
        <3> QED BY <1>1, <1>8, <2>1, <3>4, OtherProcsKept
    <2>2. CASE Become(v, rest)
        <3>1. proc'[v] = rest
            BY <1>1, <2>2, BecomesIt
        <3>2. \A r \in rest.left : Made(r.id)'
            BY <1>1, <1>5, <1>8 DEF Made, Lasting, ProcHolds
        <3>3. ProcHolds(v)'
            BY <1>5, <3>1, <3>2 DEF ProcHolds
        <3> HIDE DEF rest
        <3> QED BY <1>1, <1>8, <2>2, <3>3, OtherProcsKept
    <2> QED BY <1>3, <2>1, <2>2
<1>10. AttemptsCovered'
    <2> SUFFICES ASSUME NEW d \in Challenges
                 PROVE  wrong'[d] + Cardinality(Holders(d)') <= challenge'[d].attempts
        BY DEF AttemptsCovered
    <2>1. wrong[d] + Cardinality(Holders(d)) <= challenge[d].attempts
        BY DEF Core, AttemptsCovered
    <2>2. Holders(d) \subseteq Procs /\ v \notin Holders(d)
        BY <1>1 DEF Holders, At
    <2>3. IsFiniteSet(Holders(d)) /\ Cardinality(Holders(d)) \in Nat
        BY <2>2, RequestsFinite
    <2>4. wrong[d] \in Nat /\ challenge[d].attempts \in Nat
        BY <1>1, <1>4 DEF TypeOK, ChallengeRow
    <2>5. challenge'[d].attempts = IF d = c THEN challenge[d].attempts + 1 ELSE challenge[d].attempts
        BY <1>1, <1>2, <1>3 DEF TypeOK
    <2>6. CASE Become(v, hit) /\ UNCHANGED wrong
        <3>1. proc'[v] = hit /\ \A q \in Procs \ {v} : proc'[q] = proc[q]
            BY <1>1, <2>6 DEF Become, TypeOK
        <3>2. Holders(d)' = IF d = c THEN Holders(d) \union {v} ELSE Holders(d)
            <4> HIDE DEF hit
            <4> QED BY <1>1, <1>5, <3>1, <2>2 DEF Holders, At
        <3>3. Cardinality(Holders(d) \union {v}) = Cardinality(Holders(d)) + 1
            BY <2>2, <2>3, FS_AddElement
        <3> QED BY <2>1, <2>3, <2>4, <2>5, <2>6, <3>2, <3>3
    <2>7. CASE Become(v, rest) /\ wrong' = [wrong EXCEPT ![c] = @ + 1]
        <3>1. proc'[v] = rest /\ \A q \in Procs \ {v} : proc'[q] = proc[q]
            BY <1>1, <2>7 DEF Become, TypeOK
        <3>2. Holders(d)' = Holders(d)
            <4> HIDE DEF rest
            <4> QED BY <1>1, <1>5, <3>1, <2>2 DEF Holders, At
        <3>3. wrong'[d] = IF d = c THEN wrong[d] + 1 ELSE wrong[d]
            BY <1>1, <1>2, <2>7 DEF TypeOK
        <3> QED BY <2>1, <2>3, <2>4, <2>5, <3>2, <3>3
    <2> QED BY <1>3, <2>6, <2>7
<1>11. SpentWithinHour'
    <2> DEFINE f == [d \in Challenges |-> challenge[d].attempts]
               g == [d \in Challenges |-> challenge'[d].attempts]
    <2>1. f \in [Challenges -> Nat] /\ g \in [Challenges -> Nat] /\ f[c] < OtpAttempts
        BY <1>1, <1>2, <1>3, <1>4, <1>6 DEF TypeOK, ChallengeRow
    <2>2. g = [f EXCEPT ![c] = @ + 1]
        BY <1>1, <1>2, <1>3 DEF TypeOK, ChallengeRow
    <2>3. Spent = Cardinality(Tries(f)) /\ Spent' = Cardinality(Tries(g))
        BY DEF Spent, Tries
    <2>4. \A d \in Challenges : f[d] <= f[d]
        BY <2>1
    <2> HIDE DEF f, g
    <2>5. Cardinality(Tries(g)) = Cardinality(Tries(f)) + 1
        BY <1>2, <2>1, <2>2, OneMoreTry
    <2>6. Cardinality(Tries(f)) \in Nat
        BY <2>1, <2>4, FewerTries
    <2> QED BY <1>3, <1>4, <2>3, <2>5, <2>6 DEF SpentWithinHour
<1>12. SessionFromCurrentCode' /\ PendingLimitKept'
    BY <1>8, SessionsKept
<1>13. RotatedOncePerKey'
    BY <1>8, KeysKept
<1> QED BY <1>7, <1>9, <1>10, <1>11, <1>12, <1>13 DEF Core

\* The attempt given back is one that v has counted, so that those of the others stay.
LEMMA RefundHolds ==
    ASSUME ChallengeConstants, Core, NEW v \in Verifiers, Refund(v)
    PROVE  Core'
<1>0. PICK c : c = proc[v].row
    OBVIOUS
<1> DEFINE read == [proc[v] EXCEPT !.at = "read"]
<1>1. v \in Procs /\ proc[v] \in Proc /\ proc[v].at = "refund" /\ ProcHolds(v) /\ TypeOK
    BY DEF Refund, Procs, At, Core, ProcsHold, TypeOK
<1>2. c \in Challenges /\ Made(c) /\ challenge[c].kind = "login" /\ proc[v].guess = <<c, proc[v].gen>>
    BY <1>0, <1>1 DEF ProcHolds, Made
<1>3. /\ challenge' = [challenge EXCEPT ![c].attempts = IF @ > 0 THEN @ - 1 ELSE @]
      /\ Become(v, Idle) \/ Become(v, read)
      /\ UNCHANGED <<order, resends, epoch, session, wrong>>
    BY <1>0 DEF Refund
<1>4. OtpAttempts \in Nat /\ EmailVerifyHour \in Nat
    BY DEF ChallengeConstants
<1>5. /\ read \in Proc /\ read.at = "read" /\ read.left = proc[v].left
      /\ read.row = c /\ read.gen = proc[v].gen /\ read.guess = proc[v].guess
    BY <1>0, <1>1 DEF Proc
<1> HIDE DEF read
<1>6. \A d \in Challenges : /\ wrong[d] + Cardinality(Holders(d)) <= challenge[d].attempts
                            /\ wrong[d] \in Nat /\ challenge[d].attempts \in 0..OtpAttempts
                            /\ Holders(d) \subseteq Procs /\ IsFiniteSet(Holders(d))
                            /\ Cardinality(Holders(d)) \in Nat
    <2> SUFFICES ASSUME NEW d \in Challenges
                 PROVE  /\ wrong[d] + Cardinality(Holders(d)) <= challenge[d].attempts
                        /\ wrong[d] \in Nat /\ challenge[d].attempts \in 0..OtpAttempts
                        /\ Holders(d) \subseteq Procs /\ IsFiniteSet(Holders(d))
                        /\ Cardinality(Holders(d)) \in Nat
        OBVIOUS
    <2>1. Holders(d) \subseteq Procs
        BY DEF Holders
    <2> QED BY <1>1, <2>1, RequestsFinite DEF Core, AttemptsCovered, TypeOK, ChallengeRow
<1>7. Cardinality(Holders(c) \ {v}) = Cardinality(Holders(c)) - 1
    <2>1. v \in Holders(c)
        BY <1>0, <1>1 DEF Holders, At
    <2> QED BY <1>2, <1>6, <2>1, FS_RemoveElement
<1>8. challenge[c].attempts > 0 /\ challenge[c].attempts - 1 \in 0..OtpAttempts
    <2>1. IsFiniteSet(Holders(c) \ {v}) /\ Cardinality(Holders(c) \ {v}) \in Nat
        BY <1>2, <1>6, FS_Subset, FS_CardinalityType
    <2> QED BY <1>2, <1>4, <1>6, <1>7, <2>1
<1>9. challenge' = [challenge EXCEPT ![c].attempts = challenge[c].attempts - 1]
    <2> QED BY <1>3, <1>8
<1>10. challenge' \in [Challenges -> ChallengeRow]
    BY <1>1, <1>2, <1>8, <1>9 DEF TypeOK, ChallengeRow
<1>11. TypeOK'
    <2>1. proc' \in [Procs -> Proc]
        BY <1>1, <1>3, <1>5, IdleTyped DEF TypeOK, Become
    <2> QED BY <1>1, <1>3, <1>10, <2>1 DEF TypeOK
<1>12. Unrotated /\ Lasting /\ Settled
    BY <1>1, <1>2, <1>9 DEF Unrotated, Lasting, Settled, TypeOK
<1>13. ProcsHold'
    <2>1. CASE Become(v, Idle)
        <3>1. ProcHolds(v)'
            BY <1>1, <2>1, BecomesIt, IdleHolds
        <3> QED BY <1>1, <1>3, <1>12, <2>1, <3>1, OtherProcsKept
    <2>2. CASE Become(v, read)
        <3>1. proc'[v] = read
            BY <1>1, <2>2, BecomesIt
        <3>2. Made(c)' /\ challenge'[c].kind = "login" /\ \A r \in read.left : Made(r.id)'
            BY <1>1, <1>2, <1>5, <1>12 DEF Made, Lasting, ProcHolds
        <3>3. ProcHolds(v)'
            BY <1>2, <1>5, <3>1, <3>2 DEF ProcHolds
        <3> QED BY <1>1, <1>3, <1>12, <2>2, <3>3, OtherProcsKept
    <2> QED BY <1>3, <2>1, <2>2
<1>14. AttemptsCovered'
    <2> SUFFICES ASSUME NEW d \in Challenges
                 PROVE  wrong'[d] + Cardinality(Holders(d)') <= challenge'[d].attempts
        BY DEF AttemptsCovered
    <2>1. \A q \in Procs \ {v} : proc'[q] = proc[q]
        BY <1>1, <1>3 DEF Become, TypeOK
    <2>2. proc'[v].at # "refund"
        BY <1>1, <1>3, <1>5, BecomesIt DEF Idle
    <2>3. proc[v].row = c
        BY <1>0
    <2>4. Holders(d)' = IF d = c THEN Holders(d) \ {v} ELSE Holders(d)
        BY <1>1, <2>1, <2>2, <2>3 DEF Holders, At
    <2>5. challenge'[d].attempts = IF d = c THEN challenge[d].attempts - 1 ELSE challenge[d].attempts
        BY <1>1, <1>2, <1>9 DEF TypeOK
    <2>6. wrong'[d] = wrong[d]
        BY <1>3
    <2>7. /\ wrong[d] \in Nat /\ challenge[d].attempts \in Nat /\ Cardinality(Holders(d)) \in Nat
          /\ wrong[d] + Cardinality(Holders(d)) <= challenge[d].attempts
        BY <1>4, <1>6
    <2>8. CASE d = c
        BY <1>7, <2>4, <2>5, <2>6, <2>7, <2>8
    <2>9. CASE d # c
        BY <2>4, <2>5, <2>6, <2>7, <2>9
    <2> QED BY <2>8, <2>9
<1>15. SpentWithinHour'
    <2> DEFINE f == [d \in Challenges |-> challenge[d].attempts]
               g == [d \in Challenges |-> challenge'[d].attempts]
    <2>1. f \in [Challenges -> Nat] /\ g \in [Challenges -> Nat]
        BY <1>1, <1>4, <1>10 DEF TypeOK, ChallengeRow
    <2>2. \A d \in Challenges : g[d] <= f[d]
        BY <1>1, <1>2, <1>4, <1>6, <1>9 DEF TypeOK
    <2>3. Spent = Cardinality(Tries(f)) /\ Spent' = Cardinality(Tries(g))
        BY DEF Spent, Tries
    <2> HIDE DEF f, g
    <2>4. /\ Cardinality(Tries(g)) <= Cardinality(Tries(f))
          /\ Cardinality(Tries(g)) \in Nat /\ Cardinality(Tries(f)) \in Nat
        BY <2>1, <2>2, FewerTries
    <2>5. Spent <= EmailVerifyHour
        BY DEF Core, SpentWithinHour
    <2> QED BY <1>4, <2>3, <2>4, <2>5 DEF SpentWithinHour
<1>16. SessionFromCurrentCode' /\ PendingLimitKept'
    BY <1>3, <1>12, SessionsKept
<1>17. RotatedOncePerKey'
    BY <1>3, <1>12, KeysKept
<1> QED BY <1>11, <1>13, <1>14, <1>15, <1>16, <1>17 DEF Core

\* The attempt of a request that dies before it returns it stays counted.
LEMMA DieHolds ==
    ASSUME ChallengeConstants, Core, NEW v \in Verifiers, Die(v)
    PROVE  Core'
<1>1. v \in Procs /\ Become(v, Idle) /\ TypeOK
      /\ UNCHANGED <<challenge, order, resends, epoch, session, wrong>>
    BY DEF Die, Procs, Core
<1>2. TypeOK'
    BY <1>1, IdleTyped DEF TypeOK, Become
<1>3. Calm /\ Lasting /\ Settled
    BY <1>1 DEF Calm, Unrotated, Lasting, Settled
<1>4. ProcsHold'
    <2>1. ProcHolds(v)'
        BY <1>1, BecomesIt, IdleHolds
    <2> QED BY <1>1, <1>3, <2>1, OtherProcsKept
<1>5. AttemptsCovered'
    <2> SUFFICES ASSUME NEW d \in Challenges
                 PROVE  wrong'[d] + Cardinality(Holders(d)') <= challenge'[d].attempts
        BY DEF AttemptsCovered
    <2>1. proc'[v] = Idle /\ \A q \in Procs \ {v} : proc'[q] = proc[q]
        BY <1>1 DEF Become, TypeOK
    <2>2. Holders(d)' \subseteq Holders(d) /\ Holders(d) \subseteq Procs /\ Holders(d)' \subseteq Procs
        BY <2>1 DEF Holders, At, Idle
    <2>3. IsFiniteSet(Holders(d)) /\ Cardinality(Holders(d)) \in Nat /\ Cardinality(Holders(d)') \in Nat
        BY <2>2, RequestsFinite
    <2>4. Cardinality(Holders(d)') <= Cardinality(Holders(d))
        BY <2>2, <2>3, FS_Subset
    <2>5. OtpAttempts \in Nat
        BY DEF ChallengeConstants
    <2>6. wrong[d] \in Nat /\ challenge[d].attempts \in Nat
          /\ wrong[d] + Cardinality(Holders(d)) <= challenge[d].attempts
        BY <1>1, <2>5 DEF Core, AttemptsCovered, TypeOK, ChallengeRow
    <2> QED BY <1>1, <2>3, <2>4, <2>6
<1>6. SpentWithinHour'
    <2>1. Spent' = Spent
        BY <1>1 DEF Spent, Tries
    <2> QED BY <2>1 DEF Core, SpentWithinHour
<1>7. SessionFromCurrentCode' /\ PendingLimitKept'
    BY <1>1, <1>3, SessionsKept
<1>8. RotatedOncePerKey'
    BY <1>1, <1>3, KeysKept DEF Calm
<1> QED BY <1>2, <1>4, <1>5, <1>6, <1>7, <1>8 DEF Core

\* The consumption that opens a session.
LEMMA OpenHolds ==
    ASSUME ChallengeConstants, Core, NEW v \in Verifiers, NEW c, c = proc[v].row,
           At(v, "consume"), Consumable(v),
           challenge' = [challenge EXCEPT ![c].state = "consumed"],
           session' = Append(session, [from |-> c, gen |-> proc[v].gen, epoch |-> proc[v].epoch,
                                       state |-> "pending"]),
           Become(v, Idle), UNCHANGED <<order, resends, epoch, wrong>>
    PROVE  Core'
<1> DEFINE new == [from |-> c, gen |-> proc[v].gen, epoch |-> proc[v].epoch, state |-> "pending"]
           n == Len(session) + 1
<1>1. v \in Procs /\ proc[v] \in Proc /\ ~At(v, "refund") /\ ProcHolds(v) /\ TypeOK
    BY DEF Procs, At, Core, ProcsHold, TypeOK
<1>2. /\ c \in Challenges /\ challenge[c].kind = "login"
      /\ challenge[c].state = "open" /\ challenge[c].gen = proc[v].gen
      /\ Cardinality(Pending) < PendingPerUser
    BY <1>1 DEF ProcHolds, Made, Consumable, Open, At
<1>3. new \in Session
    BY <1>1, <1>2 DEF Proc, Session
<1>4. /\ session \in Seq(Session) /\ Len(session) \in Nat
      /\ session' \in Seq(Session) /\ Len(session') = n /\ session'[n] = new
      /\ \A i \in 1..Len(session) : session'[i] = session[i] /\ session[i] \in Session
    <2>1. session \in Seq(Session) /\ session' = Append(session, new)
        BY <1>1 DEF TypeOK
    <2> HIDE DEF new
    <2> QED BY <1>3, <2>1
<1>5. TypeOK'
    <2>1. challenge' \in [Challenges -> ChallengeRow]
        <3> DEFINE moved == [challenge[c] EXCEPT !.state = "consumed"]
        <3>1. moved \in ChallengeRow
            BY <1>1, <1>2 DEF TypeOK, ChallengeRow
        <3>2. challenge' = [challenge EXCEPT ![c] = moved]
            OBVIOUS
        <3> HIDE DEF moved
        <3> QED BY <1>1, <1>2, <3>1, <3>2 DEF TypeOK
    <2>2. proc' \in [Procs -> Proc]
        BY <1>1, IdleTyped DEF TypeOK, Become
    <2> QED BY <1>1, <1>4, <2>1, <2>2 DEF TypeOK
<1>6. Calm /\ Lasting /\ Settled
    BY <1>1, <1>2 DEF Calm, Unrotated, Lasting, Settled, TypeOK
<1>7. ProcsHold'
    <2>1. ProcHolds(v)'
        BY <1>1, BecomesIt, IdleHolds
    <2> QED BY <1>1, <1>6, <2>1, OtherProcsKept
<1>8. AttemptsCovered' /\ SpentWithinHour'
    <2>1. \A d \in Challenges : Holders(d)' = Holders(d)
        <3>1. Idle.at # "refund"
            BY DEF Idle
        <3> QED BY <1>1, <3>1, HoldersKept
    <2> QED BY <1>6, <2>1, AttemptsKept
<1>9. SessionFromCurrentCode'
    <2>1. challenge'[c].state = "consumed" /\ challenge'[c].kind = "login" /\ challenge'[c].gen = proc[v].gen
        BY <1>1, <1>2 DEF TypeOK
    <2>2. ASSUME NEW i \in 1..Len(session)
          PROVE  /\ session[i].from \in Challenges /\ session[i].from # c
                 /\ challenge'[session[i].from].state = "consumed"
                 /\ challenge'[session[i].from].kind = "login"
                 /\ challenge'[session[i].from].gen = session[i].gen
        <3>1. session[i].from \in Challenges
            BY <1>4 DEF Session
        <3>2. /\ challenge[session[i].from].state = "consumed"
              /\ challenge[session[i].from].kind = "login"
              /\ challenge[session[i].from].gen = session[i].gen
            BY DEF Core, SessionFromCurrentCode
        <3> QED BY <1>2, <1>6, <3>1, <3>2 DEF Settled
    <2>3. new.from = c /\ new.gen = proc[v].gen
        OBVIOUS
    <2> HIDE DEF new
    <2>4. ASSUME NEW i \in 1..Len(session')
          PROVE  i \in 1..Len(session) \/ i = n
        BY <1>4
    <2>5. \A i \in 1..Len(session') : /\ challenge'[session'[i].from].state = "consumed"
                                      /\ challenge'[session'[i].from].kind = "login"
                                      /\ challenge'[session'[i].from].gen = session'[i].gen
        BY <1>4, <2>1, <2>2, <2>3, <2>4
    <2>6. \A i, j \in 1..Len(session') : i # j => session'[i].from # session'[j].from
        <3>1. \A i, j \in 1..Len(session) : i # j => session[i].from # session[j].from
            BY DEF Core, SessionFromCurrentCode
        <3> QED BY <1>4, <2>2, <2>3, <2>4, <3>1
    <2> QED BY <2>5, <2>6 DEF SessionFromCurrentCode
<1>10. PendingLimitKept'
    <2>1. IsFiniteSet(Pending) /\ Cardinality(Pending) \in Nat
        BY PendingFinite
    <2>2. Pending' = Pending \union {n} /\ n \notin Pending
        BY <1>4 DEF Pending
    <2>3. Cardinality(Pending \union {n}) = Cardinality(Pending) + 1
        BY <2>1, <2>2, FS_AddElement
    <2>4. PendingPerUser \in Nat
        BY DEF ChallengeConstants
    <2> QED BY <1>2, <2>1, <2>2, <2>3, <2>4 DEF PendingLimitKept
<1>11. RotatedOncePerKey'
    BY <1>6, KeysKept DEF Calm
<1> QED BY <1>5, <1>7, <1>8, <1>9, <1>10, <1>11 DEF Core

LEMMA ConsumeHolds ==
    ASSUME ChallengeConstants, Core, NEW v \in Verifiers, Consume(v)
    PROVE  Core'
<1>1. v \in Procs /\ At(v, "consume") /\ ~At(v, "refund") /\ Become(v, Idle)
      /\ UNCHANGED <<order, resends, epoch, wrong>>
    BY DEF Consume, Procs, At
<1>2. CASE Consumable(v)
    <2>1. PICK c : c = proc[v].row
        OBVIOUS
    <2>2. /\ challenge' = [challenge EXCEPT ![c].state = "consumed"]
          /\ session' = Append(session, [from |-> c, gen |-> proc[v].gen, epoch |-> proc[v].epoch,
                                         state |-> "pending"])
        BY <1>2, <2>1 DEF Consume
    <2> QED BY <1>1, <1>2, <2>1, <2>2, OpenHolds
<1>3. CASE ~Consumable(v)
    <2>1. UNCHANGED <<challenge, session>>
        BY <1>3 DEF Consume
    <2>2. ProcHolds(v)' /\ Idle.at # "refund"
        BY <1>1, BecomesIt, IdleHolds DEF Idle
    <2> QED BY <1>1, <2>1, <2>2, IdleTyped, ReadHolds
<1> QED BY <1>2, <1>3

\* The resend that rotates.
LEMMA AcceptedHolds ==
    ASSUME ChallengeConstants, Core, NEW r \in Resenders, NEW c, NEW key,
           c = proc[r].row, key = proc[r].key, At(r, "rotate"),
           Open(c), \A d \in Challenges : <<key, d>> \notin resends,
           challenge' = [challenge EXCEPT ![c].gen = @ + 1],
           resends' = resends \union {<<key, c>>},
           Become(r, Idle), UNCHANGED <<order, epoch, session, wrong>>
    PROVE  Core'
<1>1. r \in Procs /\ ~At(r, "refund") /\ ProcHolds(r) /\ TypeOK
    BY DEF Procs, At, Core, ProcsHold
<1>2. c \in Challenges /\ key \in Keys /\ challenge[c].state = "open" /\ challenge[c].gen \in Nat
    <2>1. c \in Challenges /\ key \in Keys
        BY <1>1 DEF ProcHolds, Made, At
    <2> QED BY <1>1, <2>1 DEF Open, TypeOK, ChallengeRow
<1>3. TypeOK'
    <2>1. challenge' \in [Challenges -> ChallengeRow]
        <3>1. PICK g \in Nat : g = challenge[c].gen + 1
            BY <1>2
        <3> DEFINE moved == [challenge[c] EXCEPT !.gen = g]
        <3>2. moved \in ChallengeRow
            <4>1. challenge[c] \in ChallengeRow
                BY <1>1, <1>2 DEF TypeOK
            <4> QED BY <4>1 DEF ChallengeRow
        <3>3. challenge' = [challenge EXCEPT ![c] = moved]
            BY <3>1
        <3> HIDE DEF moved
        <3> QED BY <1>1, <1>2, <3>2, <3>3 DEF TypeOK
    <2>2. proc' \in [Procs -> Proc]
        BY <1>1, IdleTyped DEF TypeOK, Become
    <2>3. resends' \subseteq Keys \X Challenges
        BY <1>1, <1>2 DEF TypeOK
    <2> QED BY <1>1, <2>1, <2>2, <2>3 DEF TypeOK
<1>4. Lasting /\ Settled
    BY <1>1, <1>2 DEF Lasting, Settled, TypeOK
<1>5. ProcsHold'
    <2>1. ProcHolds(r)'
        BY <1>1, BecomesIt, IdleHolds
    <2> QED BY <1>1, <1>4, <2>1, OtherProcsKept
<1>6. AttemptsCovered' /\ SpentWithinHour'
    <2>1. \A d \in Challenges : Holders(d)' = Holders(d)
        <3>1. Idle.at # "refund"
            BY DEF Idle
        <3> QED BY <1>1, <3>1, HoldersKept
    <2>2. \A d \in Challenges : challenge'[d].attempts = challenge[d].attempts
        BY <1>1, <1>2 DEF TypeOK
    <2>3. AttemptsCovered'
        BY <2>1, <2>2 DEF Core, AttemptsCovered
    <2>4. Spent' = Spent
        BY <2>2 DEF Spent, Tries
    <2> QED BY <2>3, <2>4 DEF Core, SpentWithinHour
<1>7. SessionFromCurrentCode' /\ PendingLimitKept'
    BY <1>4, SessionsKept
<1>8. RotatedOncePerKey'
    <2>1. \A a, b \in resends' : a[1] = b[1] => a = b
        <3>1. \A a \in resends : a[1] # key /\ a = <<a[1], a[2]>>
            BY <1>1 DEF TypeOK
        <3>2. \A a, b \in resends : a[1] = b[1] => a = b
            BY DEF Core, RotatedOncePerKey
        <3> QED BY <3>1, <3>2
    <2>2. ASSUME NEW d \in Challenges
          PROVE  challenge'[d].gen = Cardinality({k \in Keys : <<k, d>> \in resends'})
        <3> DEFINE K == {k \in Keys : <<k, d>> \in resends}
                   L == {k \in Keys : <<k, d>> \in resends'}
        <3>1. challenge[d].gen = Cardinality(K)
            BY DEF Core, RotatedOncePerKey
        <3>2. IsFiniteSet(K)
            BY FS_Subset DEF ChallengeConstants
        <3>3. CASE d = c
            <4>1. L = K \union {key} /\ key \notin K
                BY <1>2, <3>3
            <4>2. challenge'[d].gen = challenge[d].gen + 1
                BY <1>1, <1>2, <3>3 DEF TypeOK
            <4> HIDE DEF K, L
            <4>3. Cardinality(L) = Cardinality(K) + 1
                BY <3>2, <4>1, FS_AddElement
            <4> QED BY <3>1, <4>2, <4>3 DEF L
        <3>4. CASE d # c
            <4>1. L = K
                BY <3>4
            <4>2. challenge'[d].gen = challenge[d].gen
                BY <1>1, <1>2, <3>4 DEF TypeOK
            <4> QED BY <3>1, <4>1, <4>2
        <3> QED BY <3>3, <3>4
    <2> QED BY <2>1, <2>2 DEF RotatedOncePerKey
<1> QED BY <1>3, <1>5, <1>6, <1>7, <1>8 DEF Core

LEMMA RotateHolds ==
    ASSUME ChallengeConstants, Core, NEW r \in Resenders, Rotate(r)
    PROVE  Core'
<1>1. r \in Procs /\ At(r, "rotate") /\ ~At(r, "refund") /\ Become(r, Idle)
      /\ UNCHANGED <<order, epoch, session, wrong>>
    BY DEF Rotate, Procs, At
<1>2. CASE UNCHANGED <<challenge, resends>>
    <2>1. ProcHolds(r)' /\ Idle.at # "refund"
        BY <1>1, BecomesIt, IdleHolds DEF Idle
    <2> QED BY <1>1, <1>2, <2>1, IdleTyped, ReadHolds
<1>3. CASE ~UNCHANGED <<challenge, resends>>
    <2>1. PICK c, key : c = proc[r].row /\ key = proc[r].key
        OBVIOUS
    <2>2. /\ Open(c) /\ \A d \in Challenges : <<key, d>> \notin resends
          /\ challenge' = [challenge EXCEPT ![c].gen = @ + 1]
          /\ resends' = resends \union {<<key, c>>}
        BY <1>3, <2>1 DEF Rotate
    <2> QED BY <1>1, <2>1, <2>2, AcceptedHolds
<1> QED BY <1>2, <1>3

(***************************************************************************)
(* The theorems                                                             *)
(***************************************************************************)
LEMMA NextHolds ==
    ASSUME ChallengeConstants, Core, [Next]_vars
    PROVE  Core'
<1>1. CASE UNCHANGED vars
    <2>1. TypeOK' /\ Calm /\ Lasting /\ Settled
        BY <1>1 DEF vars, Core, TypeOK, Calm, Unrotated, Lasting, Settled
    <2> QED BY <1>1, <2>1, QuietHolds DEF vars
<1>2. CASE \E c \in Challenges : Create(c) \/ Expire(c) \/ Abort(c)
    BY <1>2, CreateHolds, ExpireHolds, AbortHolds
<1>3. CASE MoveEpoch \/ \E i \in 1..Len(session) : EndPending(i)
    BY <1>3, EpochHolds, EndPendingHolds
<1>4. ASSUME NEW v \in Verifiers, VerifierStep(v)
      PROVE  Core'
    <2>1. CASE Try(v)
        BY <2>1, PassOverHolds, CompareHolds DEF Try
    <2>2. CASE \E guess \in Guesses : Verify(v, guess)
        BY <2>2, VerifyHolds
    <2>3. CASE Refuse(v) \/ Refund(v) \/ ReadForConsume(v) \/ Consume(v) \/ Die(v)
        BY <2>3, RefuseHolds, RefundHolds, ReadForConsumeHolds, ConsumeHolds, DieHolds
    <2> QED BY <1>4, <2>1, <2>2, <2>3 DEF VerifierStep
<1>5. ASSUME NEW r \in Resenders, (\E key \in Keys : Replay(r, key)) \/ ReadLatest(r) \/ Rotate(r)
      PROVE  Core'
    BY <1>5, ReplayHolds, ReadLatestHolds, RotateHolds
<1> QED BY <1>1, <1>2, <1>3, <1>4, <1>5 DEF Next

LEMMA CoreAlways ==
    ASSUME ChallengeConstants
    PROVE  Spec => []Core
<1>1. Init => Core
    BY InitHolds
<1>2. Core /\ [Next]_vars => Core'
    BY NextHolds
<1> QED BY <1>1, <1>2, PTL DEF Spec

\* What holds of the codes of an address holds always: of any number of challenges,
\* requests and resends, and for all limits.
THEOREM CodesAreKept ==
    ASSUME ChallengeConstants
    PROVE  Spec => []CodesHold
<1>1. Core => CodesHold
    BY CoreIsAll
<1> QED BY <1>1, CoreAlways, PTL

\* verify.ts:90 and :107: no challenge is compared with more than OTP_ATTEMPTS wrong codes,
\* however many requests guess at once, die or take their attempt back.
THEOREM WrongCodesAreCounted ==
    ASSUME ChallengeConstants
    PROVE  Spec => []WrongCodesCounted
<1>1. CodesHold => WrongCodesCounted
    BY DEF CodesHold
<1> QED BY <1>1, CodesAreKept, PTL

\* verify.ts:145: the challenges of an address together are compared with at most
\* EMAIL_VERIFY_ATTEMPTS_HOUR wrong codes in an hour.
THEOREM HourIsKept ==
    ASSUME ChallengeConstants
    PROVE  Spec => []HourlyLimitKept
<1>1. CodesHold => HourlyLimitKept
    BY DEF CodesHold
<1> QED BY <1>1, CodesAreKept, PTL

\* consume.ts:86: sessions and consumed challenges correspond one to one, and no session
\* comes from a decoy or from a code that was replaced.
THEOREM SessionsComeFromCodes ==
    ASSUME ChallengeConstants
    PROVE  Spec => []SessionFromCurrentCode
<1>1. CodesHold => SessionFromCurrentCode
    BY DEF CodesHold
<1> QED BY <1>1, CodesAreKept, PTL

\* consume.ts:197: consumptions that run at once keep the limit of pending sessions.
THEOREM PendingIsKept ==
    ASSUME ChallengeConstants
    PROVE  Spec => []PendingLimitKept
<1>1. CodesHold => PendingLimitKept
    BY DEF CodesHold
<1> QED BY <1>1, CodesAreKept, PTL

\* resend.ts:256: a key rotates one code, once, however often and in how many requests
\* the resend is repeated.
THEOREM KeysRotateOnce ==
    ASSUME ChallengeConstants
    PROVE  Spec => []RotatedOncePerKey
<1>1. CodesHold => RotatedOncePerKey
    BY DEF CodesHold
<1> QED BY <1>1, CodesAreKept, PTL

\* consume.ts:190: a session that is opened carries the epoch the user has at that moment.
THEOREM SessionsStartCurrent ==
    ASSUME ChallengeConstants
    PROVE  Spec => [][NewSessionAtEpoch]_vars
<1>1. Core /\ [Next]_vars => [NewSessionAtEpoch]_vars
    <2> SUFFICES ASSUME Core, Next
                 PROVE  NewSessionAtEpoch
        BY DEF vars
    <2>1. session \in Seq(Session) /\ Len(session) \in Nat
        BY DEF Core, TypeOK
    <2>2. CASE UNCHANGED session
        BY <2>1, <2>2 DEF NewSessionAtEpoch
    <2>3. ASSUME NEW i \in 1..Len(session), EndPending(i)
          PROVE  NewSessionAtEpoch
        <3>1. Len(session') = Len(session)
            BY <2>1, <2>3 DEF EndPending
        <3> QED BY <2>1, <3>1 DEF NewSessionAtEpoch
    <2>4. ASSUME NEW v \in Verifiers, Consume(v), Consumable(v)
          PROVE  NewSessionAtEpoch
        <3>1. PICK new : new = [from |-> proc[v].row, gen |-> proc[v].gen, epoch |-> proc[v].epoch,
                                state |-> "pending"]
            OBVIOUS
        <3>2. session' = Append(session, new) /\ new.epoch = epoch
            BY <2>4, <3>1 DEF Consume, Consumable
        <3>3. session'[Len(session')] = new
            BY <2>1, <3>2
        <3> QED BY <3>2, <3>3 DEF NewSessionAtEpoch
    <2>5. \/ UNCHANGED session
          \/ \E i \in 1..Len(session) : EndPending(i)
          \/ \E v \in Verifiers : Consume(v) /\ Consumable(v)
        BY DEF Next, VerifierStep, Create, Expire, Abort, MoveEpoch, Verify, Try, Refuse, Refund,
               ReadForConsume, Consume, Die, Replay, ReadLatest, Rotate
    <2> QED BY <2>2, <2>3, <2>4, <2>5
<1> QED BY <1>1, CoreAlways, PTL DEF Spec
=============================================================================
