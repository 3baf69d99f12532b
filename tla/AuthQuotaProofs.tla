--------------------------- MODULE AuthQuotaProofs ---------------------------
(***************************************************************************)
(* The quotas of authentication mail, for any number of addresses and      *)
(* requests and all limits.  A step that accepts an intent is followed in  *)
(* two halves: what the guard it evaluated says of the rows, and what the  *)
(* rows say of everything that was ever accepted.                          *)
(***************************************************************************)
EXTENDS AuthQuota, FiniteSetTheorems, WellFoundedInduction, TLAPS

(***************************************************************************)
(* Numbers                                                                 *)
(***************************************************************************)
\* A day starts at or before each of its moments, and later moments have no
\* earlier start.
LEMMA DayStartGrows ==
    ASSUME QuotaConstants, NEW a \in Nat, NEW b \in Nat, a <= b
    PROVE  /\ DayStart(a) \in Nat
           /\ DayStart(a) <= a
           /\ DayStart(a) <= DayStart(b)
<1>1. DayLength \in Nat \ {0}
    BY DEF QuotaConstants
<1>2. a \div DayLength \in Nat /\ b \div DayLength \in Nat
    BY <1>1
<1>3. (a \div DayLength) * DayLength <= a
    BY <1>1
<1>4. a \div DayLength <= b \div DayLength
    BY <1>1
<1> QED BY <1>1, <1>2, <1>3, <1>4 DEF DayStart

\* A bounded set of natural numbers has a greatest element.
LEMMA MaxExists ==
    ASSUME NEW S \in SUBSET Nat, S # {}, NEW n \in Nat, \A x \in S : x <= n
    PROVE  Max(S) \in S /\ \A x \in S : x <= Max(S)
<1> DEFINE T == {n - x : x \in S}
<1>1. \A x \in S : x \in Nat /\ n - x \in Nat
    OBVIOUS
<1>2. T \subseteq Nat /\ T # {}
    <2>1. T \subseteq Nat
        BY <1>1
    <2>2. PICK x \in S : TRUE
        OBVIOUS
    <2>3. n - x \in T
        BY <2>2
    <2> QED BY <2>1, <2>3
<1>3. PICK t \in T : \A y \in T : ~(<<y, t>> \in OpToRel(<, Nat))
    BY <1>2, NatLessThanWellFounded, WFMin
<1>4. \A y \in T : ~(y < t)
    BY <1>2, <1>3 DEF OpToRel
<1>5. PICK m \in S : t = n - m
    BY <1>3
<1>6. \A x \in S : x <= m
    BY <1>4, <1>5
<1> QED BY <1>5, <1>6 DEF Max

\* The smaller of two numbers is below both, the greater above both.
LEMMA MinOfTwo ==
    ASSUME NEW a \in Int, NEW b \in Int
    PROVE  Min({a, b}) \in Int /\ Min({a, b}) <= a /\ Min({a, b}) <= b
<1>1. \E x \in {a, b} : \A y \in {a, b} : x =< y
    OBVIOUS
<1> QED BY <1>1 DEF Min

LEMMA MaxOfTwo ==
    ASSUME NEW a \in Int, NEW b \in Int
    PROVE  Max({a, b}) \in Int /\ Max({a, b}) >= a /\ Max({a, b}) >= b
<1>1. \E x \in {a, b} : \A y \in {a, b} : x >= y
    OBVIOUS
<1> QED BY <1>1 DEF Max

(***************************************************************************)
(* What a snapshot says of the rows                                        *)
(***************************************************************************)
LEMMA SnapshotType ==
    ASSUME QuotaConstants, TypeOK, NEW email \in Emails, NEW now \in Nat
    PROVE  /\ Snapshot(email, now).today \in Nat
           /\ Snapshot(email, now).open \in Nat
           /\ Snapshot(email, now).global \in Nat
           /\ Snapshot(email, now).last \in Nat \union {-1}
           /\ \A row \in Of(email) : Snapshot(email, now).last >= row.created
<1> DEFINE snap == Snapshot(email, now)
           times == {row.created : row \in Of(email)}
<1>1. Of(email) \subseteq rows /\ IsFiniteSet(Of(email))
    BY FS_Subset DEF Of, TypeOK
<1>2. MaxTime \in Nat /\ \A row \in Of(email) : row.created \in Nat /\ row.created <= MaxTime
    BY <1>1 DEF TypeOK, QuotaConstants
<1>3. snap.today \in Nat /\ snap.open \in Nat /\ snap.global \in Nat
    <2>1. /\ IsFiniteSet({row \in Of(email) : row.created >= DayStart(now)})
          /\ IsFiniteSet({row \in Of(email) : OpenAt(row, now)})
          /\ IsFiniteSet({row \in rows : OpenAt(row, now)})
        BY <1>1, FS_Subset DEF TypeOK
    <2> QED BY <2>1, FS_CardinalityType DEF Snapshot
<1>4. CASE Of(email) = {}
    BY <1>3, <1>4 DEF Snapshot
<1>5. CASE Of(email) # {}
    <2>1. times \in SUBSET Nat /\ \A x \in times : x <= MaxTime
        BY <1>2
    <2>2. times # {}
        BY <1>5
    <2>3. Max(times) \in times /\ \A x \in times : x <= Max(times)
        BY <1>2, <2>1, <2>2, MaxExists
    <2>4. snap.last = Max(times)
        BY <1>5 DEF Snapshot
    <2>5. Max(times) \in Nat /\ \A row \in Of(email) : row.created <= Max(times)
        BY <2>1, <2>3
    <2> HIDE DEF times, snap
    <2>6. \A row \in Of(email) : snap.last >= row.created
        BY <1>2, <2>4, <2>5
    <2> QED BY <1>3, <2>4, <2>5, <2>6 DEF snap
<1> QED BY <1>4, <1>5

\* On every typed table the read side and the guard of the write decide alike.
LEMMA SidesAlwaysAgree ==
    ASSUME QuotaConstants, TypeOK
    PROVE  SidesAgree
<1> SUFFICES ASSUME NEW email \in Emails
             PROVE  LET snap == Snapshot(email, clock) IN
                    /\ (Decide(snap, clock) = "ok") <=> CreateGuard(snap, clock)
                    /\ (DecideResend(snap, clock) = "ok") <=> IntentGuard(snap, clock)
    BY DEF SidesAgree
<1> DEFINE snap == Snapshot(email, clock)
           bare == [snap EXCEPT !.open = 0, !.global = 0]
<1>1. clock \in Nat
    BY DEF TypeOK
<1>2. /\ snap.today \in Nat /\ snap.open \in Nat /\ snap.global \in Nat
      /\ snap.last \in Int /\ snap.last >= -1
    BY <1>1, SnapshotType
<1>3. /\ bare.today = snap.today /\ bare.last = snap.last
      /\ bare.open = 0 /\ bare.global = 0
    BY DEF Snapshot
<1>4. /\ Cooldown \in Nat /\ IntentsDay \in Nat
      /\ PerEmail \in Nat \ {0} /\ ChallengesMax \in Nat \ {0}
    BY DEF QuotaConstants
<1> HIDE DEF snap, bare
<1>5. (Decide(snap, clock) = "ok") <=> CreateGuard(snap, clock)
    BY <1>1, <1>2, <1>4 DEF Decide, CreateGuard, IntentGuard
<1>6. (Decide(bare, clock) = "ok") <=> IntentGuard(snap, clock)
    BY <1>1, <1>2, <1>3, <1>4 DEF Decide, IntentGuard
<1> QED BY <1>5, <1>6 DEF DecideResend, snap, bare

(***************************************************************************)
(* An intent is accepted                                                   *)
(***************************************************************************)
\* Whatever was accepted before lies OTP_COOLDOWN back from the time of a request that
\* passes the guard: by its row, or because its row could be deleted.
LEMMA Spaced ==
    ASSUME QuotaConstants, TypeOK, InTime, Remembered,
           NEW email \in Emails, NEW now \in Nat, clock <= now + MaxLag,
           IntentGuard(Snapshot(email, now), now),
           NEW s \in sent, s[1] = email
    PROVE  s[2] + Cooldown <= now
<1>1. /\ clock \in Nat /\ s[2] \in Nat
      /\ Cooldown \in Nat /\ OtpTtl \in Nat /\ MaxLag \in Nat /\ MaxLag + Cooldown <= OtpTtl
    BY DEF TypeOK, QuotaConstants
<1>2. CASE \E row \in Of(email) : row.created = s[2]
    <2>1. PICK row \in Of(email) : row.created = s[2]
        BY <1>2
    <2>2. Snapshot(email, now).last \in Int /\ Snapshot(email, now).last >= s[2]
        BY <2>1, SnapshotType
    <2> HIDE DEF Snapshot
    <2> QED BY <1>1, <2>2 DEF IntentGuard
<1>3. CASE s[2] + OtpTtl <= clock
    BY <1>1, <1>3
<1> QED BY <1>2, <1>3 DEF Remembered

\* The intents of the running day each have a row of their own in the snapshot.
LEMMA TodayCounted ==
    ASSUME QuotaConstants, TypeOK, Remembered,
           NEW email \in Emails, NEW now \in Nat, now <= clock
    PROVE  Cardinality({s \in sent : s[1] = email /\ s[2] >= DayStart(clock)})
               <= Snapshot(email, now).today
<1> DEFINE today == {s \in sent : s[1] = email /\ s[2] >= DayStart(clock)}
           seen == {row \in Of(email) : row.created >= DayStart(now)}
           f == [s \in today |-> CHOOSE row \in Of(email) : row.created = s[2]]
<1>1. clock \in Nat /\ DayStart(clock) \in Nat /\ DayStart(now) \in Nat
          /\ DayStart(now) <= DayStart(clock)
    BY DayStartGrows DEF TypeOK
<1>2. \A s \in today : s[2] \in Nat /\ \E row \in Of(email) : row.created = s[2]
    BY <1>1 DEF Remembered, TypeOK
<1>3. \A s \in today : f[s] \in Of(email) /\ f[s].created = s[2]
    BY <1>2
<1>4. \A s \in today : f[s] \in seen
    BY <1>1, <1>2, <1>3
<1>5. \A s, t \in today : f[s] = f[t] => s = t
    <2> SUFFICES ASSUME NEW s \in today, NEW t \in today, f[s] = f[t]
                 PROVE  s = t
        OBVIOUS
    <2>1. s[2] = t[2]
        BY <1>3
    <2>2. s[1] = t[1] /\ s[3] = 1 /\ t[3] = 1
        BY DEF Remembered
    <2>3. s = <<s[1], s[2], s[3]>> /\ t = <<t[1], t[2], t[3]>>
        BY DEF TypeOK
    <2> QED BY <2>1, <2>2, <2>3
<1>6. f \in Injection(today, seen)
    <2>1. f \in [today -> seen]
        BY <1>4
    <2> HIDE DEF f, today, seen
    <2> QED BY <2>1, <1>5 DEF Injection, IsInjective
<1>7. IsFiniteSet(seen)
    BY FS_Subset DEF TypeOK, Of
<1>8. Cardinality(today) <= Cardinality(seen)
    <2> HIDE DEF f, today, seen
    <2> QED BY <1>6, <1>7, FS_Injection
<1> QED BY <1>8 DEF Snapshot

\* An intent that passed the guard is one more of its address, OTP_COOLDOWN after the
\* others and the day's last at most.
LEMMA Accepting ==
    ASSUME QuotaConstants, QuotasHold,
           NEW q, q.email \in Emails, q.now \in 0..MaxTime, q.now <= clock, clock <= q.now + MaxLag,
           IntentGuard(Snapshot(q.email, q.now), q.now),
           sent' = Accepted(q), clock' = clock,
           \A row \in rows : \E kept \in rows' : kept.email = row.email /\ kept.created = row.created,
           \E row \in rows' : row.email = q.email /\ row.created = q.now
    PROVE  /\ sent' \subseteq Emails \X (0..MaxTime) \X (Nat \ {0}) /\ IsFiniteSet(sent')
           /\ Remembered' /\ CooldownKept' /\ DailyKept'
<1> DEFINE new == <<q.email, q.now, 1>>
<1>1. /\ TypeOK /\ InTime /\ Remembered /\ CooldownKept /\ DailyKept
      /\ clock \in Nat /\ q.now \in Nat /\ Cooldown \in Nat \ {0} /\ IntentsDay \in Nat
    BY DEF QuotasHold, TypeOK, QuotaConstants
<1>2. \A s \in sent : s[2] \in Nat /\ (s[1] = q.email => s[2] + Cooldown <= q.now)
    BY <1>1, Spaced DEF TypeOK
<1>3. sent' = sent \union {new}
    <2>1. {s \in sent : s[1] = q.email /\ s[2] = q.now} = {}
        BY <1>1, <1>2
    <2> QED BY <2>1, FS_EmptySet DEF Accepted
<1>4. new[1] = q.email /\ new[2] = q.now /\ new[3] = 1
    OBVIOUS
<1>5. sent' \subseteq Emails \X (0..MaxTime) \X (Nat \ {0}) /\ IsFiniteSet(sent')
    <2>1. new \in Emails \X (0..MaxTime) \X (Nat \ {0})
        OBVIOUS
    <2>2. IsFiniteSet(sent')
        <3>1. IsFiniteSet(sent)
            BY <1>1 DEF TypeOK
        <3> HIDE DEF new
        <3>2. IsFiniteSet(sent \union {new})
            BY <3>1, FS_AddElement
        <3> QED BY <1>3, <3>2
    <2> QED BY <1>1, <1>3, <2>1, <2>2 DEF TypeOK
<1> HIDE DEF new
<1>6. Remembered'
    <2> SUFFICES ASSUME NEW s \in sent'
                 PROVE  /\ s[2] <= clock /\ s[3] = 1
                        /\ \/ \E row \in rows' : row.email = s[1] /\ row.created = s[2]
                           \/ s[2] + OtpTtl <= clock /\ s[2] < DayStart(clock)
        BY DEF Remembered, Of
    <2>1. CASE s = new
        BY <1>4, <2>1
    <2>2. CASE s \in sent
        BY <1>1, <2>2 DEF Remembered, Of
    <2> QED BY <1>3, <2>1, <2>2
<1>7. CooldownKept'
    <2> SUFFICES ASSUME NEW s \in sent', NEW t \in sent', s[1] = t[1], s # t
                 PROVE  s[2] >= t[2] + Cooldown \/ t[2] >= s[2] + Cooldown
        BY DEF CooldownKept
    <2>1. CASE s \in sent /\ t \in sent
        BY <1>1, <2>1 DEF CooldownKept
    <2>2. CASE s = new /\ t \in sent
        BY <1>1, <1>2, <1>4, <2>2
    <2>3. CASE s \in sent /\ t = new
        BY <1>1, <1>2, <1>4, <2>3
    <2> QED BY <1>3, <2>1, <2>2, <2>3
<1>8. DailyKept'
    <2> SUFFICES ASSUME NEW email \in Emails
                 PROVE  Cardinality({s \in sent' : s[1] = email /\ s[2] >= DayStart(clock)}) <= IntentsDay
        BY DEF DailyKept
    <2> DEFINE today == {s \in sent : s[1] = email /\ s[2] >= DayStart(clock)}
               after == {s \in sent' : s[1] = email /\ s[2] >= DayStart(clock)}
    <2>1. IsFiniteSet(today) /\ Cardinality(today) <= IntentsDay
        BY <1>1, FS_Subset DEF TypeOK, DailyKept
    <2>2. CASE email # q.email
        <3>1. after = today
            BY <1>3, <1>4, <2>2
        <3> QED BY <2>1, <3>1
    <2>3. CASE email = q.email
        <3>1. after \subseteq today \union {new}
            BY <1>3
        <3>2. Cardinality(today) \in Nat /\ Cardinality(today) < IntentsDay
            <4>1. Cardinality(today) <= Snapshot(q.email, q.now).today
                BY <1>1, <2>3, TodayCounted
            <4>2. Snapshot(q.email, q.now).today \in Nat
                BY <1>1, SnapshotType
            <4>3. Cardinality(today) \in Nat
                BY <2>1, FS_CardinalityType
            <4> HIDE DEF today
            <4> QED BY <1>1, <4>1, <4>2, <4>3 DEF IntentGuard
        <3> HIDE DEF today, after
        <3>3. IsFiniteSet(today \union {new}) /\ Cardinality(today \union {new}) <= Cardinality(today) + 1
            <4>1. /\ IsFiniteSet(today \union {new})
                  /\ Cardinality(today \union {new}) =
                         IF new \in today THEN Cardinality(today) ELSE Cardinality(today) + 1
                BY <2>1, FS_AddElement
            <4> QED BY <3>2, <4>1
        <3>4. Cardinality(after) <= Cardinality(today \union {new})
            BY <3>1, <3>3, FS_Subset
        <3>5. Cardinality(after) \in Nat /\ Cardinality(today \union {new}) \in Nat
            BY <3>1, <3>3, FS_Subset, FS_CardinalityType
        <3> QED BY <1>1, <3>2, <3>3, <3>4, <3>5 DEF after
    <2> QED BY <2>2, <2>3
<1> QED BY <1>5, <1>6, <1>7, <1>8

\* Where nothing is accepted, rows may move and time may pass, and a row may go whose day
\* and whose code are over.
LEMMA NothingAccepted ==
    ASSUME QuotaConstants, QuotasHold,
           sent' = sent, clock' \in Nat, clock <= clock',
           \A row \in rows :
               \/ \E kept \in rows' : kept.email = row.email /\ kept.created = row.created
               \/ row.created + OtpTtl <= clock' /\ row.created < DayStart(clock')
    PROVE  Remembered' /\ CooldownKept' /\ DailyKept'
<1>1. /\ TypeOK /\ Remembered /\ CooldownKept /\ DailyKept
      /\ clock \in Nat /\ OtpTtl \in Nat /\ IntentsDay \in Nat
    BY DEF QuotasHold, TypeOK, QuotaConstants
<1>2. DayStart(clock) \in Nat /\ DayStart(clock') \in Nat /\ DayStart(clock) <= DayStart(clock')
    BY <1>1, DayStartGrows
<1>3. \A s \in sent : s[2] \in Nat
    BY <1>1 DEF TypeOK
<1>4. Remembered'
    <2> SUFFICES ASSUME NEW s \in sent
                 PROVE  /\ s[2] <= clock' /\ s[3] = 1
                        /\ \/ \E row \in rows' : row.email = s[1] /\ row.created = s[2]
                           \/ s[2] + OtpTtl <= clock' /\ s[2] < DayStart(clock')
        BY DEF Remembered, Of, DayStart
    <2>1. s[2] <= clock' /\ s[3] = 1
        BY <1>1, <1>3 DEF Remembered
    <2>2. CASE \E row \in rows : row.email = s[1] /\ row.created = s[2]
        BY <2>1, <2>2
    <2>3. CASE s[2] + OtpTtl <= clock /\ s[2] < DayStart(clock)
        BY <1>1, <1>2, <1>3, <2>1, <2>3
    <2> QED BY <1>1, <2>2, <2>3 DEF Remembered, Of
<1>5. CooldownKept'
    BY <1>1 DEF CooldownKept
<1>6. DailyKept'
    <2> SUFFICES ASSUME NEW email \in Emails
                 PROVE  Cardinality({s \in sent : s[1] = email /\ s[2] >= DayStart(clock')}) <= IntentsDay
        BY DEF DailyKept, DayStart
    <2> DEFINE today == {s \in sent : s[1] = email /\ s[2] >= DayStart(clock)}
               after == {s \in sent : s[1] = email /\ s[2] >= DayStart(clock')}
    <2>1. IsFiniteSet(today) /\ Cardinality(today) <= IntentsDay
        BY <1>1, FS_Subset DEF TypeOK, DailyKept
    <2>2. after \subseteq today
        BY <1>2, <1>3
    <2> HIDE DEF today, after
    <2>3. Cardinality(after) <= Cardinality(today) /\ Cardinality(after) \in Nat /\ Cardinality(today) \in Nat
        BY <2>1, <2>2, FS_Subset, FS_CardinalityType
    <2> QED BY <1>1, <2>1, <2>3 DEF after
<1> QED BY <1>4, <1>5, <1>6

(***************************************************************************)
(* Open challenges                                                         *)
(***************************************************************************)
\* Rows whose windows are over stay over, and a request that looks with an earlier clock
\* sees every challenge that is still open.
LEMMA OpenLonger ==
    ASSUME QuotaConstants, NEW row, row.created \in Nat, NEW now \in Nat, NEW later \in Nat,
           now <= later, OpenAt(row, later)
    PROVE  OpenAt(row, now)
BY DEF OpenAt, QuotaConstants

\* No challenge is opened, and none is open that was not.
LEMMA NothingOpened ==
    ASSUME QuotaConstants, TypeOK, OpenKept, clock' \in Nat,
           NEW f,
           \A row \in rows' : OpenAt(row, clock') =>
               f[row] \in rows /\ f[row].email = row.email /\ OpenAt(f[row], clock),
           \A a, b \in rows' : OpenAt(a, clock') /\ OpenAt(b, clock') /\ f[a] = f[b] => a = b
    PROVE  OpenKept'
<1>1. PerEmail \in Nat /\ ChallengesMax \in Nat /\ IsFiniteSet(rows)
    BY DEF QuotaConstants, TypeOK
<1>2. ASSUME NEW A, NEW B, IsFiniteSet(B), \A row \in A : f[row] \in B,
             \A a, b \in A : f[a] = f[b] => a = b
      PROVE  IsFiniteSet(A) /\ Cardinality(A) <= Cardinality(B)
                 /\ Cardinality(A) \in Nat /\ Cardinality(B) \in Nat
    <2> DEFINE g == [row \in A |-> f[row]]
    <2>1. g \in Injection(A, B)
        <3>1. g \in [A -> B]
            BY <1>2
        <3>2. \A a, b \in A : g[a] = g[b] => a = b
            BY <1>2
        <3> HIDE DEF g
        <3> QED BY <3>1, <3>2 DEF Injection, IsInjective
    <2> HIDE DEF g
    <2> QED BY <1>2, <2>1, FS_Injection, FS_CardinalityType
<1>3. ASSUME NEW email \in Emails
      PROVE  Snapshot(email, clock)'.open <= PerEmail
    <2> DEFINE before == {row \in Of(email) : OpenAt(row, clock)}
               after == {row \in {r \in rows' : r.email = email} : OpenAt(row, clock')}
    <2>1. IsFiniteSet(before) /\ Cardinality(before) <= PerEmail
        BY <1>1, FS_Subset DEF Of, OpenKept, Snapshot
    <2>2. \A row \in after : f[row] \in before
        BY DEF Of
    <2>3. \A a, b \in after : f[a] = f[b] => a = b
        OBVIOUS
    <2>4. Snapshot(email, clock)'.open = Cardinality(after)
        BY DEF Snapshot, Of, OpenAt
    <2> HIDE DEF before, after
    <2>5. Cardinality(after) <= Cardinality(before) /\ Cardinality(after) \in Nat /\ Cardinality(before) \in Nat
        BY <1>2, <2>1, <2>2, <2>3
    <2> QED BY <1>1, <2>1, <2>4, <2>5
<1>4. Cardinality({row \in rows' : OpenAt(row, clock')}) <= ChallengesMax
    <2> DEFINE before == {row \in rows : OpenAt(row, clock)}
               after == {row \in rows' : OpenAt(row, clock')}
    <2>1. IsFiniteSet(before) /\ Cardinality(before) <= ChallengesMax
        BY <1>1, FS_Subset DEF OpenKept
    <2>2. \A row \in after : f[row] \in before
        OBVIOUS
    <2>3. \A a, b \in after : f[a] = f[b] => a = b
        OBVIOUS
    <2> HIDE DEF before, after
    <2>5. Cardinality(after) <= Cardinality(before) /\ Cardinality(after) \in Nat /\ Cardinality(before) \in Nat
        BY <1>2, <2>1, <2>2, <2>3
    <2> QED BY <1>1, <2>1, <2>5 DEF after
<1> QED BY <1>3, <1>4 DEF OpenKept, OpenAt

\* One challenge is opened under the limits that its request reads.
LEMMA OneOpened ==
    ASSUME QuotaConstants, QuotasHold,
           NEW q, q.email \in Emails, q.now \in Nat, q.now <= clock, clock' = clock,
           CreateGuard(Snapshot(q.email, q.now), q.now),
           NEW new, new.email = q.email, rows' = rows \union {new}
    PROVE  OpenKept'
<1>1. /\ PerEmail \in Nat /\ ChallengesMax \in Nat /\ IsFiniteSet(rows) /\ clock \in Nat
      /\ \A row \in rows : row.created \in Nat
    BY DEF QuotaConstants, QuotasHold, TypeOK
<1>2. ASSUME NEW A, NEW B, NEW n \in Nat, IsFiniteSet(B), Cardinality(B) < n, A \subseteq B \union {new}
      PROVE  Cardinality(A) <= n
    <2>1. /\ IsFiniteSet(B \union {new}) /\ Cardinality(B) \in Nat
          /\ Cardinality(B \union {new}) = IF new \in B THEN Cardinality(B) ELSE Cardinality(B) + 1
        BY <1>2, FS_AddElement, FS_CardinalityType
    <2>2. Cardinality(A) <= Cardinality(B \union {new}) /\ Cardinality(A) \in Nat
        BY <1>2, <2>1, FS_Subset, FS_CardinalityType
    <2> QED BY <1>2, <2>1, <2>2
<1>3. \A row \in rows : OpenAt(row, clock) => OpenAt(row, q.now)
    BY <1>1, OpenLonger
<1>4. ASSUME NEW email \in Emails
      PROVE  Snapshot(email, clock)'.open <= PerEmail
    <2> DEFINE after == {row \in {r \in rows' : r.email = email} : OpenAt(row, clock)}
    <2>1. Snapshot(email, clock)'.open = Cardinality(after)
        BY DEF Snapshot, Of, OpenAt
    <2>2. CASE email = q.email
        <3> DEFINE seen == {row \in Of(email) : OpenAt(row, q.now)}
        <3>1. IsFiniteSet(seen) /\ Cardinality(seen) < PerEmail
            BY <1>1, <2>2, FS_Subset DEF Of, CreateGuard, Snapshot
        <3>2. after \subseteq seen \union {new}
            BY <1>3 DEF Of
        <3> HIDE DEF after, seen
        <3> QED BY <1>1, <1>2, <2>1, <3>1, <3>2
    <2>3. CASE email # q.email
        <3>1. after = {row \in Of(email) : OpenAt(row, clock)}
            BY <2>3 DEF Of
        <3> QED BY <2>1, <3>1 DEF QuotasHold, OpenKept, Snapshot
    <2> QED BY <2>2, <2>3
<1>5. Cardinality({row \in rows' : OpenAt(row, clock)}) <= ChallengesMax
    <2> DEFINE after == {row \in rows' : OpenAt(row, clock)}
               seen == {row \in rows : OpenAt(row, q.now)}
    <2>1. IsFiniteSet(seen) /\ Cardinality(seen) < ChallengesMax
        BY <1>1, FS_Subset DEF CreateGuard, Snapshot
    <2>2. after \subseteq seen \union {new}
        BY <1>3
    <2> HIDE DEF after, seen
    <2>3. Cardinality(after) <= ChallengesMax
        BY <1>1, <1>2, <2>1, <2>2
    <2> QED BY <2>3 DEF after
<1> QED BY <1>4, <1>5 DEF OpenKept, OpenAt

(***************************************************************************)
(* The steps                                                               *)
(***************************************************************************)
\* The parts of the invariant; the sides' agreement follows from the types.
Quotas == TypeOK /\ InTime /\ Remembered /\ CooldownKept /\ DailyKept /\ OpenKept

LEMMA QuotasSuffice ==
    ASSUME QuotaConstants
    PROVE  Quotas <=> QuotasHold
BY SidesAlwaysAgree DEF Quotas, QuotasHold

LEMMA InitHolds ==
    ASSUME QuotaConstants, Init
    PROVE  Quotas
<1>1. /\ MaxTime \in Nat /\ PerEmail \in Nat /\ ChallengesMax \in Nat /\ IntentsDay \in Nat
    BY DEF QuotaConstants
<1>2. /\ TypeOK /\ InTime
    BY <1>1, FS_EmptySet DEF Init, TypeOK, InTime, Idle
<1>3. Remembered /\ CooldownKept
    BY DEF Init, Remembered, CooldownKept
<1>4. DailyKept
    <2>1. \A email, now : {s \in sent : s[1] = email /\ s[2] >= DayStart(now)} = {}
        BY DEF Init
    <2> QED BY <1>1, <2>1, FS_EmptySet DEF DailyKept
<1>5. OpenKept
    <2>1. Of("any") = {} /\ {row \in rows : OpenAt(row, clock)} = {}
        BY DEF Init, Of
    <2>2. \A email \in Emails : Snapshot(email, clock).open = 0
        <3> SUFFICES ASSUME NEW email \in Emails
                     PROVE  Snapshot(email, clock).open = 0
            OBVIOUS
        <3>1. {row \in Of(email) : OpenAt(row, clock)} = {}
            BY DEF Init, Of
        <3> QED BY <3>1, FS_EmptySet DEF Snapshot
    <2> QED BY <1>1, <2>1, <2>2, FS_EmptySet DEF OpenKept
<1> QED BY <1>2, <1>3, <1>4, <1>5 DEF Quotas

\* What a request under way has chosen.
LEMMA UnderWay ==
    ASSUME QuotaConstants, TypeOK, InTime, NEW r \in Requests, request[r].at = "commit"
    PROVE  /\ request[r].email \in Emails /\ request[r].kind \in Kinds
           /\ request[r].now \in 0..MaxTime /\ request[r].now \in Nat
           /\ request[r].now <= clock /\ clock <= request[r].now + MaxLag
<1>1. request[r] \in [at : {"commit"}, email : Emails, kind : Kinds, now : 0..MaxTime]
    BY DEF TypeOK, Idle
<1> QED BY <1>1 DEF InTime

\* A request ends.
LEMMA RequestEnds ==
    ASSUME TypeOK, InTime, NEW r \in Requests,
           request' = [request EXCEPT ![r] = Idle], clock' = clock
    PROVE  /\ request' \in [Requests -> {Idle} \union
                                [at : {"commit"}, email : Emails, kind : Kinds, now : 0..MaxTime]]
           /\ InTime'
BY DEF TypeOK, InTime, Idle

LEMMA TickHolds ==
    ASSUME QuotaConstants, QuotasHold, Tick
    PROVE  Quotas'
<1>1. /\ TypeOK /\ InTime /\ OpenKept /\ clock \in Nat /\ MaxTime \in Nat /\ MaxLag \in Nat
      /\ clock' = clock + 1 /\ clock < MaxTime /\ UNCHANGED <<rows, sent, request>>
    BY DEF QuotasHold, TypeOK, QuotaConstants, Tick
<1>2. TypeOK'
    BY <1>1 DEF TypeOK
<1>3. InTime'
    <2> SUFFICES ASSUME NEW r \in Requests, request[r].at = "commit"
                 PROVE  request[r].now <= clock + 1 /\ clock + 1 <= request[r].now + MaxLag
        BY <1>1 DEF InTime
    <2>1. request[r].now \in Nat /\ request[r].now <= clock
        BY <1>1, UnderWay
    <2>2. clock - request[r].now < MaxLag
        BY DEF Tick
    <2> QED BY <1>1, <2>1, <2>2
<1>4. Remembered' /\ CooldownKept' /\ DailyKept'
    BY <1>1, NothingAccepted
<1>5. OpenKept'
    <2> DEFINE f == [row \in rows |-> row]
    <2>1. \A row \in rows : row.created \in Nat
        BY <1>1 DEF TypeOK
    <2>2. \A row \in rows' : OpenAt(row, clock') =>
              f[row] \in rows /\ f[row].email = row.email /\ OpenAt(f[row], clock)
        BY <1>1, <2>1, OpenLonger
    <2>3. \A a, b \in rows' : OpenAt(a, clock') /\ OpenAt(b, clock') /\ f[a] = f[b] => a = b
        BY <1>1
    <2> HIDE DEF f
    <2> QED BY <1>1, <2>2, <2>3, NothingOpened
<1> QED BY <1>2, <1>3, <1>4, <1>5 DEF Quotas

\* The maintenance deletes what nobody needs any more.
LEMMA GoneIsOver ==
    ASSUME QuotaConstants, TypeOK, NEW row \in rows, Gone(row)
    PROVE  row.created + OtpTtl <= clock /\ row.created < DayStart(clock)
<1>1. /\ clock \in Nat /\ row.created \in Nat /\ OtpTtl \in Nat /\ Cooldown \in Nat
      /\ DayStart(clock) \in Nat
    BY DayStartGrows DEF TypeOK, QuotaConstants
<1> DEFINE longer == Max({OtpTtl, Cooldown})
           resendBound == clock - longer
           otherBound == clock - Cooldown
           day == DayStart(clock)
<1>2. longer \in Int /\ longer >= OtpTtl
    <2>1. OtpTtl \in Int /\ Cooldown \in Int
        BY <1>1
    <2> QED BY <2>1, MaxOfTwo
<1> HIDE DEF longer
<1>3. resendBound \in Int /\ otherBound \in Int /\ day \in Int /\ resendBound + OtpTtl <= clock
    BY <1>1, <1>2
<1>4. CASE row.table = "resend"
    <2>1. row.created < Min({day, resendBound})
        BY <1>4 DEF Gone, longer
    <2> HIDE DEF resendBound, day
    <2>2. Min({day, resendBound}) \in Int /\ Min({day, resendBound}) <= day /\ Min({day, resendBound}) <= resendBound
        BY <1>3, MinOfTwo
    <2>3. row.created < day /\ row.created + OtpTtl <= clock
        BY <1>1, <1>3, <2>1, <2>2
    <2> QED BY <2>3 DEF day
<1>5. CASE row.table # "resend"
    <2>1. row.created < Min({day, otherBound}) /\ row.created + OtpTtl <= clock
        BY <1>5 DEF Gone
    <2> HIDE DEF otherBound, day
    <2>2. Min({day, otherBound}) \in Int /\ Min({day, otherBound}) <= day
        BY <1>3, MinOfTwo
    <2>3. row.created < day
        BY <1>1, <1>3, <2>1, <2>2
    <2> QED BY <2>1, <2>3 DEF day
<1> QED BY <1>4, <1>5

LEMMA ClearHolds ==
    ASSUME QuotaConstants, QuotasHold, Clear
    PROVE  Quotas'
<1>1. /\ TypeOK /\ InTime /\ OpenKept /\ clock \in Nat /\ rows' \subseteq rows
      /\ rows' = {row \in rows : ~Gone(row)} /\ UNCHANGED <<clock, sent, request>>
    BY DEF QuotasHold, TypeOK, Clear
<1>2. TypeOK' /\ InTime'
    BY <1>1, FS_Subset DEF TypeOK, InTime
<1>3. Remembered' /\ CooldownKept' /\ DailyKept'
    BY <1>1, GoneIsOver, NothingAccepted
<1>4. OpenKept'
    <2> DEFINE f == [row \in rows |-> row]
    <2>1. \A row \in rows' : OpenAt(row, clock') =>
              f[row] \in rows /\ f[row].email = row.email /\ OpenAt(f[row], clock)
        BY <1>1
    <2>2. \A a, b \in rows' : OpenAt(a, clock') /\ OpenAt(b, clock') /\ f[a] = f[b] => a = b
        BY <1>1
    <2> HIDE DEF f
    <2> QED BY <1>1, <2>1, <2>2, NothingOpened
<1> QED BY <1>2, <1>3, <1>4 DEF Quotas

LEMMA CloseHolds ==
    ASSUME QuotaConstants, QuotasHold, NEW row \in rows, Close(row)
    PROVE  Quotas'
<1> DEFINE over == [row EXCEPT !.closed = TRUE, !.touched = clock]
           Row == [table : Challenge \union {"resend"}, email : Emails, created : 0..MaxTime,
                   touched : 0..MaxTime, closed : BOOLEAN]
<1>1. /\ TypeOK /\ InTime /\ OpenKept /\ clock \in Nat
      /\ rows' = (rows \ {row}) \union {over} /\ UNCHANGED <<clock, sent, request>>
    BY DEF QuotasHold, TypeOK, Close
<1>2. /\ over \in Row /\ over.email = row.email /\ over.created = row.created /\ over.closed
    BY <1>1 DEF TypeOK
<1> HIDE DEF over
<1>3. IsFiniteSet(rows')
    BY <1>1, FS_RemoveElement, FS_AddElement DEF TypeOK
<1>4. TypeOK' /\ InTime'
    BY <1>1, <1>2, <1>3 DEF TypeOK, InTime
<1>5. Remembered' /\ CooldownKept' /\ DailyKept'
    <2>1. \A old \in rows : \E kept \in rows' : kept.email = old.email /\ kept.created = old.created
        BY <1>1, <1>2
    <2> QED BY <1>1, <2>1, NothingAccepted
<1>6. OpenKept'
    <2> DEFINE f == [x \in rows' |-> x]
    <2>1. \A x \in rows' : OpenAt(x, clock') => x \in rows
        BY <1>1, <1>2 DEF OpenAt
    <2>2. \A x \in rows' : OpenAt(x, clock') =>
              f[x] \in rows /\ f[x].email = x.email /\ OpenAt(f[x], clock)
        BY <1>1, <2>1
    <2>3. \A a, b \in rows' : OpenAt(a, clock') /\ OpenAt(b, clock') /\ f[a] = f[b] => a = b
        OBVIOUS
    <2> HIDE DEF f
    <2> QED BY <1>1, <2>2, <2>3, NothingOpened
<1> QED BY <1>4, <1>5, <1>6 DEF Quotas

LEMMA StartHolds ==
    ASSUME QuotaConstants, QuotasHold,
           NEW r \in Requests, NEW email \in Emails, NEW kind \in Kinds, Start(r, email, kind)
    PROVE  Quotas'
<1> DEFINE q == [at |-> "commit", email |-> email, kind |-> kind, now |-> clock]
<1>1. /\ Quotas /\ TypeOK /\ InTime /\ clock \in 0..MaxTime /\ clock \in Nat /\ MaxLag \in Nat
      /\ request' = [request EXCEPT ![r] = q] /\ UNCHANGED <<clock, rows, sent>>
    BY DEF Quotas, QuotasHold, TypeOK, QuotaConstants, Start
<1>2. q \in [at : {"commit"}, email : Emails, kind : Kinds, now : 0..MaxTime] /\ q.now = clock
    BY <1>1
<1> HIDE DEF q
<1>3. TypeOK'
    BY <1>1, <1>2 DEF TypeOK
<1>4. InTime'
    <2> SUFFICES ASSUME NEW p \in Requests, request'[p].at = "commit"
                 PROVE  request'[p].now <= clock /\ clock <= request'[p].now + MaxLag
        BY <1>1 DEF InTime
    <2>1. CASE p = r
        BY <1>1, <1>2, <2>1 DEF TypeOK
    <2>2. CASE p # r
        BY <1>1, <2>2 DEF TypeOK, InTime
    <2> QED BY <2>1, <2>2
<1>5. Remembered' /\ CooldownKept' /\ DailyKept'
    BY <1>1, NothingAccepted
<1>6. OpenKept'
    BY <1>1 DEF Quotas, OpenKept, Snapshot, Of
<1> QED BY <1>3, <1>4, <1>5, <1>6 DEF Quotas

LEMMA CommitHolds ==
    ASSUME QuotaConstants, QuotasHold, NEW r \in Requests, Commit(r)
    PROVE  Quotas'
<1> DEFINE q == request[r]
           new == [table |-> q.kind, email |-> q.email, created |-> q.now, touched |-> q.now,
                   closed |-> FALSE]
<1>1. /\ Quotas /\ TypeOK /\ InTime /\ clock \in Nat
      /\ q.at = "commit" /\ q.kind \in Challenge
      /\ request' = [request EXCEPT ![r] = Idle] /\ clock' = clock
    BY DEF Quotas, QuotasHold, TypeOK, Commit
<1>2. /\ q.email \in Emails /\ q.now \in 0..MaxTime /\ q.now \in Nat
      /\ q.now <= clock /\ clock <= q.now + MaxLag
    BY <1>1, UnderWay
<1>3. /\ request' \in [Requests -> {Idle} \union
                             [at : {"commit"}, email : Emails, kind : Kinds, now : 0..MaxTime]]
      /\ InTime'
    BY <1>1, RequestEnds
<1>4. CASE ~CreateGuard(Snapshot(q.email, q.now), q.now)
    <2>1. UNCHANGED <<rows, sent>>
        BY <1>4 DEF Commit
    <2>2. Remembered' /\ CooldownKept' /\ DailyKept'
        BY <1>1, <2>1, NothingAccepted
    <2>3. OpenKept'
        BY <1>1, <2>1 DEF Quotas, OpenKept, Snapshot, Of
    <2>4. TypeOK'
        BY <1>1, <1>3, <2>1 DEF TypeOK
    <2> QED BY <1>3, <2>2, <2>3, <2>4 DEF Quotas
<1>5. CASE CreateGuard(Snapshot(q.email, q.now), q.now)
    <2>1. rows' = rows \union {new} /\ sent' = Accepted(q)
        BY <1>5 DEF Commit, Insert
    <2>2. /\ new \in [table : Challenge \union {"resend"}, email : Emails, created : 0..MaxTime,
                       touched : 0..MaxTime, closed : BOOLEAN]
          /\ new.email = q.email /\ new.created = q.now
        BY <1>1, <1>2
    <2>3. IntentGuard(Snapshot(q.email, q.now), q.now)
        BY <1>5 DEF CreateGuard
    <2> HIDE DEF q, new
    <2>4. /\ sent' \subseteq Emails \X (0..MaxTime) \X (Nat \ {0}) /\ IsFiniteSet(sent')
          /\ Remembered' /\ CooldownKept' /\ DailyKept'
        BY <1>1, <1>2, <2>1, <2>2, <2>3, Accepting
    <2>5. OpenKept'
        BY <1>1, <1>2, <1>5, <2>1, <2>2, OneOpened
    <2>6. IsFiniteSet(rows')
        BY <1>1, <2>1, FS_AddElement DEF TypeOK
    <2>7. TypeOK'
        BY <1>1, <1>3, <2>1, <2>2, <2>4, <2>6 DEF TypeOK
    <2> QED BY <1>3, <2>4, <2>5, <2>7 DEF Quotas
<1> QED BY <1>4, <1>5

LEMMA CommitResendHolds ==
    ASSUME QuotaConstants, QuotasHold, NEW r \in Requests, CommitResend(r)
    PROVE  Quotas'
<1> DEFINE q == request[r]
           Row == [table : Challenge \union {"resend"}, email : Emails, created : 0..MaxTime,
                   touched : 0..MaxTime, closed : BOOLEAN]
           new == [table |-> "resend", email |-> q.email, created |-> q.now, touched |-> q.now,
                   closed |-> FALSE]
<1>1. /\ Quotas /\ TypeOK /\ InTime /\ OpenKept /\ clock \in Nat /\ q.at = "commit"
      /\ request' = [request EXCEPT ![r] = Idle] /\ clock' = clock
    BY DEF Quotas, QuotasHold, TypeOK, CommitResend
<1>2. /\ q.email \in Emails /\ q.now \in 0..MaxTime /\ q.now \in Nat
      /\ q.now <= clock /\ clock <= q.now + MaxLag
    BY <1>1, UnderWay
<1>3. /\ request' \in [Requests -> {Idle} \union
                             [at : {"commit"}, email : Emails, kind : Kinds, now : 0..MaxTime]]
      /\ InTime'
    BY <1>1, RequestEnds
<1>4. CASE UNCHANGED <<rows, sent>>
    <2>1. Remembered' /\ CooldownKept' /\ DailyKept'
        BY <1>1, <1>4, NothingAccepted
    <2>2. OpenKept'
        BY <1>1, <1>4 DEF OpenKept, Snapshot, Of
    <2>3. TypeOK'
        BY <1>1, <1>3, <1>4 DEF TypeOK
    <2> QED BY <1>3, <2>1, <2>2, <2>3 DEF Quotas
<1>5. ASSUME NEW row \in Of(q.email), IntentGuard(Snapshot(q.email, q.now), q.now),
             rows' = (rows \ {row}) \union {[row EXCEPT !.touched = q.now], new},
             sent' = Accepted(q)
      PROVE  Quotas'
    <2> DEFINE touched == [row EXCEPT !.touched = q.now]
               f == [x \in rows' |-> IF x = touched THEN row ELSE x]
    <2>1. row \in rows /\ row \in Row
        BY <1>1 DEF Of, TypeOK
    <2>2. /\ touched \in Row /\ touched.email = row.email /\ touched.created = row.created
          /\ touched.table = row.table /\ touched.closed = row.closed
        BY <1>2, <2>1
    <2>3. new \in Row /\ new.email = q.email /\ new.created = q.now /\ new.table = "resend"
        BY <1>2
    <2>4. rows' = ((rows \ {row}) \union {touched}) \union {new}
        BY <1>5
    <2> HIDE DEF q, new, touched
    <2>5. IsFiniteSet(rows')
        <3>1. IsFiniteSet(rows \ {row})
            BY <1>1, FS_RemoveElement DEF TypeOK
        <3>2. IsFiniteSet((rows \ {row}) \union {touched})
            BY <3>1, FS_AddElement
        <3> QED BY <2>4, <3>2, FS_AddElement
    <2>6. /\ \A old \in rows : \E kept \in rows' : kept.email = old.email /\ kept.created = old.created
          /\ \E kept \in rows' : kept.email = q.email /\ kept.created = q.now
        BY <2>2, <2>3, <2>4
    <2>7. /\ sent' \subseteq Emails \X (0..MaxTime) \X (Nat \ {0}) /\ IsFiniteSet(sent')
          /\ Remembered' /\ CooldownKept' /\ DailyKept'
        BY <1>1, <1>2, <1>5, <2>6, Accepting
    <2>8. OpenKept'
        <3>1. \A x \in rows' : OpenAt(x, clock') => x # new /\ (x = touched \/ x \in rows \ {row})
            BY <2>3, <2>4 DEF OpenAt, Challenge
        <3>2. OpenAt(touched, clock) => OpenAt(row, clock)
            BY <2>2 DEF OpenAt
        <3>3. \A x \in rows' : OpenAt(x, clock') =>
                  f[x] \in rows /\ f[x].email = x.email /\ OpenAt(f[x], clock)
            BY <1>1, <2>1, <2>2, <3>1, <3>2
        <3>4. \A a, b \in rows' : OpenAt(a, clock') /\ OpenAt(b, clock') /\ f[a] = f[b] => a = b
            BY <3>1
        <3>5. clock' \in Nat
            BY <1>1
        <3> HIDE DEF f
        <3> QED BY <1>1, <3>3, <3>4, <3>5, NothingOpened
    <2>9. TypeOK'
        BY <1>1, <1>3, <2>2, <2>3, <2>4, <2>5, <2>7 DEF TypeOK
    <2> QED BY <1>3, <2>7, <2>8, <2>9 DEF Quotas
<1> QED BY <1>4, <1>5 DEF CommitResend

LEMMA StepHolds ==
    ASSUME QuotaConstants, Quotas, [Next]_vars
    PROVE  Quotas'
<1>1. CASE UNCHANGED vars
    BY <1>1 DEF vars, Quotas, TypeOK, InTime, Remembered, CooldownKept, DailyKept, OpenKept,
        Snapshot, Of
<1>2. CASE Next
    BY <1>2, QuotasSuffice, TickHolds, ClearHolds, StartHolds, CommitHolds, CommitResendHolds,
       CloseHolds DEF Next
<1> QED BY <1>1, <1>2

(***************************************************************************)
(* The theorems                                                            *)
(***************************************************************************)
\* Types, and what deleted rows may not take along, for any number of addresses and
\* requests and all limits, if a request does not outlive OTP_TTL - OTP_COOLDOWN: the
\* inductive invariant of the quotas (preauth/quota.ts, challenges/cleanup.ts).
THEOREM QuotasAreKept ==
    ASSUME QuotaConstants
    PROVE  Spec => []QuotasHold
<1>1. Init => Quotas
    BY InitHolds
<1>2. Quotas /\ [Next]_vars => Quotas'
    BY StepHolds
<1>3. Quotas => QuotasHold
    BY QuotasSuffice
<1> QED BY <1>1, <1>2, <1>3, PTL DEF Spec

\* No two mails of an address are asked for within OTP_COOLDOWN, however many requests
\* pass the read side together and whatever the maintenance deletes (quota.ts:136).
THEOREM CooldownIsKept ==
    ASSUME QuotaConstants
    PROVE  Spec => []CooldownKept
<1>1. QuotasHold => CooldownKept
    BY DEF QuotasHold
<1> QED BY <1>1, QuotasAreKept, PTL

\* On the running day an address has at most EMAIL_AUTH_INTENTS_DAY intents of all three
\* kinds together, deleted rows included (quota.ts:60).
THEOREM DayIsKept ==
    ASSUME QuotaConstants
    PROVE  Spec => []DailyKept
<1>1. QuotasHold => DailyKept
    BY DEF QuotasHold
<1> QED BY <1>1, QuotasAreKept, PTL

\* Neither an address nor the site ever has more challenges open than its limit allows,
\* although requests count with the time they started at (quota.ts:63, 66).
THEOREM OpenChallengesAreKept ==
    ASSUME QuotaConstants
    PROVE  Spec => []OpenKept
<1>1. QuotasHold => OpenKept
    BY DEF QuotasHold
<1> QED BY <1>1, QuotasAreKept, PTL

\* On every reachable table the read side's decision and the guard of the write agree.
THEOREM SidesAlwaysDecideAlike ==
    ASSUME QuotaConstants
    PROVE  Spec => []SidesAgree
<1>1. QuotasHold => SidesAgree
    BY DEF QuotasHold
<1> QED BY <1>1, QuotasAreKept, PTL
=============================================================================
