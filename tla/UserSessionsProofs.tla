------------------------- MODULE UserSessionsProofs -------------------------
(***************************************************************************)
(* The sessions of an account, for any number of sessions and requests and *)
(* any lag between the start of a request and its commit: the limit of      *)
(* active devices, what is dead stays dead, a recovery code opens one       *)
(* session, and a saved code goes only by being used.                       *)
(***************************************************************************)
EXTENDS UserSessions, FiniteSetTheorems, SequenceTheorems, TLAPS

(***************************************************************************)
(* Rows and requests                                                       *)
(***************************************************************************)
RequestsTyped == DOMAIN request = Requests /\ \A r \in Requests : RequestTyped(request[r])
RowsTyped ==
    /\ clock \in 0..MaxTime
    /\ user \in [epoch : 0..MaxEpoch, stop : -1..MaxEpoch] /\ user.stop <= user.epoch
    /\ session \in [Sessions -> SessionRows] /\ codes \in Seq(CodeRows)
    /\ channel \subseteq Surfaces

LEMMA TypesSplit ==
    (RequestsTyped /\ RowsTyped <=> TypeOK) /\ (RequestsTyped' /\ RowsTyped' <=> TypeOK')
BY DEF RequestsTyped, RowsTyped, TypeOK

\* A session that is opened waits, restricted if a recovery code opened it.
LEMMA PendingRow ==
    ASSUME SessionConstants, NEW t \in Nat, NEW epoch \in Nat, NEW via \in Nat
    PROVE  /\ Pending(t, epoch, via) \in SessionRows
           /\ Pending(t, epoch, via).expires <= Pending(t, epoch, via).absolute
           /\ Pending(t, epoch, via).state = "pending" /\ Pending(t, epoch, via).epoch = epoch
           /\ Pending(t, epoch, via).via = via
           /\ via > 0 => Pending(t, epoch, via).restricted
           /\ ~Pending(t, epoch, via).revived
<1> DEFINE ends == EarlierOf(t + PendingTtl, t + AbsoluteTtl)
           waits == via > 0
<1>1. ends \in Nat /\ ends <= t + AbsoluteTtl /\ t + AbsoluteTtl \in Nat
    BY DEF EarlierOf, SessionConstants
<1>2. waits \in BOOLEAN
    OBVIOUS
<1>3. Pending(t, epoch, via) =
        [state |-> "pending", epoch |-> epoch, expires |-> ends, absolute |-> t + AbsoluteTtl,
         renewed |-> t, receipt |-> TRUE, restricted |-> waits, via |-> via, revived |-> FALSE]
    BY DEF Pending
<1>4. waits <=> via > 0
    OBVIOUS
<1> HIDE DEF ends, waits
<1> QED BY <1>1, <1>2, <1>3, <1>4 DEF SessionRows

\* The requests keep their types when one of them goes on, in the same tick.
LEMMA OneGoesOn ==
    ASSUME RequestsTyped, codes \in Seq(CodeRows), clock' = clock,
           codes' \in Seq(CodeRows), Len(codes) <= Len(codes'),
           NEW r \in Requests, NEW q, Become(r, q), RequestTyped(q)'
    PROVE  RequestsTyped'
<1>1. DOMAIN request' = Requests
    BY DEF Become, RequestsTyped
<1>2. ASSUME NEW x \in Requests
      PROVE  RequestTyped(request[x])'
  <2>1. CASE x = r
    BY <2>1 DEF Become, RequestsTyped
  <2>2. CASE x # r
    <3>1. request'[x] = request[x] /\ RequestTyped(request[x])
      BY <2>2 DEF Become, RequestsTyped
    <3>2. Len(codes) \in Nat /\ Len(codes') \in Nat
      BY LenProperties
    <3> QED BY <3>1, <3>2 DEF RequestTyped
  <2> QED BY <2>1, <2>2
<1> QED BY <1>1, <1>2 DEF RequestsTyped

LEMMA NoneGoesOn ==
    ASSUME RequestsTyped, codes \in Seq(CodeRows), UNCHANGED <<clock, request>>,
           codes' \in Seq(CodeRows), Len(codes) <= Len(codes')
    PROVE  RequestsTyped'
<1>1. Len(codes) \in Nat /\ Len(codes') \in Nat
    BY LenProperties
<1> QED BY <1>1 DEF RequestsTyped, RequestTyped

(***************************************************************************)
(* What a step may do to the sessions without touching the limit            *)
(***************************************************************************)
LEMMA FewerActive ==
    ASSUME SessionConstants, ActiveLimitKept,
           \A s \in Sessions : ActiveAt(s, clock)' /\ ~session'[s].revived
                                => ActiveAt(s, clock) /\ ~session[s].revived
    PROVE  ActiveLimitKept'
<1> DEFINE before == {s \in Sessions : ActiveAt(s, clock) /\ ~session[s].revived}
           after == {s \in Sessions : ActiveAt(s, clock)' /\ ~session'[s].revived}
<1>1. IsFiniteSet(before) /\ IsFiniteSet(after)
    BY FS_Subset DEF SessionConstants
<1>2. after \subseteq before
    OBVIOUS
<1>3. Cardinality(after) <= Cardinality(before)
    BY <1>1, <1>2, FS_Subset
<1>4. Cardinality(before) <= ActiveMax /\ ActiveMax \in Nat
    BY DEF ActiveLimitKept, SessionConstants
<1>5. Cardinality(before) \in Nat /\ Cardinality(after) \in Nat
    BY <1>1, FS_CardinalityType
<1>6. Cardinality(after) <= ActiveMax
    BY <1>3, <1>4, <1>5
<1> QED BY <1>6 DEF ActiveLimitKept

\* A step that leaves the rows, the codes and the epoch alone.
LEMMA DataStays ==
    ASSUME SessionConstants, SessionsHold, RequestsTyped', channel' \subseteq Surfaces,
           UNCHANGED <<clock, user, session, codes>>, stopped' => Closed(clock)'
    PROVE  SessionsHold' /\ SessionStep
<1> USE DEF SessionsHold
<1>1. TypeOK'
    BY TypesSplit DEF RowsTyped
<1>2. RowsAgree' /\ NewestInForce'
    BY DEF RowsAgree, NewestInForce, Unconsumed
<1>3. RecoverOnce' /\ RestrictedUntilSaved'
    BY DEF RecoverOnce, RestrictedUntilSaved
<1>4. ActiveLimitKept'
  <2>1. \A s \in Sessions : ActiveAt(s, clock)' <=> ActiveAt(s, clock)
    BY DEF ActiveAt, Live, Current
  <2> QED BY <2>1, FewerActive
<1>5. DeadStaysDead
    BY DEF DeadStaysDead, Dead, Usable, Live, Current
<1>6. ActivationWithinLimit /\ SavedCodeSurvives /\ StopAnswersClosed
    BY DEF ActivationWithinLimit, SavedCodeSurvives, StopAnswersClosed
<1> QED BY <1>1, <1>2, <1>3, <1>4, <1>5, <1>6 DEF SessionStep

\* A step that changes rows only, and neither which code opened a session nor whether it
\* is restricted.
LEMMA OnlyRows ==
    ASSUME SessionConstants, SessionsHold, RequestsTyped', session' \in [Sessions -> SessionRows],
           UNCHANGED <<clock, user, codes, channel>>, ~stopped',
           \A s \in Sessions : /\ session'[s].via = session[s].via
                               /\ session[s].via > 0 => session'[s].restricted = session[s].restricted,
           RowsAgree', ActiveLimitKept', DeadStaysDead, ActivationWithinLimit
    PROVE  SessionsHold' /\ SessionStep
<1> USE DEF SessionsHold
<1>1. TypeOK'
    BY TypesSplit DEF RowsTyped
<1>2. NewestInForce'
    BY DEF NewestInForce, Unconsumed
<1>3. RecoverOnce'
    BY DEF RecoverOnce
<1>5. RestrictedUntilSaved'
  <2>1. ASSUME NEW s \in Sessions, session'[s].via > 0, ~session'[s].restricted
        PROVE  \E g \in 1..Len(codes) : g > session'[s].via /\ codes[g].by = s
    <3>1. session[s].via > 0 /\ ~session[s].restricted /\ session'[s].via = session[s].via
      BY <2>1
    <3> QED BY <3>1 DEF RestrictedUntilSaved
  <2> QED BY <2>1 DEF RestrictedUntilSaved
<1>4. SavedCodeSurvives /\ StopAnswersClosed
    BY DEF SavedCodeSurvives, StopAnswersClosed
<1> QED BY <1>1, <1>2, <1>3, <1>4, <1>5 DEF SessionStep

\* A step that only revokes sessions.
LEMMA OnlyRevokes ==
    ASSUME SessionConstants, SessionsHold, RequestsTyped', session' \in [Sessions -> SessionRows],
           UNCHANGED <<clock, user, codes, channel>>, ~stopped',
           \A s \in Sessions : \/ session'[s] = session[s]
                               \/ /\ session[s].state # "none" /\ session'[s].state = "revoked"
                                  /\ session'[s].epoch = session[s].epoch
                                  /\ session'[s].expires = session[s].expires
                                  /\ session'[s].absolute = session[s].absolute
                                  /\ session'[s].via = session[s].via
                                  /\ session'[s].restricted = session[s].restricted
    PROVE  SessionsHold' /\ SessionStep
<1>1. RowsAgree'
    BY DEF SessionsHold, RowsAgree
<1>2. ActiveLimitKept'
  <2>1. \A s \in Sessions : ActiveAt(s, clock)' => session'[s] = session[s] /\ ActiveAt(s, clock)
    BY DEF ActiveAt, Live, Current
  <2> QED BY <2>1, FewerActive DEF SessionsHold
<1>3. DeadStaysDead
    BY DEF DeadStaysDead, Dead, Usable, Live, Current
<1>4. ActivationWithinLimit
    BY DEF ActivationWithinLimit
<1> QED BY <1>1, <1>2, <1>3, <1>4, OnlyRows

(***************************************************************************)
(* Requests that only read                                                 *)
(***************************************************************************)
LEMMA ReadKeeps ==
    ASSUME SessionConstants, SessionsHold, NEW r \in Requests, NEW q, Become(r, q), RequestTyped(q),
           UNCHANGED <<clock, user, session, codes, channel>>, stopped' => Closed(clock)
    PROVE  SessionsHold' /\ SessionStep
<1>1. RequestsTyped /\ codes \in Seq(CodeRows)
    BY TypesSplit DEF SessionsHold, RowsTyped
<1>2. Len(codes) <= Len(codes')
    BY <1>1, LenProperties
<1>3. RequestTyped(q)'
    BY DEF RequestTyped
<1>4. RequestsTyped'
    BY <1>1, <1>2, <1>3, OneGoesOn
<1>5. stopped' => Closed(clock)'
    BY DEF Closed, MailOpen, PushOpen, FeedOpen, Usable, Live, Current
<1>6. channel' \subseteq Surfaces
    BY TypesSplit DEF SessionsHold, RowsTyped
<1> QED BY <1>4, <1>5, <1>6, DataStays

\* The types a step starts from.
LEMMA Facts ==
    ASSUME SessionConstants, SessionsHold
    PROVE  /\ RequestsTyped /\ RowsTyped /\ clock \in Nat /\ MaxLag \in Nat
           /\ codes \in Seq(CodeRows) /\ Len(codes) \in Nat
           /\ user.epoch \in Nat /\ user.stop \in Int
           /\ \A s \in Sessions : session[s] \in SessionRows
<1>1. RequestsTyped /\ RowsTyped
    BY TypesSplit DEF SessionsHold
<1>2. codes \in Seq(CodeRows)
    BY <1>1 DEF RowsTyped
<1>3. Len(codes) \in Nat
    BY <1>2, LenProperties
<1>4. clock \in Nat /\ MaxLag \in Nat /\ user.epoch \in Nat /\ user.stop \in Int
    BY <1>1 DEF RowsTyped, SessionConstants
<1> QED BY <1>1, <1>2, <1>3, <1>4 DEF RowsTyped

LEMMA StartActivateKeeps ==
    ASSUME SessionConstants, SessionsHold, NEW r \in Requests, NEW s \in Sessions,
           NEW picks \in SUBSET Sessions, StartActivate(r, s, picks)
    PROVE  SessionsHold' /\ SessionStep
<1>1. RequestTyped([at |-> "activate", s |-> s, picks |-> picks, now |-> clock])
    BY Facts DEF StartActivate, RequestTyped
<1> QED BY <1>1, ReadKeeps DEF StartActivate

LEMMA StartRenewKeeps ==
    ASSUME SessionConstants, SessionsHold, NEW r \in Requests, NEW s \in Sessions, StartRenew(r, s)
    PROVE  SessionsHold' /\ SessionStep
<1>1. RequestTyped([at |-> "renew", s |-> s, now |-> clock])
    BY Facts DEF RequestTyped
<1> QED BY <1>1, ReadKeeps DEF StartRenew

\* At most the newest code is in force, so it is the one a generation reads.
LEMMA NewestIsRead ==
    ASSUME SessionConstants, SessionsHold, \E g \in 1..Len(codes) : Unconsumed(g)
    PROVE  Max({g \in 1..Len(codes) : Unconsumed(g)}) \in 1..Len(codes)
<1> DEFINE open == {g \in 1..Len(codes) : Unconsumed(g)}
<1>1. open = {Len(codes)}
    BY DEF SessionsHold, NewestInForce
<1>2. Len(codes) \in Nat /\ Len(codes) \in 1..Len(codes)
    BY <1>1, Facts
<1>3. Max(open) = Len(codes)
    BY <1>1, <1>2 DEF Max
<1> QED BY <1>2, <1>3

LEMMA StartGenerateKeeps ==
    ASSUME SessionConstants, SessionsHold, NEW r \in Requests, NEW s \in Sessions, StartGenerate(r, s)
    PROVE  SessionsHold' /\ SessionStep
<1> DEFINE open == {g \in 1..Len(codes) : Unconsumed(g)}
           old == IF open = {} THEN 0 ELSE Max(open)
<1>1. old \in 0..Len(codes)
  <2>1. CASE open = {}
    BY <2>1, Facts
  <2>2. CASE open # {}
    <3>1. \E g \in 1..Len(codes) : Unconsumed(g)
      BY <2>2
    <3>2. Max(open) \in 1..Len(codes)
      BY <3>1, NewestIsRead
    <3> HIDE DEF open
    <3> QED BY <2>2, <3>2, Facts
  <2> QED BY <2>1, <2>2
<1>2. /\ Become(r, [at |-> "generate", s |-> s, old |-> old, now |-> clock]) /\ ~stopped'
      /\ UNCHANGED <<clock, user, session, codes, channel>>
    BY DEF StartGenerate
<1> HIDE DEF old
<1>3. RequestTyped([at |-> "generate", s |-> s, old |-> old, now |-> clock])
    BY <1>1, Facts DEF RequestTyped
<1> QED BY <1>2, <1>3, ReadKeeps

LEMMA PresentKeeps ==
    ASSUME SessionConstants, SessionsHold, NEW r \in Requests, NEW g \in 1..Len(codes),
           NEW action \in {"emergency_stop", "recover_login"}, Present(r, g, action)
    PROVE  SessionsHold' /\ SessionStep
<1>1. RequestTyped([at |-> action, code |-> g, epoch |-> user.epoch, now |-> clock])
    BY Facts DEF RequestTyped
<1> QED BY <1>1, ReadKeeps DEF Present

LEMMA DieKeeps ==
    ASSUME SessionConstants, SessionsHold, NEW r \in Requests, Die(r)
    PROVE  SessionsHold' /\ SessionStep
<1>1. RequestTyped(Idle)
    BY DEF RequestTyped, Idle
<1> QED BY <1>1, ReadKeeps DEF Die

\* What was closed when a request started is closed when it commits, as far as time goes.
LEMMA ClosedStays ==
    ASSUME SessionConstants, SessionsHold, NEW t \in Nat, t <= clock, Closed(t)
    PROVE  Closed(clock)
<1>1. ASSUME NEW s \in Sessions
      PROVE  ~Usable(s, clock)
  <2>1. ~Usable(s, t)
    BY DEF Closed
  <2>2. session[s].expires \in Nat /\ session[s].absolute \in Nat /\ clock \in Nat
    BY Facts DEF SessionRows
  <2> QED BY <2>1, <2>2 DEF Usable, Live
<1> QED BY <1>1 DEF Closed

LEMMA MissedKeeps ==
    ASSUME SessionConstants, SessionsHold, NEW r \in Requests, Missed(r)
    PROVE  SessionsHold' /\ SessionStep
<1> DEFINE folds == StopFolds(request[r])
           next == IF folds THEN [at |-> "retire", answer |-> TRUE, now |-> request[r].now] ELSE Idle
<1>1. RequestTyped(request[r]) /\ request[r].at = "missed"
    BY Facts DEF RequestsTyped, Missed, At
<1>2. RequestTyped(next)
    BY <1>1 DEF RequestTyped, Idle
<1>3. Become(r, next) /\ stopped' = folds /\ UNCHANGED <<clock, user, session, codes, channel>>
    BY DEF Missed
<1>4. folds => Closed(clock)
    BY <1>1, ClosedStays DEF StopFolds, StillOpen, RequestTyped
<1> HIDE DEF folds, next
<1> QED BY <1>2, <1>3, <1>4, ReadKeeps

(***************************************************************************)
(* Sessions that end, begin and are renewed                                *)
(***************************************************************************)
\* A row that is revoked keeps the rest.
LEMMA RevokedRow ==
    ASSUME NEW row \in SessionRows, NEW gone,
           gone = [row EXCEPT !.state = "revoked", !.receipt = FALSE]
    PROVE  /\ gone \in SessionRows /\ gone.state = "revoked" /\ gone.epoch = row.epoch
           /\ gone.expires = row.expires /\ gone.absolute = row.absolute
           /\ gone.via = row.via /\ gone.restricted = row.restricted
BY DEF SessionRows

LEMMA RetireKeeps ==
    ASSUME SessionConstants, SessionsHold, NEW r \in Requests, Retire(r)
    PROVE  SessionsHold' /\ SessionStep
<1>1. Become(r, Idle) /\ RequestTyped(Idle)'
    BY DEF Retire, RequestTyped, Idle
<1>2. UNCHANGED <<clock, user, codes, channel>> /\ ~stopped'
    BY DEF Retire
<1>3. RequestsTyped'
    BY <1>1, <1>2, Facts, OneGoesOn
<1>4. ASSUME NEW s \in Sessions
      PROVE  \/ session'[s] = session[s]
             \/ /\ session[s].state # "none"
                /\ session'[s] = [session[s] EXCEPT !.state = "revoked", !.receipt = FALSE]
    BY DEF Retire
<1>5. session' = [s \in Sessions |-> session'[s]] /\ \A s \in Sessions : session[s] \in SessionRows
    BY Facts DEF Retire
<1>6. session' \in [Sessions -> SessionRows]
    BY <1>4, <1>5, RevokedRow
<1>7. ASSUME NEW s \in Sessions
      PROVE  \/ session'[s] = session[s]
             \/ /\ session[s].state # "none" /\ session'[s].state = "revoked"
                /\ session'[s].epoch = session[s].epoch
                /\ session'[s].expires = session[s].expires
                /\ session'[s].absolute = session[s].absolute
                /\ session'[s].via = session[s].via
                /\ session'[s].restricted = session[s].restricted
    BY <1>4, <1>5, RevokedRow
<1> QED BY <1>2, <1>3, <1>6, <1>7, OnlyRevokes

LEMMA CleanPendingKeeps ==
    ASSUME SessionConstants, SessionsHold, CleanPending
    PROVE  SessionsHold' /\ SessionStep
<1>1. UNCHANGED <<clock, user, codes, channel, request>> /\ ~stopped'
    BY DEF CleanPending
<1>2. RequestsTyped'
    BY <1>1, Facts, NoneGoesOn
<1>3. ASSUME NEW s \in Sessions
      PROVE  \/ session'[s] = session[s]
             \/ /\ session[s].state # "none"
                /\ session'[s] = [session[s] EXCEPT !.state = "revoked", !.receipt = FALSE]
    BY DEF CleanPending
<1>4. session' = [s \in Sessions |-> session'[s]] /\ \A s \in Sessions : session[s] \in SessionRows
    BY Facts DEF CleanPending
<1>5. session' \in [Sessions -> SessionRows]
    BY <1>3, <1>4, RevokedRow
<1>6. ASSUME NEW s \in Sessions
      PROVE  \/ session'[s] = session[s]
             \/ /\ session[s].state # "none" /\ session'[s].state = "revoked"
                /\ session'[s].epoch = session[s].epoch
                /\ session'[s].expires = session[s].expires
                /\ session'[s].absolute = session[s].absolute
                /\ session'[s].via = session[s].via
                /\ session'[s].restricted = session[s].restricted
    BY <1>3, <1>4, RevokedRow
<1> QED BY <1>1, <1>2, <1>5, <1>6, OnlyRevokes

LEMMA RevokeKeeps ==
    ASSUME SessionConstants, SessionsHold, NEW x \in Sessions, Revoke(x)
    PROVE  SessionsHold' /\ SessionStep
<1>1. UNCHANGED <<clock, user, codes, channel, request>> /\ ~stopped'
    BY DEF Revoke
<1>2. RequestsTyped'
    BY <1>1, Facts, NoneGoesOn
<1>3. \A s \in Sessions : session[s] \in SessionRows
    BY Facts
<1>4. session' \in [Sessions -> SessionRows]
    BY Facts DEF Revoke, SessionRows, RowsTyped
<1>5. ASSUME NEW s \in Sessions
      PROVE  \/ session'[s] = session[s]
             \/ /\ session[s].state # "none"
                /\ session'[s] = [session[s] EXCEPT !.state = "revoked"]
    BY Facts DEF Revoke, RowsTyped
<1> QED BY <1>1, <1>2, <1>3, <1>4, <1>5, OnlyRevokes DEF SessionRows

LEMMA LoginKeeps ==
    ASSUME SessionConstants, SessionsHold, NEW x \in Sessions, Login(x)
    PROVE  SessionsHold' /\ SessionStep
<1> DEFINE row == Pending(clock, user.epoch, 0)
<1>1. /\ row \in SessionRows /\ row.expires <= row.absolute
      /\ row.state = "pending" /\ row.epoch = user.epoch /\ row.via = 0
    BY Facts, PendingRow
<1>2. UNCHANGED <<clock, user, codes, channel, request>> /\ ~stopped'
    BY DEF Login
<1>3. RequestsTyped'
    BY <1>2, Facts, NoneGoesOn
<1>4. /\ session[x].state = "none" /\ session[x].via = 0
      /\ session'[x] = row /\ \A s \in Sessions \ {x} : session'[s] = session[s]
    BY Facts DEF Login, RowsTyped, SessionsHold, RowsAgree
<1>5. session' \in [Sessions -> SessionRows]
    BY <1>1, Facts DEF Login, RowsTyped
<1> HIDE DEF row
<1>6. RowsAgree'
    BY <1>1, <1>2, <1>4, Facts DEF SessionsHold, RowsAgree
<1>7. \A s \in Sessions : ActiveAt(s, clock)' => session'[s] = session[s] /\ ActiveAt(s, clock)
    BY <1>1, <1>2, <1>4 DEF ActiveAt, Live, Current
<1>8. ActiveLimitKept'
    BY <1>7, FewerActive DEF SessionsHold
<1>9. DeadStaysDead
    BY <1>2, <1>4 DEF DeadStaysDead, Dead, Usable, Live, Current
<1>10. ActivationWithinLimit
    BY <1>1, <1>4 DEF ActivationWithinLimit
<1> QED BY <1>1, <1>2, <1>3, <1>4, <1>5, <1>6, <1>8, <1>9, <1>10, OnlyRows

\* A session that authorised the request when it started is not dead.
LEMMA UsedIsNotDead ==
    ASSUME SessionConstants, SessionsHold, NEW s \in Sessions, NEW t \in Nat, clock - MaxLag <= t,
           Usable(s, t)
    PROVE  ~Dead(s)
<1>1. session[s].expires \in Nat /\ session[s].absolute \in Nat /\ clock \in Nat /\ MaxLag \in Nat
    BY Facts DEF SessionRows
<1> QED BY <1>1 DEF Dead, Usable, Live

LEMMA RenewKeeps ==
    ASSUME SessionConstants, SessionsHold, NEW r \in Requests, Renew(r)
    PROVE  SessionsHold' /\ SessionStep
<1>1. PICK q : q = request[r]
    OBVIOUS
<1>2. /\ RequestTyped(q) /\ q.at = "renew" /\ q.s \in Sessions /\ q.now \in Nat
      /\ clock - MaxLag <= q.now
    BY <1>1, Facts DEF RequestsTyped, Renew, At, RequestTyped
<1>3. UNCHANGED <<clock, user, codes, channel>> /\ ~stopped' /\ Become(r, Idle) /\ RequestTyped(Idle)'
    BY DEF Renew, RequestTyped, Idle
<1>4. RequestsTyped'
    BY <1>3, Facts, OneGoesOn
<1>5. CASE session' = session
    BY <1>3, <1>4, <1>5, Facts, DataStays DEF RowsTyped
<1>6. CASE ActiveAt(q.s, q.now) /\ session' # session
  <2> DEFINE late == session[q.s].revived \/ ~ActiveAt(q.s, clock)
             ends == EarlierOf(q.now + IdleTtl, session[q.s].absolute)
             row == [session[q.s] EXCEPT !.renewed = q.now, !.revived = late, !.expires = ends]
  <2>1. session[q.s] \in SessionRows
    BY <1>2, Facts
  <2>2. ends \in Nat /\ ends <= session[q.s].absolute /\ late \in BOOLEAN
    BY <1>2, <2>1 DEF EarlierOf, SessionConstants, SessionRows
  <2>3. session' = [session EXCEPT ![q.s] = row]
    BY <1>1, <1>2, <1>6, Facts DEF Renew, RowsTyped
  <2>4. late <=> session[q.s].revived \/ ~ActiveAt(q.s, clock)
    OBVIOUS
  <2> HIDE DEF late, ends
  <2>5. /\ row \in SessionRows /\ row.state = session[q.s].state /\ row.epoch = session[q.s].epoch
        /\ row.absolute = session[q.s].absolute /\ row.via = session[q.s].via /\ row.expires = ends
        /\ row.restricted = session[q.s].restricted /\ row.revived = late
    BY <1>2, <2>1, <2>2 DEF SessionRows
  <2> HIDE DEF row
  <2>6. /\ session'[q.s] = row /\ \A s \in Sessions \ {q.s} : session'[s] = session[s]
        /\ session' \in [Sessions -> SessionRows]
    BY <1>2, <2>3, <2>5, Facts DEF RowsTyped
  <2>7. RowsAgree'
    BY <1>3, <2>2, <2>5, <2>6 DEF SessionsHold, RowsAgree
  <2>8. ActiveLimitKept'
    <3>1. ASSUME NEW s \in Sessions, ActiveAt(s, clock)', ~session'[s].revived
          PROVE  ActiveAt(s, clock) /\ ~session[s].revived
      <4>1. CASE s = q.s
        <5>1. ~late
          BY <3>1, <4>1, <2>5, <2>6
        <5> QED BY <4>1, <5>1, <2>4
      <4>2. CASE s # q.s
        BY <1>3, <2>6, <3>1, <4>2 DEF ActiveAt, Live, Current
      <4> QED BY <4>1, <4>2
    <3> QED BY <3>1, FewerActive DEF SessionsHold
  <2>9. ~Dead(q.s)
    BY <1>2, <1>6, UsedIsNotDead DEF ActiveAt, Usable
  <2>10. DeadStaysDead
    BY <1>3, <2>6, <2>9 DEF DeadStaysDead, Dead, Usable, Live, Current
  <2>11. ActivationWithinLimit
    BY <2>5, <2>6 DEF ActivationWithinLimit
  <2> QED BY <1>3, <1>4, <2>5, <2>6, <2>7, <2>8, <2>10, <2>11, OnlyRows
<1>7. session' = session \/ ActiveAt(q.s, q.now)
    BY <1>1 DEF Renew
<1> QED BY <1>5, <1>6, <1>7

LEMMA ActivateKeeps ==
    ASSUME SessionConstants, SessionsHold, NEW r \in Requests, Activate(r)
    PROVE  SessionsHold' /\ SessionStep
<1>1. PICK q : q = request[r]
    OBVIOUS
<1>2. /\ q.at = "activate" /\ q.s \in Sessions /\ q.picks \subseteq Sessions \ {q.s}
      /\ q.now \in Nat /\ clock - MaxLag <= q.now /\ q.now <= clock /\ clock \in Nat
    BY <1>1, Facts DEF RequestsTyped, Activate, At, RequestTyped
<1>3. UNCHANGED <<clock, user, codes, channel>> /\ ~stopped' /\ Become(r, Idle) /\ RequestTyped(Idle)'
    BY DEF Activate, RequestTyped, Idle
<1>4. RequestsTyped'
    BY <1>3, Facts, OneGoesOn
<1>5. CASE ~Activable(q)
    BY <1>1, <1>3, <1>4, <1>5, Facts, DataStays DEF Activate, RowsTyped
<1>6. CASE Activable(q)
  <2> DEFINE ends == EarlierOf(q.now + IdleTtl, session[q.s].absolute)
             row == [session[q.s] EXCEPT !.state = "active", !.receipt = FALSE, !.renewed = q.now,
                                         !.expires = ends]
             others == {a \in Sessions \ q.picks : ActiveAt(a, q.now)}
             after == {s \in Sessions : ActiveAt(s, clock)'}
  <2>1. \A s \in Sessions : session[s] \in SessionRows
    BY Facts
  <2>2. ends \in Nat /\ ends <= session[q.s].absolute
    BY <1>2, <2>1 DEF EarlierOf, SessionConstants, SessionRows
  <2>3. session' = [x \in Sessions |-> IF x = q.s THEN row
                                      ELSE IF x \in q.picks THEN [session[x] EXCEPT !.state = "revoked"]
                                      ELSE session[x]]
    BY <1>1, <1>6 DEF Activate
  <2> HIDE DEF ends, row
  <2>4. /\ row \in SessionRows /\ row.state = "active" /\ row.epoch = session[q.s].epoch
        /\ row.absolute = session[q.s].absolute /\ row.via = session[q.s].via /\ row.expires = ends
        /\ row.restricted = session[q.s].restricted
    <3>1. row = [session[q.s] EXCEPT !.state = "active", !.receipt = FALSE, !.renewed = q.now,
                                     !.expires = ends]
      BY DEF row
    <3>2. session[q.s] \in SessionRows
      BY <1>2, <2>1
    <3>3. PICK old \in SessionRows, t \in Nat : old = session[q.s] /\ t = q.now
      BY <1>2, <3>2
    <3>4. row = [old EXCEPT !.state = "active", !.receipt = FALSE, !.renewed = t, !.expires = ends]
      BY <3>1, <3>3
    <3>5. /\ row \in SessionRows /\ row.state = "active" /\ row.epoch = old.epoch
          /\ row.absolute = old.absolute /\ row.via = old.via /\ row.expires = ends
          /\ row.restricted = old.restricted
      BY <2>2, <3>4 DEF SessionRows
    <3> QED BY <3>3, <3>5
  <2>5. session'[q.s] = row /\ \A s \in Sessions \ ({q.s} \union q.picks) : session'[s] = session[s]
    BY <1>2, <2>3
  <2>6. ASSUME NEW p \in q.picks
        PROVE  /\ session'[p] \in SessionRows /\ session'[p].state = "revoked"
               /\ session'[p].epoch = session[p].epoch /\ session'[p].expires = session[p].expires
               /\ session'[p].absolute = session[p].absolute /\ session'[p].via = session[p].via
               /\ session'[p].restricted = session[p].restricted
    <3>1. p \in Sessions /\ session'[p] = [session[p] EXCEPT !.state = "revoked"]
      BY <1>2, <2>3
    <3> QED BY <2>1, <3>1 DEF SessionRows
  <2>7. session' \in [Sessions -> SessionRows]
    BY <1>2, <2>1, <2>3, <2>4, <2>5, <2>6
  <2>8. session[q.s].state = "pending" /\ Live(q.s, q.now)
    BY <1>6 DEF Activable
  <2>9. \A p \in q.picks : session[p].state = "active"
    BY <1>6 DEF Activable, ActiveAt
  <2>10. RowsAgree'
    BY <1>2, <1>3, <2>2, <2>4, <2>5, <2>6, <2>8, <2>9 DEF SessionsHold, RowsAgree
  <2>11. after \subseteq others \union {q.s}
    <3>1. ASSUME NEW s \in Sessions, ActiveAt(s, clock)', s # q.s
          PROVE  s \in others
      <4>1. s \notin q.picks
        BY <2>6, <3>1 DEF ActiveAt
      <4>2. ActiveAt(s, clock)
        BY <1>3, <2>5, <3>1, <4>1 DEF ActiveAt, Live, Current
      <4>3. ActiveAt(s, q.now)
        BY <1>2, <2>1, <4>2 DEF ActiveAt, Live, SessionRows
      <4> QED BY <4>1, <4>3
    <3> QED BY <3>1
  <2>12. Cardinality(others) < ActiveMax
    BY <1>6 DEF Activable
  <2>13. IsFiniteSet(others) /\ IsFiniteSet(after) /\ IsFiniteSet(others \union {q.s})
    BY FS_Subset, FS_AddElement DEF SessionConstants
  <2> HIDE DEF others, after
  <2>14. Cardinality(after) <= ActiveMax
    <3>1. Cardinality(after) <= Cardinality(others \union {q.s})
      BY <2>11, <2>13, FS_Subset
    <3>2. Cardinality(others \union {q.s}) <= Cardinality(others) + 1
      <4>1. Cardinality(others) \in Nat
        BY <2>13, FS_CardinalityType
      <4>2. Cardinality(others \union {q.s}) \in {Cardinality(others), Cardinality(others) + 1}
        BY <2>13, FS_AddElement
      <4> QED BY <4>1, <4>2
    <3>3. /\ Cardinality(after) \in Nat /\ Cardinality(others) \in Nat
          /\ Cardinality(others \union {q.s}) \in Nat /\ ActiveMax \in Nat
      BY <2>13, FS_CardinalityType DEF SessionConstants
    <3> QED BY <2>12, <3>1, <3>2, <3>3
  <2>15. ActivationWithinLimit
    BY <2>14 DEF ActivationWithinLimit, after
  <2>16. ActiveLimitKept'
    <3> DEFINE counted == {s \in Sessions : ActiveAt(s, clock)' /\ ~session'[s].revived}
    <3>1. counted \subseteq after
      BY DEF after
    <3>2. Cardinality(counted) <= Cardinality(after) /\ IsFiniteSet(counted)
      BY <2>13, <3>1, FS_Subset
    <3>3. Cardinality(counted) \in Nat /\ Cardinality(after) \in Nat /\ ActiveMax \in Nat
      BY <2>13, <3>2, FS_CardinalityType DEF SessionConstants
    <3>4. Cardinality(counted) <= ActiveMax
      BY <2>14, <3>2, <3>3
    <3> QED BY <3>4 DEF ActiveLimitKept
  <2>17. ~Dead(q.s)
    BY <1>2, <2>8, UsedIsNotDead DEF Usable
  <2>18. DeadStaysDead
    BY <1>3, <2>5, <2>6, <2>17 DEF DeadStaysDead, Dead, Usable, Live, Current
  <2>19. \A s \in Sessions : /\ session'[s].via = session[s].via
                             /\ session'[s].restricted = session[s].restricted
    BY <2>4, <2>5, <2>6
  <2> QED BY <1>3, <1>4, <2>7, <2>10, <2>15, <2>16, <2>18, <2>19, OnlyRows
<1> QED BY <1>5, <1>6

LEMMA SwitchChannelKeeps ==
    ASSUME SessionConstants, SessionsHold, NEW x \in Surfaces, SwitchChannel(x)
    PROVE  SessionsHold' /\ SessionStep
<1>1. UNCHANGED <<clock, user, session, codes, request>> /\ ~stopped'
    BY DEF SwitchChannel
<1>2. RequestsTyped'
    BY <1>1, Facts, NoneGoesOn
<1>3. channel' \subseteq Surfaces
    BY Facts DEF SwitchChannel, RowsTyped
<1> QED BY <1>1, <1>2, <1>3, DataStays

(***************************************************************************)
(* Time, which takes sessions away, and the request that is still in time   *)
(***************************************************************************)
LEMMA TickKeeps ==
    ASSUME SessionConstants, SessionsHold, Tick
    PROVE  SessionsHold' /\ SessionStep
<1>1. UNCHANGED <<user, session, codes, channel, request>> /\ ~stopped' /\ clock' = clock + 1
    BY DEF Tick
<1>2. \A s \in Sessions : session[s].expires \in Nat /\ session[s].absolute \in Nat
    BY Facts DEF SessionRows
<1>3. RequestsTyped'
  <2>1. ASSUME NEW r \in Requests
        PROVE  RequestTyped(request[r])'
    <3>1. PICK q : q = request[r]
      OBVIOUS
    <3>2. RequestTyped(q) /\ (q.at # "idle" => clock - q.now < MaxLag)
      BY <3>1, Facts DEF RequestsTyped, Tick, At
    <3>3. RequestTyped(q)'
      BY <1>1, <3>2, Facts DEF RequestTyped
    <3> QED BY <1>1, <3>1, <3>3
  <2> QED BY <1>1, <2>1, Facts DEF RequestsTyped
<1>4. TypeOK'
  <2>1. clock' \in 0..MaxTime
    <3>1. MaxTime \in Nat
      BY DEF SessionConstants
    <3> QED BY <1>1, <3>1, Facts DEF Tick
  <2> QED BY <1>1, <1>3, <2>1, Facts, TypesSplit DEF RowsTyped
<1>5. ActiveLimitKept'
  <2>1. \A s \in Sessions : ActiveAt(s, clock)' => ActiveAt(s, clock)
    BY <1>1, <1>2, Facts DEF ActiveAt, Live, Current
  <2> QED BY <1>1, <2>1, FewerActive DEF SessionsHold
<1>6. DeadStaysDead
    BY <1>1, <1>2, Facts DEF DeadStaysDead, Dead, Usable, Live, Current
<1>7. RowsAgree' /\ NewestInForce' /\ RecoverOnce' /\ RestrictedUntilSaved'
    BY <1>1 DEF SessionsHold, RowsAgree, NewestInForce, Unconsumed, RecoverOnce, RestrictedUntilSaved
<1>8. ActivationWithinLimit /\ SavedCodeSurvives /\ StopAnswersClosed
    BY <1>1 DEF ActivationWithinLimit, SavedCodeSurvives, StopAnswersClosed
<1> QED BY <1>4, <1>5, <1>6, <1>7, <1>8 DEF SessionsHold, SessionStep

(***************************************************************************)
(* Stops and recovery logins, which move the epoch                         *)
(***************************************************************************)

\* When the epoch moves, every row there was belongs to an older one.
LEMMA EpochMoves ==
    ASSUME SessionConstants, SessionsHold, user'.epoch = user.epoch + 1,
           NEW s \in Sessions, session'[s] = session[s]
    PROVE  ~Current(s)'
<1>1. session[s].epoch <= user.epoch /\ session[s].epoch \in Nat /\ user.epoch \in Nat
    BY Facts DEF SessionsHold, RowsAgree, SessionRows
<1> QED BY <1>1 DEF Current

LEMMA StopKeeps ==
    ASSUME SessionConstants, SessionsHold, NEW r \in Requests, Stop(r)
    PROVE  SessionsHold' /\ SessionStep
<1>1. PICK q : q = request[r]
    OBVIOUS
<1>2. RequestTyped(q) /\ q.at = "emergency_stop"
    BY <1>1, Facts DEF RequestsTyped, Stop, At
<1>3. UNCHANGED <<clock, session, codes>> /\ ~stopped'
    BY DEF Stop
<1>4. CASE UNCHANGED <<user, channel>> /\ Become(r, [at |-> "missed", code |-> q.code, now |-> q.now])
  <2>1. RequestTyped([at |-> "missed", code |-> q.code, now |-> q.now])
    BY <1>2 DEF RequestTyped
  <2> QED BY <1>3, <1>4, <2>1, ReadKeeps
<1>5. CASE /\ user' = [epoch |-> user.epoch + 1, stop |-> user.epoch + 1] /\ channel' = {}
           /\ Become(r, [at |-> "retire", answer |-> TRUE, now |-> q.now])
  <2>1. RequestTyped([at |-> "retire", answer |-> TRUE, now |-> q.now])'
    BY <1>2, <1>3 DEF RequestTyped
  <2>2. RequestsTyped'
    BY <1>3, <1>5, <2>1, Facts, OneGoesOn
  <2>3. user.epoch + 1 \in 0..MaxEpoch
    <3>1. MaxEpoch \in Nat
      BY DEF SessionConstants
    <3> QED BY <3>1, Facts DEF Stop
  <2>4. user' \in [epoch : 0..MaxEpoch, stop : -1..MaxEpoch] /\ user'.stop <= user'.epoch
    BY <1>5, <2>3
  <2>5. TypeOK'
    BY <1>3, <1>5, <2>2, <2>4, Facts, TypesSplit DEF RowsTyped
  <2>6. user'.epoch = user.epoch + 1
    BY <1>5
  <2>7. \A s \in Sessions : ~Current(s)'
    BY <1>3, <2>6, EpochMoves
  <2>8. RowsAgree'
    BY <1>3, <2>6, Facts DEF SessionsHold, RowsAgree, SessionRows
  <2>9. ActiveLimitKept'
    BY <2>7, FewerActive DEF SessionsHold, ActiveAt, Live
  <2>10. NewestInForce' /\ RecoverOnce' /\ RestrictedUntilSaved'
    BY <1>3 DEF SessionsHold, NewestInForce, Unconsumed, RecoverOnce, RestrictedUntilSaved
  <2>11. DeadStaysDead
    BY <1>3, <2>7 DEF DeadStaysDead, Dead, Usable, Live
  <2>12. ActivationWithinLimit /\ SavedCodeSurvives /\ StopAnswersClosed
    BY <1>3 DEF ActivationWithinLimit, SavedCodeSurvives, StopAnswersClosed
  <2> QED BY <2>5, <2>8, <2>9, <2>10, <2>11, <2>12 DEF SessionsHold, SessionStep
<1> QED BY <1>1, <1>4, <1>5 DEF Stop

LEMMA RecoverKeeps ==
    ASSUME SessionConstants, SessionsHold, NEW r \in Requests, Recover(r)
    PROVE  SessionsHold' /\ SessionStep
<1>1. PICK q : q = request[r]
    OBVIOUS
<1>2. /\ RequestTyped(q) /\ q.at = "recover_login" /\ q.now \in Nat /\ q.code \in 1..Len(codes)
    BY <1>1, Facts DEF RequestsTyped, Recover, At, RequestTyped
<1>3. clock' = clock /\ ~stopped'
    BY DEF Recover
<1>4. CASE ~Recoverable(q)
  <2>1. RequestTyped(Idle)
    BY DEF RequestTyped, Idle
  <2> QED BY <1>1, <1>3, <1>4, <2>1, ReadKeeps DEF Recover
<1>5. CASE Recoverable(q)
  <2>1. PICK x \in Sessions :
          /\ session[x].state = "none"
          /\ user' = [epoch |-> user.epoch + 1, stop |-> user.epoch + 1]
          /\ codes' = [codes EXCEPT ![q.code].state = "used"] /\ channel' = {}
          /\ session' = [session EXCEPT ![x] = Pending(q.now, q.epoch + 1, q.code)]
          /\ Become(r, [at |-> "retire", answer |-> FALSE, now |-> q.now])
    BY <1>1, <1>5 DEF Recover
  <2>2. q.epoch = user.epoch /\ Unconsumed(q.code)
    BY <1>5 DEF Recoverable
  <2> DEFINE row == Pending(q.now, q.epoch + 1, q.code)
  <2>3. /\ row \in SessionRows /\ row.expires <= row.absolute /\ row.state = "pending"
        /\ row.epoch = user.epoch + 1 /\ row.via = q.code /\ row.via > 0 /\ row.restricted
    <3>1. q.epoch + 1 \in Nat /\ q.epoch + 1 = user.epoch + 1
      BY <2>2, Facts
    <3>2. q.code \in Nat /\ q.code > 0
      BY <1>2, Facts
    <3>3. PICK e \in Nat, c \in Nat, n \in Nat : e = q.epoch + 1 /\ c = q.code /\ n = q.now
      BY <1>2, <3>1, <3>2
    <3>4. row = Pending(n, e, c)
      BY <3>3
    <3> HIDE DEF row
    <3>5. /\ row \in SessionRows /\ row.expires <= row.absolute /\ row.state = "pending"
          /\ row.epoch = e /\ row.via = c
      BY <3>4, PendingRow
    <3>6. c > 0 => row.restricted
      BY <3>4, PendingRow
    <3> QED BY <3>1, <3>2, <3>3, <3>5, <3>6
  <2> HIDE DEF row
  <2>4. session'[x] = row /\ \A s \in Sessions \ {x} : session'[s] = session[s]
    BY <2>1, Facts DEF RowsTyped, row
  <2>5. session' \in [Sessions -> SessionRows]
    BY <2>1, <2>3, Facts DEF RowsTyped, row
  <2>6. /\ codes' \in Seq(CodeRows) /\ Len(codes') = Len(codes)
        /\ codes'[q.code].state = "used" /\ codes'[q.code].by = codes[q.code].by
        /\ \A g \in 1..Len(codes) \ {q.code} : codes'[g] = codes[g]
    <3>1. codes[q.code] \in CodeRows
      BY <1>2, Facts, ElementOfSeq
    <3>2. [codes[q.code] EXCEPT !.state = "used"] \in CodeRows
      BY <3>1 DEF CodeRows
    <3>3. codes' = [codes EXCEPT ![q.code] = [codes[q.code] EXCEPT !.state = "used"]]
      BY <1>2, <2>1, Facts
    <3>4. codes' \in Seq(CodeRows) /\ Len(codes') = Len(codes)
      BY <1>2, <3>2, <3>3, Facts, ExceptSeq
    <3>5. DOMAIN codes = 1..Len(codes)
      BY Facts
    <3>6. codes'[q.code] = [codes[q.code] EXCEPT !.state = "used"]
      BY <1>2, <3>3, <3>5
    <3> QED BY <1>2, <3>1, <3>3, <3>4, <3>5, <3>6 DEF CodeRows
  <2>7. RequestTyped([at |-> "retire", answer |-> FALSE, now |-> q.now])'
    BY <1>2, <1>3 DEF RequestTyped
  <2>8. RequestsTyped'
    BY <1>3, <2>1, <2>6, <2>7, Facts, OneGoesOn
  <2>9. user' \in [epoch : 0..MaxEpoch, stop : -1..MaxEpoch] /\ user'.stop <= user'.epoch
    <3>1. user.epoch + 1 \in 0..MaxEpoch
      <4>1. MaxEpoch \in Nat
        BY DEF SessionConstants
      <4> QED BY <4>1, Facts DEF Recover
    <3> QED BY <2>1, <3>1
  <2>10. TypeOK'
    BY <1>3, <2>1, <2>5, <2>6, <2>8, <2>9, Facts, TypesSplit DEF RowsTyped
  <2>11. user'.epoch = user.epoch + 1
    BY <2>1
  <2>12. \A s \in Sessions \ {x} : ~Current(s)'
    BY <2>4, <2>11, EpochMoves
  <2>13. RowsAgree'
    <3>1. ASSUME NEW s \in Sessions
          PROVE  /\ session'[s].expires <= session'[s].absolute /\ session'[s].epoch <= user'.epoch
                 /\ session'[s].via <= Len(codes') /\ (session'[s].state = "none" => session'[s].via = 0)
      <4>1. CASE s = x
        BY <1>2, <2>3, <2>4, <2>6, <2>11, <4>1, Facts
      <4>2. CASE s # x
        <5>1. session[s].epoch \in Nat /\ user.epoch \in Nat
          BY Facts DEF SessionRows
        <5> QED BY <2>4, <2>6, <2>11, <4>2, <5>1 DEF SessionsHold, RowsAgree
      <4> QED BY <4>1, <4>2
    <3> QED BY <3>1 DEF RowsAgree
  <2>14. ActiveLimitKept'
    <3>1. \A s \in Sessions : ~ActiveAt(s, clock)'
      BY <2>3, <2>4, <2>12 DEF ActiveAt, Live
    <3> QED BY <3>1, FewerActive DEF SessionsHold
  <2>15. NewestInForce'
    BY <2>6 DEF SessionsHold, NewestInForce, Unconsumed
  <2>16. \A s \in Sessions : session[s].via > 0 => session[s].via # q.code
    BY <2>2 DEF SessionsHold, RecoverOnce, Unconsumed
  <2>17. \A s \in Sessions : session[s].via \in Nat /\ session[s].via <= Len(codes)
    BY Facts DEF SessionsHold, RowsAgree, SessionRows
  <2>18. RecoverOnce'
    <3>1. ASSUME NEW s \in Sessions, session'[s].via > 0
          PROVE  codes'[session'[s].via].state = "used"
      <4>1. CASE s = x
        BY <2>3, <2>4, <2>6, <4>1
      <4>2. CASE s # x
        <5>1. session'[s] = session[s] /\ session[s].via \in 1..Len(codes) \ {q.code}
          BY <2>4, <2>16, <2>17, <3>1, <4>2, Facts
        <5> QED BY <2>6, <3>1, <5>1 DEF SessionsHold, RecoverOnce
      <4> QED BY <4>1, <4>2
    <3>2. ASSUME NEW s \in Sessions, NEW t \in Sessions, session'[s].via > 0, s # t
          PROVE  session'[t].via # session'[s].via
      BY <1>2, <2>3, <2>4, <2>16, <3>2 DEF SessionsHold, RecoverOnce
    <3> QED BY <3>1, <3>2 DEF RecoverOnce
  <2>19. RestrictedUntilSaved'
    <3>1. ASSUME NEW s \in Sessions, session'[s].via > 0, ~session'[s].restricted
          PROVE  \E g \in 1..Len(codes') : g > session'[s].via /\ codes'[g].by = s
      <4>1. s # x
        BY <2>3, <2>4, <3>1
      <4>2. PICK g \in 1..Len(codes) : g > session[s].via /\ codes[g].by = s
        BY <2>4, <3>1, <4>1 DEF SessionsHold, RestrictedUntilSaved
      <4>3. codes'[g].by = codes[g].by
        BY <2>6
      <4> QED BY <2>4, <2>6, <4>1, <4>2, <4>3
    <3> QED BY <3>1 DEF RestrictedUntilSaved
  <2>20. DeadStaysDead
    BY <2>1, <2>4, <2>12 DEF DeadStaysDead, Dead, Usable, Live
  <2>21. ActivationWithinLimit
    BY <2>3, <2>4 DEF ActivationWithinLimit
  <2>22. SavedCodeSurvives
    BY <2>1, <2>3, <2>4, <2>6 DEF SavedCodeSurvives
  <2> QED BY <1>3, <2>10, <2>13, <2>14, <2>15, <2>18, <2>19, <2>20, <2>21, <2>22
          DEF SessionsHold, SessionStep, StopAnswersClosed
<1> QED BY <1>4, <1>5

(***************************************************************************)
(* Recovery codes: generation and confirmation                             *)
(***************************************************************************)

\* A step that only touches the codes, and of those not the ones that are used or saved.
LEMMA OnlyCodes ==
    ASSUME SessionConstants, SessionsHold, RequestsTyped', UNCHANGED <<clock, user, session, channel>>,
           ~stopped', codes' \in Seq(CodeRows), Len(codes) <= Len(codes'),
           \A g \in 1..Len(codes) : /\ codes'[g].by = codes[g].by
                                    /\ codes[g].state # "new" => codes'[g].state = codes[g].state,
           NewestInForce'
    PROVE  SessionsHold' /\ SessionStep
<1>1. TypeOK'
    BY Facts, TypesSplit DEF RowsTyped
<1>2. \A s \in Sessions : session[s].via \in Nat /\ session[s].via <= Len(codes)
    BY Facts DEF SessionsHold, RowsAgree, SessionRows
<1>3. Len(codes') \in Nat /\ Len(codes) \in Nat
    BY Facts, LenProperties
<1>4. RowsAgree'
    BY <1>2, <1>3 DEF SessionsHold, RowsAgree
<1>5. RecoverOnce'
  <2>1. ASSUME NEW s \in Sessions, session[s].via > 0
        PROVE  codes'[session[s].via].state = "used"
    <3>1. session[s].via \in 1..Len(codes)
      BY <1>2, <1>3, <2>1
    <3> QED BY <2>1, <3>1 DEF SessionsHold, RecoverOnce
  <2> QED BY <2>1 DEF SessionsHold, RecoverOnce
<1>6. RestrictedUntilSaved'
  <2>1. ASSUME NEW s \in Sessions, session[s].via > 0, ~session[s].restricted
        PROVE  \E g \in 1..Len(codes') : g > session[s].via /\ codes'[g].by = s
    <3>1. PICK g \in 1..Len(codes) : g > session[s].via /\ codes[g].by = s
      BY <2>1 DEF SessionsHold, RestrictedUntilSaved
    <3>2. g \in 1..Len(codes') /\ codes'[g].by = s
      BY <1>3, <3>1
    <3> QED BY <3>1, <3>2
  <2> QED BY <2>1 DEF RestrictedUntilSaved
<1>7. ActiveLimitKept'
  <2>1. \A s \in Sessions : ActiveAt(s, clock)' <=> ActiveAt(s, clock)
    BY DEF ActiveAt, Live, Current
  <2> QED BY <2>1, FewerActive DEF SessionsHold
<1>8. DeadStaysDead /\ ActivationWithinLimit /\ SavedCodeSurvives /\ StopAnswersClosed
    BY DEF DeadStaysDead, Dead, Usable, Live, Current, ActivationWithinLimit, SavedCodeSurvives, StopAnswersClosed
<1> QED BY <1>1, <1>4, <1>5, <1>6, <1>7, <1>8 DEF SessionsHold, SessionStep

LEMMA GenerateKeeps ==
    ASSUME SessionConstants, SessionsHold, NEW r \in Requests, Generate(r)
    PROVE  SessionsHold' /\ SessionStep
<1>1. PICK q : q = request[r]
    OBVIOUS
<1>2. /\ RequestTyped(q) /\ q.at = "generate" /\ q.s \in Sessions /\ q.old \in 0..Len(codes)
    BY <1>1, Facts DEF RequestsTyped, Generate, At, RequestTyped
<1>3. UNCHANGED <<clock, user, session, channel>> /\ ~stopped' /\ Become(r, Idle) /\ RequestTyped(Idle)'
    BY DEF Generate, RequestTyped, Idle
<1>4. codes \in Seq(CodeRows) /\ Len(codes) \in Nat
    BY Facts
<1>5. CASE codes' = codes
  <2>1. RequestsTyped'
    BY <1>3, <1>4, <1>5, Facts, OneGoesOn
  <2> QED BY <1>3, <1>5, <2>1, Facts, DataStays DEF RowsTyped
<1>6. CASE Replaceable(q) /\ codes' # codes
  <2> DEFINE n == Len(codes)
             fresh == [state |-> "new", by |-> NoSession]
             kept == [g \in 1..n |-> IF g = q.old THEN [codes[g] EXCEPT !.state = "void"] ELSE codes[g]]
  <2>1. codes' = Append(kept, fresh)
    BY <1>1, <1>6 DEF Generate
  <2>2. \A g \in 1..n : codes[g] \in CodeRows
    BY <1>4, ElementOfSeq
  <2>3. \A g \in 1..n : kept[g] \in CodeRows
    BY <2>2 DEF CodeRows
  <2>4. kept \in Seq(CodeRows) /\ Len(kept) = n
    BY <1>4, <2>3, IsASeq, LenProperties
  <2>5. fresh \in CodeRows
    BY DEF CodeRows
  <2>6. \A g \in 1..n : /\ kept[g].by = codes[g].by
                        /\ g # q.old => kept[g] = codes[g]
                        /\ g = q.old => kept[g].state = "void"
    BY <2>2 DEF CodeRows
  <2> HIDE DEF kept, n
  <2>7. /\ codes' \in Seq(CodeRows) /\ Len(codes') = n + 1
        /\ \A g \in 1..n : codes'[g] = kept[g]
        /\ codes'[n + 1] = fresh
    BY <2>1, <2>4, <2>5, AppendProperties
  <2>8. n \in Nat /\ n = Len(codes)
    BY <1>4 DEF n
  <2>9. RequestsTyped'
    BY <1>3, <1>4, <2>7, <2>8, Facts, OneGoesOn
  <2>10. q.old \in 1..n => codes[q.old].state = "new"
    BY <1>6 DEF Replaceable
  <2>11. ASSUME NEW g \in 1..n, Unconsumed(g)
         PROVE  g = q.old
    <3>1. g = n
      BY <2>8, <2>11 DEF SessionsHold, NewestInForce
    <3>2. q.old # 0
      BY <1>6, <2>8, <2>11 DEF Replaceable
    <3>3. q.old \in 1..n /\ Unconsumed(q.old)
      BY <1>2, <2>8, <2>10, <3>2 DEF Unconsumed
    <3>4. q.old = n
      BY <2>8, <3>3 DEF SessionsHold, NewestInForce
    <3> QED BY <3>1, <3>4
  <2>12. NewestInForce'
    <3>1. ASSUME NEW g \in 1..n
          PROVE  codes'[g].state \notin {"new", "saved"}
      <4>1. CASE g = q.old
        BY <2>6, <2>7, <4>1
      <4>2. CASE g # q.old
        BY <2>6, <2>7, <2>11, <4>2 DEF Unconsumed
      <4> QED BY <4>1, <4>2
    <3>2. ASSUME NEW g \in 1..Len(codes')
          PROVE  /\ Unconsumed(g)' => g = Len(codes')
                 /\ codes'[g].state = "new" => codes'[g].by = NoSession
      <4>1. g \in 1..n \/ g = n + 1
        BY <2>7, <2>8
      <4>2. CASE g \in 1..n
        BY <3>1, <4>2 DEF Unconsumed
      <4>3. CASE g = n + 1
        BY <2>7, <4>3
      <4> QED BY <4>1, <4>2, <4>3
    <3> QED BY <3>2 DEF NewestInForce
  <2>13. \A g \in 1..Len(codes) : /\ codes'[g].by = codes[g].by
                                  /\ codes[g].state # "new" => codes'[g].state = codes[g].state
    BY <2>6, <2>7, <2>8, <2>10
  <2>14. Len(codes) <= Len(codes')
    BY <2>7, <2>8
  <2> QED BY <1>3, <2>7, <2>9, <2>12, <2>13, <2>14, OnlyCodes
<1>7. codes' = codes \/ Replaceable(q)
    BY <1>1 DEF Generate
<1> QED BY <1>5, <1>6, <1>7

LEMMA ConfirmKeeps ==
    ASSUME SessionConstants, SessionsHold, NEW x \in Sessions, NEW c \in 1..Len(codes), Confirm(x, c)
    PROVE  SessionsHold' /\ SessionStep
<1>1. UNCHANGED <<clock, user, channel, request>> /\ ~stopped'
    BY DEF Confirm
<1>2. codes[c].state = "new" /\ codes[c].by = NoSession /\ c = Len(codes)
    BY DEF Confirm, SessionsHold, NewestInForce, Unconsumed
<1>3. /\ codes' \in Seq(CodeRows) /\ Len(codes') = Len(codes)
      /\ codes'[c] = [state |-> "saved", by |-> x]
      /\ \A g \in 1..Len(codes) \ {c} : codes'[g] = codes[g]
  <2>1. [state |-> "saved", by |-> x] \in CodeRows
    BY DEF CodeRows
  <2> QED BY <2>1, Facts, ExceptSeq DEF Confirm
<1>4. RequestsTyped'
    BY <1>1, <1>3, Facts, NoneGoesOn
<1> DEFINE row == [session[x] EXCEPT !.restricted = FALSE]
<1>5. session' = [session EXCEPT ![x] = row]
    BY Facts DEF Confirm, RowsTyped
<1>6. session[x] \in SessionRows
    BY Facts
<1>7. /\ row \in SessionRows /\ row.state = session[x].state /\ row.epoch = session[x].epoch
      /\ row.expires = session[x].expires /\ row.absolute = session[x].absolute
      /\ row.via = session[x].via /\ ~row.restricted /\ row.revived = session[x].revived
    BY <1>6 DEF SessionRows
<1> HIDE DEF row
<1>8. /\ session'[x] = row /\ \A s \in Sessions \ {x} : session'[s] = session[s]
      /\ session' \in [Sessions -> SessionRows]
    BY <1>5, <1>7, Facts DEF RowsTyped
<1>9. \A s \in Sessions : /\ session'[s].state = session[s].state /\ session'[s].epoch = session[s].epoch
                          /\ session'[s].expires = session[s].expires
                          /\ session'[s].absolute = session[s].absolute
                          /\ session'[s].via = session[s].via /\ session'[s].revived = session[s].revived
    BY <1>7, <1>8
<1>10. \A s \in Sessions : session[s].via \in Nat /\ session[s].via <= Len(codes)
    BY Facts DEF SessionsHold, RowsAgree, SessionRows
<1>11. TypeOK'
    BY <1>1, <1>3, <1>4, <1>8, Facts, TypesSplit DEF RowsTyped
<1>12. RowsAgree'
    BY <1>1, <1>3, <1>9 DEF SessionsHold, RowsAgree
<1>13. ActiveLimitKept'
  <2>1. \A s \in Sessions : /\ ActiveAt(s, clock)' => ActiveAt(s, clock)
                            /\ session'[s].revived = session[s].revived
    BY <1>1, <1>9 DEF ActiveAt, Live, Current
  <2> QED BY <2>1, FewerActive DEF SessionsHold
<1>14. NewestInForce'
  <2>1. ASSUME NEW g \in 1..Len(codes)
        PROVE  /\ Unconsumed(g)' => g = Len(codes)
               /\ codes'[g].state = "new" => codes'[g].by = NoSession
    <3>1. CASE g = c
      BY <1>2, <1>3, <3>1
    <3>2. CASE g # c
      BY <1>3, <3>2 DEF SessionsHold, NewestInForce, Unconsumed
    <3> QED BY <3>1, <3>2
  <2> QED BY <1>3, <2>1 DEF NewestInForce
<1>15. \A s \in Sessions : session[s].via > 0 => session[s].via \in 1..Len(codes) \ {c}
  <2>1. ASSUME NEW s \in Sessions, session[s].via > 0
        PROVE  session[s].via \in 1..Len(codes) \ {c}
    <3>1. codes[session[s].via].state = "used"
      BY <2>1 DEF SessionsHold, RecoverOnce
    <3> QED BY <1>2, <1>10, <2>1, <3>1, Facts
  <2> QED BY <2>1
<1>16. RecoverOnce'
  <2>1. ASSUME NEW s \in Sessions, session'[s].via > 0
        PROVE  codes'[session'[s].via].state = "used"
    BY <1>3, <1>9, <1>15, <2>1 DEF SessionsHold, RecoverOnce
  <2> QED BY <1>9, <2>1 DEF SessionsHold, RecoverOnce
<1>17. RestrictedUntilSaved'
  <2>1. ASSUME NEW s \in Sessions, session'[s].via > 0, ~session'[s].restricted
        PROVE  \E g \in 1..Len(codes') : g > session'[s].via /\ codes'[g].by = s
    <3>1. CASE s = x
      <4>1. c > session[s].via
        BY <1>2, <1>9, <1>10, <1>15, <2>1, Facts
      <4> QED BY <1>3, <1>9, <3>1, <4>1
    <3>2. CASE s # x
      <4>1. PICK g \in 1..Len(codes) : g > session[s].via /\ codes[g].by = s
        BY <1>8, <2>1, <3>2 DEF SessionsHold, RestrictedUntilSaved
      <4>2. g # c
        BY <1>2, <4>1 DEF SessionConstants
      <4> QED BY <1>3, <1>9, <4>1, <4>2
    <3> QED BY <3>1, <3>2
  <2> QED BY <2>1 DEF RestrictedUntilSaved
<1>18. DeadStaysDead
    BY <1>1, <1>9 DEF DeadStaysDead, Dead, Usable, Live, Current
<1>19. ActivationWithinLimit
    BY <1>9 DEF ActivationWithinLimit
<1>20. SavedCodeSurvives
    BY <1>2, <1>3 DEF SavedCodeSurvives
<1> QED BY <1>1, <1>11, <1>12, <1>13, <1>14, <1>16, <1>17, <1>18, <1>19, <1>20
        DEF SessionsHold, SessionStep, StopAnswersClosed

(***************************************************************************)
(* The theorems                                                            *)
(***************************************************************************)
LEMMA InitHolds ==
    ASSUME SessionConstants, Init
    PROVE  SessionsHold
<1>1. \A s \in Sessions : session[s] = NoRow
    BY DEF Init
<1>2. NoRow \in SessionRows
    BY DEF NoRow, SessionRows
<1>3. codes = <<>> /\ Len(codes) = 0 /\ codes \in Seq(CodeRows)
    BY EmptySeq DEF Init
<1>4. RequestsTyped
    BY DEF Init, RequestsTyped, RequestTyped, Idle
<1>5. RowsTyped
    BY <1>1, <1>2, <1>3 DEF Init, RowsTyped, SessionConstants
<1>6. TypeOK
    BY <1>4, <1>5, TypesSplit
<1>7. RowsAgree /\ RecoverOnce /\ RestrictedUntilSaved /\ NewestInForce
    BY <1>1, <1>3 DEF Init, NoRow, RowsAgree, RecoverOnce, RestrictedUntilSaved, NewestInForce
<1>8. ActiveLimitKept
  <2>1. {s \in Sessions : ActiveAt(s, clock) /\ ~session[s].revived} = {}
    BY <1>1 DEF ActiveAt, NoRow
  <2>2. 0 <= ActiveMax
    BY DEF SessionConstants
  <2> QED BY <2>1, <2>2, FS_EmptySet DEF ActiveLimitKept
<1> QED BY <1>6, <1>7, <1>8 DEF SessionsHold

LEMMA NextKeeps ==
    ASSUME SessionConstants, SessionsHold, Next
    PROVE  SessionsHold' /\ SessionStep
<1>1. CASE Tick
    BY <1>1, TickKeeps
<1>2. CASE CleanPending
    BY <1>2, CleanPendingKeeps
<1>3. CASE \E x \in Surfaces : SwitchChannel(x)
    BY <1>3, SwitchChannelKeeps
<1>4. CASE \E s \in Sessions : Login(s) \/ Revoke(s)
    BY <1>4, LoginKeeps, RevokeKeeps
<1>5. CASE \E s \in Sessions : \E g \in 1..Len(codes) : Confirm(s, g)
    BY <1>5, ConfirmKeeps
<1>6. ASSUME NEW r \in Requests, RequestStep(r)
      PROVE  SessionsHold' /\ SessionStep
  <2>1. CASE \E s \in Sessions : \E picks \in SUBSET {p \in Sessions : session[p].state = "active"} :
               StartActivate(r, s, picks)
    <3>1. PICK s \in Sessions, picks \in SUBSET Sessions : StartActivate(r, s, picks)
      BY <2>1
    <3> QED BY <3>1, StartActivateKeeps
  <2>2. CASE \E s \in Sessions : StartRenew(r, s) \/ StartGenerate(r, s)
    BY <2>2, StartRenewKeeps, StartGenerateKeeps
  <2>3. CASE \E g \in 1..Len(codes) : Present(r, g, "emergency_stop") \/ Present(r, g, "recover_login")
    BY <2>3, PresentKeeps
  <2>4. CASE Activate(r) \/ Renew(r) \/ Stop(r) \/ Missed(r)
    BY <2>4, ActivateKeeps, RenewKeeps, StopKeeps, MissedKeeps
  <2>5. CASE Retire(r) \/ Recover(r) \/ Generate(r) \/ Die(r)
    BY <2>5, RetireKeeps, RecoverKeeps, GenerateKeeps, DieKeeps
  <2> QED BY <1>6, <2>1, <2>2, <2>3, <2>4, <2>5 DEF RequestStep
<1> QED BY <1>1, <1>2, <1>3, <1>4, <1>5, <1>6 DEF Next

LEMMA StutterKeeps ==
    ASSUME SessionConstants, SessionsHold, UNCHANGED vars
    PROVE  SessionsHold'
<1>1. UNCHANGED <<clock, user, session, codes, channel, request, stopped>>
    BY DEF vars
<1>2. RequestsTyped'
    BY <1>1, Facts DEF RequestsTyped, RequestTyped
<1>3. TypeOK'
    BY <1>1, <1>2, Facts, TypesSplit DEF RowsTyped
<1>4. ActiveLimitKept'
  <2>1. \A s \in Sessions : ActiveAt(s, clock)' <=> ActiveAt(s, clock)
    BY <1>1 DEF ActiveAt, Live, Current
  <2> QED BY <1>1, <2>1, FewerActive DEF SessionsHold
<1> QED BY <1>1, <1>3, <1>4
        DEF SessionsHold, RowsAgree, NewestInForce, Unconsumed, RecoverOnce, RestrictedUntilSaved

\* The types of the account, its sessions, its codes and the requests under way, and what
\* the rows owe each other, hold for ever, however requests and time interleave.
THEOREM SessionsAreKept ==
    ASSUME SessionConstants
    PROVE  Spec => []SessionsHold
<1>1. Init => SessionsHold
    BY InitHolds
<1>2. SessionsHold /\ [Next]_vars => SessionsHold'
    BY NextKeeps, StutterKeeps
<1> QED BY <1>1, <1>2, PTL DEF Spec

\* lifecycle.ts:206: the limit of active devices survives activations that run at once,
\* each with its own choice, and renewals; only a session that ran out while its renewal
\* was under way may exceed it.
THEOREM ActiveLimitIsKept ==
    ASSUME SessionConstants
    PROVE  Spec => []ActiveLimitKept
<1>1. SessionsHold => ActiveLimitKept
    BY DEF SessionsHold
<1> QED BY <1>1, SessionsAreKept, PTL

\* action.ts:166: a recovery code opens one session, whatever logins run at once with it.
THEOREM CodesOpenOneSession ==
    ASSUME SessionConstants
    PROVE  Spec => []RecoverOnce
<1>1. SessionsHold => RecoverOnce
    BY DEF SessionsHold
<1> QED BY <1>1, SessionsAreKept, PTL

\* credential.ts:203: a session opened by a code is restricted until it has confirmed a
\* newer one.
THEOREM RecoveredSaveACode ==
    ASSUME SessionConstants
    PROVE  Spec => []RestrictedUntilSaved
<1>1. SessionsHold => RestrictedUntilSaved
    BY DEF SessionsHold
<1> QED BY <1>1, SessionsAreKept, PTL

LEMMA StepsAreSound ==
    ASSUME SessionConstants
    PROVE  Spec => [][SessionStep]_vars
<1>1. SessionsHold /\ [Next]_vars => [SessionStep]_vars
    BY NextKeeps
<1> QED BY <1>1, SessionsAreKept, PTL DEF Spec

\* lifecycle.ts:283: no late renewal or activation brings back a session that was revoked,
\* belongs to an older epoch or ran out longer ago than a request lives.
THEOREM TheDeadStayDead ==
    ASSUME SessionConstants
    PROVE  Spec => [][DeadStaysDead]_vars
<1>1. [SessionStep]_vars => [DeadStaysDead]_vars
    BY DEF SessionStep
<1> QED BY <1>1, StepsAreSound, PTL

\* lifecycle.ts:206: an activation never leaves more than SESSION_ACTIVE_MAX active.
THEOREM ActivationsStayWithin ==
    ASSUME SessionConstants
    PROVE  Spec => [][ActivationWithinLimit]_vars
<1>1. [SessionStep]_vars => [ActivationWithinLimit]_vars
    BY DEF SessionStep
<1> QED BY <1>1, StepsAreSound, PTL

\* action.ts:112: a stop that answers "stopped" without a commit finds everything closed.
THEOREM StopsAreTrue ==
    ASSUME SessionConstants
    PROVE  Spec => [][StopAnswersClosed]_vars
<1>1. [SessionStep]_vars => [StopAnswersClosed]_vars
    BY DEF SessionStep
<1> QED BY <1>1, StepsAreSound, PTL

\* credential.ts:127: a saved code goes only by the recovery login it is spent for.
THEOREM SavedCodesSurvive ==
    ASSUME SessionConstants
    PROVE  Spec => [][SavedCodeSurvives]_vars
<1>1. [SessionStep]_vars => [SavedCodeSurvives]_vars
    BY DEF SessionStep
<1> QED BY <1>1, StepsAreSound, PTL
=============================================================================
