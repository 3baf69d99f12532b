---------------------------- MODULE UserSessions ----------------------------
(***************************************************************************)
(* The sessions of one account and its recovery code: activation with the   *)
(* choice of the devices to drop (activateSession), renewal, revocation,    *)
(* the clean-up of pending sessions, emergency stop and recovery login      *)
(* (runRecoveryAction), generation and confirmation of a recovery code.     *)
(* A request reads, then commits under a guard; requests interleave, and    *)
(* each keeps the time it started with.                                     *)
(***************************************************************************)
EXTENDS Integers, FiniteSets, Sequences, FiniteSetsExt

CONSTANTS
    Sessions, NoSession, Requests,
    Surfaces,           \* what an account can switch on: mail, push, calendar feed
    ActiveMax,          \* SESSION_ACTIVE_MAX
    IdleTtl, PendingTtl, AbsoluteTtl, RenewInterval,
    MaxLag,             \* a request lives at most this long
    MaxTime, MaxEpoch, MaxCodes     \* bounds

SessionConstants ==
    /\ {ActiveMax, IdleTtl, PendingTtl, AbsoluteTtl, RenewInterval} \subseteq Nat \ {0}
    /\ {MaxLag, MaxTime, MaxEpoch, MaxCodes} \subseteq Nat
    /\ NoSession \notin Sessions /\ IsFiniteSet(Sessions)
    /\ Surfaces \subseteq {"mail", "push", "feed"}

VARIABLES clock, user, session, codes, channel, request, stopped
vars == <<clock, user, session, codes, channel, request, stopped>>

NoRow == [state |-> "none", epoch |-> 0, expires |-> 0, absolute |-> 0, renewed |-> 0,
          receipt |-> FALSE, restricted |-> FALSE, via |-> 0,
          revived |-> FALSE]    \* a renewal found it run out at its commit (history)
Idle == [at |-> "idle"]

Init ==
    /\ clock = 0
    /\ user = [epoch |-> 0, stop |-> -1]    \* auth_epoch, last_recovery_stop_epoch
    /\ session = [s \in Sessions |-> NoRow]
    /\ codes = <<>>         \* by generation: [state, by], by the session that confirmed it
    /\ channel = {}         \* the surfaces that are switched on
    /\ request = [r \in Requests |-> Idle]
    /\ stopped = FALSE      \* the step answers a request with "stopped" (history)

Become(r, s) == request' = [request EXCEPT ![r] = s]
At(r, step) == request[r].at = step
Current(s) == session[s].epoch = user.epoch
Live(s, now) == Current(s) /\ session[s].expires > now /\ session[s].absolute > now
Usable(s, now) == session[s].state \in {"pending", "active"} /\ Live(s, now)
ActiveAt(s, now) == session[s].state = "active" /\ Live(s, now)
Unconsumed(g) == codes[g].state \in {"new", "saved"}
MailOpen == "mail" \in channel           \* the open predicates of the pause hooks
PushOpen == "push" \in channel
FeedOpen == "feed" \in channel
Closed(now) == ~MailOpen /\ ~PushOpen /\ ~FeedOpen /\ \A s \in Sessions : ~Usable(s, now)
EarlierOf(a, b) == IF a < b THEN a ELSE b

\* makePendingSession
Pending(now, epoch, via) ==
    [state |-> "pending", epoch |-> epoch, absolute |-> now + AbsoluteTtl,
     expires |-> EarlierOf(now + PendingTtl, now + AbsoluteTtl), renewed |-> now,
     receipt |-> TRUE, restricted |-> via > 0, via |-> via, revived |-> FALSE]

Tick ==
    /\ clock < MaxTime
    /\ \A r \in Requests : ~At(r, "idle") => clock - request[r].now < MaxLag
    /\ clock' = clock + 1 /\ stopped' = FALSE
    /\ UNCHANGED <<user, session, codes, channel, request>>

\* A proved code opens a session (AuthChallenge)
Login(s) ==
    /\ session[s].state = "none"
    /\ session' = [session EXCEPT ![s] = Pending(clock, user.epoch, 0)]
    /\ stopped' = FALSE
    /\ UNCHANGED <<clock, user, codes, channel, request>>

\* An active session that owes no recovery code switches a surface on or off
SwitchChannel(x) ==
    /\ \E s \in Sessions : ActiveAt(s, clock) /\ ~session[s].restricted
    /\ channel' = IF x \in channel THEN channel \ {x} ELSE channel \union {x}
    /\ stopped' = FALSE
    /\ UNCHANGED <<clock, user, session, codes, request>>

-----------------------------------------------------------------------------
(***************************************************************************)
(* sessions/lifecycle.ts                                                   *)
(***************************************************************************)

\* readActivationSession, then the selection of devices to drop
StartActivate(r, s, picks) ==
    /\ At(r, "idle")
    /\ session[s].state = "pending" /\ Live(s, clock) /\ session[s].receipt
    /\ s \notin picks /\ Cardinality(picks) <= ActiveMax
    /\ Become(r, [at |-> "activate", s |-> s, picks |-> picks, now |-> clock])
    /\ stopped' = FALSE
    /\ UNCHANGED <<clock, user, session, codes, channel>>

\* The guard of the activation
Activable(q) ==
    /\ session[q.s].state = "pending" /\ Live(q.s, q.now) /\ session[q.s].receipt
    /\ \A p \in q.picks : ActiveAt(p, q.now)
    /\ Cardinality({a \in Sessions \ q.picks : ActiveAt(a, q.now)}) < ActiveMax

Activate(r) ==
    LET q == request[r]
        now == q.now
    IN  /\ At(r, "activate")
        /\ session' = IF ~Activable(q) THEN session
                      ELSE [x \in Sessions |->
                              IF x = q.s
                              THEN [session[x] EXCEPT !.state = "active", !.receipt = FALSE, !.renewed = now,
                                      !.expires = EarlierOf(now + IdleTtl, session[x].absolute)]
                              ELSE IF x \in q.picks THEN [session[x] EXCEPT !.state = "revoked"]
                              ELSE session[x]]
        /\ Become(r, Idle) /\ stopped' = FALSE
        /\ UNCHANGED <<clock, user, codes, channel>>

\* renewSession
StartRenew(r, s) ==
    /\ At(r, "idle") /\ session[s].state = "active"
    /\ Become(r, [at |-> "renew", s |-> s, now |-> clock])
    /\ stopped' = FALSE
    /\ UNCHANGED <<clock, user, session, codes, channel>>

Renew(r) ==
    LET q == request[r] IN
    /\ At(r, "renew")
    /\ session' = IF ActiveAt(q.s, q.now) /\ session[q.s].renewed <= q.now - RenewInterval
                  THEN [session EXCEPT ![q.s].renewed = q.now, ![q.s].revived = @ \/ ~ActiveAt(q.s, clock),
                            ![q.s].expires = EarlierOf(q.now + IdleTtl, session[q.s].absolute)]
                  ELSE session
    /\ Become(r, Idle) /\ stopped' = FALSE
    /\ UNCHANGED <<clock, user, codes, channel>>

\* revokeSession and logout
Revoke(s) ==
    /\ session[s].state \in {"pending", "active"}
    /\ session' = [session EXCEPT ![s].state = "revoked"]
    /\ stopped' = FALSE
    /\ UNCHANGED <<clock, user, codes, channel, request>>

\* cleanupExpiredPendingSessions
CleanPending ==
    /\ \E s \in Sessions : session[s].state = "pending" /\ session[s].expires <= clock
    /\ session' = [s \in Sessions |->
                     IF session[s].state = "pending" /\ session[s].expires <= clock
                     THEN [session[s] EXCEPT !.state = "revoked", !.receipt = FALSE] ELSE session[s]]
    /\ stopped' = FALSE
    /\ UNCHANGED <<clock, user, codes, channel, request>>

-----------------------------------------------------------------------------
(***************************************************************************)
(* recovery/action.ts                                                      *)
(***************************************************************************)

\* The public request presents a code: verifyRecoveryCredential reads it with the epochs
Present(r, g, action) ==
    /\ At(r, "idle") /\ Unconsumed(g)
    /\ Become(r, [at |-> action, code |-> g, epoch |-> user.epoch, now |-> clock])
    /\ stopped' = FALSE
    /\ UNCHANGED <<clock, user, session, codes, channel>>

\* What is open at the time the request started
StillOpen(q) == ~Closed(q.now)

\* A missed guard counts as success when the same stop was done and nothing is open
StopFolds(q) == Unconsumed(q.code) /\ user.stop = user.epoch /\ ~StillOpen(q)

\* emergencyStop: the epoch moves, the channels close in the same commit
Stop(r) ==
    LET q == request[r]
        hit == /\ user.epoch = q.epoch /\ Unconsumed(q.code)
               /\ user.stop # user.epoch \/ StillOpen(q)
    IN  /\ At(r, "emergency_stop")
        /\ user.epoch < MaxEpoch
        /\ IF hit
           THEN /\ user' = [epoch |-> user.epoch + 1, stop |-> user.epoch + 1]
                /\ channel' = {}
                /\ Become(r, [at |-> "retire", answer |-> TRUE, now |-> q.now])
           ELSE /\ UNCHANGED <<user, channel>>
                /\ Become(r, [at |-> "missed", code |-> q.code, now |-> q.now])
        /\ stopped' = FALSE
        /\ UNCHANGED <<clock, session, codes>>

\* The guard missed: success only if the account is stopped and nothing is open
Missed(r) ==
    /\ At(r, "missed")
    /\ Become(r, IF StopFolds(request[r]) THEN [at |-> "retire", answer |-> TRUE, now |-> request[r].now]
                 ELSE Idle)
    /\ stopped' = StopFolds(request[r])
    /\ UNCHANGED <<clock, user, session, codes, channel>>

\* retireInvalidatedSessions: rows and receipts of older epochs
Retire(r) ==
    /\ At(r, "retire")
    /\ session' = [s \in Sessions |->
                     IF session[s].state \in {"pending", "active"} /\ ~Current(s)
                     THEN [session[s] EXCEPT !.state = "revoked", !.receipt = FALSE] ELSE session[s]]
    /\ Become(r, Idle) /\ stopped' = FALSE
    /\ UNCHANGED <<clock, user, codes, channel>>

\* Mutant: what was read of the code and of the epoch is not compared again
RecoverableStale(q) == q.code <= Len(codes)

Recoverable(q) == user.epoch = q.epoch /\ Unconsumed(q.code)

\* recoverLogin: the code is used, the epoch moves and a restricted session waits in it
Recover(r) ==
    LET q == request[r] IN
    /\ At(r, "recover_login")
    /\ user.epoch < MaxEpoch
    /\ IF Recoverable(q)
       THEN \E s \in Sessions :
              /\ session[s].state = "none"
              /\ user' = [epoch |-> user.epoch + 1, stop |-> user.epoch + 1]
              /\ codes' = [codes EXCEPT ![q.code].state = "used"]
              /\ channel' = {}
              /\ session' = [session EXCEPT ![s] = Pending(q.now, q.epoch + 1, q.code)]
              /\ Become(r, [at |-> "retire", answer |-> FALSE, now |-> q.now])
       ELSE Become(r, Idle) /\ UNCHANGED <<user, codes, channel, session>>
    /\ stopped' = FALSE
    /\ UNCHANGED clock

-----------------------------------------------------------------------------
(***************************************************************************)
(* recovery/credential.ts                                                  *)
(***************************************************************************)

\* generateRecoveryCode reads the code in force; a saved one is not replaced here.
\* Recent activation, a restricted session or a proof make the session eligible.
StartGenerate(r, s) ==
    LET open == {g \in 1..Len(codes) : Unconsumed(g)} IN
    /\ At(r, "idle") /\ ActiveAt(s, clock)
    /\ \A g \in open : codes[g].state = "new"
    /\ Become(r, [at |-> "generate", s |-> s, old |-> IF open = {} THEN 0 ELSE Max(open), now |-> clock])
    /\ stopped' = FALSE
    /\ UNCHANGED <<clock, user, session, codes, channel>>

\* The guard: no code in force, or the one that was read, still unsaved
Replaceable(q) ==
    IF q.old = 0 THEN \A g \in 1..Len(codes) : ~Unconsumed(g) ELSE codes[q.old].state = "new"

Generate(r) ==
    LET q == request[r]
        fresh == [state |-> "new", by |-> NoSession]
    IN  /\ At(r, "generate")
        /\ Len(codes) < MaxCodes
        /\ codes' = IF ~(Replaceable(q) /\ ActiveAt(q.s, q.now)) THEN codes
                    ELSE Append([g \in 1..Len(codes) |->
                                   IF g = q.old THEN [codes[g] EXCEPT !.state = "void"] ELSE codes[g]], fresh)
        /\ Become(r, Idle) /\ stopped' = FALSE
        /\ UNCHANGED <<clock, user, session, channel>>

\* confirmRecoveryCode: one guarded commit
Confirm(s, g) ==
    /\ codes[g].state = "new" /\ ActiveAt(s, clock)
    /\ codes' = [codes EXCEPT ![g] = [state |-> "saved", by |-> s]]
    /\ session' = [session EXCEPT ![s].restricted = FALSE]
    /\ stopped' = FALSE
    /\ UNCHANGED <<clock, user, channel, request>>

\* The isolate is evicted between two calls
Die(r) ==
    /\ ~At(r, "idle") /\ Become(r, Idle) /\ stopped' = FALSE
    /\ UNCHANGED <<clock, user, session, codes, channel>>

RequestStep(r) ==
    \/ \E s \in Sessions :
         \/ \E picks \in SUBSET {p \in Sessions : session[p].state = "active"} : StartActivate(r, s, picks)
         \/ StartRenew(r, s) \/ StartGenerate(r, s)
    \/ \E g \in 1..Len(codes) : Present(r, g, "emergency_stop") \/ Present(r, g, "recover_login")
    \/ Activate(r) \/ Renew(r) \/ Stop(r) \/ Missed(r) \/ Retire(r) \/ Recover(r) \/ Generate(r) \/ Die(r)

Next ==
    \/ Tick \/ CleanPending \/ \E x \in Surfaces : SwitchChannel(x)
    \/ \E s \in Sessions : \/ Login(s) \/ Revoke(s)
                           \/ \E g \in 1..Len(codes) : Confirm(s, g)
    \/ \E r \in Requests : RequestStep(r)

Spec == Init /\ [][Next]_vars

-----------------------------------------------------------------------------
SessionRows ==
    [state : {"none", "pending", "active", "revoked"}, epoch : Nat, expires : Nat, absolute : Nat,
     renewed : Nat, receipt : BOOLEAN, restricted : BOOLEAN, via : Nat, revived : BOOLEAN]
CodeRows == [state : {"new", "saved", "used", "void"}, by : Sessions \union {NoSession}]

\* What a request carries at each step; its time is at most MaxLag ago.
RequestTyped(q) ==
    /\ q.at \in {"idle", "activate", "renew", "emergency_stop", "missed", "retire", "recover_login", "generate"}
    /\ q.at # "idle" => q.now \in Nat /\ clock - MaxLag <= q.now /\ q.now <= clock
    /\ q.at \in {"activate", "renew", "generate"} => q.s \in Sessions
    /\ q.at = "activate" => q.picks \subseteq Sessions \ {q.s}
    /\ q.at = "generate" => q.old \in 0..Len(codes)
    /\ q.at \in {"emergency_stop", "missed", "recover_login"} => q.code \in 1..Len(codes)

TypeOK ==
    /\ clock \in 0..MaxTime
    /\ user \in [epoch : 0..MaxEpoch, stop : -1..MaxEpoch] /\ user.stop <= user.epoch
    /\ session \in [Sessions -> SessionRows] /\ codes \in Seq(CodeRows)
    /\ channel \subseteq Surfaces
    /\ DOMAIN request = Requests /\ \A r \in Requests : RequestTyped(request[r])

\* A row ends no later than its absolute time, belongs to no epoch still to come and
\* names only codes that exist.
RowsAgree ==
    \A s \in Sessions :
        /\ session[s].expires <= session[s].absolute /\ session[s].epoch <= user.epoch
        /\ session[s].via <= Len(codes) /\ (session[s].state = "none" => session[s].via = 0)

\* lifecycle.ts:206: however many devices are activated at once, each with its own choice
\* of sessions to drop, no more than SESSION_ACTIVE_MAX are active, but for those that
\* ran out while their renewal was under way and came back (lifecycle.ts:283).
ActiveLimitKept ==
    Cardinality({s \in Sessions : ActiveAt(s, clock) /\ ~session[s].revived}) <= ActiveMax

\* lifecycle.ts:206: an activation counts every active session, those included: it never
\* leaves more than SESSION_ACTIVE_MAX, whatever committed since its request started.
ActivationWithinLimit ==
    (\E s \in Sessions : session[s].state = "pending" /\ session'[s].state = "active") =>
        Cardinality({s \in Sessions : ActiveAt(s, clock)'}) <= ActiveMax

\* lifecycle.ts:283: a session that was revoked, belongs to an older epoch or ran out
\* longer ago than a request lives never authorises a request again, whatever late
\* renewal or activation commits.
Dead(s) == session[s].state # "none" /\ ~Usable(s, clock - MaxLag)
DeadStaysDead == \A s \in Sessions : Dead(s) => Dead(s)'

\* action.ts:112: a stop that lost its commit answers "stopped" only if at that moment no
\* session can be used and no channel is on, though it asks for the time it started at.
StopAnswersClosed == stopped' => Closed(clock)'

\* credential.ts:103: at most one code is in force, the newest, and no session has
\* confirmed it before it is saved.
NewestInForce ==
    \A g \in 1..Len(codes) : /\ Unconsumed(g) => g = Len(codes)
                             /\ codes[g].state = "new" => codes[g].by = NoSession

\* action.ts:166: a recovery code opens one session, and a code that opened one is used.
RecoverOnce ==
    \A s, t \in Sessions : session[s].via > 0 =>
        codes[session[s].via].state = "used" /\ (s # t => session[t].via # session[s].via)

\* credential.ts:127: a code the user confirmed as saved goes only by the recovery login
\* it is spent for, never by a generation that was under way.
SavedCodeSurvives ==
    \A g \in 1..Len(codes) : codes[g].state = "saved" /\ codes'[g].state # "saved" =>
      \E s \in Sessions : session[s].state = "none" /\ session'[s].via = g

\* credential.ts:203: a recovered session stays restricted until it has confirmed a code
\* that is newer than the one it used.
RestrictedUntilSaved ==
    \A s \in Sessions : session[s].via > 0 /\ ~session[s].restricted =>
        \E g \in 1..Len(codes) : g > session[s].via /\ codes[g].by = s

\* What holds in every state, and of every step, of the sessions.
SessionsHold ==
    TypeOK /\ RowsAgree /\ ActiveLimitKept /\ NewestInForce /\ RecoverOnce /\ RestrictedUntilSaved
SessionStep == DeadStaysDead /\ ActivationWithinLimit /\ StopAnswersClosed /\ SavedCodeSurvives
=============================================================================
