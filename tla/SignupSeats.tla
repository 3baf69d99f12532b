---------------------------- MODULE SignupSeats -----------------------------
(***************************************************************************)
(* Seats of the sign-up: an unknown address reserves a seat of the account *)
(* stock while its code is open, the consumption of a code converts the    *)
(* seat into an account, expired seats are released, and the erasing of a  *)
(* deleted account gives its place back.  Every D1 call of a request is a  *)
(* step of its own; each request keeps the clock it read at its start.     *)
(***************************************************************************)
EXTENDS Integers, FiniteSets

CONSTANTS
    Emails, Challenges, Seats,
    NoSeat,
    Requests,       \* admissions (runPreauthAdmission) in flight
    Verifiers,      \* consumptions (consumeVerifiedOtp) in flight
    Cleaner,        \* the cron task cleanupTasks.registrations
    AccountMax,     \* ACCOUNT_MAX_STORED
    RegistrationsDay,
    Ttl,            \* OTP_TTL, in ticks
    DayLength,
    MaxNow          \* bound of the clock

SeatConstants ==
    /\ IsFiniteSet(Emails) /\ IsFiniteSet(Seats) /\ NoSeat \notin Seats
    /\ {AccountMax, RegistrationsDay, MaxNow} \subseteq Nat
    /\ {Ttl, DayLength} \subseteq Nat \ {0}
    /\ Requests \intersect Verifiers = {} /\ Cleaner \notin Requests \union Verifiers

VARIABLES now, challenge, seat, account, total, registered, proc
vars == <<now, challenge, seat, account, total, registered, proc>>

Procs == Requests \union Verifiers \union {Cleaner}
Today(t) == t \div DayLength

Idle == [at |-> "idle", now |-> 0, email |-> "none", exists |-> FALSE, attempt |-> FALSE,
         eligible |-> FALSE, stale |-> {}, slot |-> NoSeat, challenge |-> "none"]

Init ==
    /\ now = 0
    /\ challenge = [c \in Challenges |-> [state |-> "none", purpose |-> "none", email |-> "none",
                                          deadline |-> 0, seat |-> NoSeat]]
    /\ seat = [s \in Seats |-> [state |-> "none", email |-> "none", expires |-> 0]]
    /\ account = [e \in Emails |-> "none"]
    /\ total = 0
    /\ registered = [d \in 0..Today(MaxNow) |-> 0]
    /\ proc = [p \in Procs |-> Idle]

At(p, step) == proc[p].at = step
Become(p, s) == proc' = [proc EXCEPT ![p] = s]
Goto(p, step) == Become(p, [proc[p] EXCEPT !.at = step])

Reserved(s, e) == seat[s].state = "reserved" /\ seat[s].email = e
Live(c, t) == challenge[c].state = "open" /\ challenge[c].deadline > t
Stored(e) == account[e] # "none"

-----------------------------------------------------------------------------
(***************************************************************************)
(* An admission: runPreauthAdmission from its snapshot to the commit of    *)
(* the challenge.                                                          *)
(***************************************************************************)

\* Steps 5 and 6: the address is known or not, the gates are open, the mail
\* budget approves or not (its ledger is MailLedger).
Snapshot(r, e, approved) ==
    LET gates == Stored(e) \/ (total < AccountMax /\ registered[Today(now)] < RegistrationsDay)
    IN  /\ At(r, "idle")
        /\ Become(r, [Idle EXCEPT !.at = "stale", !.now = now, !.email = e, !.exists = Stored(e),
                          !.attempt = ~Stored(e) /\ gates /\ approved,
                          !.eligible = approved /\ gates])
        /\ UNCHANGED <<now, challenge, seat, account, total, registered>>

\* reserveRegistrationSlot looks for an expired seat of the address first
ReadStale(r) ==
    LET s == proc[r] IN
    /\ At(r, "stale")
    /\ Become(r, [s EXCEPT !.at = "free",
                      !.stale = {x \in Seats : Reserved(x, s.email) /\ seat[x].expires <= s.now}])
    /\ UNCHANGED <<now, challenge, seat, account, total, registered>>

\* Mutant: the state of the row is not looked at when it is released
ReleaseAnyway(x) ==
    /\ seat' = [seat EXCEPT ![x].state = "released"]
    /\ total' = total - 1

\* releaseAdmissionSlot: whoever is still reserved, the deadline is not looked at again
Release(x) ==
    IF seat[x].state = "reserved"
    THEN /\ seat' = [seat EXCEPT ![x].state = "released"]
         /\ total' = total - 1
    ELSE UNCHANGED <<seat, total>>

FreeStale(r) ==
    /\ At(r, "free")
    /\ IF proc[r].stale = {} THEN UNCHANGED <<seat, total>> ELSE \E x \in proc[r].stale : Release(x)
    /\ Goto(r, "reserve")
    /\ UNCHANGED <<now, challenge, account, registered>>

\* reserveAdmissionSlot: the counter moves only with the row; a second reserved
\* row of the address breaks the unique index and rolls the batch back.
Reserve(r) ==
    LET s == proc[r] IN
    /\ At(r, "reserve")
    /\ IF s.attempt /\ total < AccountMax /\ ~\E x \in Seats : Reserved(x, s.email)
       THEN \E x \in Seats :
              /\ seat[x].state = "none"
              /\ seat' = [seat EXCEPT ![x] = [state |-> "reserved", email |-> s.email, expires |-> s.now + Ttl]]
              /\ total' = total + 1
       ELSE UNCHANGED <<seat, total>>
    /\ Goto(r, "shared")
    /\ UNCHANGED <<now, challenge, account, registered>>

\* The live seat of the address, this request's or another's, decides on the mail
ReadShared(r) ==
    LET s == proc[r]
        live == {x \in Seats : Reserved(x, s.email) /\ seat[x].expires > s.now}
    IN  /\ At(r, "shared")
        /\ \E x \in (IF live = {} THEN {NoSeat} ELSE live) :
             LET sends == s.eligible /\ (s.exists \/ x # NoSeat) IN
             Become(r, [s EXCEPT !.at = "create", !.eligible = sends,
                            !.slot = IF ~s.exists /\ sends THEN x ELSE NoSeat])
        /\ UNCHANGED <<now, challenge, seat, account, total, registered>>

\* The batch of createChallenge: the challenge and the extension of its seat, which
\* hits no row when the seat is not reserved any more
Create(r, c) ==
    LET s == proc[r]
        deadline == s.now + Ttl
        purpose == IF ~s.eligible THEN "equalization" ELSE IF s.exists THEN "login" ELSE "signup"
    IN  /\ At(r, "create")
        /\ challenge[c].state = "none"
        /\ purpose = "login" => Stored(s.email)
        /\ challenge' = [challenge EXCEPT ![c] = [state |-> "open", purpose |-> purpose,
                             email |-> s.email, deadline |-> deadline, seat |-> s.slot]]
        /\ seat' = [x \in Seats |->
                      IF x = s.slot /\ seat[x].state = "reserved" /\ seat[x].expires < deadline
                      THEN [seat[x] EXCEPT !.expires = deadline] ELSE seat[x]]
        /\ Become(r, [s EXCEPT !.at = "budget", !.challenge = c])
        /\ UNCHANGED <<now, account, total, registered>>

\* The budget is reserved, or lost to a concurrent write: the challenge is aborted
Budget(r) ==
    LET c == proc[r].challenge IN
    /\ At(r, "budget")
    /\ \/ UNCHANGED challenge
       \/ /\ challenge[c].state = "open" /\ challenge[c].purpose # "equalization"
          /\ challenge' = [challenge EXCEPT ![c].state = "aborted"]
    /\ Become(r, Idle)
    /\ UNCHANGED <<now, seat, account, total, registered>>

\* The request ends here: the quota refuses it, the account is gone, or the
\* isolate is evicted between two calls.
GiveUp(r) ==
    /\ proc[r].at \notin {"idle"}
    /\ Become(r, Idle)
    /\ UNCHANGED <<now, challenge, seat, account, total, registered>>

-----------------------------------------------------------------------------
(***************************************************************************)
(* consumeVerifiedOtp, once the code has been proved                       *)
(***************************************************************************)
ReadProved(v, c) ==
    LET e == challenge[c].email IN
    /\ At(v, "idle")
    /\ Live(c, now) /\ challenge[c].purpose \in {"signup", "login"}
    /\ IF challenge[c].purpose = "signup" THEN ~Stored(e) ELSE account[e] = "active"
    /\ Become(v, [Idle EXCEPT !.at = "consume", !.now = now, !.email = e, !.challenge = c])
    /\ UNCHANGED <<now, challenge, seat, account, total, registered>>

\* The guard of the commit, over the rows as they are now
MayConsume(v) ==
    LET s == proc[v]
        c == challenge[s.challenge]
    IN  /\ Live(s.challenge, s.now)
        /\ IF c.purpose = "signup"
           THEN /\ \E x \in Seats : x = c.seat /\ Reserved(x, c.email) /\ seat[x].expires > s.now
                /\ ~Stored(c.email)
                /\ registered[Today(s.now)] < RegistrationsDay
           ELSE account[c.email] = "active"

Consume(v) ==
    LET s == proc[v]
        c == challenge[s.challenge]
    IN  /\ At(v, "consume")
        /\ MayConsume(v)
        /\ challenge' = [challenge EXCEPT ![s.challenge].state = "consumed"]
        /\ IF c.purpose = "signup"
           THEN /\ account' = [account EXCEPT ![c.email] = "active"]
                /\ seat' = [seat EXCEPT ![c.seat].state = "converted"]
                /\ registered' = [registered EXCEPT ![Today(s.now)] = @ + 1]
           ELSE UNCHANGED <<account, seat, registered>>
        /\ Become(v, Idle)
        /\ UNCHANGED <<now, total>>

ConsumeMissed(v) ==
    /\ At(v, "consume")
    /\ ~MayConsume(v)
    /\ Become(v, Idle)
    /\ UNCHANGED <<now, challenge, seat, account, total, registered>>

-----------------------------------------------------------------------------
(***************************************************************************)
(* The cron task: one list of expired seats, then one release after another *)
(***************************************************************************)

ListExpired ==
    LET due == {x \in Seats : seat[x].state = "reserved" /\ seat[x].expires <= now} IN
    /\ At(Cleaner, "idle")
    /\ due # {}
    /\ Become(Cleaner, [Idle EXCEPT !.at = "free", !.now = now, !.stale = due])
    /\ UNCHANGED <<now, challenge, seat, account, total, registered>>

ReleaseNext ==
    LET left == proc[Cleaner].stale IN
    /\ At(Cleaner, "free")
    /\ \E x \in left :
         /\ Release(x)
         /\ Become(Cleaner, IF left = {x} THEN Idle ELSE [proc[Cleaner] EXCEPT !.stale = left \ {x}])
    /\ UNCHANGED <<now, challenge, account, registered>>

(***************************************************************************)
(* Deletion of an account, from the request to the last page of the erasing *)
(***************************************************************************)
Delete(e) ==
    /\ account[e] = "active"
    /\ account' = [account EXCEPT ![e] = "deleting"]
    /\ UNCHANGED <<now, challenge, seat, total, registered, proc>>

EraseChallenges(e) ==
    LET rows == {c \in Challenges : challenge[c].email = e /\ challenge[c].state \notin {"none", "erased"}} IN
    /\ account[e] = "deleting"
    /\ rows # {}
    /\ challenge' = [c \in Challenges |-> IF c \in rows THEN [challenge[c] EXCEPT !.state = "erased"]
                                          ELSE challenge[c]]
    /\ UNCHANGED <<now, seat, account, total, registered, proc>>

\* The address leaves the row and the place is given back, in one commit
EraseAccount(e) ==
    /\ account[e] = "deleting"
    /\ \A c \in Challenges : challenge[c].email = e => challenge[c].state \in {"none", "erased"}
    /\ account' = [account EXCEPT ![e] = "none"]
    /\ total' = IF total > 0 THEN total - 1 ELSE total
    /\ UNCHANGED <<now, challenge, seat, registered, proc>>

Tick == now < MaxNow /\ now' = now + 1 /\ UNCHANGED <<challenge, seat, account, total, registered, proc>>

RequestStep(r) ==
    \/ \E e \in Emails, approved \in BOOLEAN : Snapshot(r, e, approved)
    \/ ReadStale(r) \/ FreeStale(r) \/ Reserve(r) \/ ReadShared(r) \/ Budget(r) \/ GiveUp(r)
    \/ \E c \in Challenges : Create(r, c)

VerifierStep(v) == (\E c \in Challenges : ReadProved(v, c)) \/ Consume(v) \/ ConsumeMissed(v)
CleanerStep == ListExpired \/ ReleaseNext
AccountStep == \E e \in Emails : Delete(e) \/ EraseChallenges(e) \/ EraseAccount(e)

Next ==
    \/ Tick
    \/ \E r \in Requests : RequestStep(r)
    \/ \E v \in Verifiers : VerifierStep(v)
    \/ CleanerStep
    \/ AccountStep

Spec == Init /\ [][Next]_vars

GoesOn(r) == proc[r].at # "idle" /\ RequestStep(r)

\* Cron runs the task again and again, and a request that waits for D1 goes on or ends.
LiveSpec == Spec /\ WF_vars(CleanerStep) /\ \A r \in Requests : WF_vars(GoesOn(r))

-----------------------------------------------------------------------------
SeatRows == [state : {"none", "reserved", "converted", "released"},
             email : Emails \union {"none"}, expires : Nat]
ChallengeRows == [state : {"none", "open", "aborted", "consumed", "erased"},
                  purpose : {"none", "signup", "login", "equalization"},
                  email : Emails \union {"none"}, deadline : Nat, seat : Seats \union {NoSeat}]
TypeOK ==
    /\ now \in 0..MaxNow /\ total \in Nat
    /\ challenge \in [Challenges -> ChallengeRows]
    /\ seat \in [Seats -> SeatRows]
    /\ account \in [Emails -> {"none", "active", "deleting"}]
    /\ registered \in [0..Today(MaxNow) -> Nat]

\* registration.ts:14 and storage/admission.ts:9: the counter of the account stock is
\* exactly the seats that are reserved and the accounts that are stored, whatever
\* expires, is released twice, is rolled back or is converted in between.
StockAgrees ==
    total = Cardinality({x \in Seats : seat[x].state = "reserved"}) + Cardinality({e \in Emails : Stored(e)})

\* The stock is never oversold: neither the seats nor the accounts that come from
\* them, consumed long after the limit was looked at, exceed the limit.
StockNeverOversold == total <= AccountMax /\ Cardinality({e \in Emails : Stored(e)}) <= AccountMax

\* An account appears only by converting a seat of its own address.
AccountFromSeat ==
    \A e \in Emails : account[e] = "none" /\ account'[e] # "none"
       => \E x \in Seats : Reserved(x, e) /\ seat'[x].state = "converted"

\* registration.ts:183: an expired seat is released in the end (or was taken over in time).
Expired(x) == seat[x].state = "reserved" /\ seat[x].expires <= now
ExpiredSeatsReturn == \A x \in Seats : Expired(x) ~> ~Expired(x)

\* What holds of the seats in every state.
SeatsHold == TypeOK /\ StockAgrees /\ StockNeverOversold
=============================================================================
