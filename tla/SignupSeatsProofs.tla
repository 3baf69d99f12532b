------------------------- MODULE SignupSeatsProofs --------------------------
(***************************************************************************)
(* The account stock for any number of addresses, seats and requests: the  *)
(* counter is the seats that are reserved and the accounts that are        *)
(* stored, it never exceeds its limit, and an account comes from a seat.   *)
(***************************************************************************)
EXTENDS SignupSeats, FiniteSetTheorems, TLAPS

(***************************************************************************)
(* Types, with those of the requests, which TypeOK does not give            *)
(***************************************************************************)
ProcRows ==
    [at : {"idle", "stale", "free", "reserve", "shared", "create", "budget", "consume"}, now : Nat,
     email : Emails \union {"none"}, exists : BOOLEAN, attempt : BOOLEAN, eligible : BOOLEAN,
     stale : SUBSET Seats, slot : Seats \union {NoSeat}, challenge : Challenges \union {"none"}]

\* What the step of an actor says of the values it carries: an admission knows its
\* address, and one that waits for the budget, or a consumption, its challenge.
ActorTyped(p) ==
    /\ p \in Requests => (proc[p].at # "idle" => proc[p].email \in Emails)
    /\ proc[p].at = "consume" => p \in Verifiers
    /\ proc[p].at = "budget" => p \in Requests
    /\ proc[p].at \in {"budget", "consume"} => proc[p].challenge \in Challenges

Typed ==
    /\ TypeOK
    /\ proc \in [Procs -> ProcRows]
    /\ \A p \in Procs : ActorTyped(p)
    /\ \A c \in Challenges : challenge[c].state # "none" => challenge[c].email \in Emails

LEMMA InitTyped ==
    ASSUME SeatConstants, Init
    PROVE  Typed
<1>1. proc \in [Procs -> ProcRows]
    BY DEF Init, Idle, ProcRows
<1>2. \A p \in Procs : proc[p].at = "idle"
    BY DEF Init, Idle
<1>3. TypeOK
    BY DEF Init, TypeOK, SeatConstants, SeatRows, ChallengeRows
<1>4. \A c \in Challenges : challenge[c].state = "none"
    BY DEF Init
<1> QED BY <1>1, <1>2, <1>3, <1>4 DEF Typed, ActorTyped

LEMMA SeatMoves ==
    ASSUME NEW row \in SeatRows, NEW state \in {"none", "reserved", "converted", "released"}
    PROVE  [row EXCEPT !.state = state] \in SeatRows
BY DEF SeatRows


\* Releasing a seat keeps the types as long as the counter covers it.
LEMMA ReleaseTyped ==
    ASSUME SeatConstants, Typed, StockAgrees, NEW x \in Seats, Release(x)
    PROVE  seat' \in [Seats -> SeatRows] /\ total' \in Nat
<1> DEFINE held == {y \in Seats : seat[y].state = "reserved"}
           stored == {e \in Emails : Stored(e)}
<1>1. IsFiniteSet(held) /\ IsFiniteSet(stored)
    BY FS_Subset DEF SeatConstants
<1>2. /\ total = Cardinality(held) + Cardinality(stored) /\ total \in Nat
      /\ Cardinality(held) \in Nat /\ Cardinality(stored) \in Nat
    BY <1>1, FS_CardinalityType DEF StockAgrees, Typed, TypeOK
<1>3. CASE seat[x].state = "reserved"
    <2>1. x \in held
        BY <1>3
    <2>2. Cardinality(held) # 0
        BY <1>1, <2>1, FS_EmptySet
    <2> HIDE DEF held, stored
    <2>3. total - 1 \in Nat
        BY <1>2, <2>2
    <2>4. seat[x] \in SeatRows /\ seat \in [Seats -> SeatRows]
        BY DEF Typed, TypeOK
    <2>5. [seat[x] EXCEPT !.state = "released"] \in SeatRows
        BY <2>4, SeatMoves
    <2> QED BY <1>3, <2>3, <2>4, <2>5 DEF Release
<1>4. CASE seat[x].state # "reserved"
    BY <1>4 DEF Release, Typed, TypeOK
<1> QED BY <1>3, <1>4

LEMMA IdleTyped == Idle \in ProcRows /\ Idle.at = "idle"
BY DEF Idle, ProcRows

\* An actor that takes a step leaves the others as they are.
LEMMA OneBecomes ==
    ASSUME Typed, NEW p \in Procs, NEW s \in ProcRows, Become(p, s)
    PROVE  proc' \in [Procs -> ProcRows] /\ proc'[p] = s /\ \A q \in Procs \ {p} : proc'[q] = proc[q]
BY DEF Typed, Become

LEMMA RestTyped ==
    ASSUME Typed, NEW p \in Procs, NEW s \in ProcRows, Become(p, s), TypeOK',
           ActorTyped(p)',
           \A c \in Challenges : challenge'[c].state # "none" => challenge'[c].email \in Emails
    PROVE  Typed'
<1>1. proc' \in [Procs -> ProcRows] /\ \A q \in Procs \ {p} : proc'[q] = proc[q]
    BY OneBecomes
<1>2. \A q \in Procs : ActorTyped(q)'
    BY <1>1 DEF Typed, ActorTyped
<1> QED BY <1>1, <1>2 DEF Typed

\* The same when nothing else changes and the record keeps an address.
LEMMA Untouched ==
    ASSUME Typed, NEW p \in Procs, NEW s \in ProcRows, Become(p, s),
           UNCHANGED <<now, challenge, seat, account, total, registered>>,
           s.at \notin {"budget", "consume"}, p \in Requests /\ s.at # "idle" => s.email \in Emails
    PROVE  Typed'
<1>1. TypeOK' /\ ActorTyped(p)'
    BY OneBecomes DEF Typed, TypeOK, ActorTyped
<1> QED BY <1>1, RestTyped DEF Typed

\* An actor that ends may have moved its challenge.
LEMMA EndTyped ==
    ASSUME Typed, NEW p \in Procs, Become(p, Idle), UNCHANGED <<now, seat, account, total, registered>>,
           NEW c \in Challenges, NEW state \in {"aborted", "consumed"},
           \/ challenge' = challenge
           \/ challenge[c].state = "open" /\ challenge' = [challenge EXCEPT ![c].state = state]
    PROVE  Typed'
<1>1. /\ challenge' \in [Challenges -> ChallengeRows]
      /\ \A d \in Challenges : challenge'[d].state # "none" => challenge'[d].email \in Emails
    <2> DEFINE row == [challenge[c] EXCEPT !.state = state]
    <2>1. challenge[c] \in ChallengeRows /\ challenge \in [Challenges -> ChallengeRows]
        BY DEF Typed, TypeOK
    <2>2. row \in ChallengeRows /\ row.email = challenge[c].email
        BY <2>1 DEF ChallengeRows
    <2>3. \/ challenge' = challenge
          \/ challenge[c].state = "open" /\ challenge' = [challenge EXCEPT ![c] = row]
        BY DEF Typed, TypeOK
    <2> HIDE DEF row
    <2> QED BY <2>1, <2>2, <2>3 DEF Typed
<1>2. TypeOK' /\ ActorTyped(p)'
    BY <1>1, IdleTyped, OneBecomes DEF Typed, TypeOK, ActorTyped
<1> QED BY <1>1, <1>2, IdleTyped, RestTyped

(***************************************************************************)
(* One lemma for each kind of actor                                        *)
(***************************************************************************)
LEMMA RequestTyped ==
    ASSUME SeatConstants, Typed, StockAgrees, NEW r \in Requests, RequestStep(r)
    PROVE  Typed'
<1>0. /\ r \in Procs /\ r \notin Verifiers /\ r # Cleaner /\ proc[r] \in ProcRows /\ TypeOK
      /\ ActorTyped(r)
    BY DEF Procs, Typed, SeatConstants
<1>1. ASSUME NEW e \in Emails, NEW approved \in BOOLEAN, Snapshot(r, e, approved)
      PROVE  Typed'
    <2> DEFINE gates == Stored(e) \/ (total < AccountMax /\ registered[Today(now)] < RegistrationsDay)
               s == [Idle EXCEPT !.at = "stale", !.now = now, !.email = e, !.exists = Stored(e),
                          !.attempt = ~Stored(e) /\ gates /\ approved,
                          !.eligible = approved /\ gates]
    <2>1. Become(r, s) /\ UNCHANGED <<now, challenge, seat, account, total, registered>>
        BY <1>1 DEF Snapshot
    <2>2. now \in Nat
        BY <1>0 DEF TypeOK, SeatConstants
    <2> HIDE DEF gates
    <2>3. s \in ProcRows /\ s.at = "stale" /\ s.email = e
        BY <2>2 DEF Idle, ProcRows, Stored
    <2> HIDE DEF s
    <2> QED BY <1>0, <2>1, <2>3, Untouched
<1>2. ASSUME ReadStale(r)
      PROVE  Typed'
    <2> DEFINE stale == {x \in Seats : Reserved(x, proc[r].email) /\ seat[x].expires <= proc[r].now}
               s == [proc[r] EXCEPT !.at = "free", !.stale = stale]
    <2>1. Become(r, s) /\ UNCHANGED <<now, challenge, seat, account, total, registered>> /\ At(r, "stale")
        BY <1>2 DEF ReadStale
    <2>2. stale \in SUBSET Seats
        OBVIOUS
    <2> HIDE DEF stale
    <2>3. s \in ProcRows /\ s.at = "free" /\ s.email = proc[r].email
        BY <1>0, <2>2 DEF ProcRows
    <2> HIDE DEF s
    <2> QED BY <1>0, <2>1, <2>3, Untouched DEF ActorTyped, At
<1>3. ASSUME FreeStale(r)
      PROVE  Typed'
    <2> DEFINE s == [proc[r] EXCEPT !.at = "reserve"]
    <2>1. Become(r, s) /\ UNCHANGED <<now, challenge, account, registered>> /\ At(r, "free")
        BY <1>3 DEF FreeStale, Goto
    <2>2. s \in ProcRows /\ s.at = "reserve" /\ s.email = proc[r].email
        BY <1>0 DEF ProcRows
    <2>3. \A x \in proc[r].stale : x \in Seats
        BY <1>0 DEF ProcRows
    <2>4. seat' \in [Seats -> SeatRows] /\ total' \in Nat
        BY <1>0, <1>3, <2>3, ReleaseTyped DEF FreeStale, TypeOK
    <2> HIDE DEF s
    <2>5. TypeOK' /\ ActorTyped(r)'
        BY <1>0, <2>1, <2>2, <2>4, OneBecomes DEF ActorTyped, At, TypeOK
    <2> QED BY <1>0, <2>1, <2>2, <2>5, RestTyped DEF Typed
<1>4. ASSUME Reserve(r)
      PROVE  Typed'
    <2> DEFINE s == [proc[r] EXCEPT !.at = "shared"]
    <2>1. Become(r, s) /\ UNCHANGED <<now, challenge, account, registered>> /\ At(r, "reserve")
        BY <1>4 DEF Reserve, Goto
    <2>2. s \in ProcRows /\ s.at = "shared" /\ s.email = proc[r].email
        BY <1>0 DEF ProcRows
    <2>3. proc[r].now + Ttl \in Nat /\ proc[r].email \in Emails /\ total + 1 \in Nat
        BY <1>0, <2>1 DEF ProcRows, SeatConstants, ActorTyped, At, TypeOK
    <2>4. [state |-> "reserved", email |-> proc[r].email, expires |-> proc[r].now + Ttl] \in SeatRows
        BY <2>3 DEF SeatRows
    <2>5. seat' \in [Seats -> SeatRows] /\ total' \in Nat
        BY <1>0, <1>4, <2>3, <2>4 DEF Reserve, TypeOK
    <2> HIDE DEF s
    <2>6. TypeOK' /\ ActorTyped(r)'
        BY <1>0, <2>1, <2>2, <2>5, OneBecomes DEF ActorTyped, At, TypeOK
    <2> QED BY <1>0, <2>1, <2>2, <2>6, RestTyped DEF Typed
<1>5. ASSUME ReadShared(r)
      PROVE  Typed'
    <2>1. /\ At(r, "shared") /\ UNCHANGED <<now, challenge, seat, account, total, registered>>
          /\ \E x \in Seats \union {NoSeat}, sends \in BOOLEAN :
                 Become(r, [proc[r] EXCEPT !.at = "create", !.eligible = sends,
                               !.slot = IF ~proc[r].exists /\ sends THEN x ELSE NoSeat])
        BY <1>0, <1>5 DEF ReadShared, ProcRows
    <2>2. PICK x \in Seats \union {NoSeat}, sends \in BOOLEAN :
                 Become(r, [proc[r] EXCEPT !.at = "create", !.eligible = sends,
                               !.slot = IF ~proc[r].exists /\ sends THEN x ELSE NoSeat])
        BY <2>1
    <2> DEFINE s == [proc[r] EXCEPT !.at = "create", !.eligible = sends,
                        !.slot = IF ~proc[r].exists /\ sends THEN x ELSE NoSeat]
    <2>3. s \in ProcRows /\ s.at = "create" /\ s.email = proc[r].email
        BY <1>0 DEF ProcRows
    <2>4. Become(r, s)
        BY <2>2
    <2> HIDE DEF s
    <2> QED BY <1>0, <2>1, <2>3, <2>4, Untouched DEF ActorTyped, At
<1>6. ASSUME NEW c \in Challenges, Create(r, c)
      PROVE  Typed'
    <2> DEFINE deadline == proc[r].now + Ttl
               purpose == IF ~proc[r].eligible THEN "equalization"
                          ELSE IF proc[r].exists THEN "login" ELSE "signup"
               row == [state |-> "open", purpose |-> purpose, email |-> proc[r].email,
                       deadline |-> deadline, seat |-> proc[r].slot]
               s == [proc[r] EXCEPT !.at = "budget", !.challenge = c]
    <2>1. /\ At(r, "create") /\ UNCHANGED <<now, account, total, registered>> /\ Become(r, s)
          /\ challenge' = [challenge EXCEPT ![c] = row]
        BY <1>6 DEF Create
    <2>2. deadline \in Nat /\ proc[r].email \in Emails /\ proc[r].slot \in Seats \union {NoSeat}
        BY <1>0, <2>1 DEF ProcRows, SeatConstants, ActorTyped, At
    <2>3. row \in ChallengeRows /\ row.email \in Emails
        BY <2>2 DEF ChallengeRows
    <2>4. seat' \in [Seats -> SeatRows]
        <3>1. \A x \in Seats : [seat[x] EXCEPT !.expires = deadline] \in SeatRows
            BY <1>0, <2>2 DEF TypeOK, SeatRows
        <3> HIDE DEF deadline
        <3>2. \A x \in Seats : seat'[x] \in {seat[x], [seat[x] EXCEPT !.expires = deadline]}
            BY <1>6 DEF Create, deadline
        <3>3. seat' = [x \in Seats |-> seat'[x]]
            BY <1>6 DEF Create
        <3> QED BY <1>0, <3>1, <3>2, <3>3 DEF TypeOK
    <2>5. s \in ProcRows /\ s.at = "budget" /\ s.email = proc[r].email /\ s.challenge = c
        BY <1>0 DEF ProcRows
    <2> HIDE DEF s, row
    <2>6. TypeOK' /\ ActorTyped(r)'
        BY <1>0, <2>1, <2>2, <2>3, <2>4, <2>5, OneBecomes DEF ActorTyped, At, TypeOK
    <2>7. \A d \in Challenges : challenge'[d].state # "none" => challenge'[d].email \in Emails
        BY <1>0, <2>1, <2>3 DEF Typed, TypeOK
    <2> QED BY <1>0, <2>1, <2>5, <2>6, <2>7, RestTyped
<1>7. ASSUME Budget(r)
      PROVE  Typed'
    <2> DEFINE c == proc[r].challenge
    <2>1. /\ At(r, "budget") /\ UNCHANGED <<now, seat, account, total, registered>> /\ Become(r, Idle)
          /\ \/ challenge' = challenge
             \/ challenge[c].state = "open" /\ challenge' = [challenge EXCEPT ![c].state = "aborted"]
        BY <1>7 DEF Budget
    <2>2. c \in Challenges
        BY <1>0, <2>1 DEF ActorTyped, At
    <2> HIDE DEF c
    <2> QED BY <1>0, <2>1, <2>2, EndTyped
<1>8. ASSUME GiveUp(r)
      PROVE  Typed'
    BY <1>0, <1>8, IdleTyped, Untouched DEF GiveUp
<1> QED BY <1>1, <1>2, <1>3, <1>4, <1>5, <1>6, <1>7, <1>8 DEF RequestStep

LEMMA ConsumesOpen ==
    ASSUME Typed, NEW v \in Verifiers, Consume(v)
    PROVE  /\ proc[v].challenge \in Challenges /\ challenge[proc[v].challenge].state = "open"
           /\ challenge[proc[v].challenge].email \in Emails
BY DEF Typed, Procs, ActorTyped, Consume, MayConsume, Live, At

LEMMA VerifierTyped ==
    ASSUME SeatConstants, Typed, NEW v \in Verifiers, VerifierStep(v)
    PROVE  Typed'
<1>0. /\ v \in Procs /\ v \notin Requests /\ proc[v] \in ProcRows /\ TypeOK /\ ActorTyped(v)
    BY DEF Procs, Typed, SeatConstants
<1>1. ASSUME NEW c \in Challenges, ReadProved(v, c)
      PROVE  Typed'
    <2> DEFINE s == [Idle EXCEPT !.at = "consume", !.now = now, !.email = challenge[c].email,
                            !.challenge = c]
    <2>1. Become(v, s) /\ UNCHANGED <<now, challenge, seat, account, total, registered>>
        BY <1>1 DEF ReadProved
    <2>2. now \in Nat /\ challenge[c].email \in Emails \union {"none"}
        BY <1>0 DEF TypeOK, SeatConstants, ChallengeRows
    <2>3. s \in ProcRows /\ s.at = "consume" /\ s.challenge = c
        BY <2>2 DEF Idle, ProcRows
    <2> HIDE DEF s
    <2>4. TypeOK' /\ ActorTyped(v)'
        BY <1>0, <2>1, <2>3, OneBecomes DEF TypeOK, ActorTyped
    <2> QED BY <1>0, <2>1, <2>3, <2>4, RestTyped DEF Typed
<1>2. ASSUME Consume(v)
      PROVE  Typed'
    <2> DEFINE c == proc[v].challenge
    <2>1. c \in Challenges /\ challenge[c].state = "open" /\ At(v, "consume")
        BY <1>0, <1>2 DEF Consume, MayConsume, Live, ActorTyped, At
    <2>2. /\ Become(v, Idle) /\ UNCHANGED <<now, total>>
          /\ challenge' = [challenge EXCEPT ![c].state = "consumed"]
        BY <1>2 DEF Consume
    <2>3. challenge[c] \in ChallengeRows /\ challenge[c].email \in Emails
        BY <1>0, <2>1 DEF Typed, TypeOK
    <2>4. account' \in [Emails -> {"none", "active", "deleting"}]
        BY <1>0, <1>2, <2>3 DEF Consume, TypeOK
    <2>5. registered' \in [0..Today(MaxNow) -> Nat]
        BY <1>0, <1>2 DEF Consume, TypeOK
    <2>6. seat' \in [Seats -> SeatRows]
        <3>1. \A x \in Seats : [seat[x] EXCEPT !.state = "converted"] \in SeatRows
            BY <1>0, SeatMoves DEF TypeOK
        <3> QED BY <1>0, <1>2, <3>1 DEF Consume, TypeOK
    <2> DEFINE row == [challenge[c] EXCEPT !.state = "consumed"]
    <2>7. row \in ChallengeRows /\ row.email \in Emails
        BY <2>3 DEF ChallengeRows
    <2>8. challenge' = [challenge EXCEPT ![c] = row]
        BY <2>2
    <2> HIDE DEF row, c
    <2>9. TypeOK' /\ ActorTyped(v)'
        BY <1>0, <2>1, <2>2, <2>4, <2>5, <2>6, <2>7, <2>8, IdleTyped, OneBecomes DEF TypeOK, ActorTyped
    <2>10. \A d \in Challenges : challenge'[d].state # "none" => challenge'[d].email \in Emails
        BY <1>0, <2>1, <2>7, <2>8 DEF Typed, TypeOK
    <2> QED BY <1>0, <2>2, <2>9, <2>10, IdleTyped, RestTyped
<1>3. ASSUME ConsumeMissed(v)
      PROVE  Typed'
    BY <1>0, <1>3, IdleTyped, Untouched DEF ConsumeMissed
<1> QED BY <1>1, <1>2, <1>3 DEF VerifierStep

LEMMA CleanerTyped ==
    ASSUME SeatConstants, Typed, StockAgrees, CleanerStep
    PROVE  Typed'
<1>0. /\ Cleaner \in Procs /\ Cleaner \notin Requests /\ proc[Cleaner] \in ProcRows /\ TypeOK
    BY DEF Procs, Typed, SeatConstants
<1>1. ASSUME ListExpired
      PROVE  Typed'
    <2> DEFINE due == {x \in Seats : seat[x].state = "reserved" /\ seat[x].expires <= now}
               s == [Idle EXCEPT !.at = "free", !.now = now, !.stale = due]
    <2>1. Become(Cleaner, s) /\ UNCHANGED <<now, challenge, seat, account, total, registered>>
        BY <1>1 DEF ListExpired
    <2>2. due \in SUBSET Seats /\ now \in Nat
        BY <1>0 DEF TypeOK, SeatConstants
    <2> HIDE DEF due
    <2>3. s \in ProcRows /\ s.at = "free"
        BY <2>2 DEF Idle, ProcRows
    <2> HIDE DEF s
    <2> QED BY <1>0, <2>1, <2>3, Untouched
<1>2. ASSUME ReleaseNext
      PROVE  Typed'
    <2>1. PICK x \in proc[Cleaner].stale :
            /\ Release(x)
            /\ Become(Cleaner, IF proc[Cleaner].stale = {x} THEN Idle
                       ELSE [proc[Cleaner] EXCEPT !.stale = proc[Cleaner].stale \ {x}])
        BY <1>2 DEF ReleaseNext
    <2>2. x \in Seats /\ proc[Cleaner].stale \ {x} \in SUBSET Seats
        BY <1>0 DEF ProcRows
    <2>3. /\ UNCHANGED <<now, challenge, account, registered>>
          /\ seat' \in [Seats -> SeatRows] /\ total' \in Nat /\ At(Cleaner, "free")
        BY <1>2, <2>1, <2>2, ReleaseTyped DEF ReleaseNext
    <2> DEFINE left == [proc[Cleaner] EXCEPT !.stale = proc[Cleaner].stale \ {x}]
               s == IF proc[Cleaner].stale = {x} THEN Idle ELSE left
    <2>4. left \in ProcRows /\ left.at = "free"
        BY <1>0, <2>2, <2>3 DEF ProcRows, At
    <2>5. Become(Cleaner, s)
        BY <2>1
    <2> HIDE DEF left
    <2>6. s \in ProcRows /\ s.at \in {"idle", "free"}
        BY <2>4, IdleTyped
    <2> HIDE DEF s
    <2>7. TypeOK' /\ ActorTyped(Cleaner)'
        BY <1>0, <2>3, <2>5, <2>6, OneBecomes DEF TypeOK, ActorTyped
    <2> QED BY <1>0, <2>3, <2>5, <2>6, <2>7, RestTyped DEF Typed
<1> QED BY <1>1, <1>2 DEF CleanerStep

LEMMA AccountTyped ==
    ASSUME SeatConstants, Typed, AccountStep
    PROVE  Typed'
<1>0. TypeOK
    BY DEF Typed
<1>1. ASSUME NEW e \in Emails, Delete(e)
      PROVE  Typed'
    BY <1>0, <1>1 DEF Delete, Typed, TypeOK, ActorTyped
<1>2. ASSUME NEW e \in Emails, EraseChallenges(e)
      PROVE  Typed'
    <2>1. challenge' = [c \in Challenges |-> challenge'[c]]
        BY <1>2 DEF EraseChallenges
    <2>2. ASSUME NEW c \in Challenges
          PROVE  /\ challenge'[c] \in ChallengeRows
                 /\ challenge'[c].state # "none" => challenge'[c].email \in Emails
        <3> DEFINE row == [challenge[c] EXCEPT !.state = "erased"]
        <3>1. row \in ChallengeRows /\ row.email = challenge[c].email /\ challenge[c] \in ChallengeRows
            BY <1>0 DEF TypeOK, ChallengeRows
        <3>2. challenge'[c] = challenge[c] \/ (challenge[c].state # "none" /\ challenge'[c] = row)
            BY <1>2 DEF EraseChallenges
        <3> HIDE DEF row
        <3> QED BY <3>1, <3>2 DEF Typed
    <2>3. /\ challenge' \in [Challenges -> ChallengeRows]
          /\ \A c \in Challenges : challenge'[c].state # "none" => challenge'[c].email \in Emails
        BY <2>1, <2>2
    <2> QED BY <1>0, <1>2, <2>3 DEF EraseChallenges, Typed, TypeOK, ActorTyped
<1>3. ASSUME NEW e \in Emails, EraseAccount(e)
      PROVE  Typed'
    BY <1>0, <1>3 DEF EraseAccount, Typed, TypeOK, ActorTyped
<1> QED BY <1>1, <1>2, <1>3 DEF AccountStep

LEMMA NextTyped ==
    ASSUME SeatConstants, Typed, StockAgrees, Next
    PROVE  Typed'
<1>1. CASE Tick
    BY <1>1 DEF Tick, Typed, TypeOK, ActorTyped, SeatConstants
<1> QED BY <1>1, RequestTyped, VerifierTyped, CleanerTyped, AccountTyped DEF Next

(***************************************************************************)
(* The stock                                                               *)
(***************************************************************************)
Held == {x \in Seats : seat[x].state = "reserved"}
StoredEmails == {e \in Emails : Stored(e)}

LEMMA Counts ==
    ASSUME SeatConstants
    PROVE  /\ IsFiniteSet(Held) /\ IsFiniteSet(StoredEmails)
           /\ Cardinality(Held) \in Nat /\ Cardinality(StoredEmails) \in Nat
BY FS_Subset, FS_CardinalityType DEF SeatConstants, Held, StoredEmails

\* The four ways the stock moves.
LEMMA StockMoves ==
    ASSUME SeatConstants, Typed, StockAgrees,
           \/ Held' = Held /\ StoredEmails' = StoredEmails /\ total' = total
           \/ \E x \in Held : Held' = Held \ {x} /\ StoredEmails' = StoredEmails /\ total' = total - 1
           \/ \E x \in Seats \ Held :
                 /\ Held' = Held \union {x} /\ StoredEmails' = StoredEmails
                 /\ total < AccountMax /\ total' = total + 1
           \/ \E x \in Held, e \in Emails \ StoredEmails :
                 Held' = Held \ {x} /\ StoredEmails' = StoredEmails \union {e} /\ total' = total
           \/ \E e \in StoredEmails :
                 /\ Held' = Held /\ StoredEmails' = StoredEmails \ {e}
                 /\ total' = IF total > 0 THEN total - 1 ELSE total
    PROVE  StockAgrees' /\ (StockNeverOversold => StockNeverOversold')
<1>0. total = Cardinality(Held) + Cardinality(StoredEmails)
    BY DEF StockAgrees, Held, StoredEmails
<1>1. total' = Cardinality(Held') + Cardinality(StoredEmails')
    <2>1. \A x \in Held : Cardinality(Held \ {x}) = Cardinality(Held) - 1
        BY Counts, FS_RemoveElement
    <2>2. \A x \in Seats \ Held : Cardinality(Held \union {x}) = Cardinality(Held) + 1
        BY Counts, FS_AddElement
    <2>3. \A e \in Emails \ StoredEmails : Cardinality(StoredEmails \union {e}) = Cardinality(StoredEmails) + 1
        BY Counts, FS_AddElement
    <2>4. \A e \in StoredEmails : Cardinality(StoredEmails \ {e}) = Cardinality(StoredEmails) - 1
        BY Counts, FS_RemoveElement
    <2>5. StoredEmails # {} => Cardinality(StoredEmails) # 0
        BY Counts, FS_EmptySet
    <2>6. /\ Cardinality(Held) \in Nat /\ Cardinality(StoredEmails) \in Nat
        BY Counts
    <2> QED BY <1>0, <2>1, <2>2, <2>3, <2>4, <2>5, <2>6
<1>2. StockAgrees'
    BY <1>1 DEF StockAgrees, Held, StoredEmails
<1>3. ASSUME StockNeverOversold
      PROVE  StockNeverOversold'
    <2>1. total' <= AccountMax
        BY <1>3, Counts DEF StockNeverOversold, SeatConstants, Typed, TypeOK
    <2>2. Cardinality(Held') \in Nat /\ Cardinality(StoredEmails') \in Nat
        BY FS_Subset, FS_CardinalityType DEF SeatConstants, Held, StoredEmails
    <2>3. Cardinality(StoredEmails') <= AccountMax
        BY <1>1, <2>1, <2>2 DEF SeatConstants
    <2> QED BY <2>1, <2>3 DEF StockNeverOversold, StoredEmails
<1> QED BY <1>2, <1>3

\* A release that finds its seat reserved takes one from both sides, any other nothing.
LEMMA ReleaseMoves ==
    ASSUME Typed, NEW x \in Seats, Release(x)
    PROVE  \/ Held' = Held /\ total' = total
           \/ x \in Held /\ Held' = Held \ {x} /\ total' = total - 1
<1>1. CASE seat[x].state = "reserved"
    <2>1. seat' = [seat EXCEPT ![x].state = "released"] /\ total' = total - 1
        BY <1>1 DEF Release
    <2>2. seat \in [Seats -> SeatRows]
        BY DEF Typed, TypeOK
    <2>3. \A y \in Seats : seat'[y].state = IF y = x THEN "released" ELSE seat[y].state
        BY <2>1, <2>2 DEF SeatRows
    <2>4. x \in Held /\ Held' = Held \ {x}
        BY <1>1, <2>3 DEF Held
    <2> QED BY <2>1, <2>4
<1>2. CASE seat[x].state # "reserved"
    BY <1>2 DEF Release, Held
<1> QED BY <1>1, <1>2

LEMMA NextStock ==
    ASSUME SeatConstants, Typed, StockAgrees, Next
    PROVE  StockAgrees' /\ (StockNeverOversold => StockNeverOversold')
<1>0. TypeOK
    BY DEF Typed
<1>1. CASE UNCHANGED <<seat, account, total>>
    BY <1>1, StockMoves DEF Held, StoredEmails, Stored
<1>2. ASSUME NEW r \in Requests, RequestStep(r)
      PROVE  StockAgrees' /\ (StockNeverOversold => StockNeverOversold')
    <2>0. proc[r] \in ProcRows
        BY DEF Typed, Procs
    <2>1. CASE FreeStale(r)
        <3>1. \A x \in proc[r].stale : x \in Seats
            BY <2>0 DEF ProcRows
        <3>2. StoredEmails' = StoredEmails
            BY <2>1 DEF FreeStale, StoredEmails, Stored
        <3> QED BY <1>1, <2>1, <3>1, <3>2, ReleaseMoves, StockMoves DEF FreeStale
    <2>2. CASE Reserve(r)
        <3>1. StoredEmails' = StoredEmails
            BY <2>2 DEF Reserve, StoredEmails, Stored
        <3>2. \/ UNCHANGED <<seat, total>>
              \/ \E x \in Seats \ Held :
                    Held' = Held \union {x} /\ total < AccountMax /\ total' = total + 1
            BY <1>0, <2>2 DEF Reserve, Held, TypeOK
        <3>3. UNCHANGED <<seat, total>> => Held' = Held /\ total' = total
            BY DEF Held
        <3> QED BY <3>1, <3>2, <3>3, StockMoves
    <2>3. CASE \E c \in Challenges : Create(r, c)
        <3>1. \A x \in Seats : seat'[x].state = seat[x].state
            BY <1>0, <2>3 DEF Create, TypeOK, SeatRows
        <3>2. Held' = Held /\ StoredEmails' = StoredEmails /\ total' = total
            BY <2>3, <3>1 DEF Create, Held, StoredEmails, Stored
        <3> QED BY <3>2, StockMoves
    <2> QED BY <1>1, <1>2, <2>1, <2>2, <2>3 DEF RequestStep, Snapshot, ReadStale, ReadShared, Budget, GiveUp
<1>3. ASSUME NEW v \in Verifiers, VerifierStep(v)
      PROVE  StockAgrees' /\ (StockNeverOversold => StockNeverOversold')
    <2>1. CASE Consume(v)
        <3> DEFINE c == challenge[proc[v].challenge]
        <3>1. CASE c.purpose = "signup"
            <4>1. /\ c.seat \in Seats /\ Reserved(c.seat, c.email) /\ ~Stored(c.email)
                  /\ account' = [account EXCEPT ![c.email] = "active"]
                  /\ seat' = [seat EXCEPT ![c.seat].state = "converted"]
                  /\ total' = total
                BY <2>1, <3>1 DEF Consume, MayConsume
            <4>2. c.email \in Emails
                BY <2>1, ConsumesOpen
            <4> HIDE DEF c
            <4>3. c.seat \in Held /\ Held' = Held \ {c.seat}
                BY <1>0, <4>1 DEF Held, Reserved, TypeOK
            <4>4. c.email \in Emails \ StoredEmails /\ StoredEmails' = StoredEmails \union {c.email}
                BY <1>0, <4>1, <4>2 DEF StoredEmails, Stored, TypeOK
            <4> QED BY <4>1, <4>3, <4>4, StockMoves
        <3>2. CASE c.purpose # "signup"
            BY <1>1, <2>1, <3>2 DEF Consume
        <3> QED BY <3>1, <3>2
    <2> QED BY <1>1, <1>3, <2>1 DEF VerifierStep, ReadProved, ConsumeMissed
<1>4. ASSUME CleanerStep
      PROVE  StockAgrees' /\ (StockNeverOversold => StockNeverOversold')
    <2>1. CASE ReleaseNext
        <3>1. \A x \in proc[Cleaner].stale : x \in Seats
            BY DEF Typed, Procs, ProcRows
        <3>2. StoredEmails' = StoredEmails
            BY <2>1 DEF ReleaseNext, StoredEmails, Stored
        <3> QED BY <2>1, <3>1, <3>2, ReleaseMoves, StockMoves DEF ReleaseNext
    <2> QED BY <1>1, <1>4, <2>1 DEF CleanerStep, ListExpired
<1>5. ASSUME NEW e \in Emails, Delete(e) \/ EraseChallenges(e) \/ EraseAccount(e)
      PROVE  StockAgrees' /\ (StockNeverOversold => StockNeverOversold')
    <2>1. CASE Delete(e)
        <3>1. StoredEmails' = StoredEmails /\ Held' = Held /\ total' = total
            BY <1>0, <2>1 DEF Delete, StoredEmails, Stored, Held, TypeOK
        <3> QED BY <3>1, StockMoves
    <2>2. CASE EraseAccount(e)
        <3>1. /\ e \in StoredEmails /\ StoredEmails' = StoredEmails \ {e} /\ Held' = Held
              /\ total' = IF total > 0 THEN total - 1 ELSE total
            BY <1>0, <2>2 DEF EraseAccount, StoredEmails, Stored, Held, TypeOK
        <3> QED BY <3>1, StockMoves
    <2> QED BY <1>1, <1>5, <2>1, <2>2 DEF EraseChallenges
<1> QED BY <1>1, <1>2, <1>3, <1>4, <1>5 DEF Next, Tick, AccountStep

LEMMA InitStock ==
    ASSUME SeatConstants, Init
    PROVE  StockAgrees /\ StockNeverOversold
<1>1. Held = {} /\ StoredEmails = {} /\ total = 0
    BY DEF Init, Held, StoredEmails, Stored
<1>2. Cardinality({}) = 0 /\ AccountMax \in Nat
    BY FS_EmptySet DEF SeatConstants
<1>3. /\ total = Cardinality(Held) + Cardinality(StoredEmails) /\ total <= AccountMax
      /\ Cardinality(StoredEmails) <= AccountMax
    BY <1>1, <1>2
<1> QED BY <1>3 DEF StockAgrees, StockNeverOversold, Held, StoredEmails

\* Types and stock together are inductive: a release keeps the counter a natural
\* number because the counter covers the seat.
Inductive == Typed /\ StockAgrees /\ StockNeverOversold

LEMMA InductiveAlways ==
    ASSUME SeatConstants
    PROVE  Spec => []Inductive
<1>1. Init => Inductive
    BY InitTyped, InitStock DEF Inductive
<1>2. Inductive /\ [Next]_vars => Inductive'
    <2> SUFFICES ASSUME Inductive, [Next]_vars
                 PROVE  Inductive'
        OBVIOUS
    <2>1. CASE Next
        BY <2>1, NextTyped, NextStock DEF Inductive
    <2>2. CASE UNCHANGED vars
        BY <2>2 DEF vars, Inductive, Typed, TypeOK, ActorTyped, StockAgrees, StockNeverOversold, Stored
    <2> QED BY <2>1, <2>2
<1> QED BY <1>1, <1>2, PTL DEF Spec

\* The counter of the account stock is the reserved seats and the stored accounts,
\* however admissions, the cron task, consumptions and deletions interleave and
\* wherever a request ends (registration.ts:14).
THEOREM StockAlwaysAgrees ==
    ASSUME SeatConstants
    PROVE  Spec => []StockAgrees
<1>1. Inductive => StockAgrees
    BY DEF Inductive
<1> QED BY <1>1, InductiveAlways, PTL

\* Neither the seats nor the accounts that come from them ever exceed the stock.
THEOREM StockIsNeverOversold ==
    ASSUME SeatConstants
    PROVE  Spec => []StockNeverOversold
<1>1. Inductive => StockNeverOversold
    BY DEF Inductive
<1> QED BY <1>1, InductiveAlways, PTL

\* No account appears but by converting a seat that is reserved for its own address.
THEOREM AccountsComeFromSeats ==
    ASSUME SeatConstants
    PROVE  Spec => [][AccountFromSeat]_vars
<1>1. Inductive /\ [Next]_vars => [AccountFromSeat]_vars
    <2> SUFFICES ASSUME Inductive, Next, NEW e \in Emails, account[e] = "none", account'[e] # "none"
                 PROVE  \E x \in Seats : Reserved(x, e) /\ seat'[x].state = "converted"
        BY DEF AccountFromSeat
    <2>0. Typed /\ TypeOK
        BY DEF Inductive, Typed
    <2>1. PICK v \in Verifiers : Consume(v)
        BY <2>0 DEF Next, Tick, RequestStep, Snapshot, ReadStale, FreeStale, Reserve, ReadShared, Create,
           Budget, GiveUp, VerifierStep, ReadProved, ConsumeMissed, CleanerStep, ListExpired, ReleaseNext,
           AccountStep, Delete, EraseChallenges, EraseAccount, TypeOK
    <2> DEFINE c == challenge[proc[v].challenge]
    <2>2. /\ c.purpose = "signup" /\ c.seat \in Seats /\ Reserved(c.seat, c.email)
          /\ account' = [account EXCEPT ![c.email] = "active"]
          /\ seat' = [seat EXCEPT ![c.seat].state = "converted"]
        BY <2>0, <2>1 DEF Consume, MayConsume
    <2> HIDE DEF c
    <2>3. c.email = e /\ seat'[c.seat].state = "converted"
        BY <2>0, <2>2 DEF TypeOK
    <2> QED BY <2>2, <2>3
<1> QED BY <1>1, InductiveAlways, PTL DEF Spec
=============================================================================
