---------------------------- MODULE MCAccounts ----------------------------
(*****************************************************************************)
(* Small instances of the modules about accounts, side by side: the first    *)
(* state picks the instance a behaviour runs.                                *)
(*****************************************************************************)
EXTENDS Integers, TLC

CONSTANTS None, p1, q1, c1, d1, s1, t1, u1, z1, w1, e1, f1, old, new, other

VARIABLES part, v1, v2, v3, v4, v5, v6, v7, v8, v9, v10
vars == <<part, v1, v2, v3, v4, v5, v6, v7, v8, v9, v10>>

\* One address: its sign-ups one after another, a consumption and the cron task; seats
\* expire.
SignUps == INSTANCE SignupSeats WITH
    now <- v1, challenge <- v2, seat <- v3, account <- v4, total <- v5,
    registered <- v6, proc <- v7,
    Emails <- {e1}, Challenges <- {c1, d1}, Seats <- {s1, t1}, NoSeat <- None,
    Requests <- {p1}, Verifiers <- {z1}, Cleaner <- w1, AccountMax <- 2,
    RegistrationsDay <- 1, Ttl <- 1, DayLength <- 2, MaxNow <- 1

\* Two addresses for the last place of the stock.
Stock == INSTANCE SignupSeats WITH
    now <- v1, challenge <- v2, seat <- v3, account <- v4, total <- v5,
    registered <- v6, proc <- v7,
    Emails <- {e1, f1}, Challenges <- {c1, d1}, Seats <- {s1, t1}, NoSeat <- None,
    Requests <- {p1, q1}, Verifiers <- {z1}, Cleaner <- w1, AccountMax <- 1,
    RegistrationsDay <- 1, Ttl <- 1, DayLength <- 2, MaxNow <- 0

\* Two guesses at once against one challenge and its resends.
Codes == INSTANCE AuthChallenge WITH
    challenge <- v1, order <- v2, resends <- v3, epoch <- v4, session <- v5,
    wrong <- v6, proc <- v7,
    Challenges <- {c1}, NoChallenge <- None, Keys <- {s1, t1}, Verifiers <- {p1, q1},
    Resenders <- {e1}, OtpAttempts <- 2, EmailVerifyHour <- 2, PendingPerUser <- 1,
    MaxEpoch <- 1, MaxSessions <- 2

\* Two challenges of one address, guessed at by two requests.
Hour == INSTANCE AuthChallenge WITH
    challenge <- v1, order <- v2, resends <- v3, epoch <- v4, session <- v5,
    wrong <- v6, proc <- v7,
    Challenges <- {c1, d1}, NoChallenge <- None, Keys <- {s1}, Verifiers <- {p1, q1},
    Resenders <- {}, OtpAttempts <- 2, EmailVerifyHour <- 2, PendingPerUser <- 1,
    MaxEpoch <- 0, MaxSessions <- 2

\* Two requests for one address over a day of three ticks and into the next.
Intents == INSTANCE AuthQuota WITH
    clock <- v1, rows <- v2, sent <- v3, request <- v4,
    Emails <- {e1}, Requests <- {p1, q1}, Kinds <- {"auth", "recent", "resend"},
    Cooldown <- 1, OtpTtl <- 2, AttemptWindow <- 1, IntentsDay <- 2, PerEmail <- 2,
    ChallengesMax <- 2, DayLength <- 3, MaxLag <- 1, MaxTime <- 4

\* The challenges two addresses have open at once.
Open == INSTANCE AuthQuota WITH
    clock <- v1, rows <- v2, sent <- v3, request <- v4,
    Emails <- {e1, f1}, Requests <- {p1, q1}, Kinds <- {"auth", "recent"}, Cooldown <- 1,
    OtpTtl <- 2, AttemptWindow <- 1, IntentsDay <- 4, PerEmail <- 2, ChallengesMax <- 3,
    DayLength <- 8, MaxLag <- 1, MaxTime <- 1

\* Three devices, two of them activated at once; no recovery code.
Devices == INSTANCE UserSessions WITH
    clock <- v1, user <- v2, session <- v3, codes <- v4, channel <- v5, request <- v6,
    stopped <- v7,
    Sessions <- {s1, t1, u1}, NoSession <- None, Requests <- {p1, q1}, Surfaces <- {},
    ActiveMax <- 2, IdleTtl <- 2, PendingTtl <- 1, AbsoluteTtl <- 3, RenewInterval <- 1,
    MaxLag <- 0, MaxTime <- 1, MaxEpoch <- 0, MaxCodes <- 0

\* Two devices for one place; a request may commit a tick after it started.
Slow == INSTANCE UserSessions WITH
    clock <- v1, user <- v2, session <- v3, codes <- v4, channel <- v5, request <- v6,
    stopped <- v7,
    Sessions <- {s1, t1}, NoSession <- None, Requests <- {p1, q1}, Surfaces <- {},
    ActiveMax <- 1, IdleTtl <- 2, PendingTtl <- 1, AbsoluteTtl <- 3, RenewInterval <- 1,
    MaxLag <- 1, MaxTime <- 2, MaxEpoch <- 1, MaxCodes <- 1

\* Stops and recovery logins at once, with one code; time stands still.
Recovery == INSTANCE UserSessions WITH
    clock <- v1, user <- v2, session <- v3, codes <- v4, channel <- v5, request <- v6,
    stopped <- v7,
    Sessions <- {s1, t1, u1}, NoSession <- None, Requests <- {p1, q1}, Surfaces <- {},
    ActiveMax <- 1, IdleTtl <- 1, PendingTtl <- 1, AbsoluteTtl <- 1, RenewInterval <- 1,
    MaxLag <- 0, MaxTime <- 0, MaxEpoch <- 2, MaxCodes <- 1

\* Two sessions of an account that replaces and uses its codes.
Saving == INSTANCE UserSessions WITH
    clock <- v1, user <- v2, session <- v3, codes <- v4, channel <- v5, request <- v6,
    stopped <- v7,
    Sessions <- {s1, t1}, NoSession <- None, Requests <- {p1, q1}, Surfaces <- {"mail"},
    ActiveMax <- 1, IdleTtl <- 1, PendingTtl <- 1, AbsoluteTtl <- 1, RenewInterval <- 1,
    MaxLag <- 0, MaxTime <- 0, MaxEpoch <- 2, MaxCodes <- 3

\* Two devices of one account replace its recovery code.
Rotation == INSTANCE RecoveryRotation WITH
    creds <- v1, rotations <- v2, proofs <- v3, alive <- v4, recent <- v5, page <- v6,
    calls <- v7, changes <- v8, kept <- v9,
    Pages <- {p1, q1}, SavedFirst <- TRUE, MaxCalls <- 4, MaxProofs <- 2, MaxChanges <- 0

\* One device whose answers arrive late.
Late == INSTANCE RecoveryRotation WITH
    creds <- v1, rotations <- v2, proofs <- v3, alive <- v4, recent <- v5, page <- v6,
    calls <- v7, changes <- v8, kept <- v9,
    Pages <- {p1}, SavedFirst <- TRUE, MaxCalls <- 4, MaxProofs <- 1, MaxChanges <- 1

\* An account without a code, and identities that change.
NewCode == INSTANCE RecoveryRotation WITH
    creds <- v1, rotations <- v2, proofs <- v3, alive <- v4, recent <- v5, page <- v6,
    calls <- v7, changes <- v8, kept <- v9,
    Pages <- {p1, q1}, SavedFirst <- FALSE, MaxCalls <- 3, MaxProofs <- 1, MaxChanges <- 1

\* One page collects its proofs for a change of address.
Proofs == INSTANCE AccountMaintenance WITH
    user <- v1, session <- v2, pend <- v3, used <- v4, challenges <- v5, proofs <- v6,
    page <- v7, calls <- v8, changes <- v9, faults <- v10,
    Pages <- {p1}, Users <- {e1}, Addrs <- {old, new}, Owner <- [x \in {p1} |-> e1],
    First <- [x \in {e1} |-> old], Restricted <- {}, Prepared <- None,
    Kinds <- {"otp", "verify"}, Day <- 1, MaxCalls <- 3, MaxChanges <- 1, MaxFaults <- 0

\* Two browsers change, delete and leave one account.
Account == INSTANCE AccountMaintenance WITH
    user <- v1, session <- v2, pend <- v3, used <- v4, challenges <- v5, proofs <- v6,
    page <- v7, calls <- v8, changes <- v9, faults <- v10,
    Pages <- {p1, q1}, Users <- {e1}, Addrs <- {old, new}, Owner <- [x \in {p1, q1} |-> e1],
    First <- [x \in {e1} |-> old], Restricted <- {}, Prepared <- new,
    Kinds <- {"change", "delete", "revoke"}, Day <- 2, MaxCalls <- 3, MaxChanges <- 0,
    MaxFaults <- 1

\* Two accounts, a browser each, move to one address.
Two == INSTANCE AccountMaintenance WITH
    user <- v1, session <- v2, pend <- v3, used <- v4, challenges <- v5, proofs <- v6,
    page <- v7, calls <- v8, changes <- v9, faults <- v10,
    Pages <- {z1, w1}, Users <- {e1, f1}, Addrs <- {old, new, other},
    Owner <- [x \in {z1, w1} |-> IF x = z1 THEN e1 ELSE f1],
    First <- [x \in {e1, f1} |-> IF x = e1 THEN old ELSE other], Restricted <- {},
    Prepared <- new, Kinds <- {"change", "delete"}, Day <- 2, MaxCalls <- 4,
    MaxChanges <- 0, MaxFaults <- 1

ASSUME Parameters ==
    /\ SignUps!SeatConstants
    /\ Stock!SeatConstants
    /\ Codes!ChallengeConstants
    /\ Hour!ChallengeConstants
    /\ Intents!QuotaConstants
    /\ Open!QuotaConstants
    /\ Devices!SessionConstants
    /\ Slow!SessionConstants
    /\ Recovery!SessionConstants
    /\ Saving!SessionConstants
    /\ Rotation!RotationAssumption
    /\ Late!RotationAssumption
    /\ NewCode!RotationAssumption
    /\ Proofs!MaintenanceAssumption
    /\ Account!MaintenanceAssumption
    /\ Two!MaintenanceAssumption

\* The variables a part does not use keep their first value.
Unused10 == v10 = 0
Unused8 == v8 = 0 /\ v9 = 0 /\ Unused10
Unused5 == v5 = 0 /\ v6 = 0 /\ v7 = 0 /\ Unused8

Init ==
    \/ part = "seats" /\ SignUps!Init /\ Unused8
    \/ part = "stock" /\ Stock!Init /\ Unused8
    \/ part = "codes" /\ Codes!Init /\ Unused8
    \/ part = "hour" /\ Hour!Init /\ Unused8
    \/ part = "intents" /\ Intents!Init /\ Unused5
    \/ part = "open" /\ Open!Init /\ Unused5
    \/ part = "devices" /\ Devices!Init /\ Unused8
    \/ part = "slow" /\ Slow!Init /\ Unused8
    \/ part = "recovery" /\ Recovery!Init /\ Unused8
    \/ part = "saving" /\ Saving!Init /\ Unused8
    \/ part = "rotation" /\ Rotation!Init /\ Unused10
    \/ part = "late" /\ Late!Init /\ Unused10
    \/ part = "first" /\ NewCode!Init /\ Unused10
    \/ part = "proofs" /\ Proofs!Init
    \/ part = "account" /\ Account!Init
    \/ part = "two" /\ Two!Init

Next ==
    /\ UNCHANGED part
    /\ \/ part = "seats" /\ SignUps!Next /\ UNCHANGED <<v8, v9, v10>>
       \/ part = "stock" /\ Stock!Next /\ UNCHANGED <<v8, v9, v10>>
       \/ part = "codes" /\ Codes!Next /\ UNCHANGED <<v8, v9, v10>>
       \/ part = "hour" /\ Hour!Next /\ UNCHANGED <<v8, v9, v10>>
       \/ part = "intents" /\ Intents!Next /\ UNCHANGED <<v5, v6, v7, v8, v9, v10>>
       \/ part = "open" /\ Open!Next /\ UNCHANGED <<v5, v6, v7, v8, v9, v10>>
       \/ part = "devices" /\ Devices!Next /\ UNCHANGED <<v8, v9, v10>>
       \/ part = "slow" /\ Slow!Next /\ UNCHANGED <<v8, v9, v10>>
       \/ part = "recovery" /\ Recovery!Next /\ UNCHANGED <<v8, v9, v10>>
       \/ part = "saving" /\ Saving!Next /\ UNCHANGED <<v8, v9, v10>>
       \/ part = "rotation" /\ Rotation!Next /\ UNCHANGED <<v10>>
       \/ part = "late" /\ Late!Next /\ UNCHANGED <<v10>>
       \/ part = "first" /\ NewCode!Next /\ UNCHANGED <<v10>>
       \/ part = "proofs" /\ Proofs!Next
       \/ part = "account" /\ Account!Next
       \/ part = "two" /\ Two!Next

Spec == Init /\ [][Next]_vars

\* The processes, the challenges and the seats or keys of an instance are alike.
Alike == Permutations({p1, q1}) \union Permutations({c1, d1}) \union Permutations({s1, t1})

-----------------------------------------------------------------------------
\* Seats of the sign-up (SignupSeats): the counter of the stock is the reserved seats and
\* the stored accounts, never more than the limit, and an account comes from a seat of its
\* own address, whatever expires, is released twice or is converted in between.
SeatsAreSound ==
    /\ [](part = "seats" => SignUps!SeatsHold) /\ [](part = "stock" => Stock!SeatsHold)
    /\ [][part = "seats" => SignUps!AccountFromSeat]_vars
    /\ [][part = "stock" => Stock!AccountFromSeat]_vars

\* Codes (AuthChallenge): every wrong guess is counted and bounded, for the challenge and
\* for the hour, each session comes from one code in force, at the epoch of its commit,
\* within the limit of pending sessions, and a key rotates a code once.
CodesAreSound ==
    /\ [](part = "codes" => Codes!CodesHold) /\ [](part = "hour" => Hour!CodesHold)
    /\ [][part = "codes" => Codes!NewSessionAtEpoch]_vars

\* Quotas (AuthQuota): no interleaving of reads and writes beats the cooldown, the day or
\* the open challenges, and the read side decides as the write side does.
QuotasAreSound == [](part = "intents" => Intents!QuotasHold) /\ [](part = "open" => Open!QuotasHold)

\* Sessions (UserSessions): at most the allowed devices, one session for a recovery code,
\* restricted until a new code is saved; the dead stay dead, a stop that says stopped
\* found everything closed, and a saved code goes only by being used.
SessionsAreSound ==
    /\ [](part = "devices" => Devices!SessionsHold) /\ [](part = "slow" => Slow!SessionsHold)
    /\ [](part = "recovery" => Recovery!SessionsHold) /\ [](part = "saving" => Saving!SessionsHold)
    /\ [][part = "devices" => Devices!SessionStep]_vars
    /\ [][part = "slow" => Slow!SessionStep]_vars
    /\ [][part = "recovery" => Recovery!SessionStep]_vars
    /\ [][part = "saving" => Saving!SessionStep]_vars

\* Replacing the recovery code (RecoveryRotation): one current code, the newest, works
\* until the step that saves the next, each delivery costs one proof, and a page shows a
\* code only to its own identity.
RotationIsSound ==
    /\ [](part = "rotation" => Rotation!RotationHolds)
    /\ [](part = "late" => Late!RotationHolds) /\ [](part = "first" => NewCode!RotationHolds)
    /\ [][part = "rotation" => Rotation!WorksUntilReplaced]_vars
    /\ [][part = "late" => Late!WorksUntilReplaced]_vars

\* Change of address and deletion (AccountMaintenance): proofs on a page belong to its
\* target and session, no two accounts share an address, a deletion is final and a change
\* leaves no session of before.
MaintenanceIsSound ==
    /\ [](part = "proofs" => Proofs!MaintenanceHolds) /\ [](part = "two" => Two!MaintenanceHolds)
    /\ [](part = "account" => Account!MaintenanceHolds)
    /\ [][part = "account" => Account!MaintenanceStep]_vars
    /\ [][part = "two" => Two!MaintenanceStep]_vars
=============================================================================
