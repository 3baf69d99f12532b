---------------------------- MODULE MCProgress ----------------------------
(*****************************************************************************)
(* Small instances of the modules in which something is owed, side by side   *)
(* and under their fairness: the first state picks the instance a behaviour  *)
(* runs.                                                                     *)
(*****************************************************************************)
EXTENDS Integers, TLC

CONSTANTS None, p1, q1, c1, d1, e1

VARIABLES part, v1, v2, v3, v4, v5, v6, v7, v8, v9, v10, v11, v12, v13, v14, v15, v16
vars == <<part, v1, v2, v3, v4, v5, v6, v7, v8, v9, v10, v11, v12, v13, v14, v15, v16>>

Narrow == [wants |-> {"new"}, view |-> 1]
Moves == {[time |-> t, status |-> "up", type |-> "event", title |-> "a"] : t \in 1..2}
Node(m, t) == [m |-> m, rev |-> 1, time |-> t, type |-> "a", off |-> FALSE,
               since |-> 1, patch |-> None]
\* How many items a preview has depends on the settings and the generation.
Items(rev, gen) == 2 - ((rev + gen) % 2)

\* One address whose sign-up expires.
SignUps == INSTANCE SignupSeats WITH
    now <- v1, challenge <- v2, seat <- v3, account <- v4, total <- v5,
    registered <- v6, proc <- v7,
    Emails <- {e1}, Challenges <- {c1}, Seats <- {p1, q1}, NoSeat <- None, Requests <- {1},
    Verifiers <- {2}, Cleaner <- 3, AccountMax <- 1, RegistrationsDay <- 1, Ttl <- 1,
    DayLength <- 2, MaxNow <- 2

\* One tab and its save.
Save == INSTANCE SubscriptionSave WITH
    row <- v1, interests <- v2, view <- v3, counter <- v4, request <- v5, tab <- v6,
    read <- v7, seen <- v8,
    Configs <- {Narrow}, NoConfig <- None, Requests <- {p1}, UserDay <- 2,
    GlobalDay <- 2, Tabs <- {c1}, Elsewhere <- d1, Reads <- {q1}, NoRead <- None,
    NoRequest <- None, NoSnapshot <- None, Preset <- Narrow, MaxEdits <- 2

\* One message and one pass.
Push == INSTANCE PushDelivery WITH
    now <- v1, occ <- v2, able <- v3, wants <- v4, open <- v5, job <- v6, msg <- v7,
    del <- v8, sent <- v9, pass <- v10, edits <- v11, reached <- v12, steady <- v13,
    Upper <- 1, Page <- 1, Passes <- {p1}, SendDay <- 1, Expiry <- 3, DayLen <- 2,
    CallLease <- 1, Backoff <- 1, MaxTime <- 4, MaxEdits <- 2

\* The signals of two publications.
Plan == INSTANCE OccurrencePlan WITH
    now <- v1, ev <- v2, signals <- v3, occ <- v4, del <- v5, start <- v6, job <- v7,
    gen <- v8, pass <- v9, reg <- v10, wants <- v11, edits <- v12, steady <- v13,
    Times <- {1, 3}, Lead <- 1, Grace <- 1, LateWindow <- 1, LateTTL <- 2,
    ChangeTTL <- 2, NewTTL <- 2, Page <- 1, Upper <- 0, MaxPublish <- 2, MaxTime <- 0,
    MaxEdits <- 0

\* Two users, and a notice whose mail cannot be made.
Rounds == INSTANCE MailDispatch WITH
    now <- v1, live <- v2, want <- v3, expanded <- v4, del <- v5, job <- v6,
    batch <- v7, cursor <- v8, mails <- v9, spent <- v10, pass <- v11, edits <- v12,
    passed <- v13, off <- v14, refused <- v15,
    Users <- {1, 2}, Occs <- {"a"}, Due <- [o \in {"a"} |-> 0],
    Expiry <- [o \in {"a"} |-> 4], Prio <- [o \in {"a"} |-> 4], Beats <- {},
    Window <- 0, DayLimit <- 4, DayLen <- 2, SendConcurrency <- 2, Fails <- {"a"},
    MaxTime <- 3, MaxEdits <- 1

\* One version, a reviewer, calls that die.
Publish == INSTANCE Publishing WITH
    now <- v1, latest <- v2, cand <- v3, jobs <- v4, evt <- v5, proj <- v6,
    history <- v7, signals <- v8, pending <- v9, rebuilds <- v10, shown <- v11,
    auto <- v12, paused <- v13, proc <- v14, builder <- v15, moves <- v16,
    Versions <- {1}, Cands <- {1, 2}, Admins <- {"ann"},
    Props <- {[text |-> t, time |-> 1, gone |-> FALSE] : t \in 1..2}, MaxTime <- 2,
    MaxMoves <- 2

\* One builder that may die, and a table of patches that fills.
Snapshot == INSTANCE PublicSnapshot WITH
    now <- v1, proj <- v2, pending <- v3, outbox <- v4, snaps <- v5, patches <- v6,
    pause <- v7, b <- v8, reader <- v9, published <- v10, deaths <- v11, made <- v12,
    told <- v13,
    Ms <- {"m1"}, Facts <- Moves, Builders <- {"job"}, Readers <- {}, MinDays <- 1,
    TailDays <- 1, PatchMax <- 2, Page <- 1, MaxTime <- 3, MaxPublish <- 2, MaxGen <- 3,
    MaxDeaths <- 1, PublishBy <- 2

\* Milestones get lost, and the address is guarded.
Feed == INSTANCE CalendarFeed WITH
    now <- v1, user <- v2, sub <- v3, feed <- v4, pub <- v5, source <- v6, cache <- v7,
    assembling <- v8, req <- v9, changes <- v10, polls <- v11, sent <- v12, last <- v13,
    Ms <- {"m1", "m2", "m3"}, Types <- {"a"}, Requests <- {1}, Isolates <- {"i"},
    Past <- 0, Future <- 3, MaxStale <- 1, GuardMin <- 3, RatioNum <- 1, RatioDen <- 2,
    NodeMax <- 9, Retention <- 1, Times <- {2},
    Start <- {Node("m1", 1), Node("m2", 2), Node("m3", 2)},
    Kinds <- {"lose", "rebuild"}, MaxTime <- 3, MaxChanges <- 2, MaxPolls <- 0

\* One panel, one request at a time.
Manage == INSTANCE CalendarManage WITH
    now <- v1, user <- v2, sess <- v3, sub <- v4, pub <- v5, feed <- v6, used <- v7,
    slot <- v8, busy <- v9, panel <- v10, changes <- v11, keys <- v12, done <- v13,
    shown <- v14,
    Panels <- {"p"}, Slots <- {1}, Isolates <- {"i"}, Total <- Items, PageSize <- 2,
    Fresh <- 0, UserMax <- 2, GlobalMax <- 2, Kinds <- {"crash", "recover"},
    FirstOn <- TRUE, MaxTime <- 0, MaxChanges <- 2, MaxKeys <- 2

\* One complaint and two workers, one of which may die.
Receipts == INSTANCE MailFeedback WITH
    queue <- v1, inbox <- v2, status <- v3, told <- v4, user <- v5, chan <- v6,
    supp <- v7, proc <- v8, deaths <- v9, done <- v10,
    Events <- {"complaint"}, Mails <- {"m"}, Users <- {"u"}, Addresses <- {"a"},
    Workers <- {p1, q1}, MailOf <- [x \in {"complaint"} |-> "m"],
    KindOf <- [x \in {"complaint"} |-> "complained"],
    Suppression <- [x \in {"complaint"} |-> "complaint"],
    Sent <- [m \in {"m"} |-> [user |-> "u", ver |-> 1, addr |-> "a", bound |-> TRUE]],
    First <- [x \in {"u"} |-> "a"], InboxMax <- 3, Margin <- 1, UnmatchedMax <- 2,
    Wall <- 1, TTL <- 1, MaxTries <- 1, MaxVer <- 1, MaxDeaths <- 1

\* One account that confirms while its channel is stopped.
Channel == INSTANCE MailChannel WITH
    user <- v1, supp <- v2, sub <- v3, chan <- v4, last <- v5, used <- v6, open <- v7,
    closing <- v8, renewing <- v9, tab <- v10, req <- v11, cnt <- v12, stops <- v13,
    Users <- {c1}, Tabs <- {c1}, Owner <- [t \in {c1} |-> c1], SeatsMax <- 1,
    RoutineMax <- 1, UserDay <- 1, GlobalDay <- 1, Saved <- [t \in {c1} |-> 1],
    MaxVer <- 1, MaxSaves <- 1, MaxStops <- 1, MaxRenewals <- 0, MaxPuts <- 2

\* One device replaces its recovery code.
Rotation == INSTANCE RecoveryRotation WITH
    creds <- v1, rotations <- v2, proofs <- v3, alive <- v4, recent <- v5, page <- v6,
    calls <- v7, changes <- v8, kept <- v9,
    Pages <- {p1}, SavedFirst <- TRUE, MaxCalls <- 3, MaxProofs <- 1, MaxChanges <- 1

\* Two browsers of an account, one of them restricted.
Account == INSTANCE AccountMaintenance WITH
    user <- v1, session <- v2, pend <- v3, used <- v4, challenges <- v5, proofs <- v6,
    page <- v7, calls <- v8, changes <- v9, faults <- v10,
    Pages <- {p1, q1}, Users <- {e1}, Addrs <- {1, 2}, Owner <- [x \in {p1, q1} |-> e1],
    First <- [x \in {e1} |-> 1], Restricted <- {q1}, Prepared <- 2,
    Kinds <- {"change", "delete", "revoke"}, Day <- 1, MaxCalls <- 2, MaxChanges <- 0,
    MaxFaults <- 1

ASSUME Parameters ==
    /\ SignUps!SeatConstants
    /\ Save!StoreConstants
    /\ Push!Bounds
    /\ Plan!Bounds
    /\ Rounds!Bounds
    /\ Snapshot!SnapshotAssumption
    /\ Feed!FeedAssumption
    /\ Manage!ManageAssumption
    /\ Receipts!FeedbackAssumption
    /\ Channel!ChannelAssumption
    /\ Rotation!RotationAssumption
    /\ Account!MaintenanceAssumption

\* The variables a part does not use keep their first value.
Unused16 == v16 = 0
Unused15 == v15 = 0 /\ Unused16
Unused14 == v14 = 0 /\ Unused15
Unused11 == v11 = 0 /\ v12 = 0 /\ v13 = 0 /\ Unused14
Unused10 == v10 = 0 /\ Unused11
Unused9 == v9 = 0 /\ Unused10
Unused8 == v8 = 0 /\ Unused9

Init ==
    \/ part = "seats" /\ SignUps!Init /\ Unused8
    \/ part = "save" /\ Save!Init /\ Unused9
    \/ part = "push" /\ Push!Init /\ Unused14
    \/ part = "plan" /\ Plan!Init /\ Unused14
    \/ part = "rounds" /\ Rounds!Init /\ Unused16
    \/ part = "publish" /\ Publish!Init
    \/ part = "snapshot" /\ Snapshot!Init /\ Unused14
    \/ part = "feed" /\ Feed!Init /\ Unused14
    \/ part = "manage" /\ Manage!Init /\ Unused15
    \/ part = "receipts" /\ Receipts!Init /\ Unused11
    \/ part = "channel" /\ Channel!Init /\ Unused14
    \/ part = "rotation" /\ Rotation!Init /\ Unused10
    \/ part = "account" /\ Account!Init /\ Unused11

Next ==
    /\ UNCHANGED part
    /\ \/ part = "seats" /\ SignUps!Next /\ UNCHANGED <<v8, v9, v10, v11, v12, v13, v14, v15, v16>>
       \/ part = "save" /\ Save!Next /\ UNCHANGED <<v9, v10, v11, v12, v13, v14, v15, v16>>
       \/ part = "push" /\ Push!Next /\ UNCHANGED <<v14, v15, v16>>
       \/ part = "plan" /\ Plan!Next /\ UNCHANGED <<v14, v15, v16>>
       \/ part = "rounds" /\ Rounds!Steps /\ UNCHANGED v16
       \/ part = "publish" /\ Publish!Next
       \/ part = "snapshot" /\ Snapshot!Next /\ UNCHANGED <<v14, v15, v16>>
       \/ part = "feed" /\ Feed!Next /\ UNCHANGED <<v14, v15, v16>>
       \/ part = "manage" /\ Manage!Next /\ UNCHANGED <<v15, v16>>
       \/ part = "receipts" /\ (Receipts!Next /\ Receipts!Timely) /\ UNCHANGED <<v11, v12, v13, v14, v15, v16>>
       \/ part = "channel" /\ Channel!Next /\ UNCHANGED <<v14, v15, v16>>
       \/ part = "rotation" /\ Rotation!Next /\ UNCHANGED <<v10, v11, v12, v13, v14, v15, v16>>
       \/ part = "account" /\ Account!Next /\ UNCHANGED <<v11, v12, v13, v14, v15, v16>>

\* The variables a part does not use stay as they are.
Kept ==
    /\ UNCHANGED part
    /\ part \in {"seats"} => UNCHANGED <<v8, v9, v10, v11, v12, v13, v14, v15, v16>>
    /\ part \in {"save"} => UNCHANGED <<v9, v10, v11, v12, v13, v14, v15, v16>>
    /\ part \in {"rotation"} => UNCHANGED <<v10, v11, v12, v13, v14, v15, v16>>
    /\ part \in {"receipts", "account"} => UNCHANGED <<v11, v12, v13, v14, v15, v16>>
    /\ part \in {"push", "plan", "snapshot", "feed", "channel"} => UNCHANGED <<v14, v15, v16>>
    /\ part \in {"manage"} => UNCHANGED <<v15, v16>>
    /\ part \in {"rounds"} => UNCHANGED v16

\* The fairness of each part is its module's. A behaviour stays in one part, so that
\* fairness of the first action of every part is fairness of their disjunction.
Weak1 ==
    \/ part = "seats" /\ SignUps!CleanerStep
    \/ part = "save" /\ Save!Handle(p1)
    \/ part = "push" /\ Push!Tick
    \/ part = "plan" /\ Plan!ReadSignal
    \/ part = "rounds" /\ Rounds!Pass
    \/ part = "publish" /\ Publish!Job
    \/ part = "snapshot" /\ Snapshot!Build("job")
    \/ part = "feed" /\ Feed!Serve(1)
    \/ part = "manage" /\ Manage!Serve(1)
    \/ part = "receipts" /\ Receipts!Work(p1) /\ Receipts!Timely
    \/ part = "channel" /\ Channel!Handle(c1)
    \/ part = "rotation" /\ (Rotation!Answer(p1) \/ Rotation!Lose(p1))
    \/ part = "account" /\ (Account!Answer(p1) \/ Account!Lose(p1))

Weak2 ==
    \/ part = "seats" /\ SignUps!GoesOn(1)
    \/ part = "save" /\ Save!Hear(p1)
    \/ part = "push" /\ Push!Maintain
    \/ part = "rounds" /\ Rounds!Tick
    \/ part = "publish" /\ Publish!Build
    \/ part = "snapshot" /\ Snapshot!Tick
    \/ part = "feed" /\ Feed!Tick
    \/ part = "manage" /\ Manage!Dropped(1)
    \/ part = "receipts" /\ Receipts!Work(q1) /\ Receipts!Timely
    \/ part = "channel" /\ Channel!Arrive(c1)
    \/ part = "account" /\ (Account!Answer(q1) \/ Account!Lose(q1))

Weak3 ==
    \/ part = "save" /\ Save!Look(q1)
    \/ part = "rounds" /\ Rounds!Expand("a")
    \/ part = "publish" /\ Publish!Tick
    \/ part = "feed" /\ Feed!SourceOk
    \/ part = "manage" /\ Manage!Arrive(1, "i")
    \/ part = "receipts" /\ Receipts!Tick /\ Receipts!Timely

Weak4 ==
    \/ part = "save" /\ Save!ReconcileBack(q1)
    \/ part = "rounds" /\ Rounds!ExpandOver("a")
    \/ part = "publish" /\ Publish!Wake(1)
    \/ part = "feed" /\ Feed!PollAgain(1)
    \/ part = "manage" /\ Manage!Work("p")

Weak5 ==
    \/ part = "save" /\ Save!RefreshBack(q1, p1)
    \/ part = "manage" /\ Manage!Late("p")

Weak6 ==
    \/ part = "manage" /\ Manage!retry("p")

Strong1 ==
    \/ part = "plan" /\ Plan!ReadNodes
    \/ part = "publish" /\ Publish!Extract(1)
    \/ part = "receipts" /\ Receipts!Reconcile(p1, "complaint") /\ Receipts!Timely

Strong2 ==
    \/ part = "plan" /\ Plan!InvalidateOld
    \/ part = "receipts" /\ Receipts!Reconcile(q1, "complaint") /\ Receipts!Timely

Strong3 ==
    \/ part = "plan" /\ Plan!CommitSignal

Spec ==
    /\ Init /\ [][Next]_vars
    /\ WF_vars(Kept /\ Weak1) /\ WF_vars(Kept /\ Weak2)
    /\ WF_vars(Kept /\ Weak3) /\ WF_vars(Kept /\ Weak4)
    /\ WF_vars(Kept /\ Weak5) /\ WF_vars(Kept /\ Weak6)
    /\ SF_vars(Kept /\ Strong1) /\ SF_vars(Kept /\ Strong2) /\ SF_vars(Kept /\ Strong3)

-----------------------------------------------------------------------------
\* What a server owes.
OwedFirst ==
    \/ part = "seats" /\ SignUps!Expired(p1)
    \/ part = "push" /\ Push!Unsettled(1)
    \/ part = "plan" /\ Plan!Unheard(1)
    \/ part = "rounds" /\ Rounds!Unsettled("a", 1)
    \/ part = "publish" /\ Publish!Unfinished(1)
    \/ part = "snapshot" /\ Snapshot!Owed
    \/ part = "feed" /\ Feed!Behind
    \/ part = "receipts" /\ Receipts!Unfinished("complaint")

OwedSecond ==
    \/ part = "seats" /\ SignUps!Expired(q1)
    \/ part = "plan" /\ Plan!Unheard(2)
    \/ part = "rounds" /\ Rounds!Unsettled("a", 2)
    \/ part = "snapshot" /\ v7

\* Seats of expired sign-ups return, push messages settle, signals are heard, deliveries
\* end while their switches are on, decided versions are published, the snapshot catches
\* up and its pause ends, the address serves the current calendar again, and stored
\* receipts are finished, whoever died and whatever was lost before (the leads-to
\* properties of the modules).
WorkEnds == (OwedFirst ~> ~OwedFirst) /\ (OwedSecond ~> ~OwedSecond)

\* What a page waits for.
WaitFirst ==
    \/ part = "save" /\ Save!Saving(c1)
    \/ part = "manage" /\ Manage!Unclosed("p")
    \/ part = "channel" /\ Channel!Busy(c1)
    \/ part = "rotation" /\ Rotation!Busy(p1)
    \/ part = "account" /\ Account!Busy(p1)

WaitSecond ==
    \/ part = "account" /\ Account!Busy(q1)

\* A page that waits gets its buttons back: a save, an operation on the address, the mail
\* panel, a new recovery code, a change of the account, also when the request, the answer
\* or the identity of the page is lost.
WaitsEnd == (WaitFirst ~> ~WaitFirst) /\ (WaitSecond ~> ~WaitSecond)
=============================================================================
