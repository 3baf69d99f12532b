---------------------------- MODULE MCServices ----------------------------
(*****************************************************************************)
(* Small instances of the modules about subscriptions, notices and           *)
(* calendars, side by side: the first state picks the instance a behaviour   *)
(* runs.                                                                     *)
(*****************************************************************************)
EXTENDS Integers, TLC

CONSTANTS None, p1, q1, r1, c1, d1, e1, f1, i1

VARIABLES part, v1, v2, v3, v4, v5, v6, v7, v8, v9, v10, v11, v12, v13, v14, v15, v16
vars == <<part, v1, v2, v3, v4, v5, v6, v7, v8, v9, v10, v11, v12, v13, v14, v15, v16>>

Narrow == [wants |-> {"new"}, view |-> 1]
Wide == [wants |-> {"new", "late"}, view |-> 2]

Fact(t, s) == [time |-> t, status |-> s, type |-> "event", title |-> "a"]
Moves == {Fact(2, "up"), Fact(1, "up")}
Changes == {Fact(4, "up"), Fact(1, "up"), Fact(0, "postponed"), Fact(4, "cancelled"),
           [Fact(1, "up") EXCEPT !.type = "other"], [Fact(1, "up") EXCEPT !.title = "b"]}
Node(m, t) == [m |-> m, rev |-> 1, time |-> t, type |-> "a", off |-> FALSE,
               since |-> 1, patch |-> None]

\* How many items a preview has depends on the settings and the generation.
Items(rev, gen) == 2 - ((rev + gen) % 2)

\* A mail of the first address, bound to its account or not; events by their name.
SentTo(bound) == [m \in {"m"} |-> [user |-> "u", ver |-> 1, addr |-> "a", bound |-> bound]]
Receipt(x) == CASE x = "complaint" -> "complained" [] x = "bounce" -> "bounced"
                [] x = "refusal" -> "rejected" [] x = "late" -> "delivered"
Reason(x) == CASE x = "complaint" -> "complaint" [] x = "bounce" -> "hard_bounce"
                [] x = "refusal" -> "policy" [] x = "late" -> None

\* Three saves of two configs, of any age, and other changes that are counted.
Cloud == INSTANCE SubscriptionStore WITH
    row <- v1, interests <- v2, view <- v3, counter <- v4, request <- v5,
    Configs <- {Narrow, Wide}, NoConfig <- None, Requests <- {p1, q1, r1},
    UserDay <- 3, GlobalDay <- 4

\* One tab, another device, one read at a time.
Save == INSTANCE SubscriptionSave WITH
    row <- v1, interests <- v2, view <- v3, counter <- v4, request <- v5, tab <- v6,
    read <- v7, seen <- v8,
    Configs <- {Narrow, Wide}, NoConfig <- None, Requests <- {p1, q1}, UserDay <- 2,
    GlobalDay <- 2, Tabs <- {c1}, Elsewhere <- d1, Reads <- {i1}, NoRead <- None,
    NoRequest <- None, NoSnapshot <- None, Preset <- Narrow, MaxEdits <- 1

\* One tab, two reads whose answers cross with a save.
Cross == INSTANCE SubscriptionSave WITH
    row <- v1, interests <- v2, view <- v3, counter <- v4, request <- v5, tab <- v6,
    read <- v7, seen <- v8,
    Configs <- {Narrow, Wide}, NoConfig <- None, Requests <- {r1}, UserDay <- 2,
    GlobalDay <- 2, Tabs <- {c1}, Elsewhere <- d1, Reads <- {p1, q1}, NoRead <- None,
    NoRequest <- None, NoSnapshot <- None, Preset <- Narrow, MaxEdits <- 2

\* Two accounts and the places of the site.
Places == INSTANCE PushBindings WITH
    now <- v1, row <- v2, used <- v3, open <- v4, epoch <- v5, req <- v6, calls <- v7,
    inbox <- v8, ids <- v9,
    Users <- {c1, d1}, Endpoints <- {e1, f1}, Requests <- {p1, q1, r1}, UserMax <- 1,
    TotalMax <- 2, PendingMax <- 1, ActiveMax <- 1, MaxAttempts <- 1, NewDay <- 1,
    SendDay <- 2, TestDay <- 1, Ttl <- 1, Cooldown <- 1, Lease <- 1, Grace <- 1,
    MaxTime <- 1, MaxIds <- 4

\* One device that is paused, resumed, tested and registered again.
Proof == INSTANCE PushBindings WITH
    now <- v1, row <- v2, used <- v3, open <- v4, epoch <- v5, req <- v6, calls <- v7,
    inbox <- v8, ids <- v9,
    Users <- {c1}, Endpoints <- {e1}, Requests <- {p1, q1}, UserMax <- 1, TotalMax <- 1,
    PendingMax <- 1, ActiveMax <- 1, MaxAttempts <- 2, NewDay <- 2, SendDay <- 3,
    TestDay <- 1, Ttl <- 2, Cooldown <- 1, Lease <- 1, Grace <- 1, MaxTime <- 2,
    MaxIds <- 4

\* The pages of one plan, expanded by two passes; nothing is sent.
Fanout == INSTANCE PushDelivery WITH
    now <- v1, occ <- v2, able <- v3, wants <- v4, open <- v5, job <- v6, msg <- v7,
    del <- v8, sent <- v9, pass <- v10, edits <- v11, reached <- v12, steady <- v13,
    Upper <- 3, Page <- 1, Passes <- {p1, q1}, SendDay <- 0, Expiry <- 1, DayLen <- 4,
    CallLease <- 1, Backoff <- 1, MaxTime <- 1, MaxEdits <- 1

\* One message from its expansion to its end.
Push == INSTANCE PushDelivery WITH
    now <- v1, occ <- v2, able <- v3, wants <- v4, open <- v5, job <- v6, msg <- v7,
    del <- v8, sent <- v9, pass <- v10, edits <- v11, reached <- v12, steady <- v13,
    Upper <- 1, Page <- 1, Passes <- {p1, q1}, SendDay <- 1, Expiry <- 3, DayLen <- 2,
    CallLease <- 1, Backoff <- 1, MaxTime <- 4, MaxEdits <- 1

\* Two publications that move an event; nobody subscribes.
Plan == INSTANCE OccurrencePlan WITH
    now <- v1, ev <- v2, signals <- v3, occ <- v4, del <- v5, start <- v6, job <- v7,
    gen <- v8, pass <- v9, reg <- v10, wants <- v11, edits <- v12, steady <- v13,
    Times <- {1, 3}, Lead <- 1, Grace <- 1, LateWindow <- 1, LateTTL <- 2,
    ChangeTTL <- 2, NewTTL <- 2, Page <- 1, Upper <- 0, MaxPublish <- 2, MaxTime <- 1,
    MaxEdits <- 0

\* Two publications and the expansion of their plans to two users who stay as they are.
Audience == INSTANCE OccurrencePlan WITH
    now <- v1, ev <- v2, signals <- v3, occ <- v4, del <- v5, start <- v6, job <- v7,
    gen <- v8, pass <- v9, reg <- v10, wants <- v11, edits <- v12, steady <- v13,
    Times <- {2}, Lead <- 1, Grace <- 2, LateWindow <- 1, LateTTL <- 2, ChangeTTL <- 2,
    NewTTL <- 2, Page <- 1, Upper <- 2, MaxPublish <- 2, MaxTime <- 1, MaxEdits <- 0

\* Two users, two notices; the second makes the first needless.
Rounds == INSTANCE MailDispatch WITH
    now <- v1, live <- v2, want <- v3, expanded <- v4, del <- v5, job <- v6,
    batch <- v7, cursor <- v8, mails <- v9, spent <- v10, pass <- v11, edits <- v12,
    passed <- v13, off <- v14, refused <- v15,
    Users <- {1, 2}, Occs <- {"a", "b"},
    Due <- [o \in {"a", "b"} |-> IF o = "a" THEN 0 ELSE 1],
    Expiry <- [o \in {"a", "b"} |-> IF o = "b" THEN 3 ELSE 2],
    Prio <- [o \in {"a", "b"} |-> IF o = "b" THEN 2 ELSE 5], Beats <- {<<"b", "a">>},
    Window <- 1, DayLimit <- 1, DayLen <- 4, SendConcurrency <- 2, Fails <- {},
    MaxTime <- 2, MaxEdits <- 1

\* Three users and one mail a day.
Turns == INSTANCE MailDispatch WITH
    now <- v1, live <- v2, want <- v3, expanded <- v4, del <- v5, job <- v6,
    batch <- v7, cursor <- v8, mails <- v9, spent <- v10, pass <- v11, edits <- v12,
    passed <- v13, off <- v14, refused <- v15,
    Users <- {1, 2, 3}, Occs <- {"a", "b"},
    Due <- [o \in {"a", "b"} |-> IF o = "a" THEN 0 ELSE 1],
    Expiry <- [o \in {"a", "b"} |-> 4], Prio <- [o \in {"a", "b"} |-> 4], Beats <- {},
    Window <- 0, DayLimit <- 1, DayLen <- 1, SendConcurrency <- 2, Fails <- {},
    MaxTime <- 2, MaxEdits <- 1

\* Two versions of an article, three candidates, a reviewer.
Publish == INSTANCE Publishing WITH
    now <- v1, latest <- v2, cand <- v3, jobs <- v4, evt <- v5, proj <- v6,
    history <- v7, signals <- v8, pending <- v9, rebuilds <- v10, shown <- v11,
    auto <- v12, paused <- v13, proc <- v14, builder <- v15, moves <- v16,
    Versions <- {1, 2}, Cands <- {1, 2, 3}, Admins <- {"ann"},
    Props <- {[text |-> 1, time |-> t, gone |-> FALSE] : t \in 1..2}, MaxTime <- 2,
    MaxMoves <- 1

\* The same with two moves of the world and less time.
Reviews == INSTANCE Publishing WITH
    now <- v1, latest <- v2, cand <- v3, jobs <- v4, evt <- v5, proj <- v6,
    history <- v7, signals <- v8, pending <- v9, rebuilds <- v10, shown <- v11,
    auto <- v12, paused <- v13, proc <- v14, builder <- v15, moves <- v16,
    Versions <- {1, 2}, Cands <- {1, 2, 3}, Admins <- {"ann"},
    Props <- {[text |-> 1, time |-> t, gone |-> FALSE] : t \in 1..2}, MaxTime <- 1,
    MaxMoves <- 2

\* One version whose candidates are reviewed while its job is parked.
Park == INSTANCE Publishing WITH
    now <- v1, latest <- v2, cand <- v3, jobs <- v4, evt <- v5, proj <- v6,
    history <- v7, signals <- v8, pending <- v9, rebuilds <- v10, shown <- v11,
    auto <- v12, paused <- v13, proc <- v14, builder <- v15, moves <- v16,
    Versions <- {1}, Cands <- {1, 2}, Admins <- {"ann"},
    Props <- {[text |-> 1, time |-> 1, gone |-> g] : g \in BOOLEAN}, MaxTime <- 3,
    MaxMoves <- 2

\* Two builders and publications.
Builds == INSTANCE PublicSnapshot WITH
    now <- v1, proj <- v2, pending <- v3, outbox <- v4, snaps <- v5, patches <- v6,
    pause <- v7, b <- v8, reader <- v9, published <- v10, deaths <- v11, made <- v12,
    told <- v13,
    Ms <- {"m1"}, Facts <- Moves, Builders <- {p1, q1}, Readers <- {},
    MinDays <- 2, TailDays <- 1, PatchMax <- 9, Page <- 2, MaxTime <- 1,
    MaxPublish <- 3, MaxGen <- 3, MaxDeaths <- 0, PublishBy <- 1

\* A builder that may die and a reader.
Reading == INSTANCE PublicSnapshot WITH
    now <- v1, proj <- v2, pending <- v3, outbox <- v4, snaps <- v5, patches <- v6,
    pause <- v7, b <- v8, reader <- v9, published <- v10, deaths <- v11, made <- v12,
    told <- v13,
    Ms <- {"m1", "m2"}, Facts <- Moves, Builders <- {"job"}, Readers <- {"feed"},
    MinDays <- 2, TailDays <- 1, PatchMax <- 9, Page <- 1, MaxTime <- 1,
    MaxPublish <- 3, MaxGen <- 3, MaxDeaths <- 1, PublishBy <- 1

\* One milestone whose time, word and type change as days pass.
Patches == INSTANCE PublicSnapshot WITH
    now <- v1, proj <- v2, pending <- v3, outbox <- v4, snaps <- v5, patches <- v6,
    pause <- v7, b <- v8, reader <- v9, published <- v10, deaths <- v11, made <- v12,
    told <- v13,
    Ms <- {"m1"}, Facts <- Changes, Builders <- {"job"}, Readers <- {}, MinDays <- 1,
    TailDays <- 1, PatchMax <- 9, Page <- 1, MaxTime <- 2, MaxPublish <- 3, MaxGen <- 3,
    MaxDeaths <- 0, PublishBy <- 3

\* A table of patches with room for three.
Pause == INSTANCE PublicSnapshot WITH
    now <- v1, proj <- v2, pending <- v3, outbox <- v4, snaps <- v5, patches <- v6,
    pause <- v7, b <- v8, reader <- v9, published <- v10, deaths <- v11, made <- v12,
    told <- v13,
    Ms <- {"m1"}, Facts <- Moves, Builders <- {p1, q1}, Readers <- {},
    MinDays <- 2, TailDays <- 1, PatchMax <- 3, Page <- 1, MaxTime <- 1,
    MaxPublish <- 3, MaxGen <- 3, MaxDeaths <- 0, PublishBy <- 1

\* One milestone under two polls that cross.
Feed == INSTANCE CalendarFeed WITH
    now <- v1, user <- v2, sub <- v3, feed <- v4, pub <- v5, source <- v6, cache <- v7,
    assembling <- v8, req <- v9, changes <- v10, polls <- v11, sent <- v12, last <- v13,
    Ms <- {"m1"}, Types <- {"a"}, Requests <- {p1, q1}, Isolates <- {c1, d1}, Past <- 3,
    Future <- 5, MaxStale <- 1, GuardMin <- 9, RatioNum <- 1, RatioDen <- 2,
    NodeMax <- 9, Retention <- 1, Times <- {2, 3}, Start <- {Node("m1", 2)},
    Kinds <- {"save", "reset", "revoke", "publish"}, MaxTime <- 1, MaxChanges <- 2,
    MaxPolls <- 2

\* Three milestones of which some leave, move or get lost.
Shrink == INSTANCE CalendarFeed WITH
    now <- v1, user <- v2, sub <- v3, feed <- v4, pub <- v5, source <- v6, cache <- v7,
    assembling <- v8, req <- v9, changes <- v10, polls <- v11, sent <- v12, last <- v13,
    Ms <- {"m1", "m2", "m3"}, Types <- {"a"}, Requests <- {1}, Isolates <- {"i"},
    Past <- 0, Future <- 5, MaxStale <- 9, GuardMin <- 2, RatioNum <- 1, RatioDen <- 2,
    NodeMax <- 9, Retention <- 1, Times <- {3},
    Start <- {Node("m1", 1), Node("m2", 2), Node("m3", 2)},
    Kinds <- {"publish", "lose", "rebuild"}, MaxTime <- 2, MaxChanges <- 2,
    MaxPolls <- 2

\* One panel enables its address while what it previews changes.
Enable == INSTANCE CalendarManage WITH
    now <- v1, user <- v2, sess <- v3, sub <- v4, pub <- v5, feed <- v6, used <- v7,
    slot <- v8, busy <- v9, panel <- v10, changes <- v11, keys <- v12, done <- v13,
    shown <- v14,
    Panels <- {"p"}, Slots <- {1, 2}, Isolates <- {c1, d1}, Total <- Items,
    PageSize <- 1, Fresh <- 0, UserMax <- 2, GlobalMax <- 2,
    Kinds <- {"publish", "save", "recover", "crash"}, FirstOn <- FALSE, MaxTime <- 1,
    MaxChanges <- 2, MaxKeys <- 2

\* Two panels of one user whose address is enabled.
TwoPanels == INSTANCE CalendarManage WITH
    now <- v1, user <- v2, sess <- v3, sub <- v4, pub <- v5, feed <- v6, used <- v7,
    slot <- v8, busy <- v9, panel <- v10, changes <- v11, keys <- v12, done <- v13,
    shown <- v14,
    Panels <- {p1, q1}, Slots <- {1, 2}, Isolates <- {c1, d1}, Total <- Items,
    PageSize <- 2, Fresh <- 0, UserMax <- 1, GlobalMax <- 1,
    Kinds <- {"recover", "others", "reload"}, FirstOn <- TRUE, MaxTime <- 0,
    MaxChanges <- 1, MaxKeys <- 1

\* One complaint, two workers, a user who moves.
Receipts == INSTANCE MailFeedback WITH
    queue <- v1, inbox <- v2, status <- v3, told <- v4, user <- v5, chan <- v6,
    supp <- v7, proc <- v8, deaths <- v9, done <- v10,
    Events <- {"complaint"}, Mails <- {"m"}, Users <- {"u"}, Addresses <- {"a", "b"},
    Workers <- {p1, q1}, MailOf <- [x \in {"complaint"} |-> "m"],
    KindOf <- [x \in {"complaint"} |-> Receipt(x)],
    Suppression <- [x \in {"complaint"} |-> Reason(x)], Sent <- SentTo(TRUE),
    First <- [x \in {"u"} |-> "a"], InboxMax <- 3, Margin <- 1, UnmatchedMax <- 2,
    Wall <- 1, TTL <- 1, MaxTries <- 0, MaxVer <- 2, MaxDeaths <- 1

\* A complaint and a bounce of one mail.
TwoKinds == INSTANCE MailFeedback WITH
    queue <- v1, inbox <- v2, status <- v3, told <- v4, user <- v5, chan <- v6,
    supp <- v7, proc <- v8, deaths <- v9, done <- v10,
    Events <- {"complaint", "bounce"}, Mails <- {"m"}, Users <- {"u"},
    Addresses <- {"a"}, Workers <- {p1, q1},
    MailOf <- [x \in {"complaint", "bounce"} |-> "m"],
    KindOf <- [x \in {"complaint", "bounce"} |-> Receipt(x)],
    Suppression <- [x \in {"complaint", "bounce"} |-> Reason(x)], Sent <- SentTo(FALSE),
    First <- [x \in {"u"} |-> "a"], InboxMax <- 3, Margin <- 1, UnmatchedMax <- 2,
    Wall <- 1, TTL <- 0, MaxTries <- 0, MaxVer <- 1, MaxDeaths <- 0

\* Two receipts for an inbox of one.
Inbox == INSTANCE MailFeedback WITH
    queue <- v1, inbox <- v2, status <- v3, told <- v4, user <- v5, chan <- v6,
    supp <- v7, proc <- v8, deaths <- v9, done <- v10,
    Events <- {"complaint", "late"}, Mails <- {"m"}, Users <- {"u"}, Addresses <- {"a"},
    Workers <- {p1, q1}, MailOf <- [x \in {"complaint", "late"} |-> "m"],
    KindOf <- [x \in {"complaint", "late"} |-> Receipt(x)],
    Suppression <- [x \in {"complaint", "late"} |-> Reason(x)], Sent <- SentTo(TRUE),
    First <- [x \in {"u"} |-> "a"], InboxMax <- 1, Margin <- 1, UnmatchedMax <- 1,
    Wall <- 1, TTL <- 0, MaxTries <- 0, MaxVer <- 1, MaxDeaths <- 0

\* A complaint and a refusal by the provider, one worker who may die, a user who moves.
Refused == INSTANCE MailFeedback WITH
    queue <- v1, inbox <- v2, status <- v3, told <- v4, user <- v5, chan <- v6,
    supp <- v7, proc <- v8, deaths <- v9, done <- v10,
    Events <- {"complaint", "refusal"}, Mails <- {"m"}, Users <- {"u"},
    Addresses <- {"a", "b"}, Workers <- {p1}, MailOf <- [x \in {"complaint", "refusal"} |-> "m"],
    KindOf <- [x \in {"complaint", "refusal"} |-> Receipt(x)],
    Suppression <- [x \in {"complaint", "refusal"} |-> Reason(x)], Sent <- SentTo(TRUE),
    First <- [x \in {"u"} |-> "a"], InboxMax <- 3, Margin <- 1, UnmatchedMax <- 2,
    Wall <- 1, TTL <- 0, MaxTries <- 0, MaxVer <- 2, MaxDeaths <- 1

\* Two accounts for one seat.
OneSeat == INSTANCE MailChannel WITH
    user <- v1, supp <- v2, sub <- v3, chan <- v4, last <- v5, used <- v6, open <- v7,
    closing <- v8, renewing <- v9, tab <- v10, req <- v11, cnt <- v12, stops <- v13,
    Users <- {c1, d1}, Tabs <- {c1, d1}, Owner <- [t \in {c1, d1} |-> t], SeatsMax <- 1,
    RoutineMax <- 1, UserDay <- 2, GlobalDay <- 2, Saved <- [t \in {c1, d1} |-> 1],
    MaxVer <- 1, MaxSaves <- 0, MaxStops <- 1, MaxRenewals <- 0, MaxPuts <- 3

\* One account that saves, moves, is stopped twice and agrees again.
Consent == INSTANCE MailChannel WITH
    user <- v1, supp <- v2, sub <- v3, chan <- v4, last <- v5, used <- v6, open <- v7,
    closing <- v8, renewing <- v9, tab <- v10, req <- v11, cnt <- v12, stops <- v13,
    Users <- {c1}, Tabs <- {c1}, Owner <- [t \in {c1} |-> c1], SeatsMax <- 1,
    RoutineMax <- 1, UserDay <- 2, GlobalDay <- 2, Saved <- [t \in {c1} |-> 1],
    MaxVer <- 2, MaxSaves <- 1, MaxStops <- 2, MaxRenewals <- 0, MaxPuts <- 2

\* The scan renews the seat of an account that is stopped.
Renewal == INSTANCE MailChannel WITH
    user <- v1, supp <- v2, sub <- v3, chan <- v4, last <- v5, used <- v6, open <- v7,
    closing <- v8, renewing <- v9, tab <- v10, req <- v11, cnt <- v12, stops <- v13,
    Users <- {c1}, Tabs <- {c1}, Owner <- [t \in {c1} |-> c1], SeatsMax <- 1,
    RoutineMax <- 1, UserDay <- 2, GlobalDay <- 2, Saved <- [t \in {c1} |-> 1],
    MaxVer <- 2, MaxSaves <- 0, MaxStops <- 1, MaxRenewals <- 1, MaxPuts <- 3

ASSUME Parameters ==
    /\ Cloud!StoreConstants
    /\ Save!StoreConstants
    /\ Cross!StoreConstants
    /\ Fanout!Bounds
    /\ Push!Bounds
    /\ Plan!Bounds
    /\ Audience!Bounds
    /\ Rounds!Bounds
    /\ Turns!Bounds
    /\ Builds!SnapshotAssumption
    /\ Reading!SnapshotAssumption
    /\ Patches!SnapshotAssumption
    /\ Pause!SnapshotAssumption
    /\ Feed!FeedAssumption
    /\ Shrink!FeedAssumption
    /\ Enable!ManageAssumption
    /\ TwoPanels!ManageAssumption
    /\ Receipts!FeedbackAssumption
    /\ TwoKinds!FeedbackAssumption
    /\ Inbox!FeedbackAssumption
    /\ Refused!FeedbackAssumption
    /\ OneSeat!ChannelAssumption
    /\ Consent!ChannelAssumption
    /\ Renewal!ChannelAssumption

\* The variables a part does not use keep their first value.
Unused16 == v16 = 0
Unused15 == v15 = 0 /\ Unused16
Unused14 == v14 = 0 /\ Unused15
Unused11 == v11 = 0 /\ v12 = 0 /\ v13 = 0 /\ Unused14
Unused10 == v10 = 0 /\ Unused11
Unused9 == v9 = 0 /\ Unused10
Unused6 == v6 = 0 /\ v7 = 0 /\ v8 = 0 /\ Unused9

Init ==
    \/ part = "store" /\ Cloud!StoreInit /\ Unused6
    \/ part = "save" /\ Save!Init /\ Unused9
    \/ part = "cross" /\ Cross!Init /\ Unused9
    \/ part = "slots" /\ Places!Init /\ Unused10
    \/ part = "proof" /\ Proof!Init /\ Unused10
    \/ part = "fanout" /\ Fanout!Init /\ Unused14
    \/ part = "push" /\ Push!Init /\ Unused14
    \/ part = "plan" /\ Plan!Init /\ Unused14
    \/ part = "audience" /\ Audience!Init /\ Unused14
    \/ part = "beats" /\ Rounds!Init /\ Unused16
    \/ part = "turns" /\ Turns!Init /\ Unused16
    \/ part = "publish" /\ Publish!Init
    \/ part = "moves" /\ Reviews!Init
    \/ part = "park" /\ Park!Init
    \/ part = "builds" /\ Builds!Init /\ Unused14
    \/ part = "reads" /\ Reading!Init /\ Unused14
    \/ part = "patches" /\ Patches!Init /\ Unused14
    \/ part = "pause" /\ Pause!Init /\ Unused14
    \/ part = "feed" /\ Feed!Init /\ Unused14
    \/ part = "shrink" /\ Shrink!Init /\ Unused14
    \/ part = "enable" /\ Enable!Init /\ Unused15
    \/ part = "tabs" /\ TwoPanels!Init /\ Unused15
    \/ part = "receipts" /\ Receipts!Init /\ Unused11
    \/ part = "kinds" /\ TwoKinds!Init /\ Unused11
    \/ part = "inbox" /\ Inbox!Init /\ Unused11
    \/ part = "refusal" /\ Refused!Init /\ Unused11
    \/ part = "seats" /\ OneSeat!Init /\ Unused14
    \/ part = "consent" /\ Consent!Init /\ Unused14
    \/ part = "renewal" /\ Renewal!Init /\ Unused14

Next ==
    /\ UNCHANGED part
    /\ \/ part = "store" /\ Cloud!StoreNext /\ UNCHANGED <<v6, v7, v8, v9, v10, v11, v12, v13, v14, v15, v16>>
       \/ part = "save" /\ Save!Next /\ UNCHANGED <<v9, v10, v11, v12, v13, v14, v15, v16>>
       \/ part = "cross" /\ Cross!Next /\ UNCHANGED <<v9, v10, v11, v12, v13, v14, v15, v16>>
       \/ part = "slots" /\ Places!Next /\ UNCHANGED <<v10, v11, v12, v13, v14, v15, v16>>
       \/ part = "proof" /\ Proof!Next /\ UNCHANGED <<v10, v11, v12, v13, v14, v15, v16>>
       \/ part = "fanout" /\ Fanout!Next /\ UNCHANGED <<v14, v15, v16>>
       \/ part = "push" /\ Push!Next /\ UNCHANGED <<v14, v15, v16>>
       \/ part = "plan" /\ Plan!Next /\ UNCHANGED <<v14, v15, v16>>
       \/ part = "audience" /\ Audience!Next /\ UNCHANGED <<v14, v15, v16>>
       \/ part = "beats" /\ Rounds!Next /\ UNCHANGED v16
       \/ part = "turns" /\ Turns!Next /\ UNCHANGED v16
       \/ part = "publish" /\ Publish!Next
       \/ part = "moves" /\ Reviews!Next
       \/ part = "park" /\ Park!Next
       \/ part = "builds" /\ Builds!Next /\ UNCHANGED <<v14, v15, v16>>
       \/ part = "reads" /\ Reading!Next /\ UNCHANGED <<v14, v15, v16>>
       \/ part = "patches" /\ Patches!Next /\ UNCHANGED <<v14, v15, v16>>
       \/ part = "pause" /\ Pause!Next /\ UNCHANGED <<v14, v15, v16>>
       \/ part = "feed" /\ Feed!Next /\ UNCHANGED <<v14, v15, v16>>
       \/ part = "shrink" /\ Shrink!Next /\ UNCHANGED <<v14, v15, v16>>
       \/ part = "enable" /\ Enable!Next /\ UNCHANGED <<v15, v16>>
       \/ part = "tabs" /\ TwoPanels!Next /\ UNCHANGED <<v15, v16>>
       \/ part = "receipts" /\ Receipts!Next /\ UNCHANGED <<v11, v12, v13, v14, v15, v16>>
       \/ part = "kinds" /\ TwoKinds!Next /\ UNCHANGED <<v11, v12, v13, v14, v15, v16>>
       \/ part = "inbox" /\ Inbox!Next /\ UNCHANGED <<v11, v12, v13, v14, v15, v16>>
       \/ part = "refusal" /\ Refused!Next /\ UNCHANGED <<v11, v12, v13, v14, v15, v16>>
       \/ part = "seats" /\ OneSeat!Next /\ UNCHANGED <<v14, v15, v16>>
       \/ part = "consent" /\ Consent!Next /\ UNCHANGED <<v14, v15, v16>>
       \/ part = "renewal" /\ Renewal!Next /\ UNCHANGED <<v14, v15, v16>>

Spec == Init /\ [][Next]_vars

\* The requests, workers, builders or panels p1 and q1 of an instance are alike, and so
\* are its accounts or isolates c1 and d1.
Alike == {f @@ g : f \in Permutations({p1, q1}), g \in Permutations({c1, d1})}

-----------------------------------------------------------------------------
\* Saving the subscription (SubscriptionStore, SubscriptionSave): interests follow
\* the config, no save of a revision its user has not seen, and "saved" shows what
\* the cloud has.
SubscriptionIsSound ==
    /\ [](part = "store" => Cloud!StoreHolds)
    /\ [](part = "save" => Save!SavesHold)
    /\ [](part = "cross" => Cross!SavesHold)

\* Push bindings (PushBindings): places are never over-booked, an active binding was
\* proved in its present round, and a late answer ends no successor.
BindingsAreSound ==
    /\ [](part = "slots" => Places!BindingsHold)
    /\ [](part = "proof" => Proof!BindingsHold)
    /\ [][part = "proof" => Proof!GoneIsOwn]_vars

\* Push notices (PushDelivery): none is sent twice, message and delivery agree,
\* nobody is left out, and nothing is made for an old plan.
PushesAreSound ==
    /\ [](part = "fanout" => Fanout!PushesHold)
    /\ [](part = "push" => Push!PushesHold)
    /\ [][part = "fanout" => Fanout!NotForOldPlan]_vars

\* Occurrences (OccurrencePlan): each plan is complete and at the right time, older
\* plans end, and expansion reaches its frozen audience only.
PlansAreSound ==
    /\ [](part = "plan" => Plan!PlansHold)
    /\ [](part = "audience" => Audience!PlansHold)
    /\ [][part = "audience" => Audience!NotForOldPlan]_vars

\* Mail dispatch (MailDispatch): notices are told in time, once, not beside what
\* makes them needless, and turns are fair.
RoundsAreSound ==
    /\ [](part = "beats" => Rounds!DispatchHolds)
    /\ [](part = "turns" => Turns!DispatchHolds)
    /\ [][part = "beats" => Rounds!DispatchStep]_vars
    /\ [][part = "turns" => Turns!DispatchStep]_vars

\* Publishing (Publishing): revisions have no gap, a person's word stays, nothing
\* goes back or twice, the snapshot is owed what is public, no decision is missed.
PublishingIsSound ==
    /\ [](part = "publish" => Publish!PublicationsHold)
    /\ [](part = "moves" => Reviews!PublicationsHold)
    /\ [](part = "park" => Park!PublicationsHold)

\* The public calendar (PublicSnapshot): one current generation, complete when
\* nothing is owed, whole for readers, with stamps and patches that clients can rely
\* on.
SnapshotsAreSound ==
    /\ [](part = "builds" => Builds!SnapshotsHold)
    /\ [](part = "reads" => Reading!SnapshotsHold)
    /\ [](part = "patches" => Patches!SnapshotsHold)
    /\ [](part = "pause" => Pause!SnapshotsHold)

\* The subscribed calendar (CalendarFeed): a poll serves the current settings and
\* generation, with sequences and a baseline that move forward, and shrinks only
\* explained.
FeedIsSound ==
    /\ [](part = "feed" => Feed!TypeOK)
    /\ [][part = "feed" => Feed!FeedStep]_vars
    /\ [][part = "shrink" => Shrink!FeedStep]_vars

\* Managing the address (CalendarManage): an operation takes effect once, enables
\* what was previewed, and nothing of before a recovery stays enabled.
ManageIsSound ==
    /\ [](part = "enable" => Enable!ManageHolds)
    /\ [](part = "tabs" => TwoPanels!ManageHolds)
    /\ [][part = "enable" => Enable!ManageStep]_vars
    /\ [][part = "tabs" => TwoPanels!ManageStep]_vars

\* Receipts of the mail provider (MailFeedback): acknowledged means done, a
\* complaint stands, closed channels stay closed, and effects come with the mark.
FeedbackIsSound ==
    /\ [](part = "receipts" => Receipts!FeedbackHolds)
    /\ [](part = "kinds" => TwoKinds!FeedbackHolds)
    /\ [](part = "inbox" => Inbox!FeedbackHolds)
    /\ [](part = "refusal" => Refused!FeedbackHolds)
    /\ [][part = "receipts" => Receipts!FeedbackStep]_vars
    /\ [][part = "kinds" => TwoKinds!FeedbackStep]_vars
    /\ [][part = "refusal" => Refused!FeedbackStep]_vars

\* The mail channel (MailChannel): places within their limits, open layers with the
\* consent of the current address, opened only as shown.
ChannelIsSound ==
    /\ [](part = "seats" => OneSeat!ChannelHolds)
    /\ [](part = "consent" => Consent!ChannelHolds)
    /\ [](part = "renewal" => Renewal!ChannelHolds)
    /\ [][part = "consent" => Consent!AgreedAsShown]_vars
    /\ [][part = "renewal" => Renewal!AgreedAsShown]_vars
=============================================================================
