------------------------- MODULE SubscriptionStore --------------------------
(***************************************************************************)
(* The cloud side of a subscription (accounts/subscription/service.ts): a   *)
(* row under a revision, the interests derived from it, and the counters of *)
(* changes a day.  A save reads the row, then the interests, and commits    *)
(* both under a guard on what it read; a miss is explained by reading again. *)
(***************************************************************************)
EXTENDS Integers, FiniteSets

CONSTANTS
    Configs,            \* [wants: the interests it derives, view: the calendar view]
    NoConfig,           \* the config of an uninitialized row
    Requests,           \* the saves
    UserDay,            \* USER_MUTATIONS_DAY
    GlobalDay           \* GLOBAL_MUTATIONS_DAY

StoreConstants ==
    /\ \A c \in Configs : DOMAIN c = {"wants", "view"} /\ IsFiniteSet(c.wants)
    /\ NoConfig \notin Configs /\ {UserDay, GlobalDay} \subseteq Nat

VARIABLES
    row,                \* user_subscriptions: [rev, config]
    interests,          \* subscription_interests
    view,               \* calendar_feeds.view_revision
    counter,            \* capacity_state: [user, global]
    request             \* the saves, from the click to the answer
storeVars == <<row, interests, view, counter, request>>

Idle == [step |-> "idle"]
Empty == [rev |-> 0, config |-> NoConfig]       \* state 'uninitialized'

StoreInit ==
    /\ row = Empty
    /\ interests = {}
    /\ view = 0
    /\ counter = [user |-> 0, global |-> 0]
    /\ request = [r \in Requests |-> Idle]

Sent(expected, config) ==
    [step |-> "sent", expected |-> expected, config |-> config, before |-> Empty, existing |-> {},
     kind |-> "none", snapshot |-> Empty]

Answer(r, kind, snapshot) ==
    request' = [request EXCEPT ![r].step = "answered", ![r].kind = kind, ![r].snapshot = snapshot]

\* saveSubscription up to its early answers
Receive(r) ==
    /\ request[r].step = "sent"
    /\ CASE row.rev # request[r].expected  -> Answer(r, "conflict", row)
         [] row.rev = request[r].expected /\ row.config = request[r].config -> Answer(r, "unchanged", row)
         [] OTHER -> request' = [request EXCEPT ![r].step = "read", ![r].before = row]
    /\ UNCHANGED <<row, interests, view, counter>>

\* The interests are read by a statement of their own
List(r) ==
    /\ request[r].step = "read"
    /\ request' = [request EXCEPT ![r].step = "listed", ![r].existing = interests]
    /\ UNCHANGED <<row, interests, view, counter>>

\* The guard of the conditional commit
Guard(q) ==
    /\ row.rev = q.expected
    /\ row.config = NoConfig <=> q.before.config = NoConfig
    /\ counter.user < UserDay
    /\ counter.global < GlobalDay

\* Its effects: the difference to the interests that were read, not to those there are
Effects(q) ==
    /\ row' = [rev |-> row.rev + 1, config |-> q.config]
    /\ counter' = [user |-> counter.user + 1, global |-> counter.global + 1]
    /\ interests' = (interests \ (q.existing \ q.config.wants)) \union (q.config.wants \ q.existing)
    /\ view' = IF q.before.config # NoConfig /\ q.before.config.view # q.config.view THEN view + 1 ELSE view

Commit(r) ==
    LET q == request[r] IN
    /\ q.step = "listed"
    /\ \/ Guard(q) /\ Effects(q)
          /\ Answer(r, "saved", [rev |-> q.expected + 1, config |-> q.config])
       \/ ~Guard(q) /\ request' = [request EXCEPT ![r].step = "missed"]
          /\ UNCHANGED <<row, interests, view, counter>>

\* A miss: first the row again, then the counters
Reread(r) ==
    /\ request[r].step = "missed"
    /\ IF row.rev # request[r].expected THEN Answer(r, "conflict", row)
       ELSE request' = [request EXCEPT ![r].step = "counting"]
    /\ UNCHANGED <<row, interests, view, counter>>

Blame(r) ==
    /\ request[r].step = "counting"
    /\ Answer(r, IF counter.user >= UserDay \/ counter.global >= GlobalDay THEN "quota" ELSE "unexplained", Empty)
    /\ UNCHANGED <<row, interests, view, counter>>

\* Another change that is counted: of this user (a feed, a device) or of somebody else
OtherChange(own) ==
    /\ counter.global < GlobalDay
    /\ own => counter.user < UserDay
    /\ counter' = [user |-> IF own THEN counter.user + 1 ELSE counter.user, global |-> counter.global + 1]
    /\ UNCHANGED <<row, interests, view, request>>

StoreStep(r) == Receive(r) \/ List(r) \/ Commit(r) \/ Reread(r) \/ Blame(r)

\* A PATCH arrives, with any revision a client may once have read
Send(r, expected, config) ==
    /\ request[r] = Idle /\ expected <= row.rev
    /\ request' = [request EXCEPT ![r] = Sent(expected, config)]
    /\ UNCHANGED <<row, interests, view, counter>>

StoreNext ==
    \/ \E r \in Requests : StoreStep(r)
    \/ \E r \in Requests, expected \in 0..UserDay, config \in Configs : Send(r, expected, config)
    \/ \E own \in BOOLEAN : OtherChange(own)
StoreSpec == StoreInit /\ [][StoreNext]_storeVars

-----------------------------------------------------------------------------
\* The interests are those of the saved config, whatever saves crossed between
\* reading the row, reading the interests and the batch (service.ts:154-219).
InterestsMatch == row.config # NoConfig => interests = row.config.wants

\* A save that is refused is refused for a reason the user can be told: the
\* error at the end of saveSubscription is never reached (service.ts:265).
NeverUnexplained == \A r \in Requests : request[r].step = "answered" => request[r].kind # "unexplained"

\* The changes of a day never pass the limit of the account or of the site,
\* with any number of saves between their reads and their commits (service.ts:230-231).
DayKept == counter.user <= UserDay /\ counter.global <= GlobalDay

\* What holds of the store in every state.
StoreHolds == InterestsMatch /\ NeverUnexplained /\ DayKept
=============================================================================
