---------------------------- MODULE PushBindings ----------------------------
(***************************************************************************)
(* Web push bindings: an owner's requests read a binding and the capacity, *)
(* and commit later under a guard; the browser's service worker proves the *)
(* receipt of an activation notice with a capability of its own; safety    *)
(* pauses, gone endpoints and retention change the same rows meanwhile.    *)
(* Fresh ids and challenges are drawn from one counter, so that a         *)
(* larger one was made later. The receipt token is a capability of the     *)
(* browser and not modelled but for its rotation. One UTC day.             *)
(***************************************************************************)
EXTENDS Naturals, FiniteSets, Functions

CONSTANTS Users, Endpoints, Requests, None,
          UserMax, TotalMax, PendingMax, ActiveMax, MaxAttempts,
          NewDay, SendDay, TestDay,      \* SendDay: without the critical reserve
          Ttl, Cooldown, Lease, Grace,
          MaxTime, MaxIds                \* bounds of the model

VARIABLES now,    \* the clock
          row,    \* push_bindings by endpoint (endpoint_hash is unique)
          used,   \* the day's counters of capacity_state
          open,   \* push_enabled and outbound_enabled
          epoch,  \* auth_epoch of every account: which sessions still count
          req,    \* the owner's requests, between their reads and their commits
          calls,  \* notices on their way to the push service
          inbox,  \* notices the browser has shown: [id, ch]
          ids     \* the last id drawn
vars == <<now, row, used, open, epoch, req, calls, inbox, ids>>

Done == [op |-> "done"]    \* a request is made once: their number bounds the runs
Ops == {"done", "create", "rotate", "pause", "activate", "send", "test", "renew", "delete"}
States == {"pending", "active", "paused", "gone"}
Rows == {e \in Endpoints : row[e] # None}
Live(e, t) == row[e].state = "pending" /\ row[e].deadline > t

\* The three counts of the site, all but the row of "but".
PendingCount(t, but) == Cardinality({e \in Rows \ but : Live(e, t)})
TotalCount(t, but) ==
    Cardinality({e \in Rows \ but : row[e].state \in {"active", "paused"} \/ Live(e, t)})
ActiveCount == Cardinality({e \in Rows : row[e].state = "active"})
OwnCount(u, but) == Cardinality({e \in Rows \ but : row[e].owner = u})

Init ==
    /\ now = 0
    /\ row = [e \in Endpoints |-> None]
    /\ used = [created |-> 0, send |-> 0, test |-> 0]
    /\ open = TRUE
    /\ epoch = [u \in Users |-> 0]
    /\ req = [r \in Requests |-> None]
    /\ calls = {} /\ inbox = {}
    /\ ids = 0

Fresh == ids + 1
Draw == ids < MaxIds /\ ids' = Fresh
Mine(q) == row[q.e] # None /\ row[q.e].owner = q.user
Same(q) == Mine(q) /\ row[q.e].id = q.id
SameVersion(q) == Same(q) /\ row[q.e].ver = q.ver
Session(q) == epoch[q.user] = q.epoch
Below(key, limit) == used[key] < limit
Count(keys) == used' = [k \in DOMAIN used |-> used[k] + IF k \in keys THEN 1 ELSE 0]

-----------------------------------------------------------------------------
(* Reads. *)

Replaceable(e) == row[e].state = "gone" \/ (row[e].state = "pending" /\ row[e].deadline <= now)

\* pushEnableAvailability: a replaced row is not asked for a place of the stock.
MayEnable(u, replacing) ==
    /\ open
    /\ replacing \/ (OwnCount(u, {}) < UserMax /\ TotalCount(now, {}) < TotalMax)
    /\ PendingCount(now, {}) < PendingMax
    /\ Below("created", NewDay) /\ Below("send", SendDay)

MayActivate(e) ==
    /\ open /\ Below("send", SendDay)
    /\ \/ /\ row[e].state = "pending" /\ row[e].deadline > now
          /\ row[e].attempts < MaxAttempts
          /\ row[e].sent # None => row[e].sent + Cooldown <= now
       \/ row[e].state = "paused" /\ PendingCount(now, {}) < PendingMax

MayTest(e) ==
    /\ open /\ row[e].state = "active"
    /\ row[e].tested # None => row[e].tested + Cooldown <= now
    /\ Below("test", TestDay) /\ Below("send", SendDay)

Asked(op, u, e) ==
    [op |-> op, user |-> u, e |-> e, at |-> now, epoch |-> epoch[u],
     id |-> IF row[e] = None THEN 0 ELSE row[e].id,
     ver |-> IF row[e] = None THEN 0 ELSE row[e].ver]

\* A registration: a new row, a replacement (stale row or other keys), or the
\* rotation of the receipt token of a row that stands.
Enable(r, u, e) ==
    /\ row[e] # None => row[e].owner = u
    /\ \/ row[e] # None /\ ~Replaceable(e) /\ req' = [req EXCEPT ![r] = Asked("rotate", u, e)]
       \/ MayEnable(u, row[e] # None) /\ req' = [req EXCEPT ![r] = Asked("create", u, e)]

Ask(r, u, e, op) ==
    /\ row[e] # None /\ row[e].owner = u
    /\ CASE op = "pause"    -> row[e].state \in {"pending", "active"}
         [] op = "activate" -> MayActivate(e)
         [] op = "test"     -> MayTest(e)
         [] op = "renew"    -> open /\ row[e].state = "active"
         [] op = "delete"   -> TRUE
    /\ req' = [req EXCEPT ![r] =
           Asked(IF op = "activate" /\ row[e].state = "pending" THEN "send" ELSE op, u, e)]

Request(r) ==
    /\ req[r] = None
    /\ \E u \in Users, e \in Endpoints :
          \/ Enable(r, u, e)
          \/ \E op \in {"pause", "activate", "test", "renew", "delete"} : Ask(r, u, e, op)
    /\ UNCHANGED <<now, row, used, open, epoch, calls, inbox, ids>>

-----------------------------------------------------------------------------
(* Commits. *)

Close(r) == req' = [req EXCEPT ![r] = Done]

CreateGuard(q) ==
    /\ Session(q) /\ open
    /\ IF q.id = 0 THEN row[q.e] = None ELSE Same(q)
    /\ OwnCount(q.user, {q.e}) < UserMax
    /\ TotalCount(q.at, {q.e}) < TotalMax
    /\ PendingCount(q.at, {q.e}) < PendingMax
    /\ Below("created", NewDay) /\ Below("send", SendDay)

\* "round", "proof" and "notice" are history: when the round of activation began,
\* the challenge that proved it, and the time of the latest activation notice.
Create(r) ==
    LET q == req[r] IN
    /\ q # None /\ q.op = "create" /\ CreateGuard(q) /\ Draw
    /\ row' = [row EXCEPT ![q.e] =
           [id |-> Fresh, owner |-> q.user, state |-> "pending", ver |-> 0,
            deadline |-> q.at + Ttl, attempts |-> 0, sent |-> None, chs |-> {},
            lease |-> 0, tested |-> None, round |-> Fresh, proof |-> 0,
            notice |-> None]]
    /\ Count({"created"}) /\ Close(r)
    /\ UNCHANGED <<now, open, epoch, calls, inbox>>

Rotate(r) ==
    LET q == req[r] IN
    /\ q # None /\ q.op = "rotate" /\ Session(q) /\ SameVersion(q)
    /\ row[q.e].state \in {"pending", "active", "paused"}
    /\ row' = [row EXCEPT ![q.e].ver = @ + 1]
    /\ Close(r)
    /\ UNCHANGED <<now, used, open, epoch, calls, inbox, ids>>

Paused(b) == [b EXCEPT !.state = "paused", !.chs = {}, !.ver = @ + 1]

Pause(r) ==
    LET q == req[r] IN
    /\ q # None /\ q.op = "pause" /\ Session(q) /\ Same(q)
    /\ row[q.e].state \in {"pending", "active"}
    /\ row' = [row EXCEPT ![q.e] = Paused(@)]
    /\ Close(r)
    /\ UNCHANGED <<now, used, open, epoch, calls, inbox, ids>>

ResumeGuard(q) ==
    /\ Session(q) /\ open /\ SameVersion(q)
    /\ row[q.e].state = "paused"
    /\ PendingCount(q.at, {}) < PendingMax

\* A paused binding is activated in two commits: a new round, then its notice.
Resume(r) ==
    LET q == req[r] IN
    /\ q # None /\ q.op = "activate" /\ ResumeGuard(q)
    /\ row' = [row EXCEPT ![q.e] = [@ EXCEPT
           !.state = "pending", !.deadline = q.at + Ttl, !.attempts = 0, !.sent = None,
           !.chs = {}, !.ver = @ + 1, !.round = ids]]
    /\ req' = [req EXCEPT ![r].op = "send"]
    /\ UNCHANGED <<now, used, open, epoch, calls, inbox, ids>>

\* sendActivation: the notice is budgeted, counted and recorded in one commit,
\* whatever the session, then sent.
SendActivation(r) ==
    LET q == req[r] IN
    /\ q # None /\ q.op = "send" /\ Same(q) /\ open /\ Below("send", SendDay) /\ Draw
    /\ Live(q.e, q.at) /\ row[q.e].attempts < MaxAttempts
    /\ row[q.e].sent # None => row[q.e].sent + Cooldown <= q.at
    /\ row' = [row EXCEPT ![q.e] = [@ EXCEPT
           !.attempts = @ + 1, !.sent = q.at, !.chs = @ \union {Fresh}, !.ver = @ + 1,
           !.notice = q.at]]
    /\ calls' = calls \union {[id |-> q.id, ch |-> Fresh]}
    /\ Count({"send"}) /\ Close(r)
    /\ UNCHANGED <<now, open, epoch, inbox>>

Test(r) ==
    LET q == req[r] IN
    /\ q # None /\ q.op = "test" /\ Session(q) /\ open /\ SameVersion(q) /\ Draw
    /\ row[q.e].state = "active"
    /\ row[q.e].tested # None => row[q.e].tested + Cooldown <= q.at
    /\ Below("test", TestDay) /\ Below("send", SendDay)
    /\ row' = [row EXCEPT ![q.e] = [@ EXCEPT !.tested = q.at, !.ver = @ + 1,
           !.lease = IF @ > q.at + Lease THEN @ ELSE q.at + Lease]]
    /\ calls' = calls \union {[id |-> q.id, ch |-> Fresh]}
    /\ Count({"test", "send"}) /\ Close(r)
    /\ UNCHANGED <<now, open, epoch, inbox>>

Renew(r) ==
    LET q == req[r] IN
    /\ q # None /\ q.op = "renew" /\ Session(q) /\ open /\ SameVersion(q)
    /\ row[q.e].state = "active"
    /\ row' = [row EXCEPT ![q.e].lease = q.at + Lease, ![q.e].ver = @ + 1]
    /\ Close(r)
    /\ UNCHANGED <<now, used, open, epoch, calls, inbox, ids>>

Delete(r) ==
    LET q == req[r] IN
    /\ q # None /\ q.op = "delete" /\ Session(q) /\ Same(q)
    /\ row' = [row EXCEPT ![q.e] = None]
    /\ Close(r)
    /\ UNCHANGED <<now, used, open, epoch, calls, inbox, ids>>

\* A request that dies, or whose guard misses and is explained.
Refuse(r) ==
    /\ req[r] \notin {None, Done} /\ Close(r)
    /\ UNCHANGED <<now, row, used, open, epoch, calls, inbox, ids>>

-----------------------------------------------------------------------------
(* The push service and the service worker. *)

\* The notice reaches the browser, or is lost, or the endpoint is gone.
Deliver(c) ==
    /\ calls' = calls \ {c}
    /\ inbox' \in {inbox, inbox \union {c}}
    /\ UNCHANGED <<now, row, used, open, epoch, req, ids>>

WentGone(c, e) == row[e].id = c.id /\ row[e].state \in {"pending", "active", "paused"}

Gone(c) ==
    /\ calls' = calls \ {c}
    /\ row' = [e \in Endpoints |->
           IF row[e] # None /\ WentGone(c, e)
           THEN [row[e] EXCEPT !.state = "gone", !.chs = {}, !.ver = @ + 1, !.deadline = now]  \* gone_at
           ELSE row[e]]
    /\ UNCHANGED <<now, used, open, epoch, req, inbox, ids>>

\* Mutant: any challenge of the binding is taken for proof.
Proves_AnyChallenge(b, c) ==
    /\ b.id = c.id
    /\ b.state = "pending" /\ b.deadline > now
    /\ ActiveCount < ActiveMax

Proves(b, c) ==
    /\ b.id = c.id
    /\ b.state = "pending" /\ b.deadline > now
    /\ c.ch \in b.chs
    /\ ActiveCount < ActiveMax

\* activateReceipt: any notice shown, at any later time, with the receipt token
\* the browser holds now; no session is asked for.
Activate(e, c) ==
    /\ row[e] # None /\ Proves(row[e], c)
    /\ row' = [row EXCEPT ![e] = [@ EXCEPT
           !.state = "active", !.lease = now + Lease, !.chs = {}, !.ver = @ + 1, !.proof = c.ch]]
    /\ UNCHANGED <<now, used, open, epoch, req, calls, inbox, ids>>

\* processedReceipt: the merged renewal by a business notice (version untouched).
Processed(e) ==
    /\ row[e] # None /\ row[e].state = "active" /\ row[e].lease < now + Lease
    /\ row' = [row EXCEPT ![e].lease = now + Lease]
    /\ UNCHANGED <<now, used, open, epoch, req, calls, inbox, ids>>

-----------------------------------------------------------------------------
(* Safety pause, retention, the switch, time. *)

\* The trigger on push_revocation_version; the account's sessions end with it.
SafetyPause(u) ==
    /\ epoch[u] = 0 /\ epoch' = [epoch EXCEPT ![u] = 1]
    /\ row' = [e \in Endpoints |->
           IF row[e] # None /\ row[e].owner = u /\ row[e].state \in {"pending", "active"}
           THEN Paused(row[e]) ELSE row[e]]
    /\ UNCHANGED <<now, used, open, req, calls, inbox, ids>>

Retained(b) ==
    IF b.state = "active" /\ b.lease <= now THEN Paused(b) ELSE b
Dropped(b) ==
    \/ b.state = "pending" /\ b.deadline <= now
    \/ b.state = "paused" /\ (IF b.lease > 0 THEN b.lease ELSE b.deadline) + Grace <= now
    \/ b.state = "gone" /\ b.deadline + Grace <= now

Retention ==
    /\ row' = [e \in Endpoints |->
           IF row[e] = None \/ Dropped(Retained(row[e])) THEN None ELSE Retained(row[e])]
    /\ row' # row
    /\ UNCHANGED <<now, used, open, epoch, req, calls, inbox, ids>>

Switch ==
    /\ open' = ~open
    /\ UNCHANGED <<now, row, used, epoch, req, calls, inbox, ids>>

Tick ==
    /\ now < MaxTime /\ now' = now + 1
    /\ UNCHANGED <<row, used, open, epoch, req, calls, inbox, ids>>

Next ==
    \/ \E r \in Requests :
          \/ Request(r) \/ Create(r) \/ Rotate(r) \/ Pause(r) \/ Resume(r)
          \/ SendActivation(r) \/ Test(r) \/ Renew(r) \/ Delete(r) \/ Refuse(r)
    \/ \E c \in calls : Deliver(c) \/ Gone(c)
    \/ \E e \in Endpoints : Processed(e) \/ \E c \in inbox : Activate(e, c)
    \/ \E u \in Users : SafetyPause(u)
    \/ Retention \/ Switch \/ Tick

Spec == Init /\ [][Next]_vars

-----------------------------------------------------------------------------
(* Properties. *)

\* The rows, the counters and the requests have the shapes of the tables and of
\* the handlers; the counters stay below the day's limits.
TypeOK ==
    /\ now \in 0..MaxTime /\ ids \in 0..MaxIds /\ open \in BOOLEAN
    /\ \A e \in Rows : row[e].state \in States /\ row[e].owner \in Users /\ row[e].attempts \in 0..MaxAttempts
    /\ used \in [created : 0..NewDay, send : 0..SendDay, test : 0..TestDay]
    /\ \A r \in Requests : req[r] # None => req[r].op \in Ops

\* The places of the site and of an account are never over-booked, however
\* reads, commits, resumptions and receipts of several accounts cross
\* (createPushBinding, patchPushBinding, activateReceipt).
PendingKept == PendingCount(now, {}) <= PendingMax
ActiveKept == ActiveCount <= ActiveMax
UserKept == \A u \in Users : OwnCount(u, {}) <= UserMax

\* An active binding was proved by a notice that its own browser showed and that
\* was sent in the binding's present round: a receipt of before a pause, of an
\* older registration of the endpoint or of a test opens nothing.
ActiveIsProved ==
    \A e \in Rows : row[e].state = "active" =>
        /\ row[e].proof > row[e].round
        /\ [id |-> row[e].id, ch |-> row[e].proof] \in inbox

\* A notice of an older registration never marks its successor gone.
GoneIsOwn ==
  \A e \in Endpoints :
       (row[e] # None /\ row'[e] # None /\ row[e].state # "gone" /\ row'[e].state = "gone") =>
           \E c \in calls \ calls' : c.id = row[e].id

\* What holds of the bindings in every state.
BindingsHold == TypeOK /\ PendingKept /\ ActiveKept /\ UserKept /\ ActiveIsProved
=============================================================================
