---------------------------- MODULE MailDispatch ----------------------------
(***************************************************************************)
(* Which owed notice becomes a mail next. A coordinator job keeps a round: *)
(* a batch that froze the occurrences due by its horizon, and the users    *)
(* put off in it because their commit was refused. A pass selects a        *)
(* candidate (priority first, then the fair order), plans its mail by a    *)
(* second read, and approves it in a commit that checks both. Occurrences  *)
(* are expanded, plans change, users edit, switches are thrown, days end   *)
(* and the pass may die at every step. The order of a user is its number;  *)
(* every occurrence is of one pool per priority.                           *)
(***************************************************************************)
EXTENDS Naturals, FiniteSets, FiniteSetsExt, Functions

CONSTANTS Users, Occs, None,
          Due, Expiry, Prio,       \* of every occurrence
          Beats,                   \* pairs: the first is told instead of the second
          Window,                  \* MAIL_DIGEST_WINDOW
          DayLimit,                \* units of a pool and day
          DayLen, SendConcurrency,
          Fails,                   \* occurrences whose expansion may fail for good
          MaxTime, MaxEdits        \* bounds of the model
Prios == {Prio[o] : o \in Occs}
UserDay == [urgent |-> 2, base |-> 1]     \* MAIL_USER_URGENT_DAY, MAIL_USER_BASE_DAY
Bounds == Users \subseteq Nat /\ DayLen \in Nat \ {0}

VARIABLES now, live,     \* occurrences whose plan holds
          want,          \* by occurrence: the users who match
          expanded,      \* by occurrence: jobs occurrence:ID:email
          del,           \* deliveries by occurrence and user
          job,           \* jobs delivery:dispatch, with its round
          batch,         \* jobs delivery:batch:ID
          cursor,        \* dispatch_cursors by priority
          off,           \* switches that are off
          mails,         \* mail_outbox: keys and items (and, as history, what was known)
          spent,         \* units by day, pool and user
          pass,          \* the pass at work
          edits,
          passed,        \* history: <<p, u, v, o>>: v got a mail while u waited in its batch to be told o
          refused        \* history: <<p, u>> refused at a commit of the batch
vars == <<now, live, want, expanded, del, job, batch, cursor, off, mails, spent, pass, edits, passed, refused>>
World == <<now, live, want, expanded, off, edits>>

Day(t) == t \div DayLen
Switches == {"business_mail_enabled", "email_routine_enabled"}
NoRound == [batch |-> None, deferred |-> {}]

Init ==
    /\ now = 0 /\ live = Occs /\ want = [o \in Occs |-> Users]
    /\ expanded = [o \in Occs |-> "no"]
    /\ del = [o \in Occs |-> [u \in Users |-> None]]
    /\ job = [status |-> "pending", due |-> 0, round |-> NoRound]
    /\ batch = [id |-> 1, at |-> 0, occs |-> {}]
    /\ cursor = [p \in Prios |-> 0] /\ off = {}
    /\ mails = {} /\ spent = [d \in 0..(MaxTime \div DayLen) |-> [q \in DOMAIN UserDay |-> [u \in Users |-> 0]]]
    /\ pass = None /\ edits = 0 /\ passed = {} /\ refused = {}

\* A pass goes by the clock it took when its request began.
FreshAt(o, t) == o \in live /\ Expiry[o] > t
Fresh(o) == FreshAt(o, now)
Owed(o, u) == Fresh(o) /\ u \in want[o] /\ del[o][u] = "pending"

-----------------------------------------------------------------------------
(* runDispatchPass. *)

Members(occs) == {o \in occs : expanded[o] # "failed"}

\* Batch ids are random; here the id of a batch no mail came from is taken again.
NewId == IF \E m \in mails : m.key.batch = batch.id THEN batch.id + 1 ELSE batch.id

Begin ==
    /\ pass = None /\ job.status = "pending" /\ job.due <= now
    /\ LET new == job.round.batch = None
           b == IF new THEN [id |-> NewId, at |-> now,
                             occs |-> {o \in Occs : Fresh(o) /\ Due[o] <= now + Window}]
                ELSE batch
           round == IF new THEN [batch |-> b.id, deferred |-> {}] ELSE job.round
       IN  /\ batch' = [b EXCEPT !.occs = Members(b.occs)]
           /\ job' = [job EXCEPT !.round = round]
           /\ pass' = [pc |-> "select", n |-> 0, round |-> round]
           /\ refused' = IF new THEN {} ELSE refused
    /\ UNCHANGED <<World, del, cursor, mails, spent, passed>>

\* One pass at a time (DeliveryDO.exclusive), so that lease_version matches; at the
\* end of the model's clock a later time is now.
Save(round, due) == job' = [job EXCEPT !.round = round, !.due = Min({due, MaxTime})]

Advance == pass' = [pass EXCEPT !.pc = "select", !.n = @ + 1]

Selecting == pass # None /\ pass.pc = "select" /\ pass.n < SendConcurrency

\* expireDispatchCandidates.
Overdue == {<<o, u>> \in Occs \X Users : del[o][u] = "pending" /\ Expiry[o] <= now}

Expire ==
    /\ Selecting /\ Overdue # {} /\ Advance
    /\ del' = [o \in Occs |-> [u \in Users |-> IF <<o, u>> \in Overdue THEN "expired" ELSE del[o][u]]]
    /\ UNCHANGED <<World, job, batch, cursor, mails, spent, passed, refused>>

Ready == \A o \in batch.occs : Due[o] <= batch.at => expanded[o] = "done"

Wait ==
    /\ Selecting /\ Overdue = {} /\ ~Ready
    /\ Save(pass.round, now + 1) /\ pass' = None
    /\ UNCHANGED <<World, del, batch, cursor, mails, spent, passed, refused>>

\* What one user has in the batch, and what that was worth at t.
Candidates(u) == {o \in batch.occs : del[o][u] = "pending"}
Eligible(u, t) == {o \in Candidates(u) : FreshAt(o, t) /\ u \in want[o]}
Invalid(u, t) == {o \in Candidates(u) \ Eligible(u, t) : Due[o] <= t}
Snapshot(u) == [cands |-> Candidates(u), live |-> Candidates(u) \intersect live,
                want |-> {o \in Occs : u \in want[o]}]

\* digest: what a mail of this priority tells, and what it makes needless.
Told(u, p, t) ==
    LET all == {o \in Eligible(u, t) : Prio[o] = p /\ ~\E w \in Eligible(u, t) : <<w, o>> \in Beats}
    IN  IF \E o \in all : Due[o] <= t THEN all ELSE {}
\* Mutant: only what a mail would otherwise tell is made needless.
Needless_SamePrio(u, p, t) ==
    {o \in Eligible(u, t) : Prio[o] = p /\ \E w \in Told(u, p, t) : <<w, o>> \in Beats}
Needless(u, p, t) == {o \in Eligible(u, t) : \E w \in Told(u, p, t) : <<w, o>> \in Beats}

Waiting == {<<p, u>> \in Prios \X Users : \E o \in Candidates(u) : Prio[o] = p /\ Due[o] <= now}
Groups == Waiting \ pass.round.deferred

Before(g, h) ==
    LET turn(x) == IF x[2] <= cursor[x[1]] THEN 1 ELSE 0
    IN  \/ g[1] < h[1]
        \/ g[1] = h[1] /\ turn(g) < turn(h)
        \/ g[1] = h[1] /\ turn(g) = turn(h) /\ g[2] < h[2]

\* Groups with nothing to tell are passed over; the first other one acts.
Acting == {g \in Groups : Invalid(g[2], now) # {} \/ Told(g[2], g[1], now) # {}}
First(g) == g \in Acting /\ \A h \in Acting \ {g} : Before(g, h)

\* stageDigestCandidates: what is due within the horizon rides along.
Staged(g) == {o \in batch.occs : Due[o] > batch.at /\ Fresh(o) /\ Prio[o] = g[1]
                                  /\ g[2] \in want[o] /\ del[o][g[2]] = None}

\* What was read decides what is called next: the candidates that are no longer valid
\* are closed, those that ride along are inserted, or else a mail is proposed.
Select(g) ==
    LET p == g[1] u == g[2] IN
    /\ Selecting /\ Overdue = {} /\ Ready /\ First(g)
    /\ pass' = [pc |-> IF Invalid(u, now) # {} THEN "close" ELSE IF Staged(g) # {} THEN "stage" ELSE "plan",
                n |-> pass.n, round |-> pass.round, g |-> g, at |-> now,
                snap |-> Snapshot(u), last |-> cursor[p], invalid |-> Invalid(u, now), staged |-> Staged(g),
                told |-> Told(u, p, now), needless |-> Needless(u, p, now)]
    /\ UNCHANGED <<World, del, job, batch, cursor, mails, spent, passed, refused>>

At(pc) == pass # None /\ pass.pc = pc
Unit == [pc |-> "select", n |-> pass.n + 1, round |-> pass.round]
SameSnapshot == Snapshot(pass.g[2]) = pass.snap

\* Missed or not, the next unit selects again.
Close ==
    /\ At("close") /\ pass' = Unit
    /\ IF SameSnapshot
       THEN del' = [o \in Occs |-> [del[o] EXCEPT ![pass.g[2]] =
                      IF o \in pass.invalid THEN (IF o \in live THEN "skipped" ELSE "superseded") ELSE @]]
       ELSE UNCHANGED del
    /\ UNCHANGED <<World, job, batch, cursor, mails, spent, passed, refused>>

\* Inserted without a condition but the unique family of the delivery.
Stage ==
    /\ At("stage") /\ pass' = Unit
    /\ del' = [o \in Occs |-> [del[o] EXCEPT ![pass.g[2]] =
                 IF o \in pass.staged /\ @ = None THEN "pending" ELSE @]]
    /\ UNCHANGED <<World, job, batch, cursor, mails, spent, passed, refused>>

Pool(p) == IF p <= 3 THEN "urgent" ELSE "base"
Open(p) == "business_mail_enabled" \notin off /\ (Pool(p) = "base" => "email_routine_enabled" \notin off)

\* The second read says what the first one said, at a later clock.
AsProposed ==
    LET p == pass.g[1] u == pass.g[2] IN
    /\ SameSnapshot /\ Invalid(u, now) = {}
    /\ Told(u, p, now) = pass.told /\ Needless(u, p, now) = pass.needless

Plan ==
    /\ At("plan") /\ Open(pass.g[1]) /\ AsProposed
    /\ pass' = [pass EXCEPT !.pc = "commit", !.at = now]
    /\ UNCHANGED <<World, del, job, batch, cursor, mails, spent, passed, refused>>

Stale ==
    /\ At("plan") /\ ~(Open(pass.g[1]) /\ AsProposed)
    /\ pass' = Unit
    /\ UNCHANGED <<World, del, job, batch, cursor, mails, spent, passed, refused>>

InPool(d, q) == FoldFunction(+, 0, spent[d][q])
HasUnits(d, p, u) ==
    /\ InPool(d, Pool(p)) < DayLimit
    /\ spent[d][Pool(p)][u] < UserDay[Pool(p)]
Key == [batch |-> pass.round.batch, p |-> pass.g[1], u |-> pass.g[2]]
Taken == \E m \in mails : m.key = Key

\* The guard of the commit, which counts on the day of the plan.
CommitGuard ==
    LET p == pass.g[1] u == pass.g[2] IN
    /\ cursor[p] = pass.last /\ Ready /\ SameSnapshot
    /\ HasUnits(Day(pass.at), p, u) /\ Open(p)

Approve ==
    LET p == pass.g[1] u == pass.g[2] IN
    /\ At("commit") /\ CommitGuard /\ ~Taken
    /\ mails' = mails \union {[key |-> Key, told |-> pass.told, knew |-> Eligible(u, pass.at)]}
    /\ del' = [o \in Occs |-> [del[o] EXCEPT ![u] = IF o \in pass.told THEN "mail"
                                     ELSE IF o \in pass.needless THEN "superseded" ELSE @]]
    /\ cursor' = [cursor EXCEPT ![p] = u]
    /\ spent' = [spent EXCEPT ![Day(pass.at)][Pool(p)][u] = @ + 1]
    /\ passed' = {x \in passed : ~(x[1] = p /\ (x[2] = u \/ <<p, x[2]>> \in refused))} \union
                 {<<p, x[1], u, x[2]>> : x \in {y \in (Users \ {u}) \X Occs :
                       <<p, y[1]>> \in Waiting /\ y[2] \in Told(y[1], p, now)}}
    /\ pass' = Unit
    /\ UNCHANGED <<World, job, batch, refused>>

\* Whatever the guard missed, the user is put off for this batch: the units may be
\* gone, or what the plan had read has changed.
Defer ==
    /\ At("commit") /\ ~CommitGuard
    /\ pass' = [Unit EXCEPT !.round.deferred = @ \union {pass.g}]
    /\ refused' = refused \union {pass.g}
    /\ UNCHANGED <<World, del, job, batch, cursor, mails, spent, passed>>

\* A second mail of this batch, priority and user breaks the unique key: the
\* error counts as bad data, and the coordinator is failed for good.
Break ==
    /\ At("commit") /\ CommitGuard /\ Taken
    /\ pass' = None
    /\ job' = [job EXCEPT !.status = "failed"]
    /\ UNCHANGED <<World, del, batch, cursor, mails, spent, passed, refused>>

\* Nothing is left to select: the next pass starts another batch.
Empty ==
    /\ Selecting /\ Overdue = {} /\ Ready /\ Acting = {}
    /\ LET other == \E o \in Occs \ batch.occs, u \in Users :
                       Due[o] <= now /\ Expiry[o] > now /\ del[o][u] = "pending" /\ expanded[o] # "failed"
       IN  Save(NoRound, IF other THEN now ELSE now + 1)
    /\ pass' = None
    /\ UNCHANGED <<World, del, batch, cursor, mails, spent, passed, refused>>

Finish ==
    /\ pass # None /\ pass.pc = "select" /\ pass.n = SendConcurrency
    /\ Save(pass.round, now) /\ pass' = None
    /\ UNCHANGED <<World, del, batch, cursor, mails, spent, passed, refused>>

PassDies == pass # None /\ pass' = None /\ UNCHANGED <<World, del, job, batch, cursor, mails, spent, passed, refused>>

-----------------------------------------------------------------------------
(* The world. *)

StillWaiting == {x \in passed : Owed(x[4], x[2])'}

\* runOccurrencePass, whole audiences at a time.
Expand(o) ==
    /\ expanded[o] = "no" /\ o \in live /\ Due[o] <= now /\ Expiry[o] > now
    /\ \/ expanded' = [expanded EXCEPT ![o] = "done"]
          /\ del' = [del EXCEPT ![o] = [u \in Users |-> IF @[u] = None /\ u \in want[o] THEN "pending" ELSE @[u]]]
       \/ o \in Fails /\ expanded' = [expanded EXCEPT ![o] = "failed"] /\ UNCHANGED del
    /\ UNCHANGED <<now, live, want, off, edits, job, batch, cursor, mails, spent, pass, passed, refused>>

\* An audience of an occurrence that is over is closed without being read.
ExpandOver(o) ==
    /\ expanded[o] = "no" /\ Due[o] <= now /\ ~Fresh(o)
    /\ expanded' = [expanded EXCEPT ![o] = "done"]
    /\ UNCHANGED <<now, live, want, off, edits, del, job, batch, cursor, mails, spent, pass, passed, refused>>

\* A user edits, a plan ends, an operator throws a switch, or the outbox returns the
\* unit of a mail it never called.
Edit ==
    /\ edits < MaxEdits /\ edits' = edits + 1
    /\ \/ /\ \E o \in Occs, u \in Users : want' = [want EXCEPT ![o] = SymDiff(@, {u})]
          /\ UNCHANGED <<live, del, off, spent>>
       \/ /\ \E o \in live :
                /\ live' = live \ {o}
                /\ del' = [del EXCEPT ![o] = [u \in Users |-> IF @[u] = "pending" THEN "superseded" ELSE @[u]]]
          /\ UNCHANGED <<want, off, spent>>
       \/ /\ \E s \in Switches : off' = SymDiff(off, {s})
          /\ UNCHANGED <<want, live, del, spent>>
       \/ /\ \E d \in DOMAIN spent, q \in DOMAIN UserDay, u \in Users :
                spent[d][q][u] > 0 /\ spent' = [spent EXCEPT ![d][q][u] = @ - 1]
          /\ UNCHANGED <<want, live, del, off>>
    /\ UNCHANGED <<now, expanded, job, batch, cursor, mails, pass, refused>>
    /\ passed' = StillWaiting

Tick ==
    /\ now < MaxTime /\ now' = now + 1
    /\ UNCHANGED <<live, want, expanded, off, edits, del, job, batch, cursor, mails, spent, pass, refused>>
    /\ passed' = StillWaiting

Pass == Begin \/ Expire \/ Wait \/ Close \/ Stage \/ Plan \/ Stale \/ Approve \/ Defer \/ Break
        \/ Empty \/ Finish \/ \E g \in Prios \X Users : Select(g)

Next == Pass \/ PassDies \/ Edit \/ Tick \/ \E o \in Occs : Expand(o) \/ ExpandOver(o)

Spec == Init /\ [][Next]_vars

\* The executor is woken while something is due, the clock runs, audiences are
\* expanded, and the executor does not die for ever.
Steps == Pass \/ Tick \/ Edit \/ \E o \in Occs : Expand(o) \/ ExpandOver(o)
FairSpec == Init /\ [][Steps]_vars /\ WF_vars(Pass) /\ WF_vars(Tick)
            /\ \A o \in Occs : WF_vars(Expand(o)) /\ WF_vars(ExpandOver(o))

-----------------------------------------------------------------------------
(* Properties. *)

\* Deliveries have the statuses of the table; a batch has an id that exists.
TypeOK ==
    /\ \A o \in Occs, u \in Users :
          del[o][u] \in {None, "pending", "mail", "superseded", "expired", "skipped"}
    /\ job.round.batch # None => job.round.batch = batch.id
    /\ \A d \in DOMAIN spent, q \in DOMAIN UserDay : InPool(d, q) <= DayLimit

\* A notice is put into a mail only for a plan that holds and a user who matches, both
\* at the commit, before it expires by the clock of the plan, and with the switches on
\* (planBudgetedDispatch).
ToldInTime ==
  \A o \in Occs, u \in Users : (del[o][u] # "mail" /\ del'[o][u] = "mail") =>
      /\ FreshAt(o, pass.at) /\ u \in want[o] /\ del[o][u] = "pending"
      /\ Open(Prio[o])

\* No notice is told twice, and none that was there when a mail told of something
\* that makes it needless is told, in that mail or later.
MailsAreSound ==
    /\ \A m, n \in mails : (m # n /\ m.key.u = n.key.u) => m.told \intersect n.told = {}
    /\ \A m, n \in mails : m.key.u = n.key.u =>
          \A w \in m.told, o \in m.knew \intersect n.told : <<w, o>> \notin Beats

\* Nobody gets two mails of a priority while somebody whose notice was due in the batch
\* of the first waits for its own, over batches, days and passes that die. Only one
\* whose commit was refused, by its budget or because something it checks changed after
\* the plan was read, is passed by those served later in the same batch; after them it
\* is counted anew, so that a refusal costs one turn and the next batch gives it back
\* (dispatch_cursors, Round.deferred).
FairTurns ==
  \A m \in mails' \ mails : \A u \in Users, o \in Occs :
      (<<m.key.p, u, m.key.u, o>> \in passed /\ Owed(o, u)) => <<m.key.p, u>> \in refused

\* Every delivery whose switches stay on is settled: put into a mail, or ended with a
\* reason, also when its commit was refused before.
Unsettled(o, u) == del[o][u] = "pending" /\ Open(Prio[o])
DeliveriesEnd == \A o \in Occs, u \in Users : Unsettled(o, u) ~> ~Unsettled(o, u)

\* What holds in every state, and of every step, of the dispatch.
DispatchHolds == TypeOK /\ MailsAreSound
DispatchStep == ToldInTime /\ FairTurns
=============================================================================
