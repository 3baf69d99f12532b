--------------------------- MODULE PublicSnapshot ---------------------------
(***************************************************************************)
(* The public calendar is served from whole generations.  A publication    *)
(* changes a projection and owes a rebuild (system_state and the outbox);  *)
(* a builder reads the projections, the current generation and the patches *)
(* that compensate a change, writes an invisible generation and switches   *)
(* to it in one conditional batch.  Every await of buildPublicSnapshot is  *)
(* a step of its own here: the watchdog and the publication job build at   *)
(* the same time, publications happen in between, and a builder may die    *)
(* anywhere.  A reader takes the row of the current generation and then    *)
(* its nodes, while superseded generations are reclaimed page by page.     *)
(*                                                                         *)
(* Times are days.  A projection is its facts: the clock of the milestone  *)
(* (0: unknown), the status of its event and its classification.  No code  *)
(* deletes a projection, so the tombstone branches are left out.           *)
(***************************************************************************)
EXTENDS Integers, FiniteSets, FiniteSetsExt, TLC

CONSTANTS Ms,          \* milestones
          Facts,       \* the facts a publication may give a milestone
          Builders,    \* executions that build: watchdog, publication job
          Readers,     \* feeds and pages that read the current generation
          None,
          MinDays,     \* CAL_PATCH_MIN_DAYS
          TailDays,    \* CAL_PATCH_TAIL_DAYS
          PatchMax,    \* CAL_PATCH_GLOBAL_MAX
          Page,        \* nodes one reclaim deletes at most
          MaxTime, MaxPublish, MaxGen, MaxDeaths,  \* bounds
          PublishBy    \* nothing is published after this day

SnapshotAssumption ==
  /\ {MinDays, TailDays, PatchMax, MaxTime, MaxPublish, MaxGen, MaxDeaths, PublishBy} \subseteq Nat
  /\ Page \in Nat \ {0}

VARIABLES now, proj, pending, outbox, snaps, patches, pause, b, reader,
          published, deaths, made, told

facts == <<now, proj, pending, outbox, published>>
tables == <<snaps, patches, pause>>
ghosts == <<deaths, made, told>>
vars == <<facts, tables, ghosts, b, reader>>

Idle == [pc |-> "idle"]
Reading == [pc |-> "idle"]

\* ---------------------------------------------------------------- tables

Gens == 1..MaxGen
Rows == {g \in Gens : snaps[g] # None}
CurrentOf(s) == {g \in Gens : s[g] # None /\ s[g].state = "current"}
Current == CurrentOf(snaps)
Retained(at) == {p \in patches : p.retain > at}

\* Rows that no reader of a current generation can still need.
Reclaimable ==
  {g \in Rows : \E c \in Current :
     \/ snaps[g].state = "building" /\ g < c
     \/ /\ snaps[g].state = "superseded"
        /\ \E h \in Rows : snaps[h].state = "superseded" /\ g < h /\ h < c}

\* ------------------------------------------------------- the patch rules

Ended(f) == f.status \in {"cancelled", "retracted"}

\* What the change from old facts to new facts is called; None: no patch.
KindOf(old, new) ==
  CASE Ended(old) /\ ~Ended(new) /\ new.time # 0 -> "restored"
    [] new.status = "cancelled" /\ old.status # "cancelled" -> "cancelled"
    [] new.status = "retracted" /\ old.status # "retracted" -> "retracted"
    [] new.status = "postponed" /\ new.time = 0 /\ old.time # 0 -> "postponed_unknown"
    [] old.time # new.time /\ new.time # 0 -> "rescheduled"
    [] old.type # new.type -> "classification_corrected"
    [] OTHER -> None

\* The latest time clients were told, over the old facts and the old patch.
HighWater(old, patch) == Max({old.time, IF patch = None THEN 0 ELSE patch.old})

decideCalendarPatch(old, new, patch, changedAt) ==
  LET kind == KindOf(old, new)
      display == IF kind \notin {"cancelled", "retracted", "postponed_unknown"}
                   THEN new.time
                 ELSE IF old.time # 0 THEN old.time
                 ELSE IF patch = None THEN 0 ELSE patch.display
      high == HighWater(old, patch)
  IN  IF kind = None \/ display = 0 THEN None
      ELSE [kind |-> kind, display |-> display, old |-> high,
            retain |-> Max({changedAt + MinDays,
                            (IF high = 0 THEN changedAt ELSE high) + TailDays})]

\* A node keeps its stamp while its content stays as it was.
Content(n) == [n EXCEPT !.since = 0]

stampContentGeneration(n, old, gen) ==
  IF old # None /\ Content(old) = Content(n)
    THEN [n EXCEPT !.since = old.since]
    ELSE [n EXCEPT !.since = gen]

\* ---------------------------------------------------------- publications

Tick ==
  /\ now < MaxTime
  /\ now' = now + 1
  /\ UNCHANGED <<tables, ghosts, proj, pending, outbox, b, reader, published>>

\* A publication: the projection, its revision and the owed rebuild together.
Publish(m, f) ==
  /\ published < MaxPublish /\ now <= PublishBy
  /\ proj[m] # None => proj[m].fact # f
  /\ proj' = [proj EXCEPT ![m] =
                [fact |-> f, at |-> now,
                 rev |-> IF proj[m] = None THEN 1 ELSE proj[m].rev + 1]]
  /\ pending' = [on |-> TRUE, at |-> now]
  /\ outbox' = outbox + 1
  /\ published' = published + 1
  /\ UNCHANGED <<tables, ghosts, now, b, reader>>

\* --------------------------------------------------------------- builder

\* The build starts: patches past their window are archived.
Purge(w) ==
  /\ b[w].pc = "idle"
  /\ patches' = Retained(now)
  /\ b' = [b EXCEPT ![w] = [pc |-> "pending", now |-> now]]
  /\ UNCHANGED <<facts, ghosts, snaps, pause, reader>>

\* Only the pause of this module is lifted, with room and nothing owed.
clearCapacityPauseIfRecovered(at) ==
  pause /\ (Cardinality(Retained(at)) + 1 >= PatchMax \/ pending.on)

ReadPending(w) ==
  /\ b[w].pc = "pending"
  /\ b' = [b EXCEPT ![w] = IF pending.on
             THEN [@ EXCEPT !.pc = "outbox"] @@ [pend |-> pending.at]
             ELSE [@ EXCEPT !.pc = "clear"]]
  /\ UNCHANGED <<facts, tables, ghosts, reader>>

ReadOutboxes(w) ==
  /\ b[w].pc = "outbox"
  /\ b' = [b EXCEPT ![w] = IF outbox = 0 THEN Idle
             ELSE [@ EXCEPT !.pc = "current"] @@ [count |-> outbox]]
  /\ UNCHANGED <<facts, tables, ghosts, reader>>

ReadCurrent(w) ==
  /\ b[w].pc = "current"
  /\ b' = [b EXCEPT ![w] = [@ EXCEPT !.pc = "rows"] @@
             [cur |-> IF Current = {} THEN 0 ELSE Max(Current)]]
  /\ UNCHANGED <<facts, tables, ghosts, reader>>

ReadRows(w) ==
  /\ b[w].pc = "rows"
  /\ b' = [b EXCEPT ![w] = [@ EXCEPT !.pc = "old"] @@ [rows |-> proj]]
  /\ UNCHANGED <<facts, tables, ghosts, reader>>

ReadOld(w) ==
  /\ b[w].pc = "old"
  /\ b' = [b EXCEPT ![w] = [@ EXCEPT !.pc = "patches"] @@
             [old |-> IF b[w].cur \in Rows THEN snaps[b[w].cur].nodes ELSE {}]]
  /\ UNCHANGED <<facts, tables, ghosts, reader>>

NodeOf(nodes, m) ==
  IF \E n \in nodes : n.m = m THEN CHOOSE n \in nodes : n.m = m ELSE None

\* The nodes of the next generation and the patches it adds: a change of an
\* already public node is decided against the patch that is still active.
PlanOf(l, act) ==
  LET old == [m \in Ms |-> NodeOf(l.old, m)]
      prior(m) == {p \in act : p.m = m}
      was(m) == IF old[m] = None \/ prior(m) = {} THEN None ELSE old[m].patch
      decided(m) ==
        IF old[m] # None /\ old[m].fact # l.rows[m].fact
          THEN decideCalendarPatch(old[m].fact, l.rows[m].fact, was(m), l.rows[m].at)
          ELSE None
      live == {m \in Ms : l.rows[m] # None}
  IN  [changes |-> {[m |-> m, patch |-> decided(m)] : m \in {x \in live : decided(x) # None}},
       nodes |-> {[m |-> m, fact |-> l.rows[m].fact, rev |-> l.rows[m].rev, since |-> 0,
                   patch |-> IF decided(m) # None THEN decided(m) ELSE was(m)] : m \in live}]

ReadPatches(w) ==
  /\ b[w].pc = "patches"
  /\ LET act == {p \in patches : p.active /\ p.retain > b[w].now}
     IN  b' = [b EXCEPT ![w] =
           [pc |-> "capacity", now |-> @.now, pend |-> @.pend, count |-> @.count,
            cur |-> @.cur, old |-> @.old, act |-> act, plan |-> PlanOf(@, act)]]
  /\ UNCHANGED <<facts, tables, ghosts, reader>>

\* The capacity alarm; nothing in the code pauses for another reason.
markCapacityPause(alert) == pause \/ alert

\* One more patch would reach the limit: non-critical publications pause.
Capacity(w) ==
  /\ b[w].pc = "capacity"
  /\ LET count == Cardinality(Retained(b[w].now)) + Cardinality(b[w].plan.changes)
         alert == count + 1 >= PatchMax
     IN  /\ pause' = markCapacityPause(alert)
         /\ b' = [b EXCEPT ![w] = [@ EXCEPT !.pc = "generation"] @@ [alert |-> alert]]
  /\ UNCHANGED <<facts, ghosts, snaps, patches, reader>>

MaxGeneration(w) ==
  /\ b[w].pc = "generation"
  /\ LET gen == 1 + (IF Rows = {} THEN 0 ELSE Max(Rows))
     IN  /\ gen \in Gens
         /\ b' = [b EXCEPT ![w] =
               [pc |-> "insert", now |-> @.now, pend |-> @.pend, count |-> @.count,
                cur |-> @.cur, act |-> @.act, changes |-> @.plan.changes,
                alert |-> @.alert, gen |-> gen,
                nodes |-> {stampContentGeneration(n, NodeOf(@.old, n.m), gen) :
                             n \in @.plan.nodes}]]
  /\ UNCHANGED <<facts, tables, ghosts, reader>>

\* The building row; a generation another builder took ends the build.
Insert(w) ==
  /\ b[w].pc = "insert"
  /\ IF b[w].gen \in Rows
       THEN b' = [b EXCEPT ![w] = Idle] /\ UNCHANGED snaps
       ELSE /\ snaps' = [snaps EXCEPT ![b[w].gen] =
                           [state |-> "building", nodes |-> {}, count |-> None]]
            /\ b' = [b EXCEPT ![w] = [@ EXCEPT !.pc = "nodes"] @@ [todo |-> b[w].nodes]]
  /\ UNCHANGED <<facts, ghosts, patches, pause, reader>>

\* One chunk of nodes; the insert fails when the row has been reclaimed.
WriteNodes(w) ==
  /\ b[w].pc = "nodes"
  /\ IF b[w].gen \in Rows => b[w].todo = {}
       THEN /\ b' = [b EXCEPT ![w] =
                       [@ EXCEPT !.pc = IF b[w].gen \in Rows THEN "commit" ELSE "clean"]]
            /\ UNCHANGED snaps
       ELSE LET n == CHOOSE k \in b[w].todo : TRUE
            IN  /\ snaps' = [snaps EXCEPT ![b[w].gen].nodes = @ \cup {n}]
                /\ b' = [b EXCEPT ![w].todo = @ \ {n}]
  /\ UNCHANGED <<facts, ghosts, patches, pause, reader>>

\* Mutant: what the plan was made from may have moved since.
GuardPendingOnly(w) ==
  LET l == b[w] IN
  /\ l.gen \in Rows /\ snaps[l.gen].state = "building"
  /\ pending.on

\* The effect gate of the batch: what was planned is still what there is.
Guard(w) ==
  LET l == b[w] IN
  /\ l.gen \in Rows /\ snaps[l.gen].state = "building"
  /\ IF l.cur = 0 THEN Current = {} ELSE Current = {l.cur}
  /\ pending.on /\ pending.at = l.pend
  /\ outbox = l.count
  /\ \A m \in Ms : proj[m] # None =>
       \E n \in snaps[l.gen].nodes : n.m = m /\ n.fact = proj[m].fact /\ n.rev = proj[m].rev

\* The patch table after the batch: a changed milestone's row is superseded.
PatchesAfter(l) ==
  LET priors == {p \in l.act : \E c \in l.changes : c.m = p.m}
  IN  {IF p \in priors THEN [p EXCEPT !.active = FALSE] ELSE p : p \in patches}
        \cup {[m |-> c.m, gen |-> l.gen, retain |-> c.patch.retain, active |-> TRUE] :
                c \in l.changes}

\* Two active patches of one milestone break the unique index.
Collides(after) ==
  \E p, q \in after : p.active /\ q.active /\ p.m = q.m /\ p # q

\* The latest time of m that clients were told and that no longer holds.
Replaced(l, m) ==
  LET old == IF l.cur = 0 THEN None ELSE NodeOf(snaps[l.cur].nodes, m)
      new == NodeOf(snaps[l.gen].nodes, m)
  IN  IF old = None THEN told[m]
      ELSE IF old.fact.time = new.fact.time THEN told[m]
      ELSE Max({told[m], old.fact.time})

\* The batch: patches, the old generation, the debt and the new generation
\* change together or not at all.
Commit(w) ==
  /\ b[w].pc = "commit"
  /\ LET l == b[w]
         after == PatchesAfter(l)
     IN  IF Guard(w) /\ ~Collides(after)
         THEN /\ patches' = after
              /\ snaps' = [g \in Gens |->
                   IF g = l.gen THEN [snaps[g] EXCEPT !.state = "current",
                                        !.count = Cardinality(snaps[g].nodes)]
                   ELSE IF g \in Current THEN [snaps[g] EXCEPT !.state = "superseded"]
                   ELSE snaps[g]]
              /\ pending' = [on |-> FALSE, at |-> l.now]
              /\ outbox' = 0
              /\ made' = [made EXCEPT ![l.gen] = @ \cup {snaps[l.gen].nodes}]
              /\ told' = [m \in Ms |-> Replaced(l, m)]
              /\ b' = [b EXCEPT ![w] =
                   IF l.alert THEN Idle ELSE [pc |-> "clear", now |-> l.now]]
         ELSE /\ b' = [b EXCEPT ![w] = [pc |-> "clean", gen |-> l.gen]]
              /\ UNCHANGED <<patches, snaps, pending, outbox, made, told>>
  /\ UNCHANGED <<now, proj, pause, reader, published, deaths>>

\* A statement or the batch fails: nothing of it happened, the build cleans.
Fail(w) ==
  /\ b[w].pc \in {"nodes", "commit"}
  /\ deaths < MaxDeaths
  /\ deaths' = deaths + 1
  /\ b' = [b EXCEPT ![w] = [pc |-> "clean", gen |-> @.gen]]
  /\ UNCHANGED <<facts, tables, reader, made, told>>

ClearPause(w) ==
  /\ b[w].pc = "clear"
  /\ pause' = clearCapacityPauseIfRecovered(b[w].now)
  /\ b' = [b EXCEPT ![w] = Idle]
  /\ UNCHANGED <<facts, ghosts, snaps, patches, reader>>

\* finally: the invisible generation of this build is removed.
Clean(w) ==
  /\ b[w].pc = "clean"
  /\ snaps' = IF b[w].gen \in Rows /\ snaps[b[w].gen].state = "building"
                THEN [snaps EXCEPT ![b[w].gen] = None] ELSE snaps
  /\ b' = [b EXCEPT ![w] = Idle]
  /\ UNCHANGED <<facts, ghosts, patches, pause, reader>>

\* The execution ends between two awaits; its building rows stay.
Die(w) ==
  /\ b[w].pc # "idle"
  /\ deaths < MaxDeaths
  /\ deaths' = deaths + 1
  /\ b' = [b EXCEPT ![w] = Idle]
  /\ UNCHANGED <<facts, tables, reader, made, told>>

\* --------------------------------------------------- readers and reclaim

\* The row of the current generation, then (another statement) its nodes.
ReadRow(r) ==
  /\ reader[r].pc = "idle"
  /\ Current # {}
  /\ LET g == Max(Current)
     IN  reader' = [reader EXCEPT ![r] = [pc |-> "nodes", gen |-> g, count |-> snaps[g].count]]
  /\ UNCHANGED <<facts, tables, ghosts, b>>

ReadNodes(r) ==
  /\ reader[r].pc = "nodes"
  /\ LET l == reader[r]
         nodes == IF l.gen \in Rows THEN snaps[l.gen].nodes ELSE {}
     IN  reader' = [reader EXCEPT ![r] =
           IF l.count # Cardinality(nodes) THEN Reading
           ELSE [pc |-> "served", gen |-> l.gen, nodes |-> nodes]]
  /\ UNCHANGED <<facts, tables, ghosts, b>>

\* The reader is done with what it got.
Served(r) ==
  /\ reader[r].pc = "served"
  /\ reader' = [reader EXCEPT ![r] = Reading]
  /\ UNCHANGED <<facts, tables, ghosts, b>>

\* One page: the oldest reclaimable generation loses nodes, an empty one its
\* row.
reclaimSupersededPublicSnapshotPage(g) ==
  /\ g \in Reclaimable /\ \A h \in Reclaimable : g <= h
  /\ \E gone \in SUBSET snaps[g].nodes :
       /\ Cardinality(gone) = Min({Page, Cardinality(snaps[g].nodes)})
       /\ snaps' = [snaps EXCEPT ![g] =
            IF gone = snaps[g].nodes THEN None ELSE [@ EXCEPT !.nodes = @ \ gone]]
  /\ UNCHANGED <<facts, ghosts, patches, pause, b, reader>>

\* ---------------------------------------------------------- specification

Init ==
  /\ now = 1
  /\ proj = [m \in Ms |-> None]
  /\ pending = [on |-> FALSE, at |-> 0]
  /\ outbox = 0
  /\ snaps = [g \in Gens |-> None]
  /\ patches = {}
  /\ pause = FALSE
  /\ b = [w \in Builders |-> Idle]
  /\ reader = [r \in Readers |-> Reading]
  /\ published = 0 /\ deaths = 0
  /\ made = [g \in Gens |-> {}]
  /\ told = [m \in Ms |-> 0]

Build(w) ==
  \/ Purge(w) \/ ReadPending(w) \/ ReadOutboxes(w) \/ ReadCurrent(w) \/ ReadRows(w)
  \/ ReadOld(w) \/ ReadPatches(w) \/ Capacity(w) \/ MaxGeneration(w) \/ Insert(w)
  \/ WriteNodes(w) \/ Commit(w) \/ ClearPause(w) \/ Clean(w)

Next ==
  \/ Tick
  \/ \E m \in Ms, f \in Facts : Publish(m, f)
  \/ \E w \in Builders : Build(w) \/ Fail(w) \/ Die(w)
  \/ \E r \in Readers : ReadRow(r) \/ ReadNodes(r) \/ Served(r)
  \/ \E g \in Gens : reclaimSupersededPublicSnapshotPage(g)

Spec == Init /\ [][Next]_vars

\* Each builder is called again by its executor (the watchdog of every Cron
\* tick); time passes.
FairSpec == Spec /\ WF_vars(Tick) /\ \A w \in Builders : WF_vars(Build(w))

\* -------------------------------------------------------------- properties

TypeOK ==
  /\ now \in 1..MaxTime
  /\ \A m \in Ms : proj[m] # None => proj[m].fact \in Facts
  /\ pending.on \in BOOLEAN /\ pause \in BOOLEAN /\ outbox \in 0..MaxPublish
  /\ \A g \in Rows :
       /\ snaps[g].state \in {"building", "current", "superseded"}
       /\ snaps[g].count = None <=> snaps[g].state = "building"
  /\ \A p \in patches : p.m \in Ms /\ p.active \in BOOLEAN
  /\ \A w \in Builders : b[w].pc \in {"idle", "pending", "outbox", "current", "rows",
       "old", "patches", "capacity", "generation", "insert", "nodes", "commit",
       "clear", "clean"}

\* Whatever two builders and publications do, when no rebuild is owed the
\* current generation shows every projection as it is: a publication that
\* lands during a build is not lost with the debt the build pays off
\* (snapshot.ts, the guard of the batch).
NothingLost ==
  ~pending.on => \A m \in Ms : proj[m] # None =>
    \E g \in Current : \E n \in snaps[g].nodes :
      n.m = m /\ n.fact = proj[m].fact /\ n.rev = proj[m].rev

\* One generation is current, later generations have higher numbers, and
\* the rebuild that is owed still has its outbox rows.
OneCurrent ==
  /\ Cardinality(Current) <= 1
  /\ \A g, h \in Rows : snaps[g].state = "superseded" /\ snaps[h].state = "current" => g < h
  /\ pending.on <=> outbox > 0

\* A reader that got nodes got a whole generation that was committed under
\* that number, never a mixture and never one that reclaiming has thinned out.
ReadersGetWholes ==
  \A r \in Readers : reader[r].pc = "served" => reader[r].nodes \in made[reader[r].gen]

\* A patch that the current generation shows within its window is the active
\* row of the table with the same window, and every active row is told.
PatchesAgree ==
  \A g \in Current :
    /\ \A n \in snaps[g].nodes : n.patch # None /\ n.patch.retain > now =>
         \E p \in patches : p.m = n.m /\ p.active /\ p.retain = n.patch.retain
    /\ \A p \in patches : p.active /\ p.retain > now =>
         \E n \in snaps[g].nodes : n.m = p.m /\ n.patch # None /\ n.patch.retain = p.retain

\* A client that holds generation g and meets a node stamped g or earlier
\* has that node already: stamps only move when content does (the shrink
\* guard of the feeds relies on it).
StampsHold ==
  \A g \in Current, h \in Rows :
    snaps[h].state = "superseded" /\ snaps[h].count = Cardinality(snaps[h].nodes) =>
      \A n \in snaps[g].nodes : n.since <= h =>
        \E k \in snaps[h].nodes : k.m = n.m /\ Content(k) = Content(n)

\* While the current generation shows a patch of a node that has a time, or
\* says why it has none, the window covers the latest of the earlier times
\* clients were told, unless that window is over already
\* (public-calendar.ts:89: the watermark of public old times only grows,
\* repeated changes do not shorten the compensation).
WatermarkKept ==
  \A g \in Current : \A n \in snaps[g].nodes :
    n.patch # None /\ (n.fact.time # 0 \/ n.fact.status # "up") =>
      told[n.m] = 0 \/ told[n.m] + TailDays <= now \/ n.patch.retain >= told[n.m] + TailDays

\* With no build under way and none owed, a table that has no room for two
\* more patches keeps non-critical publications paused.
PausedWhenFull ==
  (~pending.on /\ \A w \in Builders : b[w].pc = "idle") =>
    (Cardinality(Retained(now)) + 1 >= PatchMax => pause)

\* A rebuild that is owed is done, whatever expired, failed or died before.
Owed == pending.on
RebuildDone == Owed ~> ~Owed

\* A pause for want of room ends once the patches have left their windows,
\* though nothing is published while it lasts.
PauseEnds == pause ~> ~pause

\* What holds of the public calendar in every state.
SnapshotsHold ==
  TypeOK /\ NothingLost /\ OneCurrent /\ ReadersGetWholes /\ PatchesAgree /\ StampsHold /\ WatermarkKept /\ PausedWhenFull
=============================================================================
