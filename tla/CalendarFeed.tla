---------------------------- MODULE CalendarFeed ----------------------------
(***************************************************************************)
(* The private calendar address.  A poll authorises its token, takes the   *)
(* current public generation (through a cache per isolate), checks the     *)
(* sources' watermarks, assembles the entries, holds a shrunken calendar   *)
(* back unless the shrinking is explained, and commits what it is about to *)
(* serve in one conditional update.  Every await is a step, so settings,   *)
(* publications, rotations of the address and other polls fall in between. *)
(*                                                                         *)
(* Times are days.  A public node is its milestone, its public revision,   *)
(* its clock (0: unknown), its type, whether it is cancelled, the          *)
(* generation its content dates from, and its patch.                       *)
(***************************************************************************)
EXTENDS Integers, FiniteSets, FiniteSetsExt, TLC

CONSTANTS Ms, Types, Requests, Isolates, None,
          Past, Future,        \* FEED_PAST_DAYS, FEED_FUTURE_DAYS
          MaxStale,            \* FEED_MAX_STALE
          GuardMin,            \* FEED_SHRINK_GUARD_MIN
          RatioNum, RatioDen,  \* FEED_SHRINK_GUARD_RATIO
          NodeMax,             \* FEED_BASE_NODE_MAX
          Retention,           \* days a patch is kept
          Times,               \* clocks a milestone may have
          Start,               \* the nodes of the first generation
          Kinds,               \* what happens around the polls
          MaxTime, MaxChanges,
          MaxPolls             \* bounds (0: any number of polls)

FeedAssumption ==
  /\ {Past, Future, MaxStale, NodeMax, Retention, MaxTime, MaxChanges, MaxPolls} \subseteq Nat
  /\ GuardMin \in Nat \ {0} /\ RatioDen \in Nat \ {0} /\ RatioNum \in 0..RatioDen

VARIABLES now, user, sub, feed, pub, source, cache, assembling, req,
          changes, polls, sent, last

world == <<now, user, sub, pub, source, changes>>
vars == <<world, feed, cache, assembling, req, polls, sent, last>>

Idle == [pc |-> "idle"]

\* ------------------------------------------------------------- assembling

inFeedWindow(t, at) == t # 0 /\ at - Past <= t /\ t < at + Future + 1

Patched(n, at) == IF n.patch = None THEN FALSE ELSE n.patch.retain > at

ShownTime(n, at) == IF Patched(n, at) THEN n.patch.display ELSE n.time

\* The nodes of one personal calendar at a time.
personalCalendarNodes(cfg, nodes, at) ==
  {n \in nodes :
     /\ n.type \in cfg.types
     /\ ShownTime(n, at) # 0
     /\ inFeedWindow(ShownTime(n, at), at) \/ (Patched(n, at) /\ n.patch.extends)}

feedNodeLimit(nodes) == Cardinality(nodes) > NodeMax

feedSequence(rev, view) == rev + view

\* What a client sees of each node.
Entries(cfg, view, nodes, at) ==
  {[m |-> n.m, seq |-> feedSequence(n.rev, view), time |-> ShownTime(n, at),
    off |-> n.off, alarms |-> cfg.alarms /\ ~n.off] :
     n \in personalCalendarNodes(cfg, nodes, at)}

\* When the last of these nodes leaves by itself.
feedNaturalExitAt(nodes, at) ==
  Max({at} \cup {ShownTime(n, at) + Past + 1 : n \in nodes}
           \cup {n.time + Past + 1 : n \in {k \in nodes : k.time # 0}}
           \cup {n.patch.retain : n \in {k \in nodes : k.patch # None}})

feedSourcesFresh(at) == source <= at /\ at - source <= MaxStale

\* ------------------------------------------------------- the shrink guard

Ids(nodes) == {n.m : n \in nodes}

feedNeedsShrinkEvidence(served, count, view) ==
  IF served = None THEN FALSE
  ELSE /\ served.count >= GuardMin
       /\ served.view = view
       /\ (served.count - count) * RatioDen > RatioNum * served.count

servedUnchanged(n, served) == n.since <= served.gen

\* The node left by itself, or was corrected into something else.
Explained(cfg, n, current, at) ==
  \/ personalCalendarNodes(cfg, {n}, at) = {}
  \/ \E c \in current :
       /\ c.m = n.m /\ c.rev > n.rev
       /\ IF c.patch = None THEN FALSE ELSE c.patch.kind = "classification_corrected"
       /\ personalCalendarNodes(cfg, {c}, at) = {}

\* Whether a shrunken calendar is held back: each absent node that can be
\* looked up must be explained, and what cannot be looked up may not exceed
\* the ratio before the saved natural exit has passed.
feedShrinkBlocked(served, cfg, view, current, previous, at) ==
  LET after == personalCalendarNodes(cfg, current, at)
      whole == previous # None
      evidence == IF whole THEN previous ELSE {n \in current : servedUnchanged(n, served)}
      before == personalCalendarNodes(cfg, evidence, served.at)
      gone == {n \in before : n.m \notin Ids(after)}
      over == Max({0, Cardinality(before) - served.count})
      missing == IF whole THEN served.count - Cardinality(before)
                 ELSE served.count - Cardinality(after) - Max({0, Cardinality(gone) - over})
  IN  /\ feedNeedsShrinkEvidence(served, Cardinality(after), view)
      /\ \/ whole /\ Cardinality(before) > served.count
         \/ \E n \in gone : ~Explained(cfg, n, current, at)
         \/ missing * RatioDen > RatioNum * served.count /\ at < served.exit

\* ------------------------------------------------------- what changes it

Change ==
  /\ changes < MaxChanges
  /\ changes' = changes + 1

Tick ==
  /\ now < MaxTime
  /\ now' = now + 1
  /\ UNCHANGED <<user, sub, feed, pub, source, cache, assembling, req, changes, polls, sent, last>>

\* The sources are collected again.
SourceOk ==
  /\ source # now
  /\ source' = now
  /\ UNCHANGED <<now, user, sub, feed, pub, cache, assembling, req, changes, polls, sent, last>>

changesCalendarView(old, new) == old.types # new.types \/ old.alarms # new.alarms

\* A save of the settings; a change of the view moves the feed's revision in
\* the same batch.
Save(types, alarms) ==
  /\ "save" \in Kinds /\ user.active
  /\ Change
  /\ LET new == [rev |-> sub.rev + 1, types |-> types, alarms |-> alarms]
     IN  /\ sub' = new
         /\ feed' = IF changesCalendarView(sub, new) THEN [feed EXCEPT !.view = @ + 1] ELSE feed
  /\ UNCHANGED <<now, user, pub, source, cache, assembling, req, polls, sent, last>>

\* The address is reset: a new token, the old one is void.
Reset ==
  /\ "reset" \in Kinds /\ user.active
  /\ Change
  /\ feed' = [feed EXCEPT !.on = TRUE, !.token = @ + 1, !.epoch = user.epoch]
  /\ UNCHANGED <<now, user, sub, pub, source, cache, assembling, req, polls, sent, last>>

\* A recovery or the deletion of the account revokes the address in the same
\* batch, when it is enabled.
Revoke(active) ==
  /\ "revoke" \in Kinds /\ user.active
  /\ Change
  /\ user' = [active |-> active, epoch |-> user.epoch + 1]
  /\ feed' = IF feed.on THEN [feed EXCEPT !.on = FALSE, !.token = @ + 1] ELSE feed
  /\ UNCHANGED <<now, sub, pub, source, cache, assembling, req, polls, sent, last>>

Patch(kind, display, ext) ==
  [kind |-> kind, display |-> display, retain |-> now + Retention, extends |-> ext]

\* A new current generation; only the one before it is kept for evidence.
NewGeneration(nodes) ==
  /\ Change
  /\ pub' = [gen |-> pub.gen + 1, nodes |-> nodes, old |-> pub.nodes]
  /\ UNCHANGED <<now, user, sub, feed, source, cache, assembling, req, polls, sent, last>>

\* One node changes, with its revision, its stamp and a patch.
Replace(n, new) ==
  NewGeneration((pub.nodes \ {n}) \cup
                {[new EXCEPT !.rev = n.rev + 1, !.since = pub.gen + 1]})

\* A milestone is moved, reclassified, cancelled or restored.
Publish ==
  /\ "publish" \in Kinds
  /\ \E n \in pub.nodes :
       \/ \E t \in Times \ {n.time} :
            Replace(n, [n EXCEPT !.time = t, !.patch = Patch("rescheduled", t, TRUE)])
       \/ \E ty \in Types \ {n.type} :
            Replace(n, [n EXCEPT !.type = ty,
              !.patch = Patch("classification_corrected", n.time,
                              IF n.patch = None THEN FALSE ELSE n.patch.extends)])
       \/ Replace(n, [n EXCEPT !.off = ~n.off,
              !.patch = Patch(IF n.off THEN "restored" ELSE "cancelled", n.time, TRUE)])

\* A defective generation: a node is missing though nothing withdrew it.
Lose ==
  /\ "lose" \in Kinds
  /\ \E n \in pub.nodes : NewGeneration(pub.nodes \ {n})

\* A rebuild that changes nothing this calendar shows.
Rebuild ==
  /\ "rebuild" \in Kinds
  /\ NewGeneration(pub.nodes)

\* ------------------------------------------------------------------ polls

\* The predicate of every read and of the final update.
Authorized(t) ==
  feed.on /\ feed.token = t /\ user.active /\ feed.epoch = user.epoch

Answer(r, status) ==
  /\ req' = [req EXCEPT ![r] = [pc |-> status, token |-> @.token]]
  /\ assembling' = [assembling EXCEPT ![req[r].iso] = @ \ {req[r].token}]

\* A poll authorises its token; the same token is assembled once at a time.
Poll(r, i, t) ==
  /\ req[r].pc = "idle"
  /\ MaxPolls # 0 => polls < MaxPolls
  /\ polls' = IF MaxPolls = 0 THEN 0 ELSE polls + 1
  /\ IF ~Authorized(t)
       THEN req' = [req EXCEPT ![r] = [pc |-> "404", token |-> t]] /\ UNCHANGED assembling
     ELSE IF t \in assembling[i]
       THEN req' = [req EXCEPT ![r] = [pc |-> "429", token |-> t]] /\ UNCHANGED assembling
     ELSE /\ req' = [req EXCEPT ![r] = [pc |-> "header", iso |-> i, token |-> t, try |-> 1,
                       at |-> now, sub |-> sub, view |-> feed.view, served |-> feed.served]]
          /\ assembling' = [assembling EXCEPT ![i] = @ \cup {t}]
  /\ UNCHANGED <<world, feed, cache, sent, last>>

\* The current generation's number: the cache answers only for that one.
Header(r) ==
  /\ req[r].pc = "header"
  /\ LET i == req[r].iso
         hit == IF cache[i] = None THEN FALSE ELSE cache[i].gen = pub.gen
     IN  /\ req' = [req EXCEPT ![r] = [@ EXCEPT !.pc = IF hit THEN "water" ELSE "snapshot"]
              @@ [gen |-> pub.gen, nodes |-> IF hit THEN cache[i].nodes ELSE {}]]
         /\ cache' = IF hit THEN cache ELSE [cache EXCEPT ![i] = None]
  /\ UNCHANGED <<world, feed, assembling, polls, sent, last>>

\* The whole generation, unless another one has become current.
Snapshot(r) ==
  /\ req[r].pc = "snapshot"
  /\ IF pub.gen # req[r].gen
       THEN Answer(r, "503") /\ UNCHANGED cache
       ELSE /\ cache' = [cache EXCEPT ![req[r].iso] = [gen |-> pub.gen, nodes |-> pub.nodes]]
            /\ req' = [req EXCEPT ![r].pc = "water", ![r].nodes = pub.nodes]
            /\ UNCHANGED assembling
  /\ UNCHANGED <<world, feed, polls, sent, last>>

\* Where the assembly of a poll goes on.
After(l) ==
  LET nodes == personalCalendarNodes(l.sub, l.nodes, l.at)
  IN  IF ~feedSourcesFresh(l.at) THEN "stale"
      ELSE IF feedNodeLimit(nodes) THEN "limit"
      ELSE IF feedNeedsShrinkEvidence(l.served, Cardinality(nodes), l.view) THEN "evidence"
      ELSE "record"

\* The sources' watermarks, then everything that needs no further read.
Watermarks(r) ==
  /\ req[r].pc = "water"
  /\ req' = [req EXCEPT ![r].pc = After(req[r])]
  /\ UNCHANGED <<world, feed, cache, assembling, polls, sent, last>>

\* The generation served last, when it is still there, explains absent nodes.
Evidence(r) ==
  /\ req[r].pc = "evidence"
  /\ LET l == req[r]
         previous == IF l.served.gen = l.gen THEN l.nodes
                     ELSE IF l.served.gen = pub.gen - 1 THEN pub.old ELSE None
     IN  req' = [req EXCEPT ![r].pc =
              IF feedShrinkBlocked(l.served, l.sub, l.view, l.nodes, previous, l.at)
                THEN "guard" ELSE "record"]
  /\ UNCHANGED <<world, feed, cache, assembling, polls, sent, last>>

\* Mutant: a later generation or later settings do not matter.
StillAuthorized(l) ==
  Authorized(l.token) /\ feed.view = l.view /\ feed.served = l.served

\* What the answer was made from is still what the database says.
StillSame(l) ==
  /\ Authorized(l.token)
  /\ feed.view = l.view /\ feed.served = l.served
  /\ sub.rev = l.sub.rev
  /\ pub.gen = l.gen

\* The second attempt, or the answer that the calendar keeps changing.
Retry(r) ==
  IF req[r].try = 2 THEN Answer(r, "503")
  ELSE req' = [req EXCEPT ![r].pc = "again"] /\ UNCHANGED assembling

\* A diagnosis is recorded under the same condition and leaves the baseline.
Diagnose(r) ==
  /\ req[r].pc \in {"stale", "limit", "guard"}
  /\ IF StillSame(req[r]) THEN Answer(r, "503") ELSE Retry(r)
  /\ UNCHANGED <<world, feed, cache, polls, sent, last>>

\* The final update, and with it the answer: the baseline becomes what is
\* served, if nothing it was made from has changed and the sources are fresh.
recordFeedOutput(r) ==
  /\ req[r].pc = "record"
  /\ LET l == req[r]
         nodes == personalCalendarNodes(l.sub, l.nodes, l.at)
         body == Entries(l.sub, l.view, l.nodes, l.at)
     IN  IF StillSame(l) /\ feedSourcesFresh(now)
         THEN /\ feed' = [feed EXCEPT !.served =
                   [at |-> l.at, count |-> Cardinality(nodes), view |-> feed.view,
                    gen |-> l.gen, exit |-> feedNaturalExitAt(nodes, l.at)]]
              /\ req' = [req EXCEPT ![r] = [pc |-> "200", token |-> l.token, at |-> l.at, body |-> body]]
              /\ assembling' = [assembling EXCEPT ![l.iso] = @ \ {l.token}]
              /\ sent' = [m \in Ms |-> IF \E e \in body : e.m = m
                                         THEN CHOOSE e \in body : e.m = m ELSE sent[m]]
              /\ last' = [nodes |-> nodes, at |-> l.at]
         ELSE Retry(r) /\ UNCHANGED <<feed, sent, last>>
  /\ UNCHANGED <<world, cache, polls>>

\* The state is read again for the second attempt.
Again(r) ==
  /\ req[r].pc = "again"
  /\ IF ~Authorized(req[r].token) THEN Answer(r, "404")
     ELSE /\ req' = [req EXCEPT ![r] = [pc |-> "header", iso |-> @.iso, token |-> @.token,
                       try |-> 2, at |-> now, sub |-> sub, view |-> feed.view,
                       served |-> feed.served]]
          /\ UNCHANGED assembling
  /\ UNCHANGED <<world, feed, cache, polls, sent, last>>

Answered == {"200", "404", "429", "503"}

\* The client polls again some time.
Done(r) ==
  /\ req[r].pc \in Answered
  /\ req' = [req EXCEPT ![r] = Idle]
  /\ UNCHANGED <<world, feed, cache, assembling, polls, sent, last>>

\* ---------------------------------------------------------- specification

Init ==
  /\ now = 1
  /\ user = [active |-> TRUE, epoch |-> 0]
  /\ sub = [rev |-> 1, types |-> Types, alarms |-> FALSE]
  /\ feed = [on |-> TRUE, token |-> 1, view |-> 0, epoch |-> 0, served |-> None]
  /\ pub = [gen |-> 1, nodes |-> Start, old |-> {}]
  /\ source = 1
  /\ cache = [i \in Isolates |-> None]
  /\ assembling = [i \in Isolates |-> {}]
  /\ req = [r \in Requests |-> Idle]
  /\ changes = 0 /\ polls = 0
  /\ sent = [m \in Ms |-> None]
  /\ last = None

Serve(r) ==
  \/ Header(r) \/ Snapshot(r) \/ Watermarks(r) \/ Evidence(r) \/ Diagnose(r)
  \/ recordFeedOutput(r) \/ Again(r) \/ Done(r)

Next ==
  \/ Tick \/ SourceOk \/ Reset \/ Publish \/ Lose \/ Rebuild
  \/ \E types \in SUBSET Types, alarms \in BOOLEAN : Save(types, alarms)
  \/ \E active \in BOOLEAN : Revoke(active)
  \/ \E r \in Requests : Serve(r) \/ \E i \in Isolates, t \in 1..feed.token : Poll(r, i, t)

Spec == Init /\ [][Next]_vars

PollAgain(r) == \E i \in Isolates : Poll(r, i, feed.token)

\* Time passes, sources are collected, the client of the current address
\* keeps polling and every poll is served.
FairSpec ==
  /\ Spec /\ WF_vars(Tick) /\ WF_vars(SourceOk)
  /\ \A r \in Requests : WF_vars(Serve(r))
  /\ \A r \in Requests : WF_vars(PollAgain(r))

\* -------------------------------------------------------------- properties

TypeOK ==
  /\ sub.types \subseteq Types /\ sub.alarms \in BOOLEAN
  /\ Ids(pub.nodes) \subseteq Ms /\ Cardinality(pub.nodes) = Cardinality(Ids(pub.nodes))
  /\ \A r \in Requests : req[r].pc \in Answered \cup
       {"idle", "header", "snapshot", "water", "evidence", "record", "stale", "limit", "guard", "again"}
  /\ \A i \in Isolates : \A t \in assembling[i] :
       Cardinality({r \in Requests : IF req[r].pc \in Answered \cup {"idle"} THEN FALSE
                                      ELSE req[r].iso = i /\ req[r].token = t}) = 1

Serves(r) == req[r].pc # "200" /\ req'[r].pc = "200"

\* What a poll serves is, at the moment it is committed, exactly the calendar
\* of the current settings over the current generation, for an address that
\* is still the valid one: neither a cache, nor a reset, a recovery, a save or
\* a publication in between lets anything older out (handler.ts, store.ts).
ServesTheCurrent ==
  \A r \in Requests : Serves(r) =>
    /\ Authorized(req'[r].token)
    /\ req'[r].body = Entries(sub, feed.view, pub.nodes, req'[r].at)

\* A client that sees an entry again sees a sequence that is not lower, and a
\* higher one whenever the entry is another one: its calendar takes the change.
SequenceTells ==
  \A r \in Requests : Serves(r) =>
    \A e \in req'[r].body : sent[e.m] # None =>
      \/ e = sent[e.m]
      \/ e.seq > sent[e.m].seq

\* A calendar that shrinks beyond the ratio under unchanged settings is only
\* served when the absent entries, less the new ones, are explained by what
\* was served then: gone by itself or corrected into something else.
ShrinksExplained ==
  \A r \in Requests : Serves(r) /\ last # None =>
    LET shown == {n \in pub.nodes : \E e \in req'[r].body : e.m = n.m}
        absent == {n \in last.nodes : n.m \notin Ids(shown)}
        open == {n \in absent : ~Explained(sub, n, pub.nodes, req'[r].at)}
        fresh == Ids(shown) \ Ids(last.nodes)
    IN  feedNeedsShrinkEvidence(feed.served, Cardinality(shown), feed.view) =>
          (Cardinality(open) - Cardinality(fresh)) * RatioDen <= RatioNum * Cardinality(last.nodes)

\* The baseline only moves forward: a poll that assembled an older generation
\* or started before an answer that is out does not replace it.
BaselineForward ==
  feed.served # None =>
    feed'.served # None /\ feed'.served.gen >= feed.served.gen
      /\ feed'.served.view >= feed.served.view

\* However much was lost, the address serves the current generation again.
Behind == feed.served = None \/ feed.served.gen # pub.gen
ServedAgain == Behind ~> ~Behind

\* What holds of every step of the feed.
FeedStep == ServesTheCurrent /\ SequenceTells /\ ShrinksExplained /\ BaselineForward
=============================================================================
