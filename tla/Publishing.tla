----------------------------- MODULE Publishing -----------------------------
(***************************************************************************)
(* From the versions of one article to one public event. The pipeline      *)
(* extracts a candidate from every version, parks the job of one that      *)
(* waits for a person, and publishes what is approved; administrators      *)
(* create, revise, reject, approve, correct, associate and retract; a      *)
(* builder turns the projection into the public snapshot. A publication    *)
(* plans from what it read and commits if all of it still holds.           *)
(* The event has one node; text stands for what is public and not a time.  *)
(***************************************************************************)
EXTENDS Naturals, Sequences, FiniteSets

CONSTANTS Versions, Cands, Admins, None,
          Props,           \* proposals: [text, time, gone]
          MaxTime, MaxMoves
Pipe == "pipe"
Procs == {Pipe} \union Admins
Manual == {"correct", "associate", "retract"}
Actions == Manual \union {"approve"}

VARIABLES now, latest,     \* newest version of the article
          cand,            \* candidates and their evidence
          jobs,            \* pipeline:publication jobs by version
          evt, proj,       \* events with its milestone, calendar_projections
          history,         \* event_revisions
          signals,         \* outbox, notification topic
          pending, rebuilds,   \* PUBLIC_SNAPSHOT_PENDING; outbox, rebuild topic
          shown,           \* the projection in the current snapshot
          auto, paused,    \* operator switch; capacity pause
          proc, builder,   \* calls at work
          moves
vars == <<now, latest, cand, jobs, evt, proj, history, signals, pending, rebuilds,
          shown, auto, paused, proc, builder, moves>>
Public == <<evt, proj, history, signals, pending, rebuilds, shown>>

Init ==
    /\ now = 1 /\ latest = 0 /\ moves = 0
    /\ cand = [c \in Cands |-> None] /\ jobs = [v \in Versions |-> None]
    /\ evt = None /\ proj = None /\ history = <<>> /\ signals = {}
    /\ pending = None /\ rebuilds = {} /\ shown = None
    /\ auto = TRUE /\ paused = FALSE
    /\ proc = [p \in Procs |-> None] /\ builder = None

Of(v) == {c \in Cands : cand[c] # None /\ cand[c].ver = v}
Linked(v) == \E c \in Of(v) : cand[c].linked
New == {c \in Cands : cand[c] = None /\ \A d \in Cands : d < c => cand[d] # None}   \* ids are random: take them in order
Put(c, change) == cand' = [cand EXCEPT ![c] = change]
Move == moves < MaxMoves /\ moves' = moves + 1

-----------------------------------------------------------------------------
(* classifyPublicationChange, for one event and one node. *)

Changed(old, prop, locked) == old # None => (old.prop # prop \/ old.locked # locked)
Rescheduled(old, prop) == old # None => (old.prop.time # prop.time \/ old.prop.gone # prop.gone)
Visible(old, prop) == old # None => old.prop # prop
ChangeKind(old, prop, action) ==
    IF old = None THEN "created" ELSE IF action = "associate" THEN "associated"
    ELSE IF prop.gone THEN "retracted" ELSE IF action # "auto" THEN "manual"
    ELSE IF Rescheduled(old, prop) THEN "schedule" ELSE "content"

-----------------------------------------------------------------------------
(* The pipeline job of a version. *)

Ingest ==
    /\ latest + 1 \in Versions /\ latest' = latest + 1
    /\ jobs' = [jobs EXCEPT ![latest'] = [status |-> "pending", seen |-> 0]]
    /\ UNCHANGED <<now, cand, Public, auto, paused, proc, builder, moves>>

\* storeRuleCandidate: a person's candidate first, then the model's, then the rule's.
Newest(S) == CHOOSE c \in S : \A d \in S : cand[d].at <= cand[c].at
Chosen(v) ==
    LET man == {c \in Of(v) : cand[c].run = None}
        mod == {c \in Of(v) : cand[c].run = "model"}
    IN  IF man # {} THEN Newest(man) ELSE IF mod # {} THEN Newest(mod)
        ELSE IF Of(v) # {} THEN Newest(Of(v)) ELSE None

Store(v) ==
    /\ jobs[v] # None /\ jobs[v].status = "pending" /\ Chosen(v) = None
    /\ \E c \in New, prop \in Props, s \in {"approved", "pending"} :
          /\ ~prop.gone
          /\ Put(c, [ver |-> v, run |-> "rule", prop |-> prop, status |-> s, at |-> now, linked |-> FALSE])
    /\ UNCHANGED <<now, latest, jobs, Public, auto, paused, proc, builder, moves>>

Extract(v) ==
    /\ proc[Pipe] = None /\ jobs[v] # None /\ jobs[v].status = "pending" /\ Chosen(v) # None
    /\ LET c == Chosen(v) IN proc' = [proc EXCEPT ![Pipe] =
          [pc |-> "gate", v |-> v, c |-> c, upd |-> cand[c].at, status |-> cand[c].status, action |-> "auto"]]
    /\ UNCHANGED <<now, latest, cand, jobs, Public, auto, paused, builder, moves>>

isCritical(prop) == evt # None /\ Rescheduled(evt, prop)

FinishJob(v, status, seen) ==
    /\ jobs' = [jobs EXCEPT ![v] = [status |-> status, seen |-> seen]]
    /\ proc' = [proc EXCEPT ![Pipe] = None]

SeenAt(p) == proc[p].upd

PutOff(c) == (cand[c].run = "rule" /\ ~auto) \/ (paused /\ ~isCritical(cand[c].prop))

\* Rejected ends the job, a candidate nobody decided parks it; switches, the pause and
\* the end of the pass's time put it off; an approval whose times were derived from a
\* schedule that has changed ends it unpublished. (read_only puts it off before it
\* extracts: it stays pending.)
Gate ==
    LET x == proc[Pipe] IN
    /\ x # None /\ x.pc = "gate"
    /\ \/ x.status = "rejected" /\ FinishJob(x.v, "done", 0) /\ UNCHANGED moves
       \/ x.status = "pending" /\ FinishJob(x.v, "parked", SeenAt(Pipe)) /\ UNCHANGED moves
       \/ x.status # "rejected" /\ Move /\ FinishJob(x.v, "pending", 0)
       \/ x.status = "approved" /\ PutOff(x.c) /\ FinishJob(x.v, "pending", 0) /\ UNCHANGED moves
       \/ x.status = "approved" /\ ~PutOff(x.c) /\ Move /\ FinishJob(x.v, "done", 0)
       \/ /\ x.status = "approved" /\ ~PutOff(x.c)
          /\ proc' = [proc EXCEPT ![Pipe].pc = "read"] /\ UNCHANGED <<jobs, moves>>
    /\ UNCHANGED <<now, latest, cand, Public, auto, paused, builder>>

\* The watchdog wakes a job whose version has a candidate changed since.
Wake(v) ==
    /\ jobs[v] # None /\ jobs[v].status = "parked"
    /\ \E c \in Of(v) : cand[c].at > jobs[v].seen
    /\ jobs' = [jobs EXCEPT ![v].status = "pending"]
    /\ UNCHANGED <<now, latest, cand, Public, auto, paused, proc, builder, moves>>

-----------------------------------------------------------------------------
(* publishCandidate. *)

IsNewest(v) == v = latest
Unlinked(c) == ~cand[c].linked

End(p, outcome) ==
    IF p = Pipe
    THEN FinishJob(proc[p].v, IF outcome \in {"missed", "error"} THEN "pending" ELSE "done", 0)
    ELSE proc' = [proc EXCEPT ![p] = None] /\ UNCHANGED jobs

ReadCandidate(p) ==
    LET x == proc[p] c == x.c IN
    /\ x # None /\ x.pc = "read"
    /\ \/ p # Pipe /\ cand[c].at # x.upd /\ End(p, "missed")
       \/ /\ p = Pipe \/ cand[c].at = x.upd
          /\ \/ ~Unlinked(c) /\ End(p, "unchanged")
             \/ Unlinked(c) /\ cand[c].prop.gone # (x.action = "retract") /\ End(p, "error")
             \/ /\ Unlinked(c) /\ cand[c].prop.gone = (x.action = "retract")
                /\ \/ ~IsNewest(cand[c].ver) /\ End(p, "stale")
                   \/ /\ IsNewest(cand[c].ver)
                      /\ proc' = [proc EXCEPT ![p] = [pc |-> "plan", v |-> cand[c].ver, c |-> c, action |-> x.action,
                                     upd |-> cand[c].at, prop |-> cand[c].prop, run |-> cand[c].run]]
                      /\ UNCHANGED jobs
    /\ UNCHANGED <<now, latest, cand, Public, auto, paused, builder, moves>>

ByHand(x) == x.action \in Manual \/ x.run = None
Locks(x) == ByHand(x) \/ (evt # None /\ evt.locked)

LockedOut(x) == evt # None /\ evt.locked /\ x.action \notin Manual

Plan(p) ==
    LET x == proc[p]
        lk == Locks(x)
    IN
    /\ x # None /\ x.pc = "plan"
    /\ \/ x.run # None /\ evt # None /\ Linked(x.v) /\ End(p, "unchanged")
       \/ x.action = "associate" /\ evt = None /\ End(p, "error")
       \/ LockedOut(x) /\ End(p, "locked")
       \/ ~Changed(evt, x.prop, lk) /\ x.action # "associate" /\ End(p, "unchanged")
       \/ /\ ~(x.run # None /\ evt # None /\ Linked(x.v))
          /\ ~(x.action = "associate" /\ evt = None)
          /\ ~LockedOut(x)
          /\ Changed(evt, x.prop, lk) \/ x.action = "associate"
          /\ proc' = [proc EXCEPT ![p] = [pc |-> "commit", v |-> x.v, c |-> x.c, action |-> x.action, upd |-> x.upd,
                         prop |-> x.prop, run |-> x.run, old |-> evt, locks |-> lk, pend |-> pending]]
          /\ UNCHANGED jobs
    /\ UNCHANGED <<now, latest, cand, Public, auto, paused, builder, moves>>

Expected(x) ==
    IF x.old = None THEN evt = None
    ELSE evt # None /\ evt.rev = x.old.rev /\ evt.locked = x.old.locked
         /\ evt.irev = x.old.irev /\ proj.rev = x.old.irev

\* Of the pending mark only its time is compared.
SameMark(x) == IF x.pend = None THEN pending = None ELSE pending # None /\ pending.at = x.pend.at

Guard(x) ==
    /\ cand[x.c].at = x.upd /\ cand[x.c].prop = x.prop /\ cand[x.c].status = "approved"
    /\ Unlinked(x.c) /\ IsNewest(x.v) /\ SameMark(x)
    /\ Expected(x) /\ (x.run # None => ~Linked(x.v))

\* appendEventEffects: revision, schedule revision, history, signal, projection.
Commit(p) ==
    LET x == proc[p]
        rev == (IF x.old = None THEN 0 ELSE x.old.rev) + 1
        srev == (IF x.old = None THEN 0 ELSE x.old.srev) + (IF Rescheduled(x.old, x.prop) THEN 1 ELSE 0)
        irev == (IF x.old = None THEN 0 ELSE x.old.irev) + (IF Visible(x.old, x.prop) THEN 1 ELSE 0)
        kind == ChangeKind(x.old, x.prop, IF ByHand(x) /\ x.action \notin Manual THEN "manual" ELSE x.action)
    IN
    /\ x # None /\ x.pc = "commit"
    /\ IF Guard(x)
       THEN /\ evt' = [rev |-> rev, srev |-> srev, irev |-> irev, locked |-> x.locks, prop |-> x.prop]
            /\ proj' = [rev |-> irev, prop |-> x.prop]
            /\ history' = Append(history, [c |-> x.c, ver |-> x.v, rev |-> rev, srev |-> srev, byhand |-> ByHand(x),
                                           action |-> x.action, prop |-> x.prop])
            /\ signals' = signals \union {[rev |-> rev, srev |-> srev, kind |-> kind]}
            /\ pending' = [on |-> TRUE, at |-> now]
            /\ rebuilds' = rebuilds \union {x.c}
            /\ Put(x.c, [cand[x.c] EXCEPT !.linked = TRUE])
            /\ UNCHANGED shown /\ End(p, "published")
       ELSE UNCHANGED <<Public, cand>> /\ End(p, "missed")
    /\ UNCHANGED <<now, latest, auto, paused, builder, moves>>

\* The call ends before it commits; a job is leased again later.
Die(p) ==
    /\ proc[p] # None /\ Move
    /\ proc' = [proc EXCEPT ![p] = None]
    /\ UNCHANGED <<now, latest, cand, jobs, Public, auto, paused, builder>>

-----------------------------------------------------------------------------
(* Review by people, or by the model when review is skipped. *)

Create ==
    /\ Move /\ \E c \in New, v \in 1..latest, prop \in Props :
          Put(c, [ver |-> v, run |-> None, prop |-> prop, status |-> "pending", at |-> now, linked |-> FALSE])
    /\ UNCHANGED <<now, latest, jobs, Public, auto, paused, proc, builder>>

Open(c) == cand[c] # None /\ cand[c].status = "pending" /\ cand[c].at < now

Revise(c) ==
    /\ Open(c) /\ Move /\ \E prop \in Props \ {cand[c].prop} :
          Put(c, [cand[c] EXCEPT !.prop = prop, !.run = None, !.at = now])
    /\ UNCHANGED <<now, latest, jobs, Public, auto, paused, proc, builder>>

Reject(c) ==
    /\ Open(c) /\ Move /\ Put(c, [cand[c] EXCEPT !.status = "rejected", !.run = None, !.at = now])
    /\ UNCHANGED <<now, latest, jobs, Public, auto, paused, proc, builder>>

\* approveModelCandidate: only what the rules queued and nobody took over.
ApproveModel(c) ==
    /\ Open(c) /\ cand[c].run # None /\ Move
    /\ \E prop \in Props : ~prop.gone /\ Put(c, [cand[c] EXCEPT !.status = "approved", !.run = "model", !.prop = prop, !.at = now])
    /\ UNCHANGED <<now, latest, jobs, Public, auto, paused, proc, builder>>

\* The decision is written first; the publication that follows may fail or die.
Decide(p, c, action) ==
    /\ proc[p] = None /\ Move /\ action \in Actions
    /\ cand[c] # None /\ cand[c].at < now /\ cand[c].status \in {"pending", "approved"}
    /\ cand[c].prop.gone = (action = "retract")
    /\ cand[c].run = None \/ cand[c].status = "pending" \/ action = "approve"
    /\ LET decided == IF cand[c].status = "pending"
                      THEN [cand[c] EXCEPT !.status = "approved", !.run = None, !.at = now] ELSE cand[c]
       IN  /\ Put(c, decided)
           /\ proc' = [proc EXCEPT ![p] = [pc |-> "read", c |-> c, upd |-> decided.at, action |-> action]]
    /\ UNCHANGED <<now, latest, jobs, Public, auto, paused, builder>>

-----------------------------------------------------------------------------
(* The snapshot builder (detailed in PublicSnapshot), switches, time. *)

StartBuild ==
    /\ builder = None /\ pending # None /\ pending.on
    /\ builder' = [at |-> pending.at, n |-> Cardinality(rebuilds), proj |-> proj]
    /\ UNCHANGED <<now, latest, cand, jobs, Public, auto, paused, proc, moves>>

\* Mutant: only the time of the pending mark is compared.
BuildGuard_MarkOnly == pending.on /\ pending.at = builder.at
BuildGuard == pending.on /\ pending.at = builder.at
              /\ Cardinality(rebuilds) = builder.n /\ proj = builder.proj

EndBuild ==
    /\ builder # None /\ builder' = None
    /\ IF BuildGuard
       THEN shown' = builder.proj /\ pending' = [on |-> FALSE, at |-> now] /\ rebuilds' = {}
       ELSE UNCHANGED <<shown, pending, rebuilds>>
    /\ UNCHANGED <<now, latest, cand, jobs, evt, proj, history, signals, auto, paused, proc, moves>>

Switch ==
    /\ Move /\ \/ auto' = ~auto /\ UNCHANGED paused
               \/ paused' = ~paused /\ UNCHANGED auto
    /\ UNCHANGED <<now, latest, cand, jobs, Public, proc, builder>>

Tick == now < MaxTime /\ now' = now + 1
        /\ UNCHANGED <<latest, cand, jobs, Public, auto, paused, proc, builder, moves>>

Publish(p) == ReadCandidate(p) \/ Plan(p) \/ Commit(p)
Job == Gate \/ Publish(Pipe) \/ \E v \in Versions : Store(v) \/ Extract(v) \/ Wake(v)
Review == Create \/ \E c \in Cands : Revise(c) \/ Reject(c) \/ ApproveModel(c)
                                     \/ \E p \in Admins, a \in Actions : Decide(p, c, a)
Build == StartBuild \/ EndBuild

Next == Ingest \/ Job \/ Review \/ Build \/ Switch \/ Tick
        \/ (\E p \in Admins : Publish(p)) \/ (\E p \in Procs : Die(p))

Spec == Init /\ [][Next]_vars

\* The watchdog and the alarm run the jobs; switches end open.
FairSpec == Spec /\ WF_vars(Job) /\ WF_vars(Build) /\ WF_vars(Tick)
                 /\ \A v \in Versions : SF_vars(Extract(v)) /\ WF_vars(Wake(v))

-----------------------------------------------------------------------------
(* Properties. *)

\* The pending mark, the rebuild rows and the event agree: an event has its
\* projection, and the rows of rebuilds are there exactly while the mark is on.
TypeOK ==
    /\ (evt = None) <=> (proj = None) /\ evt # None => evt.irev = proj.rev /\ evt.prop = proj.prop
    /\ (rebuilds # {}) <=> (pending # None /\ pending.on)
    /\ \A v \in Versions : jobs[v] = None \/ jobs[v].status \in {"pending", "parked", "done"}

\* Every revision was planned from the one before it: revisions have no gaps, each
\* is told by one signal with its schedule revision, and the schedule revision
\* moved exactly when the time or the validity did (publishCandidate, guard).
RevisionsLineUp ==
    /\ \A i \in 1..Len(history) :
          LET before == IF i = 1 THEN None ELSE [prop |-> history[i-1].prop] IN
          /\ history[i].rev = i
          /\ history[i].srev = (IF i = 1 THEN 0 ELSE history[i-1].srev)
                               + (IF Rescheduled(before, history[i].prop) THEN 1 ELSE 0)
          /\ Cardinality({s \in signals : s.rev = i /\ s.srev = history[i].srev}) = 1
    /\ Cardinality(signals) = Len(history)

\* What a person published is changed only by a person's correction, association
\* or retraction, whatever was planned before it was locked (human_locked).
HumanWins == \A i, j \in 1..Len(history) :
                 (i < j /\ history[i].byhand) => history[j].action \in Manual

\* The event never goes back to the text of an older version of the article, and
\* no candidate is published twice.
NeverBack ==
    \A i, j \in 1..Len(history) : i < j =>
        history[i].ver <= history[j].ver /\ history[i].c # history[j].c

\* What is public and not yet in the snapshot has a rebuild on the way: no
\* publication is lost between the builder's reads and its commit.
RebuildOwed == shown = proj \/ (pending # None /\ pending.on /\ rebuilds # {})

\* A parked job is woken by every decision: when none of its candidates changed
\* since it was parked, one of them is still to be decided.
NoDecisionMissed ==
    \A v \in Versions : (jobs[v] # None /\ jobs[v].status = "parked"
                         /\ ~\E c \in Of(v) : cand[c].at > jobs[v].seen)
                        => \E c \in Of(v) : cand[c].status = "pending"

\* The job of a version whose candidates are all decided ends, though calls die
\* and others publish, while publication is on.
IsDecided(v) == Of(v) # {} /\ \A c \in Of(v) : cand[c].status # "pending"
Unfinished(v) == IsDecided(v) /\ jobs[v].status # "done" /\ auto /\ ~paused
DecidedEnds == \A v \in Versions : Unfinished(v) ~> ~Unfinished(v)

\* What holds of the publications in every state.
PublicationsHold == TypeOK /\ RevisionsLineUp /\ HumanWins /\ NeverBack /\ RebuildOwed /\ NoDecisionMissed
=============================================================================
