--------------------------- MODULE OccurrencePlan ---------------------------
(***************************************************************************)
(* From a publication to the mails somebody is owed. Publishing moves an   *)
(* event and leaves a signal; the pipeline turns each signal into          *)
(* occurrences, ends those of older plans and marks the signal dispatched; *)
(* when an occurrence is due the delivery executor freezes its audience    *)
(* and walks over it page by page. Publishing goes on at any time, and     *)
(* both executors may die between two statements. One event with one       *)
(* start node; the order of a user is its number.                          *)
(***************************************************************************)
EXTENDS Integers, Sequences, FiniteSets, FiniteSetsExt

CONSTANTS None, Times,             \* exact times the node may be given
          Lead, Grace,             \* lead_time_seconds, REMINDER_GRACE
          LateWindow, LateTTL, ChangeTTL, NewTTL,
          Page, Upper,             \* MATCH_PAGE; users 1..Upper may register
          MaxPublish, MaxTime, MaxEdits          \* bounds of the model
Bounds == Page \in Nat \ {0} /\ Upper \in Nat /\ MaxPublish \in Nat

Users == 1..Upper
Kinds == {"rule", "late", "new_event", "important_change", "cancelled"}
Keys == (1..MaxPublish) \X Kinds          \* schedule_revision and kind

VARIABLES now,
          ev,       \* the event and its node: revisions, on, exact time
          signals,  \* outbox: notification_publication, in order
          occ,      \* occurrences by key
          del,      \* deliveries by key and user
          start,    \* jobs occurrence:ID:start, by key: put off until
          job,      \* jobs occurrence:ID:email, by key
          gen,      \* the pipeline: the signal it works on
          pass,     \* the delivery executor: the page it works on
          reg, wants,      \* registered users, and those who match
          edits,
          steady    \* history: users owed the occurrence since its audience was frozen
vars == <<now, ev, signals, occ, del, start, job, gen, pass, reg, wants, edits, steady>>
World == <<reg, wants, edits>>
Rows == <<occ, del, start, job, pass, steady>>

Init ==
    /\ now = 0 /\ signals = <<>>
    /\ ev = [rev |-> 0, sched |-> 0, on |-> FALSE, t |-> None]
    /\ occ = [k \in Keys |-> None] /\ del = [k \in Keys |-> [u \in Users |-> None]]
    /\ start = [k \in Keys |-> 0] /\ job = [k \in Keys |-> None]
    /\ gen = None /\ pass = None
    /\ reg = Min({1, Upper}) /\ wants = Users /\ edits = 0
    /\ steady = [k \in Keys |-> {}]

-----------------------------------------------------------------------------
(* Publication: appendEventEffects writes the event, its node and a signal. *)

Exact(on, t) == on /\ t # None

Replanned(t, on) == ev.rev = 0 \/ t # ev.t \/ Exact(on, t) # Exact(ev.on, ev.t)

Publish ==
    /\ Len(signals) < MaxPublish
    /\ \E t \in Times \union {None}, on, back \in BOOLEAN :
          LET created == ev.rev = 0
              moved == Replanned(t, on)
              sched == ev.sched + IF moved THEN 1 ELSE 0
          IN  /\ created => on
              /\ back => created
              /\ ev' = [rev |-> ev.rev + 1, sched |-> sched, on |-> on, t |-> t]
              /\ signals' = Append(signals,
                    [rev |-> ev.rev + 1, sched |-> sched, created |-> created, moved |-> moved,
                     exact |-> t # None /\ ev.t = None, back |-> back, at |-> now, open |-> TRUE])
    /\ UNCHANGED <<now, gen, Rows, World>>

-----------------------------------------------------------------------------
(* generatePublicationOccurrences. *)

Entry(kind, due, exp) == {[kind |-> kind, due |-> due, exp |-> exp]}

\* The reminders of a plan; what is discovered too late is told at once.
Reminders(e, s) ==
    IF ~e.on \/ ~s.moved \/ e.t = None THEN {}
    ELSE LET due == e.t - Lead
             exp == Min({due + Grace, e.t})
             late == IF e.t <= s.at THEN s.at + LateTTL ELSE Min({s.at + LateTTL, e.t})
         IN  IF exp > s.at THEN Entry("rule", due, exp)
             ELSE IF s.exact /\ ~s.back /\ s.at - e.t <= LateWindow THEN Entry("late", s.at, late)
             ELSE {}

\* What the publication itself is told as.
Notices(e, s) ==
    IF s.back THEN {}
    ELSE IF s.created THEN Entry("new_event", s.at, s.at + NewTTL)
    ELSE IF ~e.on THEN Entry("cancelled", s.at, s.at + ChangeTTL)
    ELSE IF s.moved THEN Entry("important_change", s.at, s.at + ChangeTTL)
    ELSE {}

plannedOccurrences(e, s) == Reminders(e, s) \union Notices(e, s)

\* Mutant: a signal is current only for the very revision it was written at.
Current_Exact(e, s) == e.rev = s.rev /\ e.sched = s.sched
Current(e, s) == e.rev >= s.rev /\ e.sched = s.sched

ReadSignal ==
    /\ gen = None
    /\ \E i \in DOMAIN signals :
          /\ signals[i].open
          /\ gen' = [pc |-> IF Current(ev, signals[i]) THEN "nodes" ELSE "commit",
                     i |-> i, ev |-> ev, plan |-> {}]
    /\ UNCHANGED <<now, ev, signals, Rows, World>>

\* The nodes and the occurrences that exist are read after the event.
ReadNodes ==
    /\ gen # None /\ gen.pc = "nodes"
    /\ LET s == signals[gen.i]
           seen == [gen.ev EXCEPT !.t = ev.t]
       IN  gen' = [gen EXCEPT !.pc = IF s.moved THEN "old" ELSE "commit",
                     !.plan = {x \in plannedOccurrences(seen, s) : occ[<<seen.sched, x.kind>>] = None}]
    /\ UNCHANGED <<now, ev, signals, Rows, World>>

Older(k, e) == k[1] < e.sched

InvalidateOld ==
    /\ gen # None /\ gen.pc = "old" /\ gen' = [gen EXCEPT !.pc = "commit"]
    /\ occ' = [k \in Keys |-> IF occ[k] # None /\ Older(k, gen.ev)
                              THEN [occ[k] EXCEPT !.inv = TRUE] ELSE occ[k]]
    /\ del' = [k \in Keys |-> [u \in Users |->
                 IF del[k][u] = "pending" /\ Older(k, gen.ev) THEN "superseded" ELSE del[k][u]]]
    /\ UNCHANGED <<now, ev, signals, start, job, pass, steady, World>>

\* Mutant: only a current signal is ever marked dispatched.
SignalGuard_Current(g) == signals[g.i].open /\ ev.rev = g.ev.rev /\ Current(ev, signals[g.i])
SignalGuard(g) == signals[g.i].open /\ ev.rev = g.ev.rev /\ ev.sched = g.ev.sched

\* A missed commit leaves the signal open; the pipeline takes it up again.
CommitSignal ==
    /\ gen # None /\ gen.pc = "commit" /\ gen' = None
    /\ IF SignalGuard(gen)
       THEN /\ signals' = [signals EXCEPT ![gen.i].open = FALSE]
            /\ occ' = [k \in Keys |->
                 IF \E x \in gen.plan : k = <<gen.ev.sched, x.kind>>
                 THEN LET x == CHOOSE x \in gen.plan : x.kind = k[2]
                      IN  [due |-> x.due, exp |-> x.exp, upper |-> None, inv |-> FALSE]
                 ELSE occ[k]]
       ELSE UNCHANGED <<signals, occ>>
    /\ UNCHANGED <<now, ev, del, start, job, pass, steady, World>>

PipelineDies == gen # None /\ gen' = None /\ UNCHANGED <<now, ev, signals, Rows, World>>

-----------------------------------------------------------------------------
(* Expansion: startDueOccurrenceExpansion, expandOccurrencePage. *)

Valid(k) == occ[k] # None /\ ~occ[k].inv /\ k[1] = ev.sched /\ occ[k].exp > now

CanStart(k) == Valid(k) /\ occ[k].upper = None /\ occ[k].due <= now /\ start[k] <= now

\* Those of the frozen audience who match, whatever happens to the others.
StartExpansion(k) ==
    /\ CanStart(k)
    /\ occ' = [occ EXCEPT ![k].upper = reg]
    /\ job' = [job EXCEPT ![k] = [status |-> "pending", cursor |-> 0, ver |-> 0, due |-> now]]
    /\ steady' = [steady EXCEPT ![k] = (1..reg) \intersect wants]
    /\ UNCHANGED <<now, ev, signals, del, start, gen, pass, World>>

\* A start that throws puts off this occurrence alone.
StartFails(k) ==
    /\ CanStart(k)
    /\ start' = [start EXCEPT ![k] = now + 1]
    /\ UNCHANGED <<now, ev, signals, occ, del, job, gen, pass, steady, World>>

PageUsers(k) ==
    LET left == (job[k].cursor + 1)..occ[k].upper
    IN  {u \in left : u <= job[k].cursor + Page}

ReadPage(k) ==
    /\ pass = None /\ job[k] # None /\ job[k].status = "pending" /\ job[k].due <= now
    /\ LET stale == ~Valid(k)
           users == IF stale THEN {} ELSE PageUsers(k)
           last == IF users = {} THEN occ[k].upper ELSE Max(users)
       IN  pass' = [k |-> k, ver |-> job[k].ver, stale |-> stale, last |-> last,
                    done |-> stale \/ Cardinality(users) < Page \/ last >= occ[k].upper,
                    targets |-> {u \in users \intersect wants : del[k][u] = None}]
    /\ UNCHANGED <<now, ev, signals, occ, del, start, job, gen, steady, World>>

PageGuard(q) ==
    /\ job[q.k].status = "pending" /\ job[q.k].ver = q.ver
    /\ ~q.stale => Valid(q.k)

NextCursor(q) == q.last

CommitPage ==
    /\ pass # None /\ pass' = None
    /\ LET k == pass.k IN
       IF PageGuard(pass)
       THEN /\ job' = [job EXCEPT ![k] = [@ EXCEPT !.cursor = NextCursor(pass), !.ver = @ + 1,
                          !.status = IF pass.done THEN "done" ELSE "pending"]]
            /\ del' = [del EXCEPT ![k] = [u \in Users |-> IF u \in pass.targets THEN "pending" ELSE @[u]]]
       ELSE UNCHANGED <<job, del>>
    /\ UNCHANGED <<now, ev, signals, occ, start, gen, steady, World>>

\* runOccurrencePass: a page that throws is put off, and the executor may die.
FailPage ==
    /\ pass # None /\ pass' = None
    /\ \/ job' = [job EXCEPT ![pass.k] = [@ EXCEPT !.due = now + 1, !.ver = @ + 1]]
       \/ UNCHANGED job
    /\ UNCHANGED <<now, ev, signals, occ, del, start, gen, steady, World>>

-----------------------------------------------------------------------------
Edit ==
    /\ edits < MaxEdits /\ edits' = edits + 1
    /\ \/ reg < Upper /\ reg' = reg + 1 /\ UNCHANGED wants
       \/ \E u \in 1..reg : wants' = SymDiff(wants, {u}) /\ UNCHANGED reg
    /\ steady' = [k \in Keys |-> steady[k] \intersect wants']
    /\ UNCHANGED <<now, ev, signals, occ, del, start, job, gen, pass>>

Tick == now < MaxTime /\ now' = now + 1 /\ UNCHANGED <<ev, signals, gen, Rows, World>>

Next ==
    \/ Publish \/ ReadSignal \/ ReadNodes \/ InvalidateOld \/ CommitSignal \/ PipelineDies
    \/ CommitPage \/ FailPage \/ Edit \/ Tick
    \/ \E k \in Keys : StartExpansion(k) \/ StartFails(k) \/ ReadPage(k)

Spec == Init /\ [][Next]_vars

\* The pipeline takes every open signal up again (alarm and watchdog).
FairSpec == Spec /\ WF_vars(ReadSignal) /\ SF_vars(ReadNodes) /\ SF_vars(InvalidateOld)
                 /\ SF_vars(CommitSignal)

-----------------------------------------------------------------------------
(* Properties. *)

\* Rows have the shapes of the tables.
TypeOK ==
    /\ ev.sched \in 0..MaxPublish /\ ev.sched <= ev.rev
    /\ \A k \in Keys : occ[k] # None => occ[k].due < occ[k].exp /\ occ[k].inv \in BOOLEAN
    /\ \A k \in Keys : job[k] # None => job[k].cursor \in 0..Upper

\* A consumed signal of the plan that holds has left every occurrence of it:
\* edits of the text alone, crossing publications and repeated attempts lose none
\* (generatePublicationOccurrences).
PlanComplete ==
    \A i \in DOMAIN signals : LET s == signals[i] IN
        (~s.open /\ s.sched = ev.sched) =>
            /\ \A x \in Reminders(ev, s) : occ[<<ev.sched, x.kind>>] # None
            /\ s.created /\ ~s.back => occ[<<ev.sched, "new_event">>] # None

\* A reminder of the plan that holds is for the time the node has.
RightTime ==
    \A k \in Keys : (occ[k] # None /\ k[1] = ev.sched /\ k[2] = "rule") =>
        ev.t # None /\ occ[k].due = ev.t - Lead

\* Once every signal is consumed, no occurrence or waiting delivery of an older
\* plan is left: whatever crossed, the last plan ended the others.
OldPlansEnd ==
    (\A i \in DOMAIN signals : ~signals[i].open) =>
        \A k \in Keys : k[1] < ev.sched =>
            /\ occ[k] # None => occ[k].inv
            /\ \A u \in Users : del[k][u] # "pending"

\* A finished expansion of a plan that stands left out nobody of its frozen
\* audience who matched all the time, and no one was added to that audience.
NobodyMissed ==
    \A k \in Keys : (job[k] # None /\ job[k].status = "done" /\ Valid(k)) =>
        /\ \A u \in steady[k] : del[k][u] # None
        /\ \A u \in Users : u > occ[k].upper => del[k][u] = None

\* The pages of an expansion only ever make deliveries of the plan that holds.
NotForOldPlan ==
    \A k \in Keys, u \in Users : (del[k][u] = None /\ del'[k][u] # None) => k[1] = ev.sched

\* Every signal is consumed in the end.
Unheard(i) == i \in DOMAIN signals /\ signals[i].open
SignalsDrain == \A i \in 1..MaxPublish : Unheard(i) ~> ~Unheard(i)

\* What holds of the plans in every state.
PlansHold == TypeOK /\ PlanComplete /\ RightTime /\ OldPlansEnd /\ NobodyMissed
=============================================================================
