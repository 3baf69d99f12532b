--------------------------- MODULE CalendarManage ---------------------------
(***************************************************************************)
(* Managing the private calendar address: the panel of each open page, and *)
(* the server's reads, previews and mutations.  An asynchronous function   *)
(* of a panel is a task with a control point of its own; a mutation runs   *)
(* in a slot of the server, which goes on when the browser has given up.   *)
(*                                                                         *)
(* The address itself is its generation: it is rotated with it.  A preview *)
(* is the list of its items, each with what it was computed from.          *)
(***************************************************************************)
EXTENDS Integers, FiniteSets, Sequences, SequencesExt, TLC

CONSTANTS Panels, Slots, Isolates, None,
          Total(_, _),   \* items of a preview, by revision and generation
          PageSize,      \* what fits into one page
          Fresh,         \* PUBLIC_CACHE_FRESH
          UserMax, GlobalMax,  \* USER_MUTATIONS_DAY, GLOBAL_MUTATIONS_DAY
          Kinds,         \* what happens around the panels
          FirstOn,       \* whether the address is enabled at first
          MaxTime, MaxChanges, MaxKeys  \* bounds

ManageAssumption ==
  /\ {Fresh, UserMax, GlobalMax, MaxTime, MaxChanges, MaxKeys} \subseteq Nat
  /\ PageSize \in Nat \ {0}
  /\ FirstOn \in BOOLEAN

VARIABLES now, user, sess, sub, pub, feed, used, slot, busy, panel, changes, keys,
          done,   \* operation keys that have committed
          shown   \* what was on the screen when an operation was confirmed

server == <<user, sub, pub, feed, used, done>>
vars == <<now, server, sess, slot, busy, panel, changes, keys, shown>>

Free == [pc |-> "free"]

NoTask == [kind |-> "none", pc |-> "done"]

NewPanel == [up |-> TRUE, busy |-> FALSE, state |-> None, preview |-> None, op |-> None,
             serial |-> 0, ctl |-> None, late |-> NoTask, task |-> NoTask]

Change ==
  /\ changes < MaxChanges
  /\ changes' = changes + 1

\* ------------------------------------------------------------- the server

\* The predicate on a request's session, which carries the epoch it was made in.
sessionPredicate(epoch) == epoch = user.epoch

previewPredicate(op) == sub = op.rev /\ pub = op.pgen

Row == [on |-> feed.on, gen |-> feed.gen]

\* A row that is enabled for the session's recovery epoch.
Enabled(row, epoch) == IF row = None THEN FALSE ELSE row.on /\ row.epoch = epoch

GenOf(row) == IF row = None THEN 0 ELSE row.gen

Respond(s, answer) ==
  /\ slot' = [slot EXCEPT ![s] = [pc |-> "answered", p |-> @.p, op |-> @.op, answer |-> answer]]
  /\ busy' = [busy EXCEPT ![slot[s].iso] = FALSE]

result(row, changed) == [status |-> "ok", gen |-> GenOf(row), changed |-> changed]

Problem(status) == [status |-> status]

\* A request reaches an isolate, which has one mutation per user at a time.
Arrive(s, i) ==
  /\ slot[s].pc = "sent"
  /\ IF busy[i] THEN
          /\ slot' = [slot EXCEPT ![s] = [pc |-> "answered", p |-> @.p, op |-> @.op,
                                          answer |-> Problem("429")]]
          /\ UNCHANGED busy
     ELSE /\ slot' = [slot EXCEPT ![s] = [@ EXCEPT !.pc = "who"] @@ [iso |-> i]]
          /\ busy' = [busy EXCEPT ![i] = TRUE]
  /\ UNCHANGED <<now, server, sess, panel, changes, keys, shown>>

identity(s) ==
  /\ slot[s].pc = "who"
  /\ IF ~sessionPredicate(slot[s].epoch) THEN Respond(s, Problem("401"))
     ELSE IF sess[slot[s].p].required THEN Respond(s, Problem("403"))
     ELSE slot' = [slot EXCEPT ![s].pc = "row"] /\ UNCHANGED busy
  /\ UNCHANGED <<now, server, sess, panel, changes, keys, shown>>

\* The last operation is answered again; another generation is a conflict.
readRow(s) ==
  /\ slot[s].pc = "row"
  /\ LET op == slot[s].op
     IN  IF (IF feed = None THEN FALSE ELSE feed.last = op.key)
           THEN IF op.action # "disable" /\ feed.epoch # slot[s].epoch
                  THEN Respond(s, Problem("409"))
                  ELSE Respond(s, result(feed, op.action = "enable"))
         ELSE IF GenOf(feed) # op.expected THEN Respond(s, Problem("409"))
         ELSE /\ slot' = [slot EXCEPT ![s] = [@ EXCEPT !.pc = "assert"] @@ [row |-> feed]]
              /\ UNCHANGED busy
  /\ UNCHANGED <<now, server, sess, panel, changes, keys, shown>>

\* The preview is still current; nothing to do is answered as such.
assertPreview(s) ==
  /\ slot[s].pc = "assert"
  /\ LET op == slot[s].op
         row == slot[s].row
     IN  IF op.action = "enable" /\ ~previewPredicate(op)
           THEN Respond(s, Problem("outdated"))
         ELSE IF \/ op.action = "enable" /\ Enabled(row, slot[s].epoch)
                 \/ op.action = "disable" /\ (IF row = None THEN TRUE ELSE ~row.on)
           THEN Respond(s, result(row, FALSE))
         ELSE IF op.action = "reset" /\ row = None THEN Respond(s, Problem("409"))
         ELSE slot' = [slot EXCEPT ![s].pc = "commit"] /\ UNCHANGED busy
  /\ UNCHANGED <<now, server, sess, panel, changes, keys, shown>>

Charge(op) == op.action # "disable"

\* Mutant: the generation is only compared when the row is read.
GuardAnyGeneration(s) ==
  /\ sessionPredicate(slot[s].epoch) /\ ~sess[slot[s].p].required
  /\ slot[s].op.action = "enable" => previewPredicate(slot[s].op)
  /\ Charge(slot[s].op) => used.user < UserMax /\ used.global < GlobalMax

\* The guard of the batch: session, preview, generation and both counters.
Guard(s) ==
  /\ sessionPredicate(slot[s].epoch) /\ ~sess[slot[s].p].required
  /\ slot[s].op.action = "enable" => previewPredicate(slot[s].op)
  /\ GenOf(feed) = slot[s].op.expected /\ (feed = None <=> slot[s].row = None)
  /\ Charge(slot[s].op) => used.user < UserMax /\ used.global < GlobalMax

\* The new address, the operation's key and the counters in one batch.
mutateCalendar(s) ==
  /\ slot[s].pc = "commit"
  /\ LET op == slot[s].op
     IN  IF Guard(s)
         THEN /\ feed' = [on |-> op.action # "disable", gen |-> op.expected + 1,
                          epoch |-> slot[s].epoch, last |-> op.key]
              /\ used' = IF Charge(op) THEN [user |-> used.user + 1, global |-> used.global + 1]
                         ELSE used
              /\ done' = done \cup {op.key}
              /\ slot' = [slot EXCEPT ![s].pc = "committed"]
         ELSE /\ slot' = [slot EXCEPT ![s].pc = "refused"]
              /\ UNCHANGED <<feed, used, done>>
  /\ UNCHANGED <<now, user, sub, pub, sess, busy, panel, changes, keys, shown>>

\* The answer after the batch; a refused one is explained by what is read now.
afterCommit(s) ==
  /\ slot[s].pc \in {"committed", "refused"}
  /\ LET op == slot[s].op
         p == slot[s].p
     IN  Respond(s,
           IF slot[s].pc = "committed" THEN result(feed, TRUE)
           ELSE IF ~sessionPredicate(slot[s].epoch) THEN Problem("401")
           ELSE IF sess[p].required THEN Problem("403")
           ELSE IF (IF feed = None THEN FALSE ELSE feed.last = op.key)
             THEN result(feed, op.action = "enable")
           ELSE IF op.action = "enable" /\ ~previewPredicate(op) THEN Problem("outdated")
           ELSE IF Charge(op) /\ (used.user >= UserMax \/ used.global >= GlobalMax)
             THEN Problem("quota")
           ELSE Problem("409"))
  /\ UNCHANGED <<now, server, sess, panel, changes, keys, shown>>

\* The handler fails at any point, before or after the batch.
Crash(s) ==
  /\ "crash" \in Kinds
  /\ slot[s].pc \in {"who", "row", "assert", "commit", "committed", "refused"}
  /\ Change
  /\ Respond(s, Problem("5xx"))
  /\ UNCHANGED <<now, server, sess, panel, keys, shown>>

\* -------------------------------------------------- what changes around it

Tick ==
  /\ now < MaxTime
  /\ now' = now + 1
  /\ UNCHANGED <<server, sess, slot, busy, panel, changes, keys, shown>>

Publish ==
  /\ "publish" \in Kinds
  /\ Change
  /\ pub' = pub + 1
  /\ UNCHANGED <<now, user, sub, feed, used, done, sess, slot, busy, panel, keys, shown>>

\* Another user's mutation counts against the global limit of the day.
OtherUser ==
  /\ "others" \in Kinds /\ used.global < GlobalMax
  /\ Change
  /\ used' = [used EXCEPT !.global = @ + 1]
  /\ UNCHANGED <<now, user, sub, pub, feed, done, sess, slot, busy, panel, keys, shown>>

Revoked == IF feed = None THEN None
           ELSE IF feed.on THEN [feed EXCEPT !.on = FALSE, !.gen = @ + 1, !.last = None] ELSE feed

\* A recovery: new epoch, the address revoked by the trigger, every other
\* session dead and the new one restricted until its code is confirmed.
pauseCalendar(p) ==
  /\ "recover" \in Kinds
  /\ Change
  /\ user' = [epoch |-> user.epoch + 1]
  /\ feed' = Revoked
  /\ sess' = [sess EXCEPT ![p] = [epoch |-> user.epoch + 1, required |-> TRUE]]
  /\ UNCHANGED <<now, sub, pub, used, done, slot, busy, panel, keys, shown>>

ConfirmCode(p) ==
  /\ sess[p].required
  /\ sess' = [sess EXCEPT ![p].required = FALSE]
  /\ UNCHANGED <<now, server, slot, busy, panel, changes, keys, shown>>

\* --------------------------------------------------------------- the panel

clearPreview(f) == [f EXCEPT !.serial = @ + 1, !.ctl = None, !.preview = None]

\* The buttons, as painted: nothing new while busy or while an operation is open.
Locked(f) == f.busy \/ f.op # None

On(f) == IF f.state = None THEN FALSE ELSE f.state.on

Idle(f) == f.up /\ ~f.busy /\ f.task = NoTask

Put(p, f) == panel' = [panel EXCEPT ![p] = f]

\* Reads the session and the row, with the address.
readCalendar(p, t, late) ==
  /\ t.pc = "load"
  /\ LET view == [on |-> Enabled(feed, sess[p].epoch), gen |-> GenOf(feed), epoch |-> sess[p].epoch]
         next == [t EXCEPT !.pc = IF sessionPredicate(sess[p].epoch) THEN "reread" ELSE "lost"]
                 @@ [view |-> view]
     IN  Put(p, IF late THEN [panel[p] EXCEPT !.late = next] ELSE [panel[p] EXCEPT !.task = next])
  /\ UNCHANGED <<now, server, sess, slot, busy, changes, keys, shown>>

\* The same session and row after decrypting.
Reread(t) == sessionPredicate(t.view.epoch) /\ GenOf(feed) = t.view.gen

readAgain(p, t, late) ==
  /\ t.pc = "reread"
  /\ LET next == [t EXCEPT !.pc = IF Reread(t) THEN "back"
                                  ELSE IF sessionPredicate(t.view.epoch) THEN "failed" ELSE "lost"]
     IN  Put(p, IF late THEN [panel[p] EXCEPT !.late = next] ELSE [panel[p] EXCEPT !.task = next])
  /\ UNCHANGED <<now, server, sess, slot, busy, changes, keys, shown>>

\* The page has lost its session and clears the panel.
dispose(p) == Put(p, [NewPanel EXCEPT !.up = FALSE])

load(f, t) == [f EXCEPT !.state = [on |-> t.view.on, gen |-> t.view.gen]]

\* A prepare task that was cancelled while it read still stores what it read,
\* and ends the busy state when no other preview is under way.
LateReturns(p) ==
  /\ panel[p].late.pc \in {"back", "failed", "lost"}
  /\ LET f == panel[p]
         g == IF f.late.pc = "back" THEN load(f, f.late) ELSE f
     IN  IF f.late.pc = "lost" /\ f.serial = f.late.serial THEN dispose(p)
         ELSE Put(p, [g EXCEPT !.late = NoTask,
                               !.busy = IF f.ctl = None THEN FALSE ELSE @])
  /\ UNCHANGED <<now, server, sess, slot, busy, changes, keys, shown>>

refresh(p) ==
  /\ Idle(panel[p])
  /\ Put(p, [clearPreview(panel[p]) EXCEPT !.busy = TRUE, !.task = [kind |-> "refresh", pc |-> "load"]])
  /\ Change
  /\ UNCHANGED <<now, server, sess, slot, busy, keys, shown>>

\* A first read when the page opens.
Mount(p) ==
  /\ ~panel[p].up /\ sessionPredicate(sess[p].epoch)
  /\ Put(p, [NewPanel EXCEPT !.busy = TRUE, !.task = [kind |-> "refresh", pc |-> "load"]])
  /\ UNCHANGED <<now, server, sess, slot, busy, changes, keys, shown>>

\* The page is reloaded: tasks and the open operation are gone.
Reload(p) ==
  /\ "reload" \in Kinds /\ panel[p].up
  /\ Change
  /\ Put(p, [NewPanel EXCEPT !.up = FALSE])
  /\ UNCHANGED <<now, server, sess, slot, busy, keys, shown>>

Prepared(f, again) ==
  LET c == clearPreview(f)
  IN  [c EXCEPT !.busy = TRUE, !.ctl = c.serial,
        !.task = [kind |-> "prepare", pc |-> "load", serial |-> c.serial, again |-> again]]

\* The preview is asked for.
begin(p) ==
  /\ Idle(panel[p]) /\ ~Locked(panel[p]) /\ panel[p].state # None /\ ~On(panel[p])
  /\ ~sess[p].required
  /\ Change
  /\ Put(p, Prepared(panel[p], FALSE))
  /\ UNCHANGED <<now, server, sess, slot, busy, keys, shown>>

\* The preview is cancelled; its first read is not.
Cancel(p) ==
  /\ panel[p].up /\ panel[p].task.kind = "prepare" /\ panel[p].late = NoTask
  /\ LET f == panel[p]
     IN  Put(p, [clearPreview(f) EXCEPT !.busy = FALSE, !.task = NoTask,
                   !.late = IF f.task.pc \in {"load", "reread", "back"} THEN f.task ELSE NoTask])
  /\ Change
  /\ UNCHANGED <<now, server, sess, slot, busy, keys, shown>>

\* The settings are saved in this page: the preview is no longer of them.
savedVersionChanged(p) ==
  /\ "save" \in Kinds /\ panel[p].up /\ panel[p].task.kind \in {"none", "prepare"}
  /\ sessionPredicate(sess[p].epoch)
  /\ Change
  /\ sub' = sub + 1
  /\ LET f == panel[p]
         c == clearPreview(f)
     IN  Put(p, IF f.task.kind = "prepare" THEN [c EXCEPT !.busy = FALSE, !.task = NoTask]
                ELSE IF ~f.busy /\ f.state # None
                  THEN [c EXCEPT !.busy = TRUE, !.task = [kind |-> "refresh", pc |-> "load"]]
                ELSE c)
  /\ UNCHANGED <<now, user, pub, feed, used, done, sess, slot, busy, keys, shown>>

\* What a page of the preview is made of, from the cursor's offset on.
Page(rev, gen, asOf, offset) ==
  [n \in 1..(IF Total(rev, gen) - offset < PageSize THEN Total(rev, gen) - offset ELSE PageSize) |->
     [rev |-> rev, gen |-> gen, asOf |-> asOf, n |-> offset + n]]

\* The first page fixes settings, generation and time; a later one is only
\* given for the same, while they are fresh.
asOfFor(first, rev) ==
  IF first = None THEN now
  ELSE IF first.gen # pub \/ first.rev # rev \/ now - first.asOf > Fresh THEN None
  ELSE first.asOf

\* The saved settings of the next page.
readSubscription(p) ==
  /\ panel[p].task.kind = "prepare" /\ panel[p].task.pc = "page"
  /\ IF sessionPredicate(sess[p].epoch)
       THEN Put(p, [panel[p] EXCEPT !.task = [@ EXCEPT !.pc = "pages"] @@ [rev |-> sub]])
       ELSE dispose(p)
  /\ UNCHANGED <<now, server, sess, slot, busy, changes, keys, shown>>

Drop(t, fields) == [x \in DOMAIN t \ fields |-> t[x]]

\* An outdated preview is made again once.
Outdated(f) == IF f.task.again THEN [clearPreview(f) EXCEPT !.busy = FALSE, !.task = NoTask]
               ELSE Prepared(f, TRUE)

\* The next page from the current generation; the last one completes the list.
savedPreview(p) ==
  /\ panel[p].task.kind = "prepare" /\ panel[p].task.pc = "pages"
  /\ LET f == panel[p]
         t == f.task
         asOf == asOfFor(t.first, t.rev)
         first == IF t.first = None THEN [rev |-> t.rev, gen |-> pub, asOf |-> asOf] ELSE t.first
         got == t.got \o Page(t.rev, pub, asOf, Len(t.got))
     IN  Put(p, IF asOf = None THEN Outdated(f)
                ELSE IF Len(got) < Total(t.rev, pub)
                  THEN [f EXCEPT !.task = [Drop(t, {"rev"}) EXCEPT !.pc = "page",
                                             !.first = first, !.got = got]]
                ELSE [f EXCEPT !.preview = [rev |-> first.rev, gen |-> first.gen,
                                            asOf |-> first.asOf, items |-> got],
                               !.busy = FALSE, !.ctl = None, !.task = NoTask])
  /\ UNCHANGED <<now, server, sess, slot, busy, changes, keys, shown>>

\* The read of a task comes back.
Loaded(p) ==
  /\ panel[p].task.pc \in {"back", "failed", "lost"}
  /\ LET f == panel[p]
         t == f.task
         g == IF t.pc = "back" THEN load(f, t)
              ELSE IF t.kind = "prepare" THEN clearPreview(f) ELSE [f EXCEPT !.state = None]
     IN  IF t.pc = "lost" THEN dispose(p)
         ELSE IF t.kind = "prepare" /\ t.pc = "back"
           THEN Put(p, [g EXCEPT !.task = [kind |-> "prepare", pc |-> "page", serial |-> t.serial,
                                             again |-> t.again, first |-> None, got |-> <<>>]])
         ELSE IF t.kind = "write" /\ t.outdated THEN Put(p, Prepared(g, FALSE))
         ELSE Put(p, [g EXCEPT !.busy = FALSE, !.task = NoTask])
  /\ UNCHANGED <<now, server, sess, slot, busy, changes, keys, shown>>

\* The request of the open operation goes out.
write(p, f) ==
  \E s \in Slots :
    /\ slot[s] = Free
    /\ slot' = [slot EXCEPT ![s] = [pc |-> "sent", p |-> p, op |-> f.op, epoch |-> sess[p].epoch]]
    /\ Put(p, [clearPreview(f) EXCEPT !.busy = TRUE, !.task = [kind |-> "write", pc |-> "post", s |-> s]])

\* The preview on the screen is confirmed.
enable(p) ==
  /\ LET f == panel[p]
     IN  /\ Idle(f) /\ ~Locked(f) /\ f.state # None /\ f.preview # None
         /\ keys < MaxKeys
         /\ keys' = keys + 1
         /\ shown' = Append(shown, f.preview.items)
         /\ write(p, [f EXCEPT !.op = [action |-> "enable", key |-> keys + 1, expected |-> f.state.gen,
                                       rev |-> f.preview.rev, pgen |-> f.preview.gen]])
  /\ UNCHANGED <<now, server, sess, busy, changes>>

manage(p, action) ==
  /\ LET f == panel[p]
     IN  /\ Idle(f) /\ ~Locked(f) /\ On(f)
         /\ keys < MaxKeys
         /\ keys' = keys + 1
         /\ shown' = Append(shown, <<>>)
         /\ write(p, [f EXCEPT !.op = [action |-> action, key |-> keys + 1,
                                       expected |-> f.state.gen]])
  /\ UNCHANGED <<now, server, sess, busy, changes>>

\* The same operation again, to learn its result.
retry(p) ==
  /\ Idle(panel[p]) /\ panel[p].op # None
  /\ write(p, panel[p])
  /\ UNCHANGED <<now, server, sess, busy, changes, keys, shown>>

\* An answer closes the operation unless it may have come after the batch.
Closes(answer) == answer.status # "5xx"

\* The answer: a success or a refusal closes the operation, then the state is
\* read again.
Written(p) ==
  /\ panel[p].task.kind = "write" /\ panel[p].task.pc = "post"
  /\ LET f == panel[p]
         s == f.task.s
         a == slot[s].answer
     IN  /\ slot[s].pc = "answered"
         /\ slot' = [slot EXCEPT ![s] = Free]
         /\ IF a.status = "401" THEN dispose(p)
            ELSE Put(p, [f EXCEPT !.op = IF Closes(a) THEN None ELSE @,
                          !.task = [kind |-> "write", pc |-> "load", outdated |-> a.status = "outdated"]])
  /\ UNCHANGED <<now, server, sess, busy, changes, keys, shown>>

\* The connection fails; the request may be under way all the same.
NetworkError(p) ==
  /\ panel[p].task.kind = "write" /\ panel[p].task.pc = "post"
  /\ Change
  /\ Put(p, [panel[p] EXCEPT !.task = [kind |-> "write", pc |-> "load", outdated |-> FALSE]])
  /\ UNCHANGED <<now, server, sess, slot, busy, keys, shown>>

\* Nobody waits for this request any more: its answer is dropped, or the
\* request never arrived.
Dropped(s) ==
  /\ slot[s].pc \in {"answered", "sent"}
  /\ ~\E p \in Panels : IF panel[p].task.kind = "write" /\ panel[p].task.pc = "post"
                        THEN panel[p].task.s = s ELSE FALSE
  /\ slot' = [slot EXCEPT ![s] = Free]
  /\ UNCHANGED <<now, server, sess, busy, panel, changes, keys, shown>>

\* The address is copied after a fresh read that still has its generation.
copy(p) ==
  /\ Idle(panel[p]) /\ ~Locked(panel[p]) /\ On(panel[p])
  /\ Change
  /\ Put(p, [panel[p] EXCEPT !.busy = TRUE, !.task = [kind |-> "copy", pc |-> "load"]])
  /\ UNCHANGED <<now, server, sess, slot, busy, keys, shown>>

\* ---------------------------------------------------------- specification

Init ==
  /\ now = 0
  /\ user = [epoch |-> 0]
  /\ sess = [p \in Panels |-> [epoch |-> 0, required |-> FALSE]]
  /\ sub = 1 /\ pub = 1
  /\ feed = IF FirstOn THEN [on |-> TRUE, gen |-> 1, epoch |-> 0, last |-> None] ELSE None
  /\ used = [user |-> 0, global |-> 0]
  /\ slot = [s \in Slots |-> Free]
  /\ busy = [i \in Isolates |-> FALSE]
  /\ panel = [p \in Panels |-> [NewPanel EXCEPT !.up = FALSE]]
  /\ changes = 0 /\ keys = 0
  /\ done = {} /\ shown = <<>>

Serve(s) ==
  \/ identity(s) \/ readRow(s) \/ assertPreview(s) \/ mutateCalendar(s) \/ afterCommit(s)

Work(p) ==
  \/ readCalendar(p, panel[p].task, FALSE) \/ readAgain(p, panel[p].task, FALSE) \/ Loaded(p)
  \/ readSubscription(p) \/ savedPreview(p) \/ Written(p)

Late(p) ==
  \/ readCalendar(p, panel[p].late, TRUE) \/ readAgain(p, panel[p].late, TRUE) \/ LateReturns(p)

Next ==
  \/ Tick \/ Publish \/ OtherUser
  \/ \E s \in Slots :
       \/ Serve(s) \/ Crash(s) \/ Dropped(s)
       \/ \E i \in Isolates : Arrive(s, i)
  \/ \E p \in Panels :
       \/ Work(p) \/ Late(p) \/ Mount(p) \/ Reload(p) \/ refresh(p) \/ begin(p) \/ Cancel(p)
       \/ savedVersionChanged(p) \/ enable(p) \/ retry(p) \/ NetworkError(p) \/ copy(p)
       \/ pauseCalendar(p) \/ ConfirmCode(p)
       \/ \E action \in {"disable", "reset"} : manage(p, action)

Spec == Init /\ [][Next]_vars

\* The server serves, tasks go on, answers are dropped when nobody waits, and
\* the user asks for the result of an open operation.
FairSpec ==
  /\ Spec
  /\ \A s \in Slots : /\ WF_vars(Serve(s)) /\ WF_vars(Dropped(s))
                      /\ WF_vars(\E i \in Isolates : Arrive(s, i))
  /\ \A p \in Panels : WF_vars(Work(p)) /\ WF_vars(Late(p)) /\ WF_vars(retry(p))

\* -------------------------------------------------------------- properties

TypeOK ==
  /\ \A i \in Isolates :
       busy[i] <=> Cardinality({s \in Slots : IF slot[s].pc \in {"free", "sent", "answered"}
                                              THEN FALSE ELSE slot[s].iso = i}) = 1
  /\ done \subseteq 1..keys /\ Len(shown) = keys
  /\ \A p \in Panels : panel[p].task # NoTask => panel[p].up

Commits(s) == slot[s].pc = "commit" /\ slot'[s].pc = "committed"

\* An operation takes effect once, however often it is sent: a lost answer,
\* a crash after the batch and two isolates do not rotate the address twice.
OncePerOperation ==
  \A s \in Slots : Commits(s) =>
    /\ slot[s].op.key \notin done
    /\ GenOf(feed) = slot[s].op.expected

\* The address is enabled for exactly the preview the user confirmed: every
\* item on the screen was made from the settings and the generation that hold
\* when it is enabled, and none is missing.
EnabledAsShown ==
  \A s \in Slots : Commits(s) /\ slot[s].op.action = "enable" =>
    LET items == shown[slot[s].op.key]
    IN  /\ Len(items) = Total(sub, pub)
        /\ \A n \in 1..Len(items) : items[n].rev = sub /\ items[n].gen = pub /\ items[n].n = n
                                     /\ items[n].asOf = items[1].asOf

\* After a recovery no address stays or becomes enabled that a request of the
\* time before has made.
OnlyThisEpochOpen == feed # None => (feed.on => feed.epoch = user.epoch)

\* The day's limits hold and the user's counter is what was charged.
LimitsHold == used.user <= UserMax /\ used.global <= GlobalMax /\ used.user <= used.global

\* An address is only handed to a page when it was still the enabled one at
\* the second read.
AddressStillLives ==
  \A p \in Panels :
    panel[p].task.pc = "reread" /\ panel'[p].task.pc = "back" /\ panel[p].task.view.on =>
      Enabled(feed, user.epoch) /\ feed.gen = panel[p].task.view.gen

\* An open operation is closed in the end: by a result, or with its page.
Unclosed(p) == panel[p].op # None
OperationsClose == \A p \in Panels : Unclosed(p) ~> ~Unclosed(p)

\* What holds in every state, and of every step, of managing the address.
ManageHolds == TypeOK /\ OnlyThisEpochOpen /\ LimitsHold
ManageStep == OncePerOperation /\ EnabledAsShown /\ AddressStillLives
=============================================================================
