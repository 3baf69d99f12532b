---------------------------- MODULE MailFeedback ----------------------------
(***************************************************************************)
(* The feedback inbox: what the mail provider says of a mail after it was   *)
(* handed over (delivered, bounced, complained, ...).  Cloudflare Queue      *)
(* delivers an event at least once; a consumer stores it, takes a lease on   *)
(* the stored row, records the receipt on the mail, and in one batch marks   *)
(* the row done, freezes the address and closes the channel the mail was     *)
(* sent for.  Cron processes the stored rows a consumer left behind, and     *)
(* both clear old rows.  Any of them may die between two statements.         *)
(*                                                                           *)
(* Time is relative: a lease counts the ticks it has left, a row the ticks   *)
(* since it was stored.  A page of old rows is one row here.                 *)
(***************************************************************************)
EXTENDS Integers, FiniteSets

CONSTANTS
  Events,        \* provider events, each with an eventId of its own
  Mails, Users, Addresses, Workers,
  MailOf,        \* [Events -> Mails]
  KindOf,        \* [Events -> Kinds]: the receipt
  Suppression,   \* [Events -> Reasons \cup {None}]: why it freezes its address, if it does
  Sent,          \* [Mails -> [user, ver, addr, bound]]: whom a mail was sent to
  First,         \* [Users -> Addresses]: the address of version 1
  InboxMax, Margin, UnmatchedMax,  \* MAIL_FEEDBACK_MAX, FEEDBACK_BATCH, MAIL_UNMATCHED_MAX
  Wall,          \* EXECUTOR_BATCH_WALL_LIMIT, in ticks
  TTL,           \* MAIL_FEEDBACK_TTL, in ticks
  MaxTries,      \* FEEDBACK_MAX_RETRIES
  None,
  MaxVer, MaxDeaths  \* bounds: address changes, crashes

Kinds == {"delivered", "deferred", "bounced", "failed", "complained", "rejected"}
Reasons == {"complaint", "hard_bounce", "policy"}
FeedbackAssumption ==
  /\ MailOf \in [Events -> Mails] /\ KindOf \in [Events -> Kinds]
  /\ Suppression \in [Events -> Reasons \cup {None}]
  /\ \A e \in Events : /\ (Suppression[e] = "complaint") <=> (KindOf[e] = "complained")
                       /\ Suppression[e] = "hard_bounce" => KindOf[e] = "bounced"
                       /\ Suppression[e] = "policy" => KindOf[e] = "rejected"
  /\ Sent \in [Mails -> [user: Users, ver: Nat, addr: Addresses, bound: BOOLEAN]]
  /\ {InboxMax, Margin, UnmatchedMax, Wall, TTL, MaxTries, MaxVer, MaxDeaths} \subseteq Nat

VARIABLES
  queue,    \* [Events -> what the Queue has of the event]
  inbox,    \* [Events -> the mail_feedback row of the event, or None]
  status,   \* [Mails -> mail_outbox.status; "calling" while message_id is unknown]
  told,     \* [Mails -> provider_status of the mail's job]
  user,     \* [Users -> [ver, addr]]: the address and its version (and binding)
  chan,     \* [Users -> [on, ver]]: email_channels
  supp,     \* [Addresses -> the suppression of the address, or None]
  proc,     \* [Workers -> what the worker is doing]
  deaths,
  done      \* events whose closing batch was committed (history)

vars == <<queue, inbox, status, told, user, chan, supp, proc, deaths, done>>

Rest == [pc |-> "rest", ev |-> None, src |-> "none", snap |-> "none",
         known |-> FALSE, ok |-> FALSE, bind |-> 0, page |-> None, then |-> "rest"]

Init ==
  /\ queue = [e \in Events |-> [at |-> "unsent", left |-> MaxTries]]
  /\ inbox = [e \in Events |-> None]
  /\ status = [m \in Mails |-> "calling"]
  /\ told = [m \in Mails |-> "none"]
  /\ user = [u \in Users |-> [ver |-> 1, addr |-> First[u]]]
  /\ chan = [u \in Users |-> [on |-> TRUE, ver |-> 1]]
  /\ supp = [a \in Addresses |-> None]
  /\ proc = [w \in Workers |-> Rest]
  /\ deaths = 0
  /\ done = {}

-----------------------------------------------------------------------------
(* Helpers *)

Stored == {e \in Events : inbox[e] # None}
Unmatched == {e \in Stored : ~inbox[e].linked}
Known(e) == status[MailOf[e]] # "calling"
Free(e) == inbox[e].left = 0

(* A complaint, a hard bounce, and a rejection because the provider suppresses *)
(* the address; soft bounces and other rejections freeze nothing.              *)
Freezes(e) == Suppression[e] # None

(* raw_ref as a reader keeps it: free and done rows always read the same, a  *)
(* claimed row reads the same only until somebody writes it again.           *)
Read(e) == inbox[e].st
Same(e, snap) == inbox[e] # None /\ inbox[e].st = snap

Held(e, w) == IF inbox[e] = None THEN FALSE ELSE inbox[e].st = "held" /\ inbox[e].by = w

(* A write of the row e: what its readers kept of it, if among S, no longer    *)
(* matches.                                                                   *)
Stale(e, S, p) ==
  [w \in Workers |->
     [p[w] EXCEPT !.snap = IF p[w].ev = e /\ @ \in S THEN "gone" ELSE @,
                  !.page = IF @ = None THEN None
                           ELSE IF @.ev = e /\ @.snap \in S THEN [@ EXCEPT !.snap = "gone"]
                           ELSE @]]
Spoil(e, p) == Stale(e, {"held"}, p)
(* A deleted row leaves its id behind: a new row of the event has another. *)
SpoilAll(e, p) == Stale(e, {"held", "idle", "done"}, p)

Go(w, pc) == proc' = [proc EXCEPT ![w].pc = pc]

-----------------------------------------------------------------------------
(* The provider, the sender and the user *)

Emit(e) ==
  /\ queue[e].at = "unsent"
  /\ queue' = [queue EXCEPT ![e].at = "queued"]
  /\ UNCHANGED <<inbox, status, told, user, chan, supp, proc, deaths, done>>

(* The send is settled: message_id is written with the accepted mail. *)
Settle(m) ==
  /\ status[m] = "calling"
  /\ status' = [status EXCEPT ![m] = "accepted"]
  /\ UNCHANGED <<queue, inbox, told, user, chan, supp, proc, deaths, done>>

(* The user moves to another address: a new version, a new binding, the       *)
(* channel closed.                                                            *)
ChangeEmail(u, a) ==
  /\ user[u].ver < MaxVer /\ a # user[u].addr
  /\ \A x \in Users : user[x].addr # a
  /\ user' = [user EXCEPT ![u] = [ver |-> @.ver + 1, addr |-> a]]
  /\ chan' = [chan EXCEPT ![u] = [on |-> FALSE, ver |-> user[u].ver + 1]]
  /\ UNCHANGED <<queue, inbox, status, told, supp, proc, deaths, done>>

(* The user opens the channel: refused while the exact address is frozen. *)
OpenChannel(u) ==
  /\ ~chan[u].on /\ supp[user[u].addr] = None
  /\ chan' = [chan EXCEPT ![u] = [on |-> TRUE, ver |-> user[u].ver]]
  /\ UNCHANGED <<queue, inbox, status, told, user, supp, proc, deaths, done>>

Tick ==
  /\ inbox' = [e \in Events |-> IF inbox[e] = None THEN None ELSE
       [inbox[e] EXCEPT !.left = IF @ > 0 THEN @ - 1 ELSE 0,
                        !.age = IF @ < TTL THEN @ + 1 ELSE TTL]]
  /\ inbox' # inbox
  /\ UNCHANGED <<queue, status, told, user, chan, supp, proc, deaths, done>>

-----------------------------------------------------------------------------
(* Storing an event *)

(* A consumer is handed the message: it looks the event up, and the mail when *)
(* the event is new.                                                          *)
Receive(w, e) ==
  /\ proc[w].pc = "rest" /\ queue[e].at = "queued"
  /\ proc' = [proc EXCEPT ![w] =
       IF inbox[e] # None
       THEN [Rest EXCEPT !.pc = "claim", !.ev = e, !.src = "queue", !.snap = Read(e)]
       ELSE [Rest EXCEPT !.pc = "prune", !.ev = e, !.src = "queue",
                         !.known = Known(e), !.then = "insert"]]
  /\ UNCHANGED <<queue, inbox, status, told, user, chan, supp, deaths, done>>

(* The page of rows past their time: unmatched ones first, then completed. *)
Oldest(S) == {e \in S : \A f \in S : inbox[f].age <= inbox[e].age}
Expired == {e \in Unmatched : inbox[e].age >= TTL /\ Free(e)}
Aged == {e \in Stored : inbox[e].st = "done" /\ inbox[e].age >= TTL /\ Free(e)}
Page(S) == IF S = {} THEN {None}
           ELSE {[ev |-> e, snap |-> Read(e), linked |-> inbox[e].linked] : e \in Oldest(S)}

SelectExpired(w) ==
  /\ proc[w].pc = "prune"
  /\ \E p \in Page(IF Expired # {} THEN Expired ELSE Aged) :
       proc' = [proc EXCEPT ![w].page = p, ![w].pc = "archive"]
  /\ UNCHANGED <<queue, inbox, status, told, user, chan, supp, deaths, done>>

CronPrune(w) ==
  /\ proc[w].pc = "rest"
  /\ \E p \in (Page(IF Expired # {} THEN Expired ELSE Aged) \ {None}) :
       proc' = [proc EXCEPT ![w].page = p, ![w].pc = "archive"]
  /\ UNCHANGED <<queue, inbox, status, told, user, chan, supp, deaths, done>>

(* Near the limit: the oldest row that is done. *)
SelectDone(w) ==
  /\ proc[w].pc = "compact"
  /\ \E p \in Page({e \in Stored : inbox[e].st = "done" /\ Free(e)}) :
       proc' = [proc EXCEPT ![w].page = p, ![w].pc = "archive", ![w].then = "insert2"]
  /\ UNCHANGED <<queue, inbox, status, told, user, chan, supp, deaths, done>>

Matches(p) == Same(p.ev, p.snap) /\ inbox[p.ev].linked = p.linked

ArchiveRow(w) ==
  /\ proc[w].pc = "archive"
  /\ LET p == proc[w].page
         next == [proc EXCEPT ![w].page = None, ![w].pc = proc[w].then]
     IN IF (IF p = None THEN FALSE ELSE Matches(p))
        THEN inbox' = [inbox EXCEPT ![p.ev] = None] /\ proc' = SpoilAll(p.ev, next)
        ELSE inbox' = inbox /\ proc' = next
  /\ UNCHANGED <<queue, status, told, user, chan, supp, deaths, done>>

Room(limit, known) ==
  Cardinality(Stored) < limit /\ (known \/ Cardinality(Unmatched) < UnmatchedMax)

(* ack and retry; a message given up goes to the dead letters. *)
Acked(e) == [queue[e] EXCEPT !.at = "acked"]
Retried(e) ==
  IF queue[e].at # "queued" THEN queue[e]
  ELSE IF queue[e].left = 0 THEN [queue[e] EXCEPT !.at = "dlq"]
  ELSE [queue[e] EXCEPT !.left = @ - 1]

(* INSERT ... WHERE room, or what somebody else stored meanwhile. *)
Insert(w) ==
  /\ proc[w].pc \in {"insert", "insert2"}
  /\ LET e == proc[w].ev
         again == proc[w].pc = "insert2"
         known == proc[w].known
         limit == IF again THEN InboxMax ELSE InboxMax - Margin
     IN \/ /\ inbox[e] # None
           /\ proc' = [proc EXCEPT ![w].pc = "claim", ![w].snap = Read(e)]
           /\ UNCHANGED <<queue, inbox>>
        \/ /\ inbox[e] = None /\ Room(limit, known)
           /\ inbox' = [inbox EXCEPT ![e] =
                [linked |-> known, st |-> "idle", by |-> None, left |-> 0, age |-> 0]]
           /\ proc' = [proc EXCEPT ![w].pc = "claim", ![w].snap = "idle"]
           /\ UNCHANGED queue
        \/ /\ inbox[e] = None /\ ~Room(limit, known) /\ ~again
           /\ (known \/ Cardinality(Unmatched) < UnmatchedMax)
           /\ Go(w, "compact")
           /\ UNCHANGED <<queue, inbox>>
        \/ /\ inbox[e] = None /\ ~Room(limit, known)
           /\ again \/ (~known /\ Cardinality(Unmatched) >= UnmatchedMax)
           /\ proc' = [proc EXCEPT ![w] = Rest]
           /\ queue' = [queue EXCEPT ![e] = Retried(e)]
           /\ UNCHANGED inbox
  /\ UNCHANGED <<status, told, user, chan, supp, deaths, done>>

-----------------------------------------------------------------------------
(* Processing a stored row *)

Reconcile(w, e) ==
  /\ proc[w].pc = "rest"
  /\ inbox[e] # None /\ inbox[e].st # "done" /\ Free(e) /\ Known(e)
  /\ proc' = [proc EXCEPT ![w] = [Rest EXCEPT !.pc = "claim", !.ev = e,
                                   !.src = "cron", !.snap = Read(e)]]
  /\ UNCHANGED <<queue, inbox, status, told, user, chan, supp, deaths, done>>

Finish(w, ok) ==
  /\ proc' = [proc EXCEPT ![w] = Rest]
  /\ queue' = IF proc[w].src # "queue" THEN queue
              ELSE [queue EXCEPT ![proc[w].ev] = IF ok THEN Acked(proc[w].ev) ELSE Retried(proc[w].ev)]

(* A done row is answered; a held one left alone; otherwise the lease is      *)
(* taken if the row still reads as it did, and the mail looked up again.      *)
Claim(w) ==
  /\ proc[w].pc = "claim"
  /\ LET e == proc[w].ev
         won == IF Same(e, proc[w].snap) THEN Free(e) ELSE FALSE
     IN \/ /\ proc[w].snap = "done" /\ Finish(w, TRUE) /\ UNCHANGED inbox
        \/ /\ proc[w].snap # "done" /\ ~won
           /\ Finish(w, FALSE) /\ UNCHANGED inbox
        \/ /\ proc[w].snap # "done" /\ won
           /\ inbox' = [inbox EXCEPT ![e].st = "held", ![e].by = w, ![e].left = Wall,
                                     ![e].linked = @ \/ Known(e)]
           /\ proc' = Spoil(e, [proc EXCEPT ![w].pc = "find"])
           /\ UNCHANGED queue
  /\ UNCHANGED <<status, told, user, chan, supp, deaths, done>>

FindMail(w) ==
  /\ proc[w].pc = "find"
  /\ Go(w, IF Known(proc[w].ev) THEN "record" ELSE "release")
  /\ UNCHANGED <<queue, inbox, status, told, user, chan, supp, deaths, done>>

(* recordMailReceipt: only a mail that is not settled yet takes the receipt,  *)
(* and a late "deferred" does not undo "delivered".                           *)
Takes(m, kind) ==
  status[m] \in {"accepted", "deferred", "unknown"} /\ ~(kind = "deferred" /\ told[m] = "delivered")

Record(w) ==
  /\ proc[w].pc = "record"
  /\ LET m == MailOf[proc[w].ev]
         kind == KindOf[proc[w].ev]
     IN IF Takes(m, kind)
        THEN /\ status' = [status EXCEPT ![m] = IF kind = "delivered" THEN "accepted" ELSE kind]
             /\ told' = [told EXCEPT ![m] = kind]
             /\ Go(w, "bind")
        ELSE UNCHANGED <<status, told>> /\ Go(w, "judge")
  /\ UNCHANGED <<queue, inbox, user, chan, supp, deaths, done>>

(* A receipt that was not taken is finished when a stronger one stands. *)
Judge(w) ==
  /\ proc[w].pc = "judge"
  /\ LET m == MailOf[proc[w].ev]
         stronger == \/ status[m] \in {"bounced", "complained", "failed", "rejected"}
                     \/ status[m] = "accepted" /\ told[m] = "delivered"
                          /\ KindOf[proc[w].ev] = "deferred"
     IN Go(w, IF stronger THEN "bind" ELSE "release")
  /\ UNCHANGED <<queue, inbox, status, told, user, chan, supp, deaths, done>>

(* The binding the freeze is filed under: the mail's own, or for an old mail  *)
(* without one the current binding if version and address still match.       *)
Binding(m) ==
  LET s == Sent[m] IN
  IF s.bound THEN s.ver
  ELSE IF user[s.user].ver = s.ver /\ user[s.user].addr = s.addr THEN s.ver ELSE 0

Resolve(w) ==
  /\ proc[w].pc = "bind"
  /\ proc' = [proc EXCEPT ![w].pc = "commit",
       ![w].bind = IF Freezes(proc[w].ev) THEN Binding(MailOf[proc[w].ev]) ELSE 0]
  /\ UNCHANGED <<queue, inbox, status, told, user, chan, supp, deaths, done>>

Frozen(a, e, bind) ==
  LET kind == Suppression[e] IN
  IF supp[a] = None THEN [kind |-> kind, user |-> Sent[MailOf[e]].user, bind |-> bind]
  ELSE [supp[a] EXCEPT !.kind = IF @ = "complaint" THEN @ ELSE kind]

Closes(m, bind) ==
  LET s == Sent[m] IN
  chan[s.user].on /\ chan[s.user].ver = s.ver /\ user[s.user].ver = s.ver /\ bind = s.ver

\* Mutant: the row is marked done without the freeze and the closing.
CommitMarkOnly(w) ==
  /\ proc[w].pc = "commit"
  /\ LET e == proc[w].ev
     IN IF Held(e, w)
        THEN /\ done' = done \cup {e}
             /\ inbox' = [inbox EXCEPT ![e].st = "done", ![e].by = None, ![e].left = 0,
                                       ![e].linked = TRUE]
             /\ proc' = Spoil(e, [proc EXCEPT ![w].pc = "release", ![w].ok = TRUE])
        ELSE /\ proc' = [proc EXCEPT ![w].pc = "release"]
             /\ UNCHANGED <<inbox, done>>
  /\ UNCHANGED <<queue, status, told, user, chan, supp, deaths>>

Commit(w) ==
  /\ proc[w].pc = "commit"
  /\ LET e == proc[w].ev
         m == MailOf[e]
         a == Sent[m].addr
     IN IF Held(e, w)
        THEN /\ done' = done \cup {e}
             /\ inbox' = [inbox EXCEPT ![e].st = "done", ![e].by = None, ![e].left = 0,
                                       ![e].linked = TRUE]
             /\ supp' = IF Freezes(e) THEN [supp EXCEPT ![a] = Frozen(a, e, proc[w].bind)]
                        ELSE supp
             /\ chan' = IF Freezes(e) /\ Closes(m, proc[w].bind)
                        THEN [chan EXCEPT ![Sent[m].user].on = FALSE] ELSE chan
             /\ proc' = Spoil(e, [proc EXCEPT ![w].pc = "release", ![w].ok = TRUE])
        ELSE /\ proc' = [proc EXCEPT ![w].pc = "release"]
             /\ UNCHANGED <<inbox, supp, chan, done>>
  /\ UNCHANGED <<queue, status, told, user, deaths>>

(* finally: a lease still held is given back; the caller gets its answer. *)
Release(w) ==
  /\ proc[w].pc = "release"
  /\ LET e == proc[w].ev
         ok == proc[w].ok
         rested == [proc EXCEPT ![w] = Rest]
     IN /\ inbox' = IF Held(e, w)
                    THEN [inbox EXCEPT ![e].st = "idle", ![e].by = None, ![e].left = 0]
                    ELSE inbox
        /\ proc' = IF Held(e, w) THEN Spoil(e, rested) ELSE rested
        /\ queue' = IF proc[w].src # "queue" THEN queue
                    ELSE [queue EXCEPT ![e] = IF ok THEN Acked(e) ELSE Retried(e)]
  /\ UNCHANGED <<status, told, user, chan, supp, deaths, done>>

(* The worker dies: the lease stays until it runs out; the Queue delivers the *)
(* message again.                                                             *)
Die(w) ==
  /\ proc[w].pc # "rest" /\ deaths < MaxDeaths
  /\ deaths' = deaths + 1
  /\ proc' = [proc EXCEPT ![w] = Rest]
  /\ inbox' = [e \in Events |->
       IF inbox[e] # None /\ proc[w].ev = e
       THEN [inbox[e] EXCEPT !.by = IF @ = w THEN None ELSE @] ELSE inbox[e]]
  /\ queue' = IF proc[w].src = "queue"
              THEN [queue EXCEPT ![proc[w].ev] = Retried(proc[w].ev)] ELSE queue
  /\ UNCHANGED <<status, told, user, chan, supp, done>>

Work(w) ==
  \/ SelectExpired(w) \/ SelectDone(w) \/ ArchiveRow(w) \/ Insert(w) \/ Claim(w)
  \/ FindMail(w) \/ Record(w) \/ Judge(w) \/ Resolve(w) \/ Commit(w) \/ Release(w)

Next ==
  \/ \E e \in Events : Emit(e)
  \/ \E m \in Mails : Settle(m)
  \/ \E u \in Users, a \in Addresses : ChangeEmail(u, a)
  \/ \E u \in Users : OpenChannel(u)
  \/ Tick
  \/ \E w \in Workers, e \in Events : Receive(w, e) \/ Reconcile(w, e)
  \/ \E w \in Workers : CronPrune(w) \/ Work(w) \/ Die(w)

(* Cron runs every ten minutes and goes on with what it started; the clock    *)
(* runs; a worker that lives finishes a row within its lease (two minutes for  *)
(* a handful of statements).  Nothing else is owed.                            *)
Spec == Init /\ [][Next]_vars

Timely ==
  \A e \in Events : (IF inbox'[e] = None THEN FALSE
                    ELSE inbox'[e].st = "held" /\ inbox'[e].by # None) => inbox'[e].left > 0
FairSpec ==
  /\ Init /\ [][Next /\ Timely]_vars
  /\ WF_vars(Tick /\ Timely)
  /\ \A w \in Workers : WF_vars(Work(w) /\ Timely)
  /\ \A w \in Workers, e \in Events : SF_vars(Reconcile(w, e) /\ Timely)

-----------------------------------------------------------------------------
(* Properties *)

TypeOK ==
  /\ queue \in [Events -> [at: {"unsent", "queued", "acked", "dlq"}, left: 0 .. MaxTries]]
  /\ \A e \in Events : inbox[e] # None =>
       inbox[e] \in [linked: BOOLEAN, st: {"idle", "held", "done"},
                     by: Workers \cup {None}, left: 0 .. Wall, age: 0 .. TTL]
  /\ status \in [Mails -> Kinds \cup {"calling", "accepted"}]
  /\ told \in [Mails -> Kinds \cup {"none"}]
  /\ user \in [Users -> [ver: 1 .. MaxVer, addr: Addresses]]
  /\ chan \in [Users -> [on: BOOLEAN, ver: 1 .. MaxVer]]
  /\ done \subseteq Events

(* An event the Queue was told to forget has taken its whole effect: the      *)
(* receipt, the freeze and the closing are committed before the ack           *)
(* (P4.md: "提交后才 ack").                                                    *)
AckedIsDone ==
  \A e \in Events : queue[e].at = "acked" =>
    /\ e \in done
    /\ Freezes(e) => supp[Sent[MailOf[e]].addr] # None

(* A finished complaint leaves the address frozen as a complaint whatever     *)
(* receipts come after or are repeated.                                       *)
ComplaintStands ==
  \A e \in done : KindOf[e] = "complained" =>
    LET s == supp[Sent[MailOf[e]].addr] IN s # None => s.kind = "complaint"

(* Once a freezing receipt is finished, the channel the mail was sent for is   *)
(* closed and stays closed: as long as the user has not moved to another      *)
(* address, neither a retry nor the user opens it again.                       *)
ClosedForGood ==
  \A e \in done : Freezes(e) =>
    LET s == Sent[MailOf[e]] IN
    (user[s.user].ver = s.ver /\ s.bound) => ~chan[s.user].on

(* A receipt closes only the channel of the address it is about: a user who   *)
(* has moved on keeps the channel of the new address.                         *)
SparesTheNew ==
  \A u \in Users : (chan[u].on /\ ~chan'[u].on /\ user'[u] = user[u]) =>
    \E e \in done' : Freezes(e) /\ Sent[MailOf[e]].user = u
                       /\ Sent[MailOf[e]].ver = user[u].ver

(* The inbox stays within its limits, counted as the INSERT counts. *)
Bounded ==
  Cardinality(Stored) <= InboxMax /\ Cardinality(Unmatched) <= UnmatchedMax

(* A row leaves the inbox finished, or unmatched and past its time; never      *)
(* while a worker holds a running lease on it.                                 *)
KeepsTheOpen ==
  \A e \in Events : (inbox[e] # None /\ inbox'[e] = None) =>
    \/ inbox[e].st = "done"
    \/ ~inbox[e].linked /\ inbox[e].age >= TTL /\ inbox[e].left = 0

(* The freeze and the closing happen only with the row that orders them being  *)
(* marked done in the same commit: a worker that lost its lease changes         *)
(* nothing.                                                                    *)
EffectsWithTheMark ==
  supp' # supp => \E e \in Events : inbox[e] # None /\ inbox[e].st = "held"
                     /\ inbox'[e].st = "done" /\ Freezes(e)

(* A stored receipt whose mail is known is finished in the end, whoever died   *)
(* over it and whether or not the Queue still has it.                          *)
Unfinished(e) == inbox[e] # None /\ Known(e) /\ e \notin done
StoredIsFinished == \A e \in Events : Unfinished(e) ~> ~Unfinished(e)

\* What holds in every state, and of every step, of the receipts.
FeedbackHolds == TypeOK /\ AckedIsDone /\ ComplaintStands /\ ClosedForGood /\ Bounded
FeedbackStep == SparesTheNew /\ KeepsTheOpen /\ EffectsWithTheMark
=============================================================================
