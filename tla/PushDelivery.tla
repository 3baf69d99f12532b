---------------------------- MODULE PushDelivery ----------------------------
(***************************************************************************)
(* Business push of one occurrence: a job expands it page by page over the *)
(* users in order (one binding each), and a pass reviews, claims, sends    *)
(* and settles one message at a time. Cron maintains the same rows, owners *)
(* pause, plans change, the pass may die anywhere. A user is the number of *)
(* its order. Day d ends when the clock reaches (d + 1) * DayLen.          *)
(***************************************************************************)
EXTENDS Naturals, FiniteSets, FiniteSetsExt, Functions

CONSTANTS Upper,       \* audience_upper_order: the users are 1..Upper
          Page,        \* MATCH_PAGE of the expansion
          Passes,      \* executors that may be at work at once
          None,
          SendDay,     \* the day's limit for this kind of notice
          Expiry,      \* expires_at of the occurrence
          DayLen, CallLease, Backoff,
          MaxTime, MaxEdits            \* bounds of the model
Users == 1..Upper

VARIABLES now,
          occ,      \* "current", or "old" once the event has another plan
          able,     \* users whose binding is active under a valid lease
          wants,    \* users whose account and interests match
          open,     \* push_enabled and outbound_enabled
          job,      \* jobs: the expansion
          msg, del, \* push_messages and deliveries, by user
          sent,     \* capacity_state push:send, by day
          pass,     \* what every pass has read, and where it stands
          edits,    \* edits made so far
          reached,  \* history: calls by user the push service may have accepted
          steady    \* history: users able and wanting since the job began
vars == <<now, occ, able, wants, open, job, msg, del, sent, pass, edits, reached, steady>>

Waiting == {"pending", "retry_wait"}
Day(t) == t \div DayLen
DayEnd(t) == (Day(t) + 1) * DayLen
\* Doubled for every attempt, at most sixteen times.
Exponent(attempts) == IF attempts = 0 THEN 0 ELSE IF attempts > 16 THEN 16 ELSE attempts - 1
NextTry(t, attempts) == t + Backoff * 2 ^ Exponent(attempts)
Has(u) == msg[u] # None

Init ==
    /\ now = 0 /\ occ = "current" /\ able = Users /\ wants = Users /\ open = TRUE
    /\ job = [status |-> "none", cursor |-> 0, ver |-> 0, due |-> 0]
    /\ msg = [u \in Users |-> None] /\ del = [u \in Users |-> None]
    /\ sent = [d \in 0..Day(MaxTime) |-> 0]
    /\ pass = [p \in Passes |-> None]
    /\ edits = 0
    /\ reached = [u \in Users |-> 0] /\ steady = {}

History == <<reached, steady>>
Rest(p) == pass' = [pass EXCEPT ![p] = None]
Valid(t) == occ = "current" /\ Expiry > t

-----------------------------------------------------------------------------
(* Expansion. *)

StartExpansion ==
    /\ job.status = "none" /\ Valid(now) /\ able # {}
    /\ job' = [job EXCEPT !.status = "pending", !.due = now]
    /\ steady' = able \intersect wants
    /\ UNCHANGED <<now, occ, able, wants, open, msg, del, sent, pass, edits, reached>>

PageUsers ==
    LET left == {u \in able : u > job.cursor}
    IN  {u \in left : Cardinality({v \in left : v < u}) < Page}

ReadPage(p) ==
    /\ pass[p] = None /\ job.status = "pending" /\ job.due <= now
    /\ LET stale == ~Valid(now)
           users == IF stale THEN {} ELSE PageUsers
           last == IF users = {} THEN Upper ELSE Max(users)
       IN  pass' = [pass EXCEPT ![p] =
               [pc |-> "page", at |-> now, ver |-> job.ver, stale |-> stale, last |-> last,
                done |-> stale \/ Cardinality(users) < Page \/ last >= Upper,
                targets |-> {u \in users \intersect wants : del[u] = None}]]
    /\ UNCHANGED <<now, occ, able, wants, open, job, msg, del, sent, edits, History>>

PageGuard(q) ==
    /\ job.status = "pending" /\ job.ver = q.ver
    /\ ~q.stale => Valid(q.at)

PageDone(q) == q.done

Born == [status |-> "pending", attempts |-> 0, lv |-> 0, until |-> 0, next |-> 0]

CommitPage(p) ==
    LET q == pass[p] IN
    /\ q # None /\ q.pc = "page" /\ Rest(p)
    /\ IF PageGuard(q)
       THEN /\ job' = [job EXCEPT !.cursor = q.last, !.ver = @ + 1,
                                  !.status = IF PageDone(q) THEN "done" ELSE "pending"]
            /\ msg' = [u \in Users |-> IF u \in q.targets THEN Born ELSE msg[u]]
            /\ del' = [u \in Users |-> IF u \in q.targets THEN "pending" ELSE del[u]]
       ELSE UNCHANGED <<job, msg, del>>
    /\ UNCHANGED <<now, occ, able, wants, open, sent, edits, History>>

\* A page that throws puts its job off for a watchdog period.
FailPage(p) ==
    LET q == pass[p] IN
    /\ q # None /\ q.pc = "page" /\ Rest(p)
    /\ job.status = "pending" /\ job.ver = q.ver
    /\ job' = [job EXCEPT !.due = now + 1, !.ver = @ + 1]
    /\ UNCHANGED <<now, occ, able, wants, open, msg, del, sent, edits, History>>

-----------------------------------------------------------------------------
(* Sending. *)

Review(u) ==
    CASE del[u] = "superseded" -> "superseded"
      [] del[u] \notin Waiting -> "skipped"
      [] del[u] \in Waiting /\ occ = "old" -> "superseded"
      [] del[u] \in Waiting /\ occ # "old" /\ Expiry <= now -> "expired"
      [] OTHER -> IF u \in able \intersect wants THEN "eligible" ELSE "skipped"

\* The candidate is read and reviewed; nothing is written yet.
Pick(p) ==
    /\ pass[p] = None /\ open
    /\ \E u \in Users :
          /\ Has(u) /\ msg[u].status \in Waiting /\ msg[u].next <= now /\ Expiry > now
          /\ pass' = [pass EXCEPT ![p] =
                [pc |-> IF Review(u) = "eligible" THEN "claim" ELSE "close", at |-> now, u |-> u,
                 status |-> msg[u].status, lv |-> msg[u].lv, as |-> Review(u)]]
    /\ UNCHANGED <<now, occ, able, wants, open, job, msg, del, sent, edits, History>>

Unchanged(q) == msg[q.u].status = q.status /\ msg[q.u].lv = q.lv

\* closeMessage: the delivery and the message, each under its own condition.
ClosePair(q, as) ==
    /\ del' = [del EXCEPT ![q.u] = IF @ \in Waiting THEN as ELSE @]
    /\ msg' = [msg EXCEPT ![q.u].status = IF Unchanged(q) THEN as ELSE @]

CloseMessage(p) ==
    LET q == pass[p] IN
    /\ q # None /\ q.pc = "close" /\ Rest(p) /\ ClosePair(q, q.as)
    /\ UNCHANGED <<now, occ, able, wants, open, job, sent, edits, History>>

ClaimGuard(q) ==
    /\ Unchanged(q)
    /\ sent[Day(q.at)] < SendDay
    /\ q.u \in able /\ del[q.u] \in Waiting /\ open

Claim(p) ==
    LET q == pass[p] IN
    /\ q # None /\ q.pc = "claim" /\ ClaimGuard(q)
    /\ msg' = [msg EXCEPT ![q.u] = [status |-> "calling", attempts |-> @.attempts + 1,
                  lv |-> q.lv + 1, until |-> q.at + CallLease, next |-> 0]]
    /\ del' = [del EXCEPT ![q.u] = "calling"]
    /\ sent' = [sent EXCEPT ![Day(q.at)] = @ + 1]
    /\ pass' = [pass EXCEPT ![p] = [pc |-> "call", at |-> q.at, u |-> q.u, lv |-> q.lv + 1]]
    /\ UNCHANGED <<now, occ, able, wants, open, job, edits, History>>

\* A claim that missed: the next round reviews it again, or, when the day is
\* spent, it waits for the next day or is closed if it cannot.
MissClaim(p) ==
    LET q == pass[p] IN
    /\ q # None /\ q.pc = "claim" /\ ~ClaimGuard(q) /\ Rest(p)
    /\ IF sent[Day(q.at)] < SendDay THEN UNCHANGED <<msg, del>>
       ELSE IF DayEnd(q.at) < Expiry
       THEN msg' = [msg EXCEPT ![q.u].next = IF Unchanged(q) THEN DayEnd(q.at) ELSE @] /\ UNCHANGED del
       ELSE ClosePair(q, "skipped")
    /\ UNCHANGED <<now, occ, able, wants, open, job, sent, edits, History>>

Answers == {"accepted", "unknown", "gone", "rejected", "retry_later"}

\* The call to the push service: an unknown answer may have been accepted.
Call(p) ==
    LET q == pass[p] IN
    /\ q # None /\ q.pc = "call"
    /\ \E a \in Answers :
          /\ pass' = [pass EXCEPT ![p] = [pc |-> "write", at |-> q.at, u |-> q.u, lv |-> q.lv, answer |-> a]]
          /\ reached' = [reached EXCEPT ![q.u] = @ + IF a \in {"accepted", "unknown"} THEN 1 ELSE 0]
    /\ UNCHANGED <<now, occ, able, wants, open, job, msg, del, sent, edits, steady>>

\* Mutant: an answer that never came is tried again.
Transition_RetryUnknown(u, answer, t) ==
    CASE answer = "accepted" -> "accepted"
      [] answer \in {"gone", "rejected"} -> "failed"
      [] OTHER -> IF NextTry(t, msg[u].attempts) >= Expiry THEN "expired" ELSE "retry_wait"
Transition(u, answer, t) ==
    CASE answer = "accepted" -> "accepted"
      [] answer = "unknown" -> "unknown"
      [] answer \in {"gone", "rejected"} -> "failed"
      [] answer = "retry_later" -> IF NextTry(t, msg[u].attempts) >= Expiry THEN "expired" ELSE "retry_wait"

SettledDelivery(was, as) == IF was = "calling" THEN as ELSE was

Settle(q, as, next) ==
    /\ msg' = [msg EXCEPT ![q.u] = IF @.status = "calling" /\ @.lv = q.lv
                  THEN [@ EXCEPT !.status = as, !.until = 0, !.next = next] ELSE @]
    /\ del' = [del EXCEPT ![q.u] = SettledDelivery(@, as)]

Write(p) ==
    LET q == pass[p] IN
    /\ q # None /\ q.pc = "write" /\ Rest(p)
    /\ LET as == Transition(q.u, q.answer, q.at)
       IN  Settle(q, as, IF as = "retry_wait" THEN NextTry(q.at, msg[q.u].attempts) ELSE 0)
    /\ able' = IF q.answer = "gone" THEN able \ {q.u} ELSE able
    /\ steady' = steady \intersect able'
    /\ UNCHANGED <<now, occ, wants, open, job, sent, edits, reached>>

\* Anything thrown between the claim and the last write is taken for bad data.
Invalid(p) ==
    LET q == pass[p] IN
    /\ q # None /\ q.pc \in {"call", "write"} /\ Rest(p)
    /\ Settle(q, "invalid_data", 0)
    /\ UNCHANGED <<now, occ, able, wants, open, job, sent, edits, History>>

\* The executor dies; a request on the wire may still have arrived.
Crash(p) ==
    /\ pass[p] # None /\ Rest(p)
    /\ \/ UNCHANGED reached
       \/ pass[p].pc = "call" /\ reached' = [reached EXCEPT ![pass[p].u] = @ + 1]
    /\ UNCHANGED <<now, occ, able, wants, open, job, msg, del, sent, edits, steady>>

-----------------------------------------------------------------------------
(* Maintenance, receipts, the world. *)

LeaseOver(u) == Has(u) /\ msg[u].status = "calling" /\ msg[u].until <= now
Overdue(u) == Has(u) /\ msg[u].status \in Waiting /\ Expiry <= now

Maintained(u) ==
    IF LeaseOver(u) THEN [msg[u] EXCEPT !.status = "unknown", !.until = 0]
    ELSE IF Overdue(u) THEN [msg[u] EXCEPT !.status = "expired"] ELSE msg[u]

MaintainedDelivery(u) ==
    IF LeaseOver(u) /\ del[u] = "calling" THEN "unknown"
    ELSE IF Overdue(u) /\ del[u] \in Waiting THEN "expired" ELSE del[u]

Maintain ==
    /\ \E u \in Users : LeaseOver(u) \/ Overdue(u)
    /\ msg' = [u \in Users |-> IF Has(u) THEN Maintained(u) ELSE None]
    /\ del' = [u \in Users |-> MaintainedDelivery(u)]
    /\ UNCHANGED <<now, occ, able, wants, open, job, sent, pass, edits, History>>

\* processedReceipt: the browser has shown a notice whose call is unknown.
Receipt(u) ==
    /\ Has(u) /\ reached[u] > 0 /\ msg[u].status = "unknown"
    /\ msg' = [msg EXCEPT ![u].status = "accepted"]
    /\ del' = [del EXCEPT ![u] = IF @ = "unknown" THEN "accepted" ELSE @]
    /\ UNCHANGED <<now, occ, able, wants, open, job, sent, pass, edits, History>>

Edit ==
    /\ edits < MaxEdits /\ edits' = edits + 1
    /\ \/ \E u \in Users : able' = SymDiff(able, {u}) /\ UNCHANGED <<wants, open, occ>>
       \/ \E u \in Users : wants' = SymDiff(wants, {u}) /\ UNCHANGED <<able, open, occ>>
       \/ open' = ~open /\ UNCHANGED <<able, wants, occ>>
       \/ occ = "current" /\ occ' = "old" /\ UNCHANGED <<able, wants, open>>
    /\ steady' = steady \intersect able' \intersect wants'
    /\ UNCHANGED <<now, job, msg, del, sent, pass, reached>>

\* generatePublicationOccurrences, some time after the plan has changed.
Supersede ==
    /\ occ = "old" /\ \E u \in Users : del[u] \in Waiting
    /\ del' = [u \in Users |-> IF del[u] \in Waiting THEN "superseded" ELSE del[u]]
    /\ UNCHANGED <<now, occ, able, wants, open, job, msg, sent, pass, edits, History>>

Tick ==
    /\ now < MaxTime /\ now' = now + 1
    /\ UNCHANGED <<occ, able, wants, open, job, msg, del, sent, pass, edits, History>>

Next ==
    \/ StartExpansion \/ Maintain \/ Edit \/ Supersede \/ Tick
    \/ \E p \in Passes :
          \/ ReadPage(p) \/ CommitPage(p) \/ FailPage(p)
          \/ Pick(p) \/ CloseMessage(p) \/ Claim(p) \/ MissClaim(p)
          \/ Call(p) \/ Write(p) \/ Invalid(p) \/ Crash(p)
    \/ \E u \in Users : Receipt(u)

Spec == Init /\ [][Next]_vars

\* The clock runs, and the Cron watchdog keeps maintaining.
FairSpec == Spec /\ WF_vars(Tick) /\ WF_vars(Maintain)

-----------------------------------------------------------------------------
(* Properties. *)

Statuses == {"pending", "retry_wait", "calling", "accepted", "unknown", "failed", "expired",
             "skipped", "superseded", "invalid_data"}
Message == [status : Statuses, attempts : Nat, lv : Nat, until : Nat, next : Nat]
PageRead == [pc : {"page"}, at : Nat, ver : Nat, stale : BOOLEAN, last : 0..Upper,
             done : BOOLEAN, targets : SUBSET Users]
Candidate == [pc : {"claim"}, at : Nat, u : Users, status : Waiting, lv : Nat, as : {"eligible"}]
Refused == [pc : {"close"}, at : Nat, u : Users, status : Waiting, lv : Nat,
            as : {"superseded", "skipped"}]
Called == [pc : {"call"}, at : Nat, u : Users, lv : Nat]
Answered == [pc : {"write"}, at : Nat, u : Users, lv : Nat, answer : Answers]
Reads == PageRead \union Candidate \union Refused \union Called \union Answered

\* The delays are numbers: said of the powers, of which the provers know nothing.
Bounds ==
    /\ {Upper, SendDay, Expiry, CallLease, MaxTime, MaxEdits} \subseteq Nat
    /\ {Page, DayLen} \subseteq Nat \ {0}
    /\ \A e \in 0..16 : Backoff * 2 ^ e \in Nat
    /\ None \notin Statuses /\ None \notin Message /\ None \notin Reads

\* Rows have the shapes and statuses of the tables, a message always with its delivery.
TypeOK ==
    /\ now \in Nat /\ occ \in {"current", "old"} /\ open \in BOOLEAN /\ edits \in Nat
    /\ able \subseteq Users /\ wants \subseteq Users /\ steady \subseteq able \intersect wants
    /\ job \in [status : {"none", "pending", "done"}, cursor : 0..Upper, ver : Nat, due : Nat]
    /\ msg \in [Users -> Message \union {None}] /\ del \in [Users -> Statuses \union {None}]
    /\ \A u \in Users : Has(u) <=> del[u] # None
    /\ sent \in [0..Day(MaxTime) -> Nat] /\ reached \in [Users -> Nat]
    /\ pass \in [Passes -> Reads \union {None}]

\* A notice the push service may have accepted is never sent again: not after a
\* lost answer, a crash during the call, or a lease that ran out meanwhile
\* (maintainPushMessages, transitionFor).
NeverResent == \A u \in Users : reached[u] <= 1

\* A message and its delivery tell one story. They differ only where a plan has
\* superseded a delivery whose message has not been reviewed since, or where a
\* close missed a message that another pass had moved on and will review: never
\* about what is being called, was accepted, failed or is unknown.
Agrees(u) ==
    Has(u) =>
        \/ del[u] = msg[u].status
        \/ /\ msg[u].status \in {"pending", "retry_wait", "expired", "skipped", "superseded"}
           /\ del[u] \in {"superseded", "skipped"}
PairAgrees == \A u \in Users : Agrees(u)

\* An expansion that ends while its plan stands leaves out nobody who could and
\* wanted to receive it all the time, whatever pages failed, crossed or died.
NobodyMissed ==
    (job.status = "done" /\ occ = "current" /\ now < Expiry) => \A u \in steady : Has(u)

\* What a pass has read stays true while others move. A pass beyond its page has a
\* message, and whoever calls has it alone: it is still being called, or its lease
\* ran out. Only one that may be called again has certainly not arrived.
Reading(p) == pass[p] # None /\ pass[p].pc = "page"
Calling(p) == pass[p] # None /\ pass[p].pc \in {"call", "write"}
RowsHeld == \A p \in Passes : (pass[p] # None /\ pass[p].pc # "page") => Has(pass[p].u)
CallHolds(q) ==
    /\ msg[q.u].lv = q.lv /\ msg[q.u].status \in {"calling", "unknown", "accepted"}
    /\ (q.pc = "call" \/ q.answer \notin {"accepted", "unknown"}) => reached[q.u] = 0
CallsHeld ==
    /\ \A p \in Passes : Calling(p) => CallHolds(pass[p])
    /\ \A p, r \in Passes : (Calling(p) /\ Calling(r) /\ pass[p].u = pass[r].u) => p = r
UnsentUntouched ==
    \A u \in Users : (~Has(u) \/ msg[u].status \in Waiting) => reached[u] = 0

\* A page that may still be committed creates no second message, and together with
\* the pages before it leaves out nobody of those it passes.
PageHolds(q) ==
    /\ job.status # "none" /\ q.ver <= job.ver
    /\ q.stale => q.done /\ q.targets = {} /\ ~Valid(now)
    /\ q.ver = job.ver =>
          /\ \A u \in q.targets : ~Has(u)
          /\ ~q.stale => \A u \in steady : (u <= q.last \/ q.done) => Has(u) \/ u \in q.targets
PagesHeld == \A p \in Passes : Reading(p) => PageHolds(pass[p])
CursorHeld ==
    /\ job.status = "none" => job.cursor = 0
    /\ job.status = "pending" => \A u \in steady : u <= job.cursor => Has(u)

\* No delivery is made for a plan that has changed (expandPushJob's commit).
NotForOldPlan == \A u \in Users : (~Has(u) /\ msg'[u] # None) => occ = "current"

\* Every message settles: none waits or is being called for ever.
Unsettled(u) == Has(u) /\ msg[u].status \in Waiting \union {"calling"}
Settles == \A u \in Users : Unsettled(u) ~> ~Unsettled(u)

\* What holds of the messages in every state; inductive.
PushesHold ==
    /\ TypeOK /\ RowsHeld /\ NeverResent /\ PairAgrees /\ NobodyMissed
    /\ CallsHeld /\ UnsentUntouched /\ PagesHeld /\ CursorHeld
=============================================================================
