--------------------------- MODULE MailRefinement ---------------------------
(***************************************************************************)
(* The outbox implements what it promises.                                 *)
(***************************************************************************)
EXTENDS MailOutbox

FateOf(row) ==
    IF row.status = "absent" THEN "none"
    ELSE IF row.sent
    THEN IF row.status \in {"calling_provider", "unknown"} THEN "called" ELSE "answered"
    ELSE IF row.status \in Waiting THEN "waiting" ELSE "dropped"

EntryOf(row) == [pool |-> row.pool, intent |-> row.intent, user |-> row.user, day |-> row.period]

FateNow == [m \in Mails |-> FateOf(outbox[m])]
MailNow == [m \in Mails |-> EntryOf(outbox[m])]

Promise == INSTANCE MailPromise WITH fate <- FateNow, mail <- MailNow

\* Every step of requests, executor, sweep and consumers is a step of the promise
\* or changes nothing it speaks of: in particular what the counters admit is what
\* a count of the charged mails has room for, and nothing is called twice,
\* refunded after its call, or dropped without its unit going back.
KeepsPromise == Promise!PromiseSpec
=============================================================================
