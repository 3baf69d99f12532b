--------------------------- MODULE MailInvariant ----------------------------
(***************************************************************************)
(* The inductive invariant of the outbox: what every actor may rely on     *)
(* about the row it read earlier, and about the mails nobody else may      *)
(* touch.  The safety properties of MailProperties follow from it.         *)
(***************************************************************************)
EXTENDS MailProperties

\* What an actor at a step has chosen to work on.
StepFacts(s) ==
    /\ s.at \notin {"idle", "resend", "approve", "sweep"} => s.mail \in Mails
    /\ s.at \in {"reserve", "abandon", "resend"} => s.ref \in Challenges
    /\ s.at \in {"reserve", "abandon"} => PoolOf(s.intent) \in AuthPools
    /\ s.at \in {"prepare", "gates", "start", "writeback", "call"} => s.view.status = "leased"
    /\ s.at = "writeback" => s.result \in {"retry_wait", "skipped", "superseded", "expired", "failed"}
    /\ s.at = "record" => /\ s.view.status = "calling_provider"
                          /\ s.result \in {"accepted", "rejected", "retry_wait", "unknown"}
    /\ s.at = "repair" => s.view.status \in {"leased", "calling_provider", "retry_wait"}
    /\ s.at = "finish" => s.view.status = "retry_wait" /\ s.view.sent
    /\ s.at = "release" => s.view.status \in Waiting /\ ~ s.view.sent
    /\ s.at \in {"rereserve", "withdraw"} => /\ s.view.status = "pending"
                                             /\ s.view.period = Unreserved
    /\ s.at = "rereserve" => PoolOf(s.intent) = s.view.pool
    /\ s.at = "receipt" => /\ s.view.status \in {"accepted", "deferred", "unknown"}
                           /\ s.result \in Receipts
    /\ s.at = "approve" => PoolOf(s.intent) \in BusinessPools /\ s.user \in Users

Typed == TypeOK /\ \A p \in Procs : StepFacts(proc[p])

\* Status, call and budget of one row agree with each other.
RowConsistent(m) ==
    LET row == outbox[m] IN
    /\ row.status \in Unsent \union {"absent"} => ~ row.sent
    /\ row.status \in {"calling_provider", "unknown"} => row.sent
    /\ row.sent => row.period # Unreserved
    /\ row.body => row.status \in Waiting /\ ~ row.sent
    /\ row.pool = PoolOf(row.intent)

\* The steps whose write is fenced by what view says.
Fenced == {"prepare", "gates", "start", "writeback", "call", "record", "repair", "finish",
           "release", "rereserve", "withdraw", "expire", "receipt"}

\* A view grows old in one direction only: as long as the row has its version, the
\* row is charged as the view says, except that the creating request may still
\* make its first reservation.
ViewHolds(p) ==
    LET view == proc[p].view
        row == outbox[proc[p].mail]
    IN  /\ row.status # "absent"
        /\ row.pool = view.pool /\ row.user = view.user
        /\ view.version <= row.version
        /\ view.sent => row.sent
        /\ view.version = row.version =>
               /\ view.period # Unreserved => row.period = view.period
               /\ view.status = "retry_wait" /\ ~ view.sent =>
                      row.status \notin Unsent /\ ~ row.sent

\* Who withdraws or expires a mail does so after its creating request is done, so
\* that an unreserved view is still unreserved.
Created(m) == outbox[m].status # "absent" /\ ~ Creating(m)
LateViewHolds(p) ==
    proc[p].at \in {"withdraw", "expire"} =>
        /\ Created(proc[p].mail)
        /\ proc[p].view.version = outbox[proc[p].mail].version
               => proc[p].view.period = outbox[proc[p].mail].period

\* A creating request works on its own mail, before its code's deadline.
CreatorHolds(p) ==
    LET row == outbox[proc[p].mail] IN
    proc[p].at \in {"reserve", "abandon"} =>
        /\ row.status # "absent"
        /\ row.pool = PoolOf(proc[p].intent)
        /\ row.ref = proc[p].ref
        /\ ~ challenge[proc[p].ref].late
        /\ challenge[proc[p].ref].state # "none"
        /\ \A q \in Requests \ {p} :
               proc[q].at \in {"reserve", "abandon"} => proc[q].mail # proc[p].mail

\* The mail somebody is about to call the provider for is marked, and not called.
CallerHolds(p) ==
    proc[p].at = "call" =>
        /\ outbox[proc[p].mail].sent
        /\ calls[proc[p].mail] = 0
        /\ \A q \in Procs \ {p} : proc[q].at = "call" => proc[q].mail # proc[p].mail

\* What an actor's record says of the mails it works on.
ActorHolds(p) ==
    /\ proc[p].at \in Fenced => ViewHolds(p)
    /\ LateViewHolds(p)
    /\ \A m \in proc[p].todo : Created(m)

Fences ==
    /\ \A m \in Mails : RowConsistent(m)
    /\ \A p \in Procs : ActorHolds(p) /\ CallerHolds(p)
    /\ \A p \in Requests : CreatorHolds(p)
    /\ CallIsRecorded
    /\ AtMostOneCall

\* Until its call is committed a sender decides by the row as it claimed it.  While the
\* row is leased under that version it carries the same code for the same challenge,
\* unless the account's mail was erased.
LeaseHolds(p) ==
    LET view == proc[p].view
        row == outbox[proc[p].mail]
    IN  /\ IsAuth(view) => view.ref # Self
        /\ row.version = view.version /\ row.status = "leased" =>
               /\ row.gen = view.gen
               /\ row.ref = NoRef \/ (row.ref = view.ref /\ row.body = view.body)

\* What the preflight found is what makes a mail fit.
SnapHolds(p) ==
    LET view == proc[p].view
        snap == proc[p].snap
    IN  IF view.ref \in Challenges
        THEN /\ IsAuth(view) /\ view.body
             /\ snap.state = "open" /\ snap.gen = view.gen /\ snap.fit # "skipped"
        ELSE snap.fit = "eligible"

SenderHolds(p) ==
    /\ proc[p].at \in {"prepare", "gates", "start"} => LeaseHolds(p)
    /\ proc[p].at \in {"gates", "start"} => SnapHolds(p)

\* The mail of a code is superseded by its challenge, never by its recipient's review,
\* and a mail that was delivered is not put off.
MailHolds(m) ==
    LET row == outbox[m] IN
    /\ IsAuth(row) => row.ref # Self /\ standing[m] \in {"eligible", "skipped"}
    /\ row.status = "absent" => standing[m] = "eligible"
    /\ row.status = "deferred" => ~ row.delivered

Reviews == (\A m \in Mails : MailHolds(m)) /\ (\A p \in Procs : SenderHolds(p))

\* Every fact above, together.
Inductive == Typed /\ Fences /\ LedgerAgrees /\ Reviews
=============================================================================
