---------------------------- MODULE MailLiveness ----------------------------
(***************************************************************************)
(* What the outbox must eventually do, under the scheduling the code has.  *)
(* DeliveryDO rearms its storage alarm after every unit of work            *)
(* (delivery-do.ts:45) and cron wakes it, and the cleanup, periodically:   *)
(* the executor and the sweep come back to every row they are due to       *)
(* handle, and an eviction does not hit every single attempt.  Leases and  *)
(* deadlines run out.  Nothing is assumed of requests, of operators, or of *)
(* the provider path itself.                                               *)
(***************************************************************************)
EXTENDS MailProperties

ExecutorFairness ==
    /\ WF_vars(ExecutorStep) /\ WF_vars(SendStep(Executor))
    /\ SF_vars(Repair) /\ SF_vars(FinishRejected) /\ SF_vars(ReleaseOld)
    /\ \A m \in Mails :
           SF_vars(RepairRead(m)) /\ SF_vars(FinishRead(m)) /\ SF_vars(RolloverRead(m))

SweepFairness ==
    \A p \in Sweepers : WF_vars(SweepList(p)) /\ WF_vars(SweepStep(p))

TimePasses ==
    /\ \A m \in Mails : WF_vars(LeaseLapses(m))
    /\ \A c \in Challenges : WF_vars(DeadlinePasses(c))

FairSpec == Spec /\ ExecutorFairness /\ SweepFairness /\ TimePasses

\* A call whose sender died, or whose answer never came, is recorded as unknown in
\* the end: no mail stays in calling_provider.
CallingResolves ==
    \A m \in Mails : outbox[m].status = "calling_provider" ~> outbox[m].status # "calling_provider"

\* The code of an open challenge whose deadline is over does not stay in the
\* outbox, even when mail is paused for good and nobody claims it.  (One that a
\* sweep missed is forgotten with its challenge, and left to the next rollover.)
LateCodeWithdrawn ==
    \A m \in Mails :
        (/\ outbox[m].ref \in Challenges /\ outbox[m].body
         /\ challenge[outbox[m].ref].late /\ challenge[outbox[m].ref].state = "open")
            ~> (~ outbox[m].body \/ challenge[outbox[m].ref].state = "deleted")

\* A unit reserved for a day that is over does not stay reserved: the mail moves
\* to a day with room, waits without budget, is called or ends.
OldDayReleased ==
    \A m \in Mails, day \in Days :
        (ColumnOf(outbox[m]) = "reserved" /\ outbox[m].period = day /\ day < today)
            ~> ~ (ColumnOf(outbox[m]) = "reserved" /\ outbox[m].period = day)

\* A mail the provider put off, which has no budget for another call, does not
\* wait for ever: it ends once its intent is over.
RefusedEnds ==
    \A m \in Mails :
        (outbox[m].status = "retry_wait" /\ outbox[m].sent /\ IntentOver(m))
            ~> outbox[m].status \in Terminal
=============================================================================
