---------------------------- MODULE MailCleanup -----------------------------
(***************************************************************************)
(* The outbox with the two authentication paths that write its rows        *)
(* outside the lease protocol: the request that opens a recent-auth        *)
(* challenge (recent-auth.ts), and clearTerminalOtpPayloads                *)
(* (auth/consume/cleanup.ts), which clears codes from a status it read     *)
(* earlier and returns budget in a call of its own.  RecentSpec and        *)
(* ClearSpec add one of them, FullSpec both.                               *)
(***************************************************************************)
EXTENDS MailProperties

(***************************************************************************)
(* startRecentOtp                                                          *)
(***************************************************************************)
CreateRecent(p, c, m) ==
    \E user \in Users : OpenChallenge(p, c, m, "account_change_auth", "account_change", user)

\* The budget was refused: abort the challenge and skip the mail if it is still
\* pending, whether or not somebody reserved it meanwhile.
AbandonRecent(p) ==
    LET m == proc[p].mail
        c == proc[p].ref
    IN  /\ At(p, "abandon")
        /\ challenge[c].purpose = "account_change"
        /\ outbox' = IF outbox[m].status = "pending"
                     THEN [outbox EXCEPT ![m].status = "skipped", ![m].body = FALSE, ![m].ref = NoRef]
                     ELSE outbox
        /\ challenge' = [challenge EXCEPT ![c].state = "aborted"]
        /\ Become(p, Idle)
        /\ UNCHANGED <<ledger, standing, closed, today, calls>>

RecentStep(p) ==
    (\E c \in Challenges, m \in Mails : CreateRecent(p, c, m)) \/ AbandonRecent(p)

(***************************************************************************)
(* clearTerminalOtpPayloads: run by cron for every challenge that is over, *)
(* and by the verifying request for the one it consumed.  A row of its     *)
(* list at a time; the two writes of a row are two calls.                  *)
(***************************************************************************)
ClearRead(p, m) ==
    LET c == outbox[m].ref IN
    /\ At(p, "idle")
    /\ outbox[m].body /\ c \in Challenges
    /\ challenge[c].purpose # "account_change"
    /\ \/ challenge[c].state = "consumed"
       \/ p \in Sweepers /\ challenge[c].state # "deleted"
              /\ (challenge[c].state = "aborted" \/ challenge[c].late)
    /\ Become(p, [Idle EXCEPT !.at = "clear", !.mail = m, !.view = outbox[m]])
    /\ NoWrite

Clear(p) ==
    LET s == proc[p]
        m == s.mail
    IN  /\ At(p, "clear")
        /\ outbox' = IF outbox[m].body
                     THEN [outbox EXCEPT ![m].body = FALSE,
                              ![m].status = IF @ \in Unsent THEN "superseded" ELSE @]
                     ELSE outbox
        /\ IF outbox[m].body /\ s.view.status \in Unsent /\ s.view.period # Unreserved
           THEN Become(p, [s EXCEPT !.at = "refund"])
           ELSE Become(p, Idle)
        /\ UNCHANGED <<ledger, challenge, standing, closed, today, calls>>

\* transitionMailReservation(..., "release")
Refund(p) ==
    LET rows == Charged(proc[p].view) IN
    /\ At(p, "refund")
    /\ ledger' = IF SourceLeft(rows, "reserved") THEN Move(ledger, rows, "reserved", "none") ELSE ledger
    /\ Become(p, Idle)
    /\ UNCHANGED <<outbox, challenge, standing, closed, today, calls>>

ClearStep(p) == (\E m \in Mails : ClearRead(p, m)) \/ Clear(p) \/ Refund(p)

RecentNext == Next \/ \E p \in Requests : RecentStep(p)
ClearNext == Next \/ \E p \in Requests \union Sweepers : ClearStep(p)
FullNext == RecentNext \/ ClearNext

RecentSpec == Init /\ [][RecentNext]_vars
ClearSpec == Init /\ [][ClearNext]_vars
FullSpec == Init /\ [][FullNext]_vars

(***************************************************************************)
(* What the documents say of these paths                                   *)
(***************************************************************************)
Quiet == \A p \in Procs : At(p, "idle")

\* mail-ledger.ts:256: a mail that is dropped without having gone out returns the
\* day's budget, so nothing stays reserved for mails that do not wait any more.
DroppedReturnsUnit ==
    Quiet => \A a \in Accounts : ledger["reserved"][a] <= Units("reserved", a)

\* mail/outbox/README.md: the authentication cleanup does not "read first and
\* refund later", so it never takes the aggregate reservation of another mail: a
\* mail that waits with its budget always finds its unit in the ledger.
WaitingHasUnit ==
    \A a \in Accounts : ledger["reserved"][a] >= Units("reserved", a)

\* create-challenge.ts:218: a creation that lost the budget aborts its challenge
\* and skips the mail: no code of an aborted challenge is left waiting.
AbortSkipsMail ==
    \A m \in Mails : outbox[m].ref \in Challenges /\ challenge[outbox[m].ref].state = "aborted"
        => outbox[m].status \notin Waiting
=============================================================================
