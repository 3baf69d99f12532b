# A verification development for hoyo_subscribe

TLA+ modules, TLC configurations and TLAPS proofs for the core of the repository:
a subscription service for game events that runs on Cloudflare Workers, D1,
Durable Objects and a queue, and that may send only a few dozen mails a day. Its
outgoing mail is modelled in most detail and proved, as are the account stock, the
sessions and the recovery codes; the rest of accounts, subscriptions, push,
the planning of notices, publishing, calendars, receipts and the mail channel are
modelled and checked beside it.
Paths below are relative to `src/`; `W/` stands for `apps/worker/src/`.

## 1. The system

| Component | State it keeps | Operations | What is hard | What makes it correct |
|---|---|---|---|---|
| Mail day ledger (`W/storage/ledger`, `packages/contracts/src/budget`) | `usage_periods`: reserved, settled, uncertain per pool, day and user | decide, reserve, settle, mark uncertain, release | aggregate counters moved by many actors; a decision that exists twice, in TypeScript and in SQL | counters are a recount of the mails; limits and floors hold; both decisions agree |
| Outbox and sending (`W/mail/outbox`, `W/mail/provider`) | `mail_outbox` (status, lease, version, day, `sent_at`, payload) | claim, preflight, call, write back, repair, expire, receipt | two senders, eviction between commit and call, time-outs, stale reads | at most one call; a called mail is never refunded or called again; nothing obsolete is called; nothing stays in `calling_provider` |
| Rollover, put-off mail, approval (`W/mail/budget`) | the same rows | release an old day, reserve a new one, approve a digest, end a refused mail | midnight in the middle of everything, three commits for one intent | no unit leaks, none is spent twice, every old unit is returned |
| Authentication challenges (`W/auth/challenges`, `W/auth/consume`, `W/auth/preauth`) | `auth_challenges`, `recent_auth_challenges`, resend intents | create, resend, verify, consume, sweep | parallel guesses, generation rotation, repeated requests, quota races | attempts bounded; only the current code counts; one consumption |
| Delivery executor (`W/executors/delivery*`) | one alarm, coordinator job | watchdog, tick, rearm | serial work over stale pages, backoff, fairness among users | always wakes again; every due row is visited |
| Admission and registration (`W/storage/admission.ts`, `W/accounts/admission`) | `capacity_state`, reservations | reserve, expire, release, register | seats at the limit, late consumption | stock never exceeds its limit |
| Sessions and recovery (`W/auth/sessions`, `W/auth/recovery`) | sessions, recovery epochs | sign in, rotate, recover, revoke | an epoch moving under live credentials | nothing of an old epoch is honoured |
| Subscription and its save machine (`W/accounts/subscription`, `apps/web`) | revisioned config; drafts | PATCH by expected revision; retry, conflict | lost answers, two browsers | an acknowledged save is not overwritten unseen |
| Occurrences and dispatch (`W/mail/occurrences`, `W/mail/dispatch`) | occurrences, deliveries, jobs | expand by pages, select a digest | cursors, superseding, fairness | each delivery in one digest; no user starves |
| Feedback (`W/mail/feedback`, `W/mail/suppression`) | `mail_feedback` inbox | ingest, process, compact | replays, inbox at its limit | receipts take effect once |
| Email channel, unsubscribe | channel rows, seats, tokens | enable, pause, unsubscribe | racing seats | no mail after an unsubscribe |
| Push (`W/push`) | messages, devices, jobs | fan out, send, receipts | leases, CAS of the cursor | at most one call |
| Pipeline, publishing, review | jobs, candidates, events, revisions | collect, extract, publish, retract | rival commits, retries | one publication per candidate |
| Calendar feeds, public reads | feed tokens, snapshots | rotate, read | cached identities | a revoked token reads nothing |
| Accounts: deletion, reclaim | account states | cool off, erase by page, reclaim | crash between pages | erasing finishes, nothing comes back |
| Shell, sources, extraction, web UI, scripts | little or none | routing, parsing, rendering, backups | - | not modelled |

How they interact: a request writes a challenge and its mail in one D1 batch and
then reserves the mail's budget in another; the `DeliveryDO` singleton claims
rows, calls the provider and writes back; its watchdog repairs and rolls over;
cron expires codes and deletes challenges; a queue consumer records receipts;
operators turn switches in `system_state`. All of them meet only in D1. A D1
batch is atomic; **between two calls anything may happen**, including the
eviction of the isolate. That is the grain of the model: one action is one
statement or batch, and what an actor read before it is kept in a variable.

What is hardest to test, each at its line and with the properties that watch it,
is in `PROJECT.json` under `hazards`; other hazards are named in the modules'
comments, beside the definitions that watch them.

## 2. Modules

### Mail

| Module | What it is |
|---|---|
| `MailLedger` | budget: pools, intents, accounts, limits, the pure decision `Approves`, the guarded predicate `HasCapacity`, `Move`. No variables |
| `LedgerGrowth` | one ledger that fills up in any order; `DecisionAgrees` |
| `MailOutbox` | the state machine: requests, executor, fast path, watchdog, sweep, consumers, environment; `Spec` |
| `MailProperties` | type invariant, safety invariants, action properties |
| `MailInvariant` | the inductive strengthening |
| `MailPromise`, `MailRefinement` | the abstract specification without actors and counters, and the refinement mapping |
| `MailLiveness` | fairness and liveness |
| `MailCleanup` | the two paths that change mail outside of `transitionMail`, and the three statements of the documents they contradict |
| `MCMail`, `MCMailLiveness` | instances for TLC |
| `MailLedgerProofs` | the two decisions agree, on every ledger and along `LedgerGrowth` (whose variable it brings into `MailProofs`, where nothing uses it) |
| `MailProofs` | types; what every read may rely on, one lemma per action; the recount and the theorems; the refinement of `MailPromise`, quotas and floors |

### Accounts and services

| Module | Code | What it models |
|---|---|---|
| `SignupSeats` | `W/storage/admission.ts`, `W/accounts/admission` | a sign-up reserves a seat of the stock, the consumption of its code makes an account of it, expiry and erasing give places back |
| `AuthChallenge` | `W/auth/challenges/verify.ts`, `resend.ts`, `W/auth/consume` | parallel guesses against the attempts of a code and of the hour, resends that rotate it, the one consumption |
| `AuthQuota` | `W/auth/preauth` | cooldown, day and open challenges: the read side, the guard of the write, the maintenance that deletes rows |
| `UserSessions` | `W/auth/sessions`, `W/auth/recovery` | activation with the choice of devices, renewal, revocation, emergency stop, recovery login, confirmation of a recovery code |
| `RecoveryRotation` | `W/auth/recovery/credential.ts`, `W/accounts/lifecycle`, the account page | first recovery code and its replacement, from several pages, with lost answers |
| `AccountMaintenance` | `W/accounts/lifecycle`, the account page | change of address, deletion and its withdrawal, proofs of recent authentication |
| `SubscriptionStore`, `SubscriptionSave` | `W/accounts/subscription`, `apps/web/src/features/subscription/save` | the row saved by its revision, its interests and counters; the save machine of several tabs over it (extends the store) |
| `PushBindings` | `W/push/service.ts`, `receipts.ts`, `store.ts`, `outbound.ts` | registration, activation by a receipt, pauses, places of the site, gone endpoints |
| `PushDelivery` | `W/push/delivery.ts` | expansion to bindings, review, claim, call, write-back and maintenance of notices |
| `OccurrencePlan` | `W/mail/occurrences`, `W/executors/delivery/occurrences.ts` | signals of publications, occurrences, plans that replace each other, the audience frozen and walked over by pages |
| `MailDispatch` | `W/mail/dispatch`, `W/executors/delivery/dispatch.ts` | rounds over the users owed a notice: selection, the second read that plans, the commit that approves or puts off, batches, budget, switches and the coordinator job; its commit is what `ApproveDispatch` of `MailOutbox` sees |
| `Publishing` | `W/publishing`, `W/admin`, `W/executors/pipeline` | candidates, parked jobs, reviews, publication under what was read, retraction, the debt of a rebuild |
| `PublicSnapshot` | `W/calendar/public`, `packages/contracts/src/public-calendar.ts` | builds of whole generations, patches that compensate a moved time, readers, reclaim, the pause when patches fill up |
| `CalendarFeed` | `W/calendar/feed`, `packages/contracts/src/personal-calendar.ts` | the polls of a private address, its watermarks, sequences and the guard against a shrunken calendar |
| `CalendarManage` | `W/calendar/manage`, `apps/web/src/features/channels/calendar` | enabling, resetting and revoking the address from panels, with previews, operation keys and isolates |
| `MailFeedback` | `W/mail/feedback`, `W/mail/suppression` | the inbox of receipts, its lease, the freeze of an address and the closing of a channel |
| `MailChannel` | `W/mail/channel`, `W/mail/unsubscribe`, the e-mail panel | seats and routine layers, consents, closings, the renewal scan, the panel |
| `SignupSeatsProofs`, `AuthChallengeProofs`, `AuthQuotaProofs`, `UserSessionsProofs`, `RecoveryRotationProofs`, `PushDeliveryProofs` | | the proofs about these six modules |
| `MCAccounts`, `MCServices`, `MCProgress` | | small instances of these modules for TLC |

In each of them, too, one action is one D1 call: what a request has read is kept in
its `proc` (or `request`, `pass`, `slot`, ...), and any other action may fall between.
`TypeOK` and the safety invariants stand at the end of each module, each with the
code it is about; `...Hold(s)` is their conjunction and `...Step` that of its action
properties. `MailOutbox` knows of the others only what its preflight reads
(`StandingMoves`, `Consume`, `Toggle`), so each of these modules, when it closes a
channel, erases an account or consumes a code, does one of those actions.

### State of the mail model

| Variable | Code |
|---|---|
| `outbox` | `mail_outbox` (`migrations/0012`). `sent` is `sent_at IS NOT NULL`, `period` is `period_key` (`Unreserved` is `''`), `gen` the generation inside the encrypted payload, `body` whether there is a payload, `ref` is `payload_ref`, `known` whether `message_id` is set, `lease` compares `lease_expires_at` with the clock. `delivered` is `provider_status = 'delivered'` of the mail's job, `intent` the intent its budget was last taken under |
| `ledger` | `usage_periods` (`migrations/0013`), pool rows and user rows |
| `challenge` | `auth_challenges` and `recent_auth_challenges` as far as mail depends on them |
| `standing` | what the preflight's queries would find of the recipient: account, address version, seat, events, deliveries |
| `closed` | switches of `system_state` that are off; `available` also stands for the pause the sender itself writes |
| `today` | the UTC day |
| `proc` | per actor: where it is between two D1 calls, and what it has read |
| `calls` | history: how often the provider was handed each mail |

### Actions of the mail model

| Actions | Code |
|---|---|
| `CreateChallenge`, `ReserveBudget`, `AbandonCreate` | `W/auth/challenges/create-challenge.ts`, `reserveMailBudget` |
| `ResendRead`, `ResendCommit` | `resend.ts` |
| `Claim`, `Prepare`, `PrepareThrows`, `CheckGates`, `FinishUncalled`, `StartCall`, `CallProvider`, `Record`, `RecordThrows`, `PauseMail` | `sendOneMail`, step by step, for the executor and for `tryAuthMailFastPath` |
| `RepairRead`, `Repair` | `repairMailPage` |
| `RolloverRead`, `ReleaseOld`, `Refetch`, `Withdraw`, `Rereserve` | `rolloverBudgetPage` with `releaseOldReservation` and `reserveUnsentIntent` |
| `FinishRead`, `FinishRejected` | `finishRejectedRetryPage` |
| `ProposeDispatch`, `ApproveDispatch` | `planBudgetedDispatch`, `approveBudgetedDispatch` |
| `SweepList`, `ExpireRead`, `Expire`, `ForgetChallenges` | `clearExpiredOtpPayloads`, `expireOtpMail` |
| `ReceiptRead`, `Receipt` | `recordMailReceipt` |
| `CreateRecent`, `AbandonRecent` (MailCleanup) | `startRecentOtp` |
| `ClearRead`, `Clear`, `Refund` (MailCleanup) | `clearTerminalOtpPayloads` |
| `NextDay`, `LeaseLapses`, `DeadlinePasses`, `Consume`, `StandingMoves`, `EraseMail`, `Toggle`, `Crash` | clocks, users, operators, account deletion, evictions |

### Abstractions of the mail model

* A page of rows is handled a row at a time, read and then written; the executor
  is serial (`DeliveryDO.exclusive`), so between two rows of its page only other
  actors move, as they do here. The sweep keeps its list and its clock.
* An instant is a fact that turns true once: a lease lapses, a deadline passes, a
  day ends. A clock that was captured (`now`) is kept as `day` or `over`.
* The preflight's snapshot compares what `AUTH_SQL` and `DIGEST_SQL` select.
* `DeadlinePasses` and `EraseMail` wait until a request that is creating that mail
  is done: a creation takes seconds, a code lives ten minutes, and an account is
  erased after a cooling-off period.
* Left out: telemetry in `jobs`, metrics, logs, the mirror in `deliveries`,
  backoff times, the removal of day rows after retention, message bodies,
  cryptography. Decoy challenges (`equalization`) hold no mail and no budget.
* Over-approximated: a resend does not check attempts, quotas and the login
  account again; the executor may do its units of work in any order; the provider
  may answer anything; a write-back may throw; an operator may turn any switch the
  run allows.
* `MaxVersion` bounds claims (the only unbounded counter that restarts a mail);
  `MaxDay` bounds days. Nothing else is bounded.

### The core of the mail model and the two unleased paths

`Spec` has every path that changes a mail through its version and lease, or that
is guarded by `period_key`. Two paths are not: `startRecentOtp` when it is
refused, and `clearTerminalOtpPayloads`. They are in `MailCleanup`, as
`RecentNext` and `ClearNext`, because they really do break the ledger: this is
what `RecentLeak` and `ClearSteals` show. The theorems are about `Spec`. What
still holds with these paths is checked under `FullSpec` in `MailFast`.

### Abstractions of the other modules

* `AuthQuota` has the exact quotas and one approximate gate per isolate; Turnstile is left out.
* `AuthChallenge`, `SignupSeats`: decoy challenges and the receipts by which a repeated
  completion gets its first answer are left out.
* `UserSessions`: how a proof of recent authentication is issued is left out, what it
  permits is not. `RecoveryRotation`: a refresh, and the code by mail that makes a proof,
  are one step; `renewAfterAction` is left out; a refused confirmation of a first code
  that is not saved answers `no_session`, which the page takes as the end of its session.
* `SubscriptionSave`: identities and the device's storage of drafts are left out.
* `PushDelivery`: one binding per user stands for several; encryption and the VAPID
  client are left out, and the closing of the switch after a 401 or 403. A put-off notice
  waits for its own delay, not for a longer `Retry-After`. A backoff job
  that has failed for good stops the maintenance by cron, as in the code. Maintenance takes
  every row that is due: the limit its statements share is not modelled.
* `MailDispatch`: what a selection reads is one step (the plan reads it again and the
  commit compares it), and so are the switches and the context that the plan reads,
  because the commit checks both again; whole audiences are expanded at once. A commit
  that misses for any reason puts its user off (`W/executors/delivery/dispatch.ts:101`),
  not only for want of budget, which is what the comment on `selectDispatchCandidate`
  has in mind (`W/mail/dispatch/dispatch.ts:104`); `FairTurns` says what that may cost.
* `OccurrencePlan` and `Publishing`: one event with one node. A retraction whose
  publication died is approved and tried again for ever, so that `MCProgress` leaves
  retractions out. `read_only` leaves a job pending before it does anything. What the
  gate reads (switch, pause, the candidate's kind) is one step.
* `PublicSnapshot`: no code deletes a projection, so tombstones are left out;
  `writeNoncriticalPublicationPause` has no caller beside the tests.
* `CalendarManage`: the reads after a refused batch are one; the waiting of the preview's
  rate gate is left out.
* `MailFeedback`: a rejection because of the provider's own suppression freezes the address
  as policy; a soft bounce and any other rejection end a mail and freeze nothing. Time is
  relative, and a page of old rows is one row. The check that a repeated event has the
  same content is left out. `Timely` says that a worker is done
  before its lease lapses twice: without it two slow workers could take the lease from
  each other for ever.
* `MailChannel`: the three or four reads of `readContext` (`W/mail/channel/state.ts:59`) are
  one step, because the guard of the save checks each of them again; an address version
  stands for its address; a complaint's closing writes no consent event and leaves the lease, as in the code; the reclaim of idle seats is left out.

Not modelled: the leases and the alarm of the pipeline executor, sources and extraction,
rendering, routing, templates, backups. Known hazards that no property covers: a
rollover whose job failed for good is excluded from the candidates with its unit still
reserved (`W/mail/budget/rollover.ts:29`; only a digest without an owner can fail so, and
nothing writes one); a mail that became unknown by time-out has no `message_id` and never
matches its receipts (`W/mail/outbox/state.ts:217`); the receipts of a consumption
(`W/auth/consume/receipt.ts`); the pipeline's alarm (`W/executors/pipeline-do.ts:48`).

## 3. Runs

| Run | Specification | Bounds | What it shows |
|---|---|---|---|
| `MailAuth` | `Spec` | 2 codes of 1 challenge, 1 request, executor, sweep; 2 days of 1 mail; 2 versions; evictions | `TypeOK`, the inductive invariant, `KeepsPromise`. Two mails for one unit is the smallest contest; two days the smallest rollover |
| `MailDigest` | `Spec` | 2 digests of 1 user, 2 days, 1 routine chance a day, urgent floor 1 of 2 | `QuotaRespected` with user rows, `FloorsKept` |
| `MailFast` | `FullSpec` | 1 code, executor, creating request, fast path, sweep; 3 versions; evictions; a switch | `AtMostOneCall`, `CallIsRecorded`, `CodeErased`, `NeverCallsObsolete`, `CalledNeverRefunded`, `TerminalIsFinal`. Three versions: claim, repair, claim by the other sender |
| `MailReceipt` | `Spec` | 1 digest, 2 consumers, evictions, two switches | `LedgerAgrees`, `DeliveredNotDeferred` |
| `MailLive` | `FairSpec` | 1 code, executor, fast path and sweep, evictions, 2 days | `CallingResolves`, `LateCodeWithdrawn`, `OldDayReleased`, `RefusedEnds` |
| `LedgerGrowth` | `GrowthSpec` | every occupancy of six rows, to one past each limit | `DecisionAgrees` |
| `Accounts` | `Spec` of `MCAccounts` | 16 instances: one or two addresses, devices, pages or requests, one to three of each row | `SeatsAreSound`, `CodesAreSound`, `QuotasAreSound`, `SessionsAreSound`, `RotationIsSound`, `MaintenanceIsSound` |
| `Services` | `Spec` of `MCServices` | 29 instances of the eleven other modules | `SubscriptionIsSound`, `BindingsAreSound`, `PushesAreSound`, `PlansAreSound`, `RoundsAreSound`, `PublishingIsSound`, `SnapshotsAreSound`, `FeedIsSound`, `ManageIsSound`, `FeedbackIsSound`, `ChannelIsSound` |
| `Progress` | `Spec` of `MCProgress`, with fairness | 13 instances with something owed | `WorkEnds`, `WaitsEnd` |
| `RecentLeak` | `RecentSpec` | 1 code | violated: `DroppedReturnsUnit` |
| `ClearSteals` | `ClearSpec` | 1 code | violated: `WaitingHasUnit` |
| `AbortLeavesMail` | `Spec` | 1 code | violated: `AbortSkipsMail` |

Symmetry is used for mails, challenges and users, never with liveness. Deadlock
is not checked: a system whose mails are all done has nothing left to do.

### Instances side by side

`MCAccounts`, `MCServices` and `MCProgress` run many small instances in one state
machine: the first state picks `part`, the instance a behaviour runs on the shared
variables `v1, v2, ...`; the others keep their first value. A property `XIsSound` says of
every part of one component what its module says of it. Every instance is named with
the case it is there for; in general two actors of each kind contend for one resource
(the last seat, one code, one lease, one revision), with as many versions, times or
calls as it takes for one of them to be overtaken twice. Smaller instances lose the
case: each property is shown to break under a plausible bug of the code (`mutants`).
Where two instances of a module differ, one has more actors and the other more time.
Bounds of a module that are not in the code (`MaxTime`, `MaxEdits`, `MaxPublish`,
`MaxCalls`, ...) are constants of its environment: they bound the clock, the edits of
users, the publications. Symmetry swaps requests or workers, and accounts, where an
instance has two that are alike.

### What the violations say

* **`RecentLeak`.** `startRecentOtp` inserts an unreserved row; the watchdog
  rolls it over and reserves a unit for it; the request's own reservation then
  misses, and it skips the row without looking at `period_key`. The unit stays
  in `reserved` until the day ends. `createChallenge` has the missing guard.
* **`ClearSteals`.** `clearTerminalOtpPayloads` reads status and day, clears by id,
  and refunds in a third call by what it read. When the row's sender has moved it
  meanwhile the aggregate loses a unit of some other mail; `SourceLeft`
  keeps most moves from taking the counter below zero, so that the loss stays
  invisible. The release inside a resend has no such guard
  (`W/mail/budget/mail-ledger.ts:168`), and TLC finds a counter of -1 in 14 steps of
  `ClearSpec` with three codes, two challenges and a midnight between them; nothing
  in the documents speaks of it, so that no run states it.
  The mirror image also exists: a row put off when it was read and pending when
  it is cleared ends without a refund.
* **`AbortLeavesMail`.** The race of `RecentLeak` in `createChallenge`: the guard on
  `period_key` saves the unit, but the challenge is aborted and the code waits in
  the outbox until a sender finds its challenge closed.

All three need the watchdog to visit a row in the short time between the
insert of a mail and its first reservation, or a cleanup beside a sender.

### Where code and documents disagree elsewhere

The same kind of violation was met in the other modules; each was found by TLC as a
counterexample to the definition named, which is not part of a run because it does not
hold.

* **A sign-up code without its seat.** Seats read as expired are released later by id
  (`W/storage/admission.ts:108`), and the extension of a seat may hit no row without
  effect on the insert: an open code can be left that can never be consumed.
  `W/auth/challenges/create-challenge.ts:184` says the seat covers the latest deadline.
* **A session too many.** `renewSession` commits with the time its request started at
  (`W/auth/sessions/lifecycle.ts:283`), so that a session that ran out meanwhile lives
  again beside the device activated in its place: more than `SESSION_ACTIVE_MAX`.
* **Two saves at once.** `save()` awaits a refresh when there is no snapshot and does not
  look at `inFlight` again (`save/machine.ts:207`); the design document (line 355) wants
  one save at a time.
* **Saved over a draft that is not.** `reconcile()` checks neither `readSerial` nor
  `inFlight` (`save/machine.ts:289`): a recheck answered during the next save shows
  "saved to the cloud" over an edit made since, and the draft kept on the device goes.
* **A conflict that is not decided.** A refresh with an unchanged revision turns
  `conflict` into `dirty` (`save/machine.ts:184`), which enables the save button before
  the user has chosen (design document, line 369).
* **A push place too many.** Pausing a pending binding whose deadline has passed asks for
  no place (`W/push/service.ts:612`), and a paused one counts: the stock can pass
  `PUSH_TOTAL_MAX` (`docs/adr/0025`, line 48).
* **Two activation notices.** Resuming sets `activation_sent_at` to NULL
  (`W/push/service.ts:650`), so that pausing beats `PUSH_TEST_COOLDOWN` (ADR 0025, line 47).
* **An accepted notice filed as invalid.** The `catch` around a push call also takes what
  the write after it throws (`W/push/delivery.ts:582`); its comment says nothing was sent.
* **A coordinator that stops for all.** A batch that lasts past midnight approves a second
  mail under the key of the first (`W/mail/dispatch/dispatch.ts:21`); the constraint
  error counts as bad data, the coordinator is set failed, and every later pass returns
  (`W/executors/delivery/dispatch.ts:39`), although line 51 says a failure holds up nobody.
* **A window that forgets.** A public time that becomes unknown gets no patch
  (`packages/contracts/src/public-calendar.ts:139`), so that the next time is published
  with a window that forgets the first; line 89 says watermarks only grow.
* **A dropped operation key.** `write()` of the calendar panel forgets its operation on every
  answer below 500, the 429 of a retry whose first request still runs included
  (`channels/calendar/panel.ts:544`); line 543 keeps it until the result is known.
* **A complaint that stops nothing.** It is filed under the binding of the mail
  (`W/mail/suppression/index.ts:54`); a user who moved away and back has a new binding for
  the same address, and business mail looks at that one (`docs/tasks/P4.md:732`).
* **Partial for another reason.** The answer of the mail channel is derived from a read after
  the batch (`W/mail/channel/service.ts:278`): a layer closed again meanwhile is answered as
  `capacity_reached` (`W/mail/channel/README.md:11`).
* **Another device's code taken for one's own.** After a lost or refused confirmation the page
  takes any newer saved code for its own (`auth/sessions/account.ts:919`, see line 917).
* **"Not done" that was done.** The account page takes every API error body as not done
  (`auth/sessions/account.ts:731`), but a 503 may follow a batch that has committed
  (`W/shell/router.ts:141`).

### Fairness

**Mail.**
`DeliveryDO` rearms its alarm in a `finally` after every unit of work, also when
the next alarm cannot be computed, and cron wakes it and the cleanup periodically.
So the executor finishes what it holds (weak fairness of `ExecutorStep` and of its
`SendStep`) and comes back to each row it owes something (strong fairness of the
reads, since it may be busy with another row at any moment). Strong fairness of
`Repair`, `FinishRejected` and `ReleaseOld` says that an eviction does not hit every
single attempt. The sweep is weakly fair, leases and deadlines run out. Nothing is
assumed of requests, operators, the fast path, or the end of the day.

`LateCodeWithdrawn` is stated up to the deletion of the challenge: a code whose
expiry misses loses its challenge in the same sweep and is left to the rollover.

**The other modules** (`MCProgress`). Weak fairness of a worker is that of the executor's
alarm or of cron, which come back whatever happened to the last attempt; weak fairness of
a handler or a page that it answers, fails or is given up, since a fetch ends in every
case; clocks go on. Strong fairness is assumed of `Extract`, `ReadNodes`,
`InvalidateOld`, `CommitSignal` and `Reconcile` alone: publications (or another worker)
may disable them again and again, but not at every attempt. Nobody has to publish,
save, click or visit. A behaviour stays in one part, so that fairness of the first
action of every part is fairness of their disjunction, and so for the second and third.

## 4. Proofs

All theorems hold for every value of the constants that satisfies the named assumptions:
`UsersAssumption`, `LimitsAssumption` and `ActorsAssumption` for the mail modules,
`SeatConstants`, `QuotaConstants`, `SessionConstants`, `RotationAssumption`,
`ChallengeConstants` and `Bounds` (hypotheses of the theorems) for the modules about
accounts and push. TLC evaluates each of them in the runs. They ask for finite sets of
mails, users, addresses, seats and sessions, limits that are natural numbers and floors
within them, and that actors of different kinds and the values for "nothing" are told
apart: what the configuration of the service and the encoding of the model give.

| Theorem | Module | States |
|---|---|---|
| `TypesAreKept` | `MailProofs` | `Spec => []TypeOK` |
| `NeverCalledTwice` | `MailProofs` | `Spec => []AtMostOneCall` |
| `CallsAreRecorded` | `MailProofs` | `Spec => []CallIsRecorded` |
| `CodesAreErased` | `MailProofs` | `Spec => []CodeErased` |
| `CallsAreNeverRefunded` | `MailProofs` | `Spec => CalledNeverRefunded` |
| `EndedStaysEnded` | `MailProofs` | `Spec => TerminalIsFinal` |
| `InductiveAlways` | `MailProofs` | `Spec => []Inductive` |
| `LedgerIsARecount` | `MailProofs` | `Spec => []LedgerAgrees` |
| `DecisionsAgree` | `MailProofs` | `Spec => []DecisionMatchesGuard(ledger)` |
| `CallsAreFit` | `MailProofs` | `Spec => NeverCallsObsolete` |
| `DeliveryIsKept` | `MailProofs` | `Spec => DeliveredNotDeferred` |
| `OutboxKeepsPromise` | `MailProofs` | `Spec => KeepsPromise`, the refinement of `MailPromise` |
| `QuotasAlways` | `MailProofs` | `Spec => []QuotaRespected` |
| `FloorsAlways` | `MailProofs` | `Spec => []FloorsKept` |
| `AlwaysAgrees` | `MailLedgerProofs` | `GrowthSpec => []DecisionAgrees` |
| `DecisionAlwaysMatches` | `MailLedgerProofs` | both decisions agree on every ledger without negative counters |
| `StockAlwaysAgrees` | `SignupSeatsProofs` | `Spec => []StockAgrees` |
| `StockIsNeverOversold` | `SignupSeatsProofs` | `Spec => []StockNeverOversold` |
| `AccountsComeFromSeats` | `SignupSeatsProofs` | `Spec => [][AccountFromSeat]_vars` |
| `CodesAreKept` | `AuthChallengeProofs` | `Spec => []CodesHold` |
| `WrongCodesAreCounted` | `AuthChallengeProofs` | `Spec => []WrongCodesCounted` |
| `HourIsKept` | `AuthChallengeProofs` | `Spec => []HourlyLimitKept` |
| `SessionsComeFromCodes` | `AuthChallengeProofs` | `Spec => []SessionFromCurrentCode` |
| `PendingIsKept` | `AuthChallengeProofs` | `Spec => []PendingLimitKept` |
| `KeysRotateOnce` | `AuthChallengeProofs` | `Spec => []RotatedOncePerKey` |
| `SessionsStartCurrent` | `AuthChallengeProofs` | `Spec => [][NewSessionAtEpoch]_vars` |
| `PushesAreKept` | `PushDeliveryProofs` | `Spec => []PushesHold` |
| `NoticesAreNotResent` | `PushDeliveryProofs` | `Spec => []NeverResent` |
| `RowsAgree` | `PushDeliveryProofs` | `Spec => []PairAgrees` |
| `EverybodyIsReached` | `PushDeliveryProofs` | `Spec => []NobodyMissed` |
| `OldPlansGetNothing` | `PushDeliveryProofs` | `Spec => [][NotForOldPlan]_vars` |
| `QuotasAreKept` | `AuthQuotaProofs` | `Spec => []QuotasHold` |
| `CooldownIsKept` | `AuthQuotaProofs` | `Spec => []CooldownKept` |
| `DayIsKept` | `AuthQuotaProofs` | `Spec => []DailyKept` |
| `OpenChallengesAreKept` | `AuthQuotaProofs` | `Spec => []OpenKept` |
| `SidesAlwaysDecideAlike` | `AuthQuotaProofs` | `Spec => []SidesAgree` |
| `SessionsAreKept` | `UserSessionsProofs` | `Spec => []SessionsHold` |
| `ActiveLimitIsKept` | `UserSessionsProofs` | `Spec => []ActiveLimitKept` |
| `ActivationsStayWithin` | `UserSessionsProofs` | `Spec => [][ActivationWithinLimit]_vars` |
| `TheDeadStayDead` | `UserSessionsProofs` | `Spec => [][DeadStaysDead]_vars` |
| `CodesOpenOneSession` | `UserSessionsProofs` | `Spec => []RecoverOnce` |
| `RecoveredSaveACode` | `UserSessionsProofs` | `Spec => []RestrictedUntilSaved` |
| `StopsAreTrue` | `UserSessionsProofs` | `Spec => [][StopAnswersClosed]_vars` |
| `SavedCodesSurvive` | `UserSessionsProofs` | `Spec => [][SavedCodeSurvives]_vars` |
| `RecoveryIsSound` | `RecoveryRotationProofs` | `Spec => []RotationHolds`: types, `OneLiveCode`, `ProofPaysOnce`, `ShownToOwner` |
| `SavedCodeWorks` | `RecoveryRotationProofs` | `Spec => [][WorksUntilReplaced]_vars` |

### The outbox

`MailProofs` goes in five parts.

1. **Types**. `Typed` adds to `TypeOK` what the position of an
   actor says of the values it holds, such as that a row it is about to put
   off was leased when it was read.
2. **Fences**. The properties of the rows alone
   are not inductive: an actor writes by a row it read earlier. `Fences` says what
   still holds of each such view: the row has the view's pool and user and no older
   version, and as long as it has the view's *version* it is charged to the view's day
   (only the creating request may make an unreserved row reserved). Every
   action is shown to be an `Evolution`: pool and user never change, versions never
   decrease, a call is never forgotten, a day changes only with the version or by
   the creating request, and an actor's new view is a true one. One lemma then
   carries every other actor's fence over any such step, so that the proof has one
   case per action and not one per pair of actions.
3. **The recount**. Each action moves at most one mail's unit, and
   moves the same unit in the ledger, because the amount it computes from the
   row it read is, by its fence, the amount the row stands for now. A resend, which
   refunds several mails, counts them. Cardinalities change by `FiniteSetTheorems`.
4. **What senders decide by**. That a called mail is not obsolete is a
   property of one step, the calling guard, but the guard compares a *snapshot* and not the
   facts themselves. `SenderHolds` says what the snapshot is worth: while the row is leased under
   the version the sender claimed, it carries the code of the challenge that was read
   (`LeaseHolds`), and a sender past its preflight holds a snapshot of an open challenge, of the
   row's generation, and of a recipient who is not skipped (`SnapHolds`). `MailHolds` adds what
   the environment may do to a mail's recipient, and that a mail put off is not one that was
   delivered. Each action is shown to be a `Review`: it calls only fit mails, makes no row
   leased under an old version, and puts off only what was not delivered.
5. **The theorems** combine these by PTL; the two action properties
   come from the same invariant and from `Evolution`. `DecisionsAgree` needs the recount again:
   the two forms of the budget decision agree only where no counter is negative, and a recount
   is not.

### The outbox implements the promise

`MailPromise` knows mails, their fate (absent, waiting, called, answered, over) and the
books, which it *computes* as a recount of the fates; it has no actors, no versions and no
counters. The last part of `MailProofs` shows that the mapping of `MailRefinement` takes the initial
states to `PromiseInit` and every step of `Next`, from a state of the inductive invariant,
to a step of the promise or to a stutter: one lemma per action, and a case for each place
where an action only reads. The recount is what makes the guards meet: by `LedgerAgrees` the counters
the code's guarded `UPDATE` looks at are the promise's books (`BooksAgree`), so whatever the
code admits, the promise has room for.

Quotas and floors then follow from the promise and not from the code. A step of the
promise charges at most one mail, and only with `HasCapacity`; every other step leaves the
set of mails that hold a unit as it is or makes it smaller (`HoldersGrow`). Counting the
holders of a pool, of both authentication pools, of a user and of the intents that must
leave a floor free, each number grows by one only below its limit.

### Seats and the account stock

`SignupSeatsProofs` takes the types (with those of the carried values of requests,
consumers and the cron task) and `StockAgrees` together as the inductive invariant: that
the counter never falls below zero, which its type says, needs the recount, and the recount
needs the types. The counter moves in four ways (a seat is reserved, a seat is released, a
seat becomes an account, a stored account is erased), and each is shown to move the sets
it counts in the same way; the two limits follow because a seat is reserved only below the limit.

### Codes and their attempts

An attempt is taken before a code is compared and given back after a match
(`W/auth/challenges/verify.ts:107`), so that the counter of a challenge alone says nothing of the wrong
codes it has met: a request could give back what another one has spent. `AttemptsCovered` counts
both sides. The counter is at least the wrong codes *and* the requests that have matched and not yet
given their attempt back, so whoever gives one back gives back its own, and a request that dies
between the two leaves its attempt counted. The limits of the challenge and of the hour follow, the
latter from a sum written as the cardinality of a set of tries (`Tries`), which changes by
`FiniteSetTheorems` when an attempt is taken.

That a session never comes from a decoy or from a replaced code needs what a request has read
(`ProcHolds`): after a match it holds a row that exists, that is no decoy, and whose code it has guessed,
and only the guard of the consumption compares the generation again. No kind ever changes and a consumed
challenge stays as it is (`Lasting`, `Settled`), which carries requests and sessions over every step of others.

### Quotas of authentication mail

The quotas count rows that the maintenance deletes, at the time their request started. So the
invariant of `AuthQuotaProofs` says what may be forgotten (`Remembered`): an intent whose row is
gone lies before this day and `OTP_TTL` back. It follows that a request which passes the guard is
`OTP_COOLDOWN` after everything ever accepted for its address (`Spaced`), *provided that* a request
lives no longer than `OTP_TTL - OTP_COOLDOWN`, nine minutes in the service: `QuotaConstants` asks
for it (a lifetime of `OTP_COOLDOWN` would not do: a request of before the one whose row was
deleted could pass). And an intent of today still has a row of its own, an injection by which the day's
count is below the snapshot's (`TodayCounted`). Challenges open now were open for whoever
looks with an earlier clock (`OpenLonger`), which bounds them. `DailyKept` is about the *running* day: an intent
that was asked for before midnight and commits after it, with the maintenance in between, counts
for the old day, of which only some rows are left.

### Sessions

A request of `UserSessions` commits with the time it started at, up to `MaxLag` ticks ago, and
the theorems hold for every `MaxLag`. That makes two of the properties subtler than they read. A
session that ran out *while* its renewal was under way comes back (`W/auth/sessions/lifecycle.ts:283`),
so "dead" means dead for `MaxLag`, and the limit of devices is stated twice: without
the sessions that came back so (`ActiveLimitKept`, by the history field `revived`), and, with all of
them, of every step that activates (`ActivationWithinLimit`). Both are true because the guard counts at the
request's time: whoever is active now was active then. The same monotony makes the question of a lost
stop (`StopFolds`) safe, though it asks about the past.

The invariant `SessionsHold` is inductive as it stands because it says of each request how
old it may be (`RequestTyped`, the part of `Tick`) and of the codes that only the newest is in force
(`NewestInForce`). From the latter follow `RestrictedUntilSaved`, since a code confirmed now must be newer than
the used one, and `SavedCodeSurvives`, since a generation only voids what it read as unsaved.
`UserSessionsProofs` has one lemma per action, and frame lemmas for those that only read, only revoke,
only change rows or only change codes.

### Recovery codes

`RecoveryRotationProofs` strengthens the four properties by what each request and each page
may rely on. Codes are *ordered*: a later one has the greater generation and an earlier one is
not live. A request that creates a code has read a row that is still the newest as far as it
could be live (`CreateRead`): either that row, whose generation it will compare again, or that
there is none, which stays so unless a code appears or every session ends. A rotation belongs
to an existing code and an existing, used proof (`RotationOk`), and a page that shows a code, or
waits for an answer that it will show, shows its account (`PageOk`). `Grows` lists what any step does
to the store as far as the others rely on it (sequences only grow, no generation changes, what
is kept stays kept), and one lemma each carries requests and pages over every such step.
`WorksUntilReplaced` then follows action by action: only the confirmation of another code or the
code's own use ends it.

### Push notices

A pass of `PushDelivery` works by a row it read some steps ago, and Cron, a receipt or another
pass may have moved that row since. Three parts of `PushesHold` say what is left.

1. `RowsHeld`: a pass beyond its page has a row, and the row's lease version is not below the
   one the pass knows. So a row that changed under a pass is told by its version.
2. `CallsHeld`: a pass that claimed or is calling has its version *to itself*; as long as the row
   still has it, the row is calling, or unknown after the maintenance took its lease, or accepted by a receipt.
   `UnsentUntouched`: a row that may still be sent has certainly not arrived. Only an answer that
   says so puts a row back to wait, and the maintenance never does. Together they give `NeverResent`.
3. `PagesHeld` and `CursorHeld`: a page is a prefix of the users left (`PageSkipsNobody`, which needs that
   a finite set of numbers has a least and a greatest member), a page that can still be committed was read
   under the job's version, and whoever was able and wanted the notice all along is in it or lies
   behind it. This gives `NobodyMissed`. A page read under an older version commits nothing.

`PushDeliveryProofs` has one lemma per action for each of the three parts. `Bounds` asks
that the delays `Backoff * 2 ^ e` are natural numbers for the seventeen exponents in use, since
the provers have no theory of powers.

### Only model-checked

The mail properties that `MailFast` checks under `FullSpec` with the two paths of `MailCleanup`,
which run outside of `Spec`; the invariants
and action properties of all modules of accounts and services other than the six above, which
the runs check as the conjunctions `...AreSound` over several small instances. Liveness, fairness
and `ENABLED` are out of the prover's reach and stay with TLC, and so does what a recursive
definition computes for every input.

## 5. Plan

Next, in this order: theorems about the machines of the services; then the
receipts of a consumption (`W/auth/consume/receipt.ts`) and the pipeline's alarm, which are not
modelled.
