-------------------------- MODULE AccountMaintenance --------------------------
(***************************************************************************)
(* Changing the address of an account and deleting it, from account pages in *)
(* several browsers.  Both need a proof of recent authentication, made for one *)
(* session, one action and one target: a code by mail (to the present address,  *)
(* or to the new one) or the recovery code.  The page keeps its proofs in memory *)
(* and drops every answer that arrives after it has been cancelled or has lost    *)
(* its identity; the handlers recheck everything in one guarded batch, which also  *)
(* ends every session of the account.  Answers get lost, handlers run late, and     *)
(* a batch may commit although its handler sees an error.                            *)
(*                                                                                    *)
(* The replacement of the recovery code is RecoveryRotation; quotas and guesses of    *)
(* the codes by mail are AuthQuota and AuthChallenge.                                  *)
(***************************************************************************)
EXTENDS Integers, Sequences, FiniteSets

CONSTANTS
  Pages, Users, Addrs,
  Owner,       \* [Pages -> Users]
  First,       \* [Users -> Addrs]
  Restricted,  \* pages whose session must save a new recovery code first
  Prepared,    \* the target all pages begin with, with every proof, or None
  Kinds,       \* the requests pages make
  Day,         \* GLOBAL_MUTATIONS_DAY
  None,
  MaxCalls, MaxChanges, MaxFaults  \* bounds

MaintenanceAssumption ==
  /\ Owner \in [Pages -> Users] /\ First \in [Users -> Addrs] /\ Restricted \subseteq Pages
  /\ {Day, MaxCalls, MaxChanges, MaxFaults} \subseteq Nat

VARIABLES
  user,       \* [Users -> [addr, ver, on]]
  session,    \* [Pages -> [n, alive]]: the session of the browser
  pend,       \* [Users -> the page whose browser has the pending session, or None]
  used,       \* ordinary changes today
  challenges, \* [Pages -> recent_auth_challenges of its sessions]
  proofs,     \* [Pages -> recent_auth_proofs of its sessions]
  page,       \* [Pages -> the page]
  calls,      \* the requests, in order
  changes,    \* what MaxChanges counts
  faults      \* what MaxFaults counts

vars == <<user, session, pend, used, challenges, proofs, page, calls, changes, faults>>

-----------------------------------------------------------------------------
(* An action and a role make three kinds of proof. *)
Slots == {"current", "new", "delete"}
Empty == [key |-> 0, chal |-> 0, proof |-> 0]
Proof(n, slot, target) == [n |-> n, slot |-> slot, target |-> target, live |-> TRUE]
Challenge(n, key, slot, target, ver) ==
  [n |-> n, key |-> key, slot |-> slot, target |-> target, ver |-> ver, state |-> "open"]
NewPage(n) == [on |-> TRUE, n |-> n, target |-> None, slot |-> [s \in Slots |-> Empty], proofId |-> 0,
               unsure |-> FALSE, call |-> 0, fresh |-> TRUE, gen |-> TRUE, said |-> "none"]

(* Prepared pages have every proof. *)
Order == <<"current", "new", "delete">>
Proved == [s \in Slots |-> [Empty EXCEPT !.proof = CHOOSE k \in DOMAIN Order : Order[k] = s]]
Init ==
  /\ user = [u \in Users |-> [addr |-> First[u], ver |-> 1, on |-> TRUE]]
  /\ session = [p \in Pages |-> [n |-> 1, alive |-> TRUE]]
  /\ pend = [u \in Users |-> None]
  /\ used = 0 /\ calls = <<>> /\ changes = 0 /\ faults = 0
  /\ IF Prepared = None
     THEN /\ page = [p \in Pages |-> NewPage(1)]
          /\ challenges = [p \in Pages |-> <<>>]
          /\ proofs = [p \in Pages |-> <<>>]
     ELSE /\ page = [p \in Pages |-> [NewPage(1) EXCEPT !.target = Prepared, !.slot = Proved,
                                                      !.proofId = 3]]
          /\ challenges = [p \in Pages |-> <<>>]
          /\ proofs = [p \in Pages |-> [k \in DOMAIN Order |->
                         Proof(1, Order[k], IF Order[k] = "delete" THEN None ELSE Prepared)]]

-----------------------------------------------------------------------------
(* The page *)

Idle(p) == page[p].call = 0
Ready(p) == Idle(p) /\ page[p].on
Free(p) == Ready(p) /\ p \notin Restricted

clearMaintenance(g) ==
  [g EXCEPT !.target = None, !.slot = [s \in Slots |-> Empty], !.gen = FALSE]
clearPrivate(g) == [g EXCEPT !.on = FALSE]
invalidate(g) == [clearMaintenance(clearPrivate(g)) EXCEPT !.fresh = FALSE]
NoProof(g) == [g EXCEPT !.proofId = 0]
clearRejectedIdentity(g) == NoProof(invalidate(g))

(* The summary and the list of sessions: the page shows its browser's session, or nothing. *)
refresh(p, g) ==
  IF session[p].alive
  THEN LET h == IF g.n # session[p].n THEN NoProof(clearMaintenance(g)) ELSE g
       IN  [h EXCEPT !.on = TRUE, !.n = session[p].n, !.unsure = FALSE]
  ELSE NoProof(clearMaintenance(clearPrivate(g)))

Request(p, kind, slot) ==
  [page |-> p, n |-> session[p].n, kind |-> kind, slot |-> slot, target |-> page[p].target,
   key |-> 0, chal |-> 0, k1 |-> 0, k2 |-> 0, pc |-> "read", ver |-> 0, ans |-> "none",
   got |-> 0, did |-> FALSE]
Send(p, g, request) ==
  /\ request.kind \in Kinds /\ Len(calls) < MaxCalls
  /\ calls' = Append(calls, request)
  /\ page' = [page EXCEPT ![p] = [g EXCEPT !.call = Len(calls) + 1, !.fresh = TRUE, !.gen = TRUE]]
Server == <<user, session, pend, used, challenges, proofs>>
Only == <<Server, changes, faults>>

(* email-target-form and email-cancel; the latter also while a request is out. *)
Choose(p, a) ==
  /\ Free(p) /\ page[p].target = None
  /\ page' = [page EXCEPT ![p].target = a]
  /\ UNCHANGED <<Only, calls>>
Cancel(p) ==
  /\ page[p].target # None
  /\ changes < MaxChanges /\ changes' = changes + 1
  /\ page' = [page EXCEPT ![p] = clearMaintenance(@)]
  /\ UNCHANGED <<Server, calls, faults>>

Allowed(p, s) == Free(p) /\ page[p].slot[s].proof = 0 /\ (s # "delete" => page[p].target # None)
sendProof(p, s) ==
  LET key == IF page[p].slot[s].key = 0 THEN Len(calls) + 1 ELSE page[p].slot[s].key IN
  /\ Allowed(p, s)
  /\ Send(p, [page[p] EXCEPT !.slot[s].chal = 0, !.slot[s].key = key],
          [Request(p, "otp", s) EXCEPT !.key = key])
  /\ UNCHANGED Only
verifyProof(p, s) ==
  /\ Allowed(p, s) /\ page[p].slot[s].chal # 0
  /\ Send(p, page[p], [Request(p, "verify", s) EXCEPT !.chal = page[p].slot[s].chal])
  /\ UNCHANGED Only

(* proveEmailRecovery and proveDeletion: the recovery code instead of a code by mail. *)
proveRecovery(p, s) ==
  /\ s # "new" /\ Free(p) /\ (s = "current" => page[p].target # None)
  /\ Send(p, page[p], Request(p, "recovery", s))
  /\ UNCHANGED Only

changeEmail(p) ==
  LET g == page[p] IN
  /\ Free(p) /\ g.target # None /\ g.slot["current"].proof # 0 /\ g.slot["new"].proof # 0
  /\ Send(p, NoProof(invalidate(g)),
          [Request(p, "change", "new") EXCEPT !.k1 = g.slot["current"].proof,
                                              !.k2 = g.slot["new"].proof])
  /\ UNCHANGED Only
deleteAccount(p) ==
  LET g == page[p] IN
  /\ Ready(p) /\ ~g.unsure /\ (g.proofId # 0 \/ p \in Restricted)
  /\ Send(p, NoProof(invalidate(g)), [Request(p, "delete", "delete") EXCEPT !.k1 = g.proofId])
  /\ UNCHANGED Only

(* Another session of the account is revoked from this page. *)
revoke(p, q) ==
  /\ Free(p) /\ p # q /\ Owner[p] = Owner[q]
  /\ Send(p, page[p], [Request(p, "revoke", "delete") EXCEPT !.k1 = q])
  /\ UNCHANGED Only

Reload(p) ==
  /\ Idle(p) /\ changes < MaxChanges /\ changes' = changes + 1
  /\ page' = [page EXCEPT ![p] = refresh(p, @)]
  /\ UNCHANGED <<Server, calls, faults>>

(* Another tab published a change of identity, or the page was hidden. *)
externalIdentityChanged(p) ==
  /\ page[p].on /\ changes < MaxChanges /\ changes' = changes + 1
  /\ page' = [page EXCEPT ![p] = clearRejectedIdentity(@)]
  /\ UNCHANGED <<Server, calls, faults>>

-----------------------------------------------------------------------------
(* The answers; "lost" when there is none *)

(* sameActionIdentity; a proof also belongs to one generation of the maintenance. *)
Current(g) == g.fresh
Valid(g) == g.fresh /\ g.gen
SentProof(g, r, ans) ==
  CASE ans = "ok"   -> [g EXCEPT !.slot[r.slot] = [Empty EXCEPT !.chal = r.got]]
    [] ans = "lost" -> g
    [] OTHER        -> [g EXCEPT !.slot[r.slot].key = 0]
GotProof(p, g, r) ==
  LET h == [g EXCEPT !.slot[r.slot].proof = r.got, !.slot[r.slot].chal = 0]
  IN  refresh(p, IF r.slot = "delete" THEN [h EXCEPT !.proofId = r.got] ELSE h)
Verified(p, g, r, ans) ==
  CASE ans = "ok"   -> GotProof(p, g, r)
    [] ans = "lost" -> [g EXCEPT !.slot[r.slot] = [@ EXCEPT !.proof = 0, !.chal = 0]]
    [] OTHER        -> [g EXCEPT !.slot[r.slot].proof = 0]
Recovered(p, g, r, ans) ==
  IF r.slot = "delete"
  THEN refresh(p, [g EXCEPT !.proofId = IF ans = "ok" THEN r.got ELSE 0])
  ELSE IF ans = "ok" THEN refresh(p, [g EXCEPT !.slot["current"].proof = r.got])
  ELSE [g EXCEPT !.slot["current"].proof = 0]

(* What the page says of a change or a deletion: an error body counts as "not done". *)
Verdict(ans) == CASE ans = "ok" -> "done" [] ans = "lost" -> "unknown" [] OTHER -> "not done"
Said(p, g, ans) ==
  IF ans = "ok" THEN [g EXCEPT !.said = "done"]
  ELSE [refresh(p, [g EXCEPT !.unsure = (ans = "lost")]) EXCEPT !.said = Verdict(ans)]

Settle(p, r, ans) ==
  LET g == page[p] IN
  CASE r.kind \in {"otp", "verify"} ->
         IF ~Valid(g) THEN g ELSE IF ans = "gone" THEN clearRejectedIdentity(g)
         ELSE IF r.kind = "otp" THEN SentProof(g, r, ans) ELSE Verified(p, g, r, ans)
    [] r.kind = "recovery" ->
         IF ~(IF r.slot = "delete" THEN Current(g) ELSE Valid(g)) THEN g
         ELSE IF ans = "gone" THEN clearRejectedIdentity(g) ELSE Recovered(p, g, r, ans)
    [] r.kind \in {"change", "delete"} -> IF Current(g) THEN Said(p, g, ans) ELSE g
    [] OTHER -> IF Current(g) THEN refresh(p, g) ELSE g
Rest(g) == [g EXCEPT !.call = 0]

Over(c) == [calls EXCEPT ![c] = [pc |-> "over"]]
Answer(p) ==
  LET c == page[p].call IN
  /\ c # 0 /\ calls[c].pc = "answer"
  /\ page' = [page EXCEPT ![p] = Rest(Settle(p, calls[c], calls[c].ans))]
  /\ calls' = Over(c)
  /\ UNCHANGED Only
Lose(p) ==
  LET c == page[p].call IN
  /\ c # 0 /\ calls[c].pc # "over"
  /\ page' = [page EXCEPT ![p] = Rest(Settle(p, calls[c], "lost"))]
  /\ UNCHANGED <<Only, calls>>
Drop(c) ==
  /\ calls[c].pc # "over" /\ page[calls[c].page].call # c
  /\ calls' = Over(c)
  /\ UNCHANGED <<Only, page>>

-----------------------------------------------------------------------------
(* The handlers *)

Reply(c, ans, got) == calls' = [calls EXCEPT ![c].pc = "answer", ![c].ans = ans, ![c].got = got]
At(c, pc, kind) == calls[c].pc = pc /\ calls[c].kind = kind
Live(r) == session[r.page] = [n |-> r.n, alive |-> TRUE] /\ user[Owner[r.page]].on
Holds(r, k, slot, target) ==
  /\ k \in DOMAIN proofs[r.page]
  /\ proofs[r.page][k] = [n |-> r.n, slot |-> slot, target |-> target, live |-> TRUE]
Target(r) == IF r.slot = "delete" THEN None ELSE r.target
Around == <<page, changes>>

(* startRecentOtp: a repeated key answers with the challenge it made; a quota may refuse. *)
Replayed(r) == {i \in DOMAIN challenges[r.page] :
                  challenges[r.page][i].n = r.n /\ challenges[r.page][i].key = r.key}
startRecentOtp(c) ==
  LET r == calls[c] IN
  /\ At(c, "read", "otp")
  /\ IF ~Live(r) THEN Reply(c, "gone", 0) /\ UNCHANGED challenges
     ELSE IF Replayed(r) # {}
     THEN Reply(c, "ok", CHOOSE i \in Replayed(r) : TRUE) /\ UNCHANGED challenges
     ELSE \/ Reply(c, "refused", 0) /\ UNCHANGED challenges
          \/ /\ challenges' = [challenges EXCEPT ![r.page] =
                  Append(@, Challenge(r.n, r.key, r.slot, Target(r), user[Owner[r.page]].ver))]
             /\ Reply(c, "ok", Len(challenges[r.page]) + 1)
  /\ UNCHANGED <<user, session, pend, used, proofs, Around, faults>>

(* verifyRecentOtp: the right code of an open challenge of this address. *)
Grant(r, slot, target) == [proofs EXCEPT ![r.page] = Append(@, Proof(r.n, slot, target))]
verifyRecentOtp(c) ==
  LET r == calls[c]
      ch == challenges[r.page][r.chal]
      good == ch.state = "open" /\ ch.n = r.n /\ ch.ver = user[Owner[r.page]].ver
  IN /\ At(c, "read", "verify")
     /\ \/ /\ Live(r) /\ good
           /\ challenges' = [challenges EXCEPT ![r.page][r.chal].state = "used"]
           /\ proofs' = Grant(r, ch.slot, ch.target)
           /\ Reply(c, "ok", Len(proofs[r.page]) + 1)
        \/ /\ Reply(c, IF Live(r) THEN "refused" ELSE "gone", 0)
           /\ UNCHANGED <<challenges, proofs>>
     /\ UNCHANGED <<user, session, pend, used, Around, faults>>

proveWithRecoveryCode(c) ==
  LET r == calls[c] IN
  /\ At(c, "read", "recovery")
  /\ \/ /\ Live(r)
        /\ proofs' = Grant(r, r.slot, Target(r))
        /\ Reply(c, "ok", Len(proofs[r.page]) + 1)
     \/ Reply(c, IF Live(r) THEN "refused" ELSE "gone", 0) /\ UNCHANGED proofs
  /\ UNCHANGED <<user, session, pend, used, challenges, Around, faults>>

(* readUser *)
ReadChange(c) ==
  LET r == calls[c] IN
  /\ At(c, "read", "change")
  /\ IF Live(r) THEN calls' = [calls EXCEPT ![c].pc = "commit", ![c].ver = user[Owner[r.page]].ver]
     ELSE Reply(c, "gone", 0)
  /\ UNCHANGED <<Server, Around, faults>>

(* The triggers of a change and of a deletion: every session and open challenge ends. *)
Mine(u) == {p \in Pages : Owner[p] = u}
EndSessions(u) == [p \in Pages |-> IF p \in Mine(u) THEN [session[p] EXCEPT !.alive = FALSE]
                                   ELSE session[p]]
Aborted(ch) == IF ch.state = "open" THEN [ch EXCEPT !.state = "aborted"] ELSE ch
AbortChallenges(u) == [p \in Pages |-> IF p \in Mine(u)
                         THEN [i \in DOMAIN challenges[p] |-> Aborted(challenges[p][i])]
                         ELSE challenges[p]]
Spend(p, K) == [proofs EXCEPT ![p] = [k \in DOMAIN @ |->
                  IF k \in K THEN [@[k] EXCEPT !.live = FALSE] ELSE @[k]]]

(* The batch is done; its handler sees success, or an error of the database. *)
Done(c) ==
  \/ /\ calls' = [calls EXCEPT ![c].pc = "answer", ![c].ans = "ok", ![c].did = TRUE]
     /\ UNCHANGED faults
  \/ /\ faults < MaxFaults /\ faults' = faults + 1
     /\ calls' = [calls EXCEPT ![c].pc = "answer", ![c].ans = "error", ![c].did = TRUE]

\* Mutant: the change compares only the version and the proofs' owners.
ChangeOfVersion(r) == user[Owner[r.page]].ver = r.ver /\ used < Day
ChangeGuard(r) ==
  /\ Live(r) /\ user[Owner[r.page]].ver = r.ver
  /\ Holds(r, r.k1, "current", r.target) /\ Holds(r, r.k2, "new", r.target)
  /\ used < Day
Taken(u, a) == \E v \in Users \ {u} : user[v].addr = a
Change(c) ==
  LET r == calls[c]  u == Owner[r.page] IN
  /\ user' = [user EXCEPT ![u].addr = r.target, ![u].ver = @ + 1]
  /\ used' = used + 1
  /\ proofs' = Spend(r.page, {r.k1, r.k2})
  /\ session' = EndSessions(u)
  /\ challenges' = AbortChallenges(u)
  /\ pend' = [pend EXCEPT ![u] = r.page]
CommitChange(c) ==
  LET r == calls[c] IN
  /\ At(c, "commit", "change")
  /\ IF ChangeGuard(r) /\ ~Taken(Owner[r.page], r.target)
     THEN Change(c) /\ Done(c)
     ELSE Reply(c, "refused", 0) /\ UNCHANGED <<Server, faults>>
  /\ UNCHANGED Around

DeleteGuard(r) ==
  Live(r) /\ (IF r.k1 = 0 THEN r.page \in Restricted ELSE Holds(r, r.k1, "delete", None))
markAccountDeleting(c) ==
  LET r == calls[c]  u == Owner[r.page] IN
  /\ At(c, "read", "delete")
  /\ IF DeleteGuard(r)
     THEN /\ user' = [user EXCEPT ![u].on = FALSE]
          /\ proofs' = Spend(r.page, {r.k1})
          /\ session' = EndSessions(u)
          /\ challenges' = AbortChallenges(u)
          /\ pend' = [pend EXCEPT ![u] = None]
          /\ Done(c)
     ELSE /\ Reply(c, IF Live(r) THEN "refused" ELSE "gone", 0)
          /\ UNCHANGED <<user, proofs, session, challenges, pend, faults>>
  /\ UNCHANGED <<used, Around>>

revokeSession(c) ==
  LET r == calls[c] IN
  /\ At(c, "read", "revoke")
  /\ IF Live(r)
     THEN session' = [session EXCEPT ![r.k1].alive = FALSE] /\ Reply(c, "ok", 0)
     ELSE Reply(c, "gone", 0) /\ UNCHANGED session
  /\ UNCHANGED <<user, pend, used, challenges, proofs, Around, faults>>

Handle(c) == \/ startRecentOtp(c) \/ verifyRecentOtp(c) \/ proveWithRecoveryCode(c)
             \/ ReadChange(c) \/ CommitChange(c) \/ markAccountDeleting(c) \/ revokeSession(c)

-----------------------------------------------------------------------------
(* The browser that changed the address confirms its pending session on /login,   *)
(* and the account page is loaded anew.                                             *)
Activate(p) ==
  /\ Idle(p) /\ pend[Owner[p]] = p
  /\ session' = [session EXCEPT ![p] = [n |-> session[p].n + 1, alive |-> TRUE]]
  /\ pend' = [pend EXCEPT ![Owner[p]] = None]
  /\ page' = [page EXCEPT ![p] = NewPage(session[p].n + 1)]
  /\ UNCHANGED <<user, used, challenges, proofs, calls, changes, faults>>

(* A proof lives for RECENT_AUTH_TTL. *)
Expire(p, k) ==
  /\ changes < MaxChanges /\ changes' = changes + 1
  /\ proofs[p][k].live /\ proofs' = [proofs EXCEPT ![p][k].live = FALSE]
  /\ UNCHANGED <<user, session, pend, used, challenges, page, calls, faults>>

Next ==
  \/ \E p \in Pages :
       \/ \E a \in Addrs : Choose(p, a)
       \/ \E s \in Slots : sendProof(p, s) \/ verifyProof(p, s) \/ proveRecovery(p, s)
       \/ \E q \in Pages : revoke(p, q)
       \/ Cancel(p) \/ changeEmail(p) \/ deleteAccount(p) \/ Reload(p)
       \/ externalIdentityChanged(p) \/ Answer(p) \/ Lose(p) \/ Activate(p)
       \/ \E k \in DOMAIN proofs[p] : Expire(p, k)
  \/ \E c \in DOMAIN calls : Handle(c) \/ Drop(c)
Spec == Init /\ [][Next]_vars

(* A request is answered or given up. *)
FairSpec == Spec /\ \A p \in Pages : WF_vars(Answer(p) \/ Lose(p))

-----------------------------------------------------------------------------
(* Types: an account that is being deleted, or has a new address to confirm, has    *)
(* no session and no open challenge (the triggers of 0017).                          *)
TypeOK ==
  /\ used \in 0..Day
  /\ \A u \in Users :
       /\ user[u] \in [addr: Addrs, ver: Nat \ {0}, on: BOOLEAN]
       /\ (~user[u].on \/ pend[u] # None) =>
            \A p \in Mine(u) : /\ ~session[p].alive
                               /\ \A i \in DOMAIN challenges[p] : challenges[p][i].state # "open"

(* A proof or challenge on the page belongs to the session and the target the page  *)
(* shows, whatever answers arrive after a cancellation, a new target or a change of   *)
(* identity (account.ts:533, :598-602, :1002).                                         *)
ProofsMatch ==
  \A p \in Pages : LET g == page[p] IN
    /\ \A s \in {"current", "new"} :
         /\ g.slot[s].proof # 0 => LET k == proofs[p][g.slot[s].proof] IN
              g.on /\ g.target # None /\ k.target = g.target /\ k.slot = s /\ k.n = g.n
         /\ g.slot[s].chal # 0 => challenges[p][g.slot[s].chal].target = g.target
    /\ g.proofId # 0 => g.on /\ proofs[p][g.proofId].slot = "delete" /\ proofs[p][g.proofId].n = g.n

(* No two accounts have one address, however many prove it at once; the address of  *)
(* an account that is being deleted stays taken (service.ts:262).                     *)
AddressesDiffer == \A u, v \in Users : u # v => user[u].addr # user[v].addr

(* An accepted deletion is final: no change that was under way, no code and no new    *)
(* session reaches the account afterwards (service.ts:221-234, :313-320).              *)
DeletionFinal ==
  \A u \in Users : ~user[u].on =>
    /\ user'[u] = user[u] /\ pend'[u] = None
    /\ \A p \in Mine(u) : ~session'[p].alive /\ Len(proofs'[p]) = Len(proofs[p])

(* A change of address leaves no session of before: whoever is signed in has          *)
(* confirmed the pending session it created (0017_account_lifecycle.sql:66).           *)
OldSessionsEnd ==
  \A u \in Users : user'[u].ver # user[u].ver =>
    \A p \in Mine(u) : ~session'[p].alive

(* A page that waits gets its buttons back (account.ts:304-314).                          *)
Busy(p) == page[p].call # 0
WaitEnds == \A p \in Pages : Busy(p) ~> ~Busy(p)

\* What holds in every state, and of every step, of the maintenance of an account.
MaintenanceHolds == TypeOK /\ ProofsMatch /\ AddressesDiffer
MaintenanceStep == DeletionFinal /\ OldSessionsEnd
=============================================================================
