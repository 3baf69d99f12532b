--------------------------- MODULE RecoveryRotation ---------------------------
(***************************************************************************)
(* Creating and replacing the recovery code of one account from the account  *)
(* pages of several devices.  A first code is generated and then confirmed as  *)
(* saved; a replacement is started with a proof of the current address, shown,  *)
(* and takes the place of the old code only when its secret is confirmed.  An     *)
(* answer may be lost while its handler still runs, a session may end, and the     *)
(* old code may be used to recover the account in the meantime.                     *)
(*                                                                                   *)
(* The secret of a code is the number of the call that made it.  The code by mail    *)
(* that makes a proof is one step (AuthChallenge models it), and so is a refresh.     *)
(***************************************************************************)
EXTENDS Integers, Sequences, FiniteSets

CONSTANTS
  Pages,      \* the account pages, each on a device with a session of its own
  None,
  SavedFirst, \* whether the account begins with a saved code
  MaxCalls, MaxProofs, MaxChanges  \* bounds

RotationAssumption ==
  /\ SavedFirst \in BOOLEAN /\ {MaxCalls, MaxProofs, MaxChanges} \subseteq Nat
  /\ None \notin [saved : BOOLEAN, gen : Nat]

VARIABLES
  creds,     \* recovery_credentials, in order of insertion
  rotations, \* recovery_rotations
  proofs,    \* recent_auth_proofs of recovery_code_rotate
  alive,     \* [Pages -> the session of the page is active]
  recent,    \* [Pages -> its activation is within RECENT_AUTH_TTL]
  page,      \* [Pages -> the page]
  calls,     \* the requests, in order
  changes,   \* what MaxChanges counts
  kept       \* secrets a user has saved (history)

vars == <<creds, rotations, proofs, alive, recent, page, calls, changes, kept>>

-----------------------------------------------------------------------------
(* The store *)

Live == {i \in DOMAIN creds : creds[i].live}
SavedLive == {i \in Live : creds[i].saved}
LastGeneration == IF creds = <<>> THEN 0
                  ELSE CHOOSE g \in {creds[i].gen : i \in DOMAIN creds} :
                         \A i \in DOMAIN creds : creds[i].gen <= g
Summary == [saved |-> SavedLive # {},
            gen |-> IF Live = {} THEN 0 ELSE creds[CHOOSE i \in Live : TRUE].gen]
Good(k, p) == k # 0 /\ proofs[k] = [page |-> p, state |-> "live"]
Eligible(p, k) == recent[p] \/ Good(k, p)

NewPage == [sum |-> Summary, shown |-> None, intent |-> "none", key |-> 0, proof |-> 0,
            call |-> 0, fresh |-> TRUE]
FirstCode == [sec |-> 0, gen |-> 1, live |-> TRUE, saved |-> TRUE]

Init ==
  /\ creds = IF SavedFirst THEN <<FirstCode>> ELSE <<>>
  /\ rotations = <<>> /\ proofs = <<>> /\ calls = <<>>
  /\ alive = [p \in Pages |-> TRUE]
  /\ recent = [p \in Pages |-> TRUE]
  /\ page = [p \in Pages |-> NewPage]
  /\ changes = 0 /\ kept = {0}

-----------------------------------------------------------------------------
(* The page *)

Idle(p) == page[p].call = 0
Ready(p) == Idle(p) /\ page[p].sum # None
ResetProof(g) == [g EXCEPT !.proof = 0]
forgetRecoveryCode(g) == [ResetProof(g) EXCEPT !.shown = None, !.intent = "none", !.key = 0]
(* clearMaintenance, clearPrivate and a new epoch: what a late answer finds changed. *)
externalIdentityChanged(g) == [forgetRecoveryCode(g) EXCEPT !.sum = None, !.fresh = FALSE]
refresh(p, g) == IF alive[p] THEN [g EXCEPT !.sum = Summary] ELSE externalIdentityChanged(g)

Request(p, kind, proof, key, at, secret) ==
  [page |-> p, kind |-> kind, pc |-> "read", proof |-> proof, key |-> key, at |-> at,
   sent |-> secret, row |-> 0, gen |-> 0, ans |-> "none"]
Over(c) == [calls EXCEPT ![c] = [Request(@.page, "over", 0, 0, 0, 0) EXCEPT !.pc = "done"]]
Send(p, g, request) ==
  /\ Len(calls) < MaxCalls
  /\ calls' = Append(calls, request)
  /\ page' = [page EXCEPT ![p] = [g EXCEPT !.call = Len(calls) + 1, !.fresh = TRUE]]
askRecoveryVerification(g, intent) == [ResetProof(g) EXCEPT !.intent = intent]

SendCreate(p, g) == Send(p, g, Request(p, "create", g.proof, 0, 0, 0))
SendRotate(p, g) ==
  LET key == IF g.key = 0 THEN Len(calls) + 1 ELSE g.key
  IN  Send(p, [g EXCEPT !.key = key], Request(p, "start", g.proof, key, 0, 0))

createRecoveryCode(p) ==
  /\ Ready(p) /\ page[p].shown = None /\ page[p].intent = "none" /\ ~page[p].sum.saved
  /\ SendCreate(p, page[p])
  /\ UNCHANGED <<creds, rotations, proofs, alive, recent, changes, kept>>

rotateRecoveryCode(p) ==
  /\ Ready(p) /\ page[p].shown = None /\ page[p].intent = "none" /\ page[p].sum.saved
  /\ IF page[p].proof = 0
     THEN /\ page' = [page EXCEPT ![p] = askRecoveryVerification(@, "rotate")]
          /\ UNCHANGED calls
     ELSE SendRotate(p, page[p])
  /\ UNCHANGED <<creds, rotations, proofs, alive, recent, changes, kept>>

(* The code by mail is right: a proof, a refresh, and the page goes on by itself. *)
verifyProof(p) ==
  /\ Ready(p) /\ page[p].intent # "none" /\ page[p].shown = None
  /\ alive[p] /\ Len(proofs) < MaxProofs
  /\ proofs' = Append(proofs, [page |-> p, state |-> "live"])
  /\ LET g == [page[p] EXCEPT !.proof = Len(proofs) + 1, !.sum = Summary]
     IN  IF g.intent = "create" THEN SendCreate(p, g) ELSE SendRotate(p, g)
  /\ UNCHANGED <<creds, rotations, alive, recent, changes, kept>>

Cancel(p) ==
  /\ Idle(p) /\ page[p].intent # "none" /\ page[p].shown = None
  /\ page' = [page EXCEPT ![p] = [ResetProof(@) EXCEPT !.intent = "none", !.key = 0]]
  /\ UNCHANGED <<creds, rotations, proofs, alive, recent, calls, changes, kept>>

(* The user has copied or downloaded the code and says so. *)
confirmRecoveryCode(p) ==
  /\ Ready(p) /\ page[p].shown # None
  /\ LET s == page[p].shown IN
     /\ Send(p, page[p], Request(p, IF s.rotation THEN "finish" ELSE "save", 0, 0, s.at, s.sec))
     /\ kept' = kept \cup {s.sec}
  /\ UNCHANGED <<creds, rotations, proofs, alive, recent, changes>>

Reload(p) ==
  /\ Idle(p) /\ page[p].sum # Summary /\ changes < MaxChanges
  /\ page' = [page EXCEPT ![p] = refresh(p, @)]
  /\ changes' = changes + 1
  /\ UNCHANGED <<creds, rotations, proofs, alive, recent, calls, kept>>

(* Another tab of the browser published a change of identity. *)
IdentityChanged(p) ==
  /\ changes < MaxChanges /\ page[p].sum # None
  /\ changes' = changes + 1
  /\ page' = [page EXCEPT ![p] = externalIdentityChanged(@)]
  /\ UNCHANGED <<creds, rotations, proofs, alive, recent, calls, kept>>

-----------------------------------------------------------------------------
(* The answers *)

(* showDeliveredCode: the proof went with the code. *)
showDeliveredCode(g, c) ==
  [ResetProof(g) EXCEPT !.intent = "none",
     !.shown = [rotation |-> calls[c].kind = "start", at |-> calls[c].at, sec |-> c]]

Created(p, g, c) ==
  CASE calls[c].ans = "ok"       -> showDeliveredCode(g, c)
    [] calls[c].ans = "auth"     -> askRecoveryVerification(g, "create")
    [] calls[c].ans = "conflict" -> refresh(p, g)
    [] OTHER                     -> g
Started(g, c) ==
  CASE calls[c].ans = "ok"   -> showDeliveredCode(g, c)
    [] calls[c].ans = "auth" -> [askRecoveryVerification(g, "rotate") EXCEPT !.key = 0]
    [] OTHER                 -> [g EXCEPT !.intent = "none"]

(* Not answered with success: the summary decides whether the code counts as saved. *)
Counts(before, now, rotation) == now.saved /\ (rotation => now.gen # before.gen)
Unconfirmed(p, g) ==
  LET r == refresh(p, g) IN
  IF r.sum # None /\ Counts(g.sum, r.sum, g.shown.rotation) THEN forgetRecoveryCode(r) ELSE r
Confirmed(p, g, c) ==
  IF calls[c].ans = "ok" THEN refresh(p, forgetRecoveryCode(g)) ELSE Unconfirmed(p, g)

(* sameActionIdentity, and the end of run(): the buttons come back whatever happened. *)
SameIdentity(g) == g.fresh
Rest(g) == [g EXCEPT !.call = 0]
Settle(p, c) ==
  LET g == page[p] IN
  IF ~SameIdentity(g) THEN g
  ELSE IF calls[c].ans = "gone" THEN externalIdentityChanged(g)
  ELSE CASE calls[c].kind = "create" -> Created(p, g, c)
         [] calls[c].kind = "start"  -> Started(g, c)
         [] OTHER                    -> Confirmed(p, g, c)

Answer(p) ==
  LET c == page[p].call IN
  /\ c # 0 /\ calls[c].pc = "answer"
  /\ calls' = Over(c)
  /\ page' = [page EXCEPT ![p] = Rest(Settle(p, c))]
  /\ UNCHANGED <<creds, rotations, proofs, alive, recent, changes, kept>>

(* The page gives the request up; the handler may not have begun, or may still run. *)
Lose(p) ==
  LET c == page[p].call
      g == page[p]
      lost == IF ~SameIdentity(g) THEN g
              ELSE CASE calls[c].kind = "create" -> g
                     [] calls[c].kind = "start"  -> [g EXCEPT !.intent = "none"]
                     [] OTHER -> Unconfirmed(p, g)
  IN /\ c # 0
     /\ page' = [page EXCEPT ![p] = Rest(lost)]
     /\ UNCHANGED <<creds, rotations, proofs, alive, recent, calls, changes, kept>>
Drop(c) ==
  /\ calls[c].pc # "done" /\ page[calls[c].page].call # c
  /\ calls' = Over(c)
  /\ UNCHANGED <<creds, rotations, proofs, alive, recent, page, changes, kept>>

-----------------------------------------------------------------------------
(* The handlers *)

Reply(c, answer) == calls' = [calls EXCEPT ![c].pc = "answer", ![c].ans = answer]
Reads(c, kind) == calls[c].kind = kind /\ calls[c].pc = "read"
Commits(c, kind) == calls[c].kind = kind /\ calls[c].pc = "commit"
Stored == <<creds, rotations, proofs>>
Around == <<alive, recent, page, changes, kept>>

(* generateRecoveryCode: the current code and the last generation. *)
ReadCreate(c) ==
  /\ Reads(c, "create")
  /\ IF ~alive[calls[c].page] THEN Reply(c, "gone")
     ELSE IF SavedLive # {} THEN Reply(c, "conflict")
     ELSE calls' = [calls EXCEPT ![c].pc = "commit", ![c].gen = LastGeneration,
                      ![c].row = IF Live = {} THEN 0 ELSE CHOOSE i \in Live : TRUE]
  /\ UNCHANGED <<Stored, Around>>

(* The code that was read is still the current one and still unsaved. *)
Replaceable(row) == IF row = 0 THEN Live = {} ELSE row \in Live /\ ~creds[row].saved
Spent(k, p) == IF Good(k, p) THEN [proofs EXCEPT ![k].state = "used"] ELSE proofs
CommitCreate(c) ==
  LET r == calls[c] IN
  /\ Commits(c, "create")
  /\ IF alive[r.page] /\ Eligible(r.page, r.proof) /\ Replaceable(r.row)
     THEN /\ creds' = Append(IF r.row = 0 THEN creds ELSE [creds EXCEPT ![r.row].live = FALSE],
                             [sec |-> c, gen |-> r.gen + 1, live |-> TRUE, saved |-> FALSE])
          /\ proofs' = Spent(r.proof, r.page)
          /\ calls' = [calls EXCEPT ![c].pc = "answer", ![c].ans = "ok", ![c].at = Len(creds) + 1]
     ELSE /\ Reply(c, IF ~alive[r.page] THEN "gone"
                      ELSE IF ~Eligible(r.page, r.proof) THEN "auth" ELSE "conflict")
          /\ UNCHANGED <<creds, proofs>>
  /\ UNCHANGED <<rotations, Around>>

(* confirmRecoveryCode of a first code; a repeated confirmation is answered again. *)
SaveCode(c) ==
  LET r == calls[c]
      mine == r.at \in Live /\ creds[r.at].sec = r.sent
  IN /\ Reads(c, "save")
     /\ creds' = IF alive[r.page] /\ mine THEN [creds EXCEPT ![r.at].saved = TRUE] ELSE creds
     /\ Reply(c, IF alive[r.page] /\ mine THEN "ok" ELSE "gone")
     /\ UNCHANGED <<rotations, proofs, Around>>

(* startRecoveryRotation: the rotation of this operation, or the code to replace. *)
Repeated(r) == {i \in DOMAIN rotations : rotations[i].page = r.page /\ rotations[i].key = r.key}
Open(i) == rotations[i].state = "open"
ReadStart(c) ==
  LET r == calls[c] IN
  /\ Reads(c, "start")
  /\ IF ~alive[r.page] THEN Reply(c, "gone")
     ELSE IF Repeated(r) # {}
     THEN LET i == CHOOSE i \in Repeated(r) : TRUE IN
          IF Open(i) /\ rotations[i].proof = r.proof
          THEN calls' = [calls EXCEPT ![c].pc = "commit", ![c].at = i]
          ELSE Reply(c, "auth")
     ELSE IF SavedLive = {} THEN Reply(c, "auth")
     ELSE calls' = [calls EXCEPT ![c].pc = "commit", ![c].row = CHOOSE i \in SavedLive : TRUE]
  /\ UNCHANGED <<Stored, Around>>

(* A repeated operation gets a new secret for the same rotation. *)
ReplayStart(c) ==
  LET r == calls[c] IN
  /\ Commits(c, "start") /\ r.at # 0
  /\ IF alive[r.page] /\ Open(r.at) /\ rotations[r.at].old \in SavedLive
     THEN rotations' = [rotations EXCEPT ![r.at].sec = c] /\ Reply(c, "ok")
     ELSE Reply(c, "auth") /\ UNCHANGED rotations
  /\ UNCHANGED <<creds, proofs, Around>>

StartRotation(r) == alive[r.page] /\ Good(r.proof, r.page) /\ r.row \in SavedLive
CommitStart(c) ==
  LET r == calls[c] IN
  /\ Commits(c, "start") /\ r.at = 0
  /\ IF StartRotation(r)
     THEN /\ proofs' = [proofs EXCEPT ![r.proof].state = "used"]
          /\ rotations' = Append(rotations,
               [page |-> r.page, key |-> r.key, proof |-> r.proof, old |-> r.row, sec |-> c,
                gen |-> creds[r.row].gen + 1, state |-> "open"])
          /\ calls' = [calls EXCEPT ![c].pc = "answer", ![c].ans = "ok", ![c].at = Len(rotations) + 1]
     ELSE Reply(c, "auth") /\ UNCHANGED <<rotations, proofs>>
  /\ UNCHANGED <<creds, Around>>

(* confirmRecoveryRotation: the old code ends and the new one is saved, in one batch. *)
\* Mutant: the rotation is confirmed by its number.
FinishAnySecret(r) == alive[r.page] /\ Open(r.at) /\ rotations[r.at].old \in SavedLive
Finishable(r) ==
  /\ alive[r.page] /\ Open(r.at) /\ rotations[r.at].sec = r.sent
  /\ rotations[r.at].old \in SavedLive
Replaced(i) == Append([creds EXCEPT ![rotations[i].old].live = FALSE],
                      [sec |-> rotations[i].sec, gen |-> rotations[i].gen,
                       live |-> TRUE, saved |-> TRUE])
FinishRotation(c) ==
  LET r == calls[c] IN
  /\ Reads(c, "finish")
  /\ IF Finishable(r)
     THEN /\ rotations' = [rotations EXCEPT ![r.at].state = "confirmed"]
          /\ creds' = Replaced(r.at)
          /\ Reply(c, "ok")
     ELSE /\ Reply(c, IF alive[r.page] THEN "auth" ELSE "gone")
          /\ UNCHANGED <<creds, rotations>>
  /\ UNCHANGED <<proofs, Around>>

Handle(c) == \/ ReadCreate(c) \/ CommitCreate(c) \/ SaveCode(c)
             \/ ReadStart(c) \/ ReplayStart(c) \/ CommitStart(c) \/ FinishRotation(c)

-----------------------------------------------------------------------------
(* Time, other devices and other paths *)

Elapse ==
  /\ changes < MaxChanges /\ changes' = changes + 1
  /\ \/ \E p \in Pages : recent[p] /\ recent' = [recent EXCEPT ![p] = FALSE]
                         /\ UNCHANGED <<rotations, proofs>>
     \/ \E k \in DOMAIN proofs :
          /\ proofs[k].state = "live"
          /\ proofs' = [proofs EXCEPT ![k].state = "expired"]
          /\ UNCHANGED <<rotations, recent>>
     \/ \E i \in DOMAIN rotations :
          /\ Open(i)
          /\ rotations' = [rotations EXCEPT ![i].state = "expired"]
          /\ UNCHANGED <<proofs, recent>>
  /\ UNCHANGED <<creds, alive, page, calls, kept>>

EndSession(p) ==
  /\ changes < MaxChanges /\ changes' = changes + 1
  /\ alive[p] /\ alive' = [alive EXCEPT ![p] = FALSE]
  /\ UNCHANGED <<Stored, recent, page, calls, kept>>

(* recover_login with the saved code ends every session of the account. *)
UseCode ==
  /\ changes < MaxChanges /\ changes' = changes + 1
  /\ \E i \in SavedLive : creds' = [creds EXCEPT ![i].live = FALSE]
  /\ alive' = [p \in Pages |-> FALSE]
  /\ UNCHANGED <<rotations, proofs, recent, page, calls, kept>>

Next ==
  \/ \E p \in Pages : \/ createRecoveryCode(p) \/ rotateRecoveryCode(p) \/ verifyProof(p)
                      \/ Cancel(p) \/ confirmRecoveryCode(p) \/ Reload(p) \/ IdentityChanged(p)
                      \/ Answer(p) \/ Lose(p) \/ EndSession(p)
  \/ \E c \in DOMAIN calls : Handle(c) \/ Drop(c)
  \/ Elapse \/ UseCode
Spec == Init /\ [][Next]_vars

(* A request is handled or given up, and its answer reaches the page. *)
FairSpec == Spec /\ \A p \in Pages : WF_vars(Answer(p) \/ Lose(p))

-----------------------------------------------------------------------------
(* Types: a rotation's secret and the code a page shows were made by a call. *)
TypeOK ==
  /\ \A i \in DOMAIN creds :
       creds[i] \in [sec: 0..Len(calls), gen: Nat \ {0}, live: BOOLEAN, saved: BOOLEAN]
  /\ \A i \in DOMAIN rotations : /\ rotations[i].sec \in 1..Len(calls)
                                 /\ rotations[i].old \in DOMAIN creds
  /\ \A p \in Pages : page[p].call \in 0..Len(calls) /\ page[p].proof \in 0..Len(proofs)

(* However many devices create, replace and confirm at once, the account has at    *)
(* most one current code, no generation is given twice, and the current code is     *)
(* the newest (credential.ts:94-163, service.ts:521-585).                            *)
OneLiveCode ==
  /\ Cardinality(Live) <= 1
  /\ \A i, j \in DOMAIN creds : i < j => creds[i].gen < creds[j].gen /\ ~creds[i].live

(* A saved code works until the very step in which another code, already in its     *)
(* owner's hands, is saved in its place; only using it ends it otherwise             *)
(* (service.ts:371, "旧码保持有效，直到新码由本人回传确认").                              *)
WorksUntilReplaced ==
  \A i \in SavedLive :
    \/ i \in Live' /\ creds'[i].saved
    \/ \E j \in DOMAIN creds' : /\ j > Len(creds) /\ creds'[j].live /\ creds'[j].saved
                                /\ creds'[j].sec \in kept
    \/ UseCode

(* A proof pays for one delivery: it is used by one rotation, or by one code        *)
(* generated outside the recent window, and a repetition changes only the secret      *)
(* (service.ts:394-428, credential.ts:103-117).                                        *)
ProofPaysOnce ==
  /\ \A i, j \in DOMAIN rotations : i # j => rotations[i].proof # rotations[j].proof
  /\ \A i \in DOMAIN rotations : proofs[rotations[i].proof].state = "used"

(* A page shows a code only while it shows its account: nothing that arrives after  *)
(* a change of identity puts a secret on the page (account.ts:316-334, :764).          *)
ShownToOwner == \A p \in Pages : page[p].shown # None => page[p].sum # None

(* A page that waits for an answer about its code gets its buttons back, whatever      *)
(* becomes of the request (account.ts:304-314).                                          *)
Busy(p) == page[p].call # 0
WaitEnds == \A p \in Pages : Busy(p) ~> ~Busy(p)

\* What holds of the recovery codes in every state.
RotationHolds == TypeOK /\ OneLiveCode /\ ProofPaysOnce /\ ShownToOwner
=============================================================================
