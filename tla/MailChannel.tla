----------------------------- MODULE MailChannel -----------------------------
(***************************************************************************)
(* The e-mail channel of an account: two layers (seat, routine), each with   *)
(* a consent of its own, both limited in number over all accounts.  A panel   *)
(* of the subscription page reads the state, shows it, and sends the user's    *)
(* confirmation with the versions it showed; the handler reads the context,     *)
(* checks it, and rechecks everything in one guarded batch.  Meanwhile other     *)
(* tabs change the layers or save the subscription, an unsubscribe link, a        *)
(* safety pause, a change of address or a complaint closes the channel, and        *)
(* the scan renews the lease.                                                       *)
(*                                                                                   *)
(* An address version stands for its address and its binding; which of two          *)
(* versions has the same address is the concern of MailFeedback.                     *)
(***************************************************************************)
EXTENDS Integers, FiniteSets

CONSTANTS
  Users, Tabs,
  Owner,                  \* [Tabs -> Users]
  SeatsMax, RoutineMax,   \* MAIL_SEATS_MAX, MAIL_ROUTINE_SEATS_MAX
  UserDay, GlobalDay,     \* USER_MUTATIONS_DAY, GLOBAL_MUTATIONS_DAY
  Saved,                  \* [Users -> Nat]: the first subscription revision
  None,
  MaxVer, MaxSaves, MaxStops, MaxRenewals, MaxPuts  \* bounds

ChannelAssumption ==
  /\ Owner \in [Tabs -> Users] /\ Saved \in [Users -> Nat]
  /\ {SeatsMax, RoutineMax, UserDay, GlobalDay, MaxVer, MaxSaves, MaxStops,
      MaxRenewals, MaxPuts} \subseteq Nat

VARIABLES
  user,     \* [Users -> [ver, epoch]]: email_version (and binding), auth_epoch
  supp,     \* suppressed addresses, as <<user, version>>
  sub,      \* [Users -> revision of the saved subscription], 0: uninitialized
  chan,     \* [Users -> the email_channels row]
  last,     \* [Users -> the last consent event of each layer of this binding]
  used,     \* [Users -> enabling changes today]
  open,     \* the switches email_seats_open, email_routine_enabled, writable
  closing,  \* [Users -> [Events -> such a closing between its read and its batch]]
  renewing, \* [Users -> the revision the scan has read, or None]
  tab,      \* [Tabs -> the panel of the tab]
  req,      \* [Tabs -> the request of the panel]
  cnt,      \* what the bounds count
  stops     \* [Users -> closings so far] (history)

vars == <<user, supp, sub, chan, last, used, open, closing, renewing, tab, req, cnt, stops>>

Events == {"safety_pause", "email_change"}
Layers == {"seat", "routine"}
NoRow == [on |-> FALSE, rt |-> FALSE, ver |-> 1, lease |-> FALSE, rev |-> 0, row |-> FALSE]
NoEvents == [l \in Layers |-> "none"]
NewPanel(u) == [live |-> TRUE, epoch |-> user[u].epoch, known |-> sub[u], busy |-> FALSE,
                view |-> None, pending |-> None, prep |-> None, said |-> "none"]

Init ==
  /\ user = [u \in Users |-> [ver |-> 1, epoch |-> 0]]
  /\ supp = {}
  /\ sub = Saved
  /\ chan = [u \in Users |-> NoRow]
  /\ last = [u \in Users |-> NoEvents]
  /\ used = [u \in Users |-> 0]
  /\ open = [seat |-> TRUE, routine |-> TRUE, write |-> TRUE]
  /\ closing = [u \in Users |-> [e \in Events |-> None]]
  /\ renewing = [u \in Users |-> None]
  /\ tab = [t \in Tabs |-> NewPanel(Owner[t])]
  /\ req = [t \in Tabs |-> None]
  /\ cnt = [saves |-> 0, renewals |-> 0, stops |-> 0, puts |-> 0]
  /\ stops = [u \in Users |-> 0]

-----------------------------------------------------------------------------
(* Reading *)

OpenSeats == {u \in Users : chan[u].on}
OpenRoutines == {u \in Users : chan[u].on /\ chan[u].rt}
Left(max, S) == IF Cardinality(S) < max THEN max - Cardinality(S) ELSE 0
Remaining == [seat |-> Left(SeatsMax, OpenSeats), routine |-> Left(RoutineMax, OpenRoutines)]

(* A row of an older address counts as closed. *)
Current(u) == chan[u].ver = user[u].ver
readContext(u) ==
  [rev |-> chan[u].rev, ver |-> user[u].ver, epoch |-> user[u].epoch, left |-> Remaining,
   clean |-> <<u, user[u].ver>> \notin supp, stops |-> stops[u],
   on |-> Current(u) /\ chan[u].on, rt |-> Current(u) /\ chan[u].rt,
   rowOn |-> chan[u].on, rowRt |-> chan[u].rt]

(* Why a layer cannot be opened, "ok" when it can. *)
Availability(facts, subscription, layer) ==
  IF subscription = 0 THEN "subscription_uninitialized"
  ELSE IF ~facts.clean THEN "address_suppressed"
  ELSE IF layer = "routine" /\ ~facts.on THEN "seat_required"
  ELSE IF ~(IF layer = "seat" THEN facts.on ELSE facts.rt) /\ facts.left[layer] = 0
  THEN "capacity_full" ELSE "ok"

Session(t) == tab[t].live /\ tab[t].epoch = user[Owner[t]].epoch

-----------------------------------------------------------------------------
(* The panel *)

Idle(t) == tab[t].live /\ ~tab[t].busy
Cleared(p) == [p EXCEPT !.prep = None, !.pending = None]
Ask(kind, then) == [pc |-> "read", kind |-> kind, then |-> then, upd |-> None, ctx |-> None,
                    sub |-> 0, sess |-> TRUE, res |-> "none", shown |-> None]
Free(t) == req[t] = None

(* clearConfirmation, busy, and the request of a load that goes on as then. *)
Load(t, panel, then) ==
  /\ tab' = [tab EXCEPT ![t] = [Cleared(panel) EXCEPT !.busy = TRUE]]
  /\ req' = [req EXCEPT ![t] = Ask("get", then)]

refresh(t) ==
  /\ Idle(t) /\ Free(t) /\ cnt.puts < MaxPuts
  /\ Load(t, tab[t], "refresh")
  /\ cnt' = [cnt EXCEPT !.puts = @ + 1]
  /\ UNCHANGED <<user, supp, sub, chan, last, used, open, closing, renewing, stops>>

(* An unsaved draft is settled first; otherwise the panel reads again. *)
begin(t, layer, draft) ==
  /\ Idle(t) /\ Free(t) /\ tab[t].view # None
  /\ Availability(tab[t].view, tab[t].view.sub, layer) = "ok"
  /\ ~(IF layer = "seat" THEN tab[t].view.on ELSE tab[t].view.rt)
  /\ IF draft
     THEN /\ tab' = [tab EXCEPT ![t] = [Cleared(@) EXCEPT !.pending = layer]]
          /\ UNCHANGED req
     ELSE Load(t, tab[t], layer)
  /\ UNCHANGED <<user, supp, sub, chan, last, used, open, closing, renewing, cnt, stops>>

(* The draft is saved, or the saved subscription is used as it is. *)
resolveDraft(t, save) ==
  /\ Idle(t) /\ Free(t) /\ tab[t].pending # None
  /\ LET u == Owner[t] IN
     IF save
     THEN /\ Session(t) /\ cnt.saves < MaxSaves
          /\ cnt' = [cnt EXCEPT !.saves = @ + 1]
          /\ sub' = [sub EXCEPT ![u] = @ + 1]
          /\ Load(t, [tab[t] EXCEPT !.known = sub[u] + 1], tab[t].pending)
     ELSE Load(t, tab[t], tab[t].pending) /\ UNCHANGED <<cnt, sub>>
  /\ UNCHANGED <<user, supp, chan, last, used, open, closing, renewing, stops>>

cancel(t) ==
  /\ Idle(t) /\ (tab[t].prep # None \/ tab[t].pending # None)
  /\ tab' = [tab EXCEPT ![t] = Cleared(@)]
  /\ UNCHANGED <<user, supp, sub, chan, last, used, open, closing, renewing, req, cnt, stops>>

(* The subscription page of this tab saves: an idle panel forgets and reads   *)
(* again, a busy one goes on.                                                  *)
Save(t) ==
  /\ Session(t) /\ cnt.saves < MaxSaves
  /\ cnt' = [cnt EXCEPT !.saves = @ + 1]
  /\ sub' = [sub EXCEPT ![Owner[t]] = @ + 1]
  /\ LET p == [tab[t] EXCEPT !.known = sub[Owner[t]] + 1] IN
     IF p.busy THEN tab' = [tab EXCEPT ![t] = p] /\ UNCHANGED req
     ELSE Free(t) /\ Load(t, [p EXCEPT !.view = None], "refresh")
  /\ UNCHANGED <<user, supp, chan, last, used, open, closing, renewing, stops>>

(* write: the boxes are emptied, the request is sent. *)
Put(t, upd, shown) ==
  /\ cnt.puts < MaxPuts
  /\ cnt' = [cnt EXCEPT !.puts = @ + 1]
  /\ tab' = [tab EXCEPT ![t] = [Cleared(@) EXCEPT !.busy = TRUE]]
  /\ req' = [req EXCEPT ![t] = [Ask("put", "written") EXCEPT !.upd = upd, !.shown = shown]]

Versions(view) == [rev |-> view.rev, ver |-> view.ver, sub |-> view.sub,
                   on |-> None, rt |-> None]
Shown(view) == [ver |-> view.ver, sub |-> view.sub, stops |-> view.stops]

(* The user has read the disclosure, ticks the boxes and confirms. *)
confirm(t, both) ==
  /\ Idle(t) /\ Free(t) /\ tab[t].view # None /\ tab[t].prep # None
  /\ LET v == tab[t].view  l == tab[t].prep
         seen == [v EXCEPT !.on = @ \/ l = "seat"] IN
     /\ Availability(v, v.sub, l) = "ok"
     /\ both => Availability(seen, v.sub, "routine") = "ok"
     /\ l = "routine" => both
     /\ Put(t, [Versions(v) EXCEPT !.on = IF l = "seat" THEN TRUE ELSE None,
                                   !.rt = IF both THEN TRUE ELSE None], Shown(v))
  /\ UNCHANGED <<user, supp, sub, chan, last, used, open, closing, renewing, stops>>

disable(t, layer) ==
  /\ Idle(t) /\ Free(t) /\ tab[t].view # None
  /\ IF layer = "seat" THEN tab[t].view.on ELSE tab[t].view.rt
  /\ Put(t, [Versions(tab[t].view) EXCEPT
               !.on = IF layer = "seat" THEN FALSE ELSE None,
               !.rt = IF layer = "routine" THEN FALSE ELSE None], None)
  /\ UNCHANGED <<user, supp, sub, chan, last, used, open, closing, renewing, stops>>

dispose(p) == [Cleared(p) EXCEPT !.live = FALSE, !.view = None, !.busy = FALSE, !.said = "none"]

(* The user signs in again: a new page. *)
Login(t) ==
  /\ ~Session(t) /\ Free(t)
  /\ tab' = [tab EXCEPT ![t] = NewPanel(Owner[t])]
  /\ UNCHANGED <<user, supp, sub, chan, last, used, open, closing, renewing, req, cnt, stops>>

-----------------------------------------------------------------------------
(* The handlers: each reads the context first, then the subscription. *)

Refuse(t, why) == req' = [req EXCEPT ![t].pc = "answer", ![t].res = why]
Rest == <<user, supp, sub, open, closing, renewing, tab, cnt, stops>>

Context(t) ==
  /\ ~Free(t) /\ req[t].pc = "read"
  /\ IF Session(t)
     THEN req' = [req EXCEPT ![t].pc = "check", ![t].ctx = readContext(Owner[t])]
     ELSE Refuse(t, "unauthorized")
  /\ UNCHANGED <<chan, last, used>> /\ UNCHANGED Rest

readEmailChannel(t) ==
  /\ ~Free(t) /\ req[t].pc = "check" /\ req[t].kind = "get"
  /\ req' = [req EXCEPT ![t].pc = "answer", ![t].sub = sub[Owner[t]],
                        ![t].res = IF @ = "none" THEN "read" ELSE @]
  /\ UNCHANGED <<chan, last, used>> /\ UNCHANGED Rest

Wants(r, layer) ==
  LET on == IF r.upd.on = None THEN r.ctx.on ELSE r.upd.on
  IN IF layer = "seat" THEN on ELSE on /\ (IF r.upd.rt = None THEN r.ctx.rt ELSE r.upd.rt)
EnableSeat(r) == Wants(r, "seat") /\ ~r.ctx.on
EnableRoutine(r) == Wants(r, "routine") /\ ~r.ctx.rt
Enabling(r) == EnableSeat(r) \/ EnableRoutine(r)
Asks(r) == r.upd.on = TRUE \/ r.upd.rt = TRUE

Stale(r, s) == Asks(r) /\ (r.upd.rev # r.ctx.rev \/ r.upd.ver # r.ctx.ver \/ r.upd.sub # s)

(* The checks before the batch; routine alone may be full when both are asked. *)
Check(r, s) ==
  LET seat == Availability(r.ctx, s, "seat")
      second == Availability([r.ctx EXCEPT !.on = Wants(r, "seat")], s, "routine") IN
  IF Stale(r, s) THEN "conflict"
  ELSE IF r.upd.rt = TRUE /\ ~Wants(r, "seat") THEN "seat_required"
  ELSE IF Enabling(r) /\ ~(open.write /\ (EnableSeat(r) => open.seat)
                           /\ (EnableRoutine(r) => open.routine))
  THEN "temporarily_unavailable"
  ELSE IF Enabling(r) /\ seat # "ok" THEN seat
  ELSE IF EnableRoutine(r) /\ second # "ok"
          /\ ~(EnableSeat(r) /\ second = "capacity_full")
  THEN second ELSE "ok"

updateEmailChannel(t) ==
  /\ ~Free(t) /\ req[t].pc = "check" /\ req[t].kind = "put"
  /\ LET s == sub[Owner[t]]  r == req[t]  why == Check(r, s) IN
     IF why # "ok" THEN Refuse(t, why)
     ELSE req' = [req EXCEPT ![t].sub = s,
            ![t].pc = IF Wants(r, "seat") = r.ctx.rowOn /\ Wants(r, "routine") = r.ctx.rowRt
                      THEN "reread" ELSE "commit",
            ![t].res = "completed"]
  /\ UNCHANGED <<chan, last, used>> /\ UNCHANGED Rest

AllUsed == Cardinality({p \in Users \X (1..UserDay) : used[p[1]] >= p[2]})
(* Everything the handler has read, again, in the batch. *)
Guard(t) ==
  LET u == Owner[t]  r == req[t] IN
  /\ Session(t) /\ user[u].ver = r.ctx.ver /\ user[u].epoch = r.ctx.epoch
  /\ chan[u].rev = r.ctx.rev
  /\ Enabling(r) =>
       /\ sub[u] # 0 /\ sub[u] = r.sub
       /\ <<u, user[u].ver>> \notin supp
       /\ used[u] < UserDay /\ AllUsed < GlobalDay
       /\ open.write /\ (EnableSeat(r) => open.seat) /\ (EnableRoutine(r) => open.routine)
  /\ EnableSeat(r) => Cardinality(OpenSeats) < SeatsMax
  /\ (EnableRoutine(r) /\ ~EnableSeat(r)) => Cardinality(OpenRoutines) < RoutineMax

(* The routine layer as the upsert counts it: kept, or opened if there is room. *)
Routine(r) == Wants(r, "routine") /\ (r.ctx.rt \/ Cardinality(OpenRoutines) < RoutineMax)

Event(was, now, old) == IF was = now THEN old ELSE IF now THEN "enable" ELSE "disable"

Commit(t) ==
  /\ ~Free(t) /\ req[t].pc = "commit"
  /\ LET u == Owner[t]  r == req[t]  on == Wants(r, "seat")  rt == Routine(r) IN
     IF Guard(t)
     THEN /\ chan' = [chan EXCEPT ![u] =
               [on |-> on, rt |-> rt, ver |-> user[u].ver, rev |-> r.ctx.rev + 1, row |-> TRUE,
                lease |-> on /\ (EnableSeat(r) \/ @.lease)]]
          /\ last' = [last EXCEPT ![u] = [seat |-> Event(r.ctx.on, on, @.seat),
                                          routine |-> Event(r.ctx.rt, rt, @.routine)]]
          /\ used' = [used EXCEPT ![u] = IF Enabling(r) THEN @ + 1 ELSE @]
          /\ stops' = [stops EXCEPT ![u] =
               IF (r.ctx.on /\ ~on) \/ (r.ctx.rt /\ ~rt) THEN @ + 1 ELSE @]
          /\ req' = [req EXCEPT ![t].pc = "reread"]
     ELSE /\ req' = [req EXCEPT ![t].pc = "reread", ![t].res = "conflict"]
          /\ UNCHANGED <<chan, last, used, stops>>
  /\ UNCHANGED <<user, supp, sub, open, closing, renewing, tab, cnt>>

(* The state of the answer is read again: "partial" when the routine layer was  *)
(* asked for and is not open NOW; a missed guard is explained by what is true    *)
(* now, or by a conflict.                                                         *)
Reread(t) ==
  /\ ~Free(t) /\ req[t].pc = "reread"
  /\ LET u == Owner[t]  r == req[t]  now == readContext(u)
         layer == IF EnableSeat(r) THEN "seat" ELSE "routine"
         why == Availability([now EXCEPT !.on = IF layer = "routine" THEN @ ELSE FALSE],
                             sub[u], layer) IN
     IF ~Session(t) THEN Refuse(t, "unauthorized")
     ELSE IF r.res = "conflict"
     THEN Refuse(t, IF ~Enabling(r) THEN "conflict"
                    ELSE IF why # "ok" THEN why
                    ELSE IF used[u] >= UserDay \/ AllUsed >= GlobalDay THEN "quota_paused"
                    ELSE "conflict")
     ELSE req' = [req EXCEPT ![t].pc = "answer", ![t].ctx = now, ![t].sub = sub[u],
            ![t].res = IF Wants(r, "routine") /\ ~now.rt THEN "partial" ELSE "completed"]
  /\ UNCHANGED <<chan, last, used>> /\ UNCHANGED Rest

-----------------------------------------------------------------------------
(* The answer in the panel *)

View(r) == [on |-> r.ctx.on, rt |-> r.ctx.rt, rev |-> r.ctx.rev, ver |-> r.ctx.ver,
            left |-> r.ctx.left, clean |-> r.ctx.clean, stops |-> r.ctx.stops, sub |-> r.sub]
snapshotIsCurrent(t) == req[t].sub >= tab[t].known

(* load: a read that fails, or is older than this tab's save, clears the view. *)
Loaded(t, ok) ==
  LET r == req[t]  good == ok /\ r.res = "read" /\ snapshotIsCurrent(t)
      p == [tab[t] EXCEPT !.busy = FALSE, !.view = IF good THEN View(r) ELSE None]
      may == good /\ r.then \in Layers /\ Availability(View(r), r.sub, r.then) = "ok"
  IN [p EXCEPT !.prep = IF may THEN r.then ELSE None]

Written(t, ok) ==
  IF ok /\ req[t].res \in {"completed", "partial"}
  THEN /\ tab' = [tab EXCEPT ![t].busy = FALSE, ![t].said = req[t].res,
                  ![t].view = IF snapshotIsCurrent(t) THEN View(req[t]) ELSE None]
       /\ req' = [req EXCEPT ![t] = None]
  ELSE /\ tab' = [tab EXCEPT ![t].said = "failed"]
       /\ req' = [req EXCEPT ![t] = Ask("get", "error")]

(* ok = FALSE: the answer was lost.  A page that has lost its account is        *)
(* disposed of when it looks.                                                    *)
Answer(t, ok) ==
  /\ ~Free(t) /\ req[t].pc = "answer"
  /\ IF ~tab[t].live THEN req' = [req EXCEPT ![t] = None] /\ UNCHANGED tab
     ELSE IF req[t].kind = "get"
     THEN tab' = [tab EXCEPT ![t] = Loaded(t, ok)] /\ req' = [req EXCEPT ![t] = None]
     ELSE Written(t, ok)
  /\ UNCHANGED <<user, supp, sub, chan, last, used, open, closing, renewing, cnt, stops>>

(* The request is lost on the way, or the handler dies before its batch. *)
Lose(t) ==
  /\ ~Free(t) /\ req[t].pc \in {"read", "check", "commit"}
  /\ Refuse(t, "lost")
  /\ UNCHANGED <<chan, last, used>> /\ UNCHANGED Rest

-----------------------------------------------------------------------------
(* Closings *)

Closed(row) == [row EXCEPT !.on = FALSE, !.rt = FALSE, !.lease = FALSE, !.rev = @ + 1]
Disabled == [l \in Layers |-> "disable"]

(* A pause or a change of address reads the account, then lays a closed row,    *)
(* so that its batch has a row to close.                                         *)
Lay(u) == IF chan[u].row THEN chan[u] ELSE [NoRow EXCEPT !.ver = user[u].ver, !.row = TRUE]
closeEffects(u, event) ==
  /\ closing[u][event] = None /\ cnt.stops < MaxStops
  /\ event = "email_change" => user[u].ver < MaxVer
  /\ cnt' = [cnt EXCEPT !.stops = @ + 1]
  /\ chan' = [chan EXCEPT ![u] = Lay(u)]
  /\ closing' = [closing EXCEPT ![u][event] = [epoch |-> user[u].epoch, ver |-> user[u].ver]]
  /\ UNCHANGED <<user, supp, sub, last, used, open, renewing, tab, req, stops>>

\* Mutant: the account is not compared with what was read
SameAny(u, e) == TRUE
Same(u, e) == closing[u][e].epoch = user[u].epoch

(* The batch: users first (its trigger moves the channel to the new address),    *)
(* then the two consent events under the binding that was read, then the row.     *)
(* The sessions of the account are over.                                           *)
Close(u, e) ==
  /\ closing[u][e] # None
  /\ closing' = [closing EXCEPT ![u][e] = None]
  /\ IF Same(u, e)
     THEN LET c == closing[u][e]  moves == e = "email_change"  n == user[u].ver + 1 IN
          /\ user' = [user EXCEPT ![u] = [ver |-> IF moves THEN n ELSE @.ver,
                                          epoch |-> @.epoch + 1]]
          /\ chan' = [chan EXCEPT ![u] =
               [Closed(@) EXCEPT !.ver = IF moves THEN n ELSE @]]
          /\ last' = [last EXCEPT ![u] = IF moves THEN NoEvents
                                         ELSE IF c.ver = user[u].ver THEN Disabled ELSE @]
          /\ stops' = [stops EXCEPT ![u] = @ + 1]
     ELSE UNCHANGED <<user, chan, last, stops>>
  /\ UNCHANGED <<supp, sub, used, open, renewing, tab, req, cnt>>

(* A page of this browser learns that its account is gone. *)
Leave(t) ==
  /\ tab[t].live /\ ~Session(t)
  /\ tab' = [tab EXCEPT ![t] = dispose(@)]
  /\ UNCHANGED <<user, supp, sub, chan, last, used, open, closing, renewing, req, cnt, stops>>

(* An unsubscribe link of a mail sent under version n, followed or clicked. *)
closeBusinessMail(u, n) ==
  /\ n = user[u].ver /\ (chan[u].on \/ chan[u].rt \/ chan[u].lease)
  /\ cnt.stops < MaxStops
  /\ cnt' = [cnt EXCEPT !.stops = @ + 1]
  /\ chan' = [chan EXCEPT ![u] = Closed(@)]
  /\ last' = [last EXCEPT ![u] = Disabled]
  /\ stops' = [stops EXCEPT ![u] = @ + 1]
  /\ UNCHANGED <<user, supp, sub, used, open, closing, renewing, tab, req>>

(* A complaint about the current address: MailFeedback's closing, which writes  *)
(* no consent event and leaves the lease.                                         *)
Complaint(u) ==
  /\ <<u, user[u].ver>> \notin supp /\ cnt.stops < MaxStops
  /\ cnt' = [cnt EXCEPT !.stops = @ + 1]
  /\ supp' = supp \union {<<u, user[u].ver>>}
  /\ chan' = [chan EXCEPT ![u] = IF @.ver = user[u].ver /\ (@.on \/ @.rt)
                THEN [@ EXCEPT !.on = FALSE, !.rt = FALSE, !.rev = @ + 1] ELSE @]
  /\ stops' = [stops EXCEPT ![u] = @ + 1]
  /\ UNCHANGED <<user, sub, last, used, open, closing, renewing, tab, req>>

(* An operator turns one switch. *)
Switch(s) ==
  /\ cnt.stops < MaxStops
  /\ cnt' = [cnt EXCEPT !.stops = @ + 1]
  /\ open' = [open EXCEPT ![s] = ~@]
  /\ UNCHANGED <<user, supp, sub, chan, last, used, closing, renewing, tab, req, stops>>

(* The scan: activity since the last renewal moves the lease. *)
renewRead(u) ==
  /\ renewing[u] = None /\ cnt.renewals < MaxRenewals
  /\ chan[u].row /\ Current(u) /\ chan[u].on
  /\ cnt' = [cnt EXCEPT !.renewals = @ + 1]
  /\ renewing' = [renewing EXCEPT ![u] = [rev |-> chan[u].rev, ver |-> user[u].ver]]
  /\ UNCHANGED <<user, supp, sub, chan, last, used, open, closing, tab, req, stops>>

Renewed(u) == [chan EXCEPT ![u] = [@ EXCEPT !.lease = TRUE, !.rev = @ + 1]]
renewEmailSeat(u) ==
  /\ renewing[u] # None
  /\ renewing' = [renewing EXCEPT ![u] = None]
  /\ chan' = IF chan[u].rev = renewing[u].rev /\ chan[u].on /\ chan[u].ver = renewing[u].ver
                /\ Current(u)
             THEN Renewed(u) ELSE chan
  /\ UNCHANGED <<user, supp, sub, last, used, open, closing, tab, req, cnt, stops>>

-----------------------------------------------------------------------------
Click(t) ==
  \/ refresh(t) \/ cancel(t) \/ Login(t) \/ Save(t)
  \/ \E l \in Layers, b \in BOOLEAN : begin(t, l, b)
  \/ \E b \in BOOLEAN : resolveDraft(t, b) \/ confirm(t, b)
  \/ \E l \in Layers : disable(t, l)
Handle(t) == Context(t) \/ readEmailChannel(t) \/ updateEmailChannel(t) \/ Commit(t) \/ Reread(t)
Arrive(t) == Answer(t, TRUE) \/ Answer(t, FALSE)
Stop(u) ==
  \/ \E e \in Events : closeEffects(u, e) \/ Close(u, e)
  \/ Complaint(u)
  \/ \E n \in 1..MaxVer : closeBusinessMail(u, n)
  \/ renewRead(u) \/ renewEmailSeat(u)

Next ==
  \/ \E t \in Tabs : Click(t) \/ Handle(t) \/ Arrive(t) \/ Lose(t) \/ Leave(t)
  \/ \E u \in Users : Stop(u)
  \/ \E s \in DOMAIN open : Switch(s)
Spec == Init /\ [][Next]_vars

(* A request is handled or lost, and its answer or failure reaches the page. *)
FairSpec == Spec /\ \A t \in Tabs : WF_vars(Handle(t)) /\ WF_vars(Arrive(t))

-----------------------------------------------------------------------------
(* Types: a row of the channel is closed below the seat (the CHECK of 0008). *)
TypeOK ==
  /\ \A u \in Users :
       /\ chan[u] \in [on: BOOLEAN, rt: BOOLEAN, lease: BOOLEAN, row: BOOLEAN,
                       ver: 1..MaxVer, rev: Nat]
       /\ chan[u].rt => chan[u].on
       /\ used[u] \in 0..UserDay
  /\ \A t \in Tabs : tab[t].prep # None => tab[t].view # None

(* The open seats, the open routine layers and the enabling changes of a day      *)
(* never exceed their limits, however many confirmations are in flight            *)
(* (service.ts:136-217).                                                           *)
WithinLimits ==
  /\ Cardinality(OpenSeats) <= SeatsMax
  /\ Cardinality(OpenRoutines) <= RoutineMax
  /\ AllUsed <= GlobalDay

(* An open layer has the consent of the current address as its last event, and     *)
(* an event "enable" without an open layer, or a lease without a seat, is left      *)
(* behind by a complaint only (service.ts:219, hooks.ts:23, unsubscribe:19).        *)
ConsentFollows ==
  \A u \in Users : LET c == chan[u] IN
    /\ c.on => c.ver = user[u].ver /\ last[u].seat = "enable"
    /\ c.rt => last[u].routine = "enable"
    /\ <<u, user[u].ver>> \notin supp =>
         /\ (last[u].seat = "enable") => c.on
         /\ (last[u].routine = "enable") => c.rt
         /\ c.lease => c.on

(* A layer opens only for what its user confirmed: the address and subscription    *)
(* the panel showed are still the current ones, and nothing closed the channel      *)
(* since they were read; a suppressed address opens nothing (service.ts:89-163,     *)
(* panel.ts:434).                                                                    *)
Opens(u) == (chan'[u].on /\ ~chan[u].on) \/ (chan'[u].rt /\ ~chan[u].rt)
AgreedAsShown ==
  \A u \in Users : Opens(u) =>
  /\ <<u, user[u].ver>> \notin supp
  /\ \E t \in Tabs : /\ Owner[t] = u /\ ~Free(t) /\ req[t].pc = "commit"
                  /\ req[t].shown = [ver |-> user[u].ver, sub |-> sub[u], stops |-> stops[u]]

(* A panel at rest never shows a subscription older than its own tab has saved,     *)
(* whatever was being read or written while it was saved (panel.ts:312, :333).       *)
PanelIsFresh == \A t \in Tabs : Idle(t) /\ tab[t].view # None => tab[t].view.sub >= tab[t].known

(* A panel that waits gets its buttons back, also when the request or its answer     *)
(* is lost or the account goes away (panel.ts:462-507).                               *)
Busy(t) == tab[t].busy
ComesBack == \A t \in Tabs : Busy(t) ~> ~Busy(t)

\* What holds of the channel in every state.
ChannelHolds == TypeOK /\ WithinLimits /\ ConsentFollows /\ PanelIsFresh
=============================================================================
