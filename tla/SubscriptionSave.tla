------------------------- MODULE SubscriptionSave ---------------------------
(***************************************************************************)
(* The save machine of the subscription page (features/subscription/save/   *)
(* machine.ts) in several tabs over one account.  A tab keeps the snapshot   *)
(* it last read, a draft and a phase; its reads and saves are answered late, *)
(* out of order or never, and the user edits, compares and clicks between.   *)
(***************************************************************************)
EXTENDS SubscriptionStore, TLC

CONSTANTS
    Tabs, Elsewhere,    \* the tabs, and any other device
    Reads, NoRead,      \* GETs under way (a bound), and none
    NoRequest,          \* submitted = null
    NoSnapshot,         \* cloud or compareCloud = null
    Preset,             \* the draft of a form nobody touched
    MaxEdits            \* bound on editSerial

VARIABLES tab, read, seen
saveVars == <<tab, read, seen>>
vars == <<row, interests, view, counter, request, tab, read, seen>>

Init ==
    /\ StoreInit
    /\ tab = [t \in Tabs |->
           [started |-> FALSE, phase |-> "guest", cloud |-> NoSnapshot, compare |-> NoSnapshot, draft |-> Preset,
            edits |-> 0, latest |-> NoRead, submitted |-> NoRequest, inFlight |-> FALSE]]
    /\ read = [i \in Reads |-> Idle]
    /\ seen = [t \in Tabs |-> {0}]      \* the revisions the user saw in the form or in the comparison (history)

\* A tab changes; what it shows then is seen
Shown(x) ==
    {s.rev : s \in {s \in {x.cloud} \ {NoSnapshot} : x.draft = s.config}
             \union {s \in {x.compare} \ {NoSnapshot} : x.phase = "conflict"}}
Becomes(t, x) ==
    /\ tab' = [tab EXCEPT ![t] = x]
    /\ seen' = [seen EXCEPT ![t] = @ \union Shown(x)]

\* A GET leaves: a refresh, a refresh awaited by save(), or a reconciliation
Ask(i, t, kind, submission, closing) ==
    /\ read[i] = Idle
    /\ read' = [read EXCEPT ![i] = [step |-> "sent", tab |-> t, kind |-> kind, submission |-> submission,
                                    closing |-> closing, snapshot |-> NoSnapshot]]

\* readSubscription
Look(i) ==
    /\ read[i].step = "sent"
    /\ read' = [read EXCEPT ![i].step = "answered", ![i].snapshot = row]
    /\ UNCHANGED <<storeVars, tab, seen>>

-----------------------------------------------------------------------------
(* What the machine makes of its events *)

\* edited
Edited(x, draft) ==
    LET y == [x EXCEPT !.draft = draft, !.edits = @ + 1] IN
    IF x.phase = "conflict" \/ x.inFlight THEN y
    ELSE [y EXCEPT !.phase = IF x.cloud # NoSnapshot /\ x.cloud.config = draft THEN "saved" ELSE "dirty"]

\* refresh, once its read is back
Refreshed(x, snapshot) ==
    LET first == x.cloud = NoSnapshot
        changed == IF first THEN snapshot.config # NoConfig /\ x.edits # 0 ELSE snapshot.rev # x.cloud.rev
        hasDraft == IF first THEN x.edits # 0 ELSE x.draft # x.cloud.config
        y == [x EXCEPT !.cloud = snapshot]
    IN CASE changed /\ hasDraft -> [y EXCEPT !.compare = snapshot, !.phase = "conflict"]
         [] snapshot.config # NoConfig /\ ~hasDraft -> [y EXCEPT !.draft = snapshot.config, !.phase = "saved"]
         [] OTHER -> [y EXCEPT !.phase = IF snapshot.config # NoConfig THEN "dirty" ELSE "guest"]

\* enterComparison
Comparing(x, snapshot) == [x EXCEPT !.cloud = snapshot, !.compare = snapshot, !.phase = "conflict"]

\* Mutant: the answer of a save is put into the form whatever was typed since
SettledOver(x, q) ==
    CASE q.kind = "conflict" -> Comparing(x, q.snapshot)
      [] q.kind \in {"saved", "unchanged"} ->
           [x EXCEPT !.cloud = q.snapshot, !.submitted = NoRequest, !.phase = "saved"]
      [] OTHER -> [x EXCEPT !.phase = IF q.kind = "quota" THEN "dirty" ELSE "uncertain"]

\* The answer of a PATCH
Settled(x, q) ==
    CASE q.kind = "conflict" -> Comparing(x, q.snapshot)
      [] q.kind \in {"saved", "unchanged"} ->
           LET y == [x EXCEPT !.cloud = q.snapshot, !.submitted = NoRequest]
           IN IF x.edits # q.serial THEN [y EXCEPT !.phase = "dirty"]
              ELSE [y EXCEPT !.draft = q.snapshot.config, !.phase = "saved"]
      [] OTHER -> [x EXCEPT !.phase = IF q.kind = "quota" THEN "dirty" ELSE "uncertain"]

\* reconcile, once its read is back
Reconciled(x, q, snapshot) ==
    IF snapshot.config = q.config /\ x.edits = q.serial
    THEN [x EXCEPT !.cloud = snapshot, !.draft = snapshot.config, !.phase = "saved", !.submitted = NoRequest]
    ELSE Comparing(x, snapshot)

-----------------------------------------------------------------------------
(* The user and the page *)

Start(t, i) ==
    /\ ~tab[t].started
    /\ Ask(i, t, "refresh", NoRequest, FALSE)
    /\ Becomes(t, [tab[t] EXCEPT !.started = TRUE, !.phase = "loading", !.latest = i])
    /\ UNCHANGED storeVars

Edit(t, draft) ==
    /\ tab[t].edits < MaxEdits /\ draft # tab[t].draft
    /\ Becomes(t, Edited(tab[t], draft))
    /\ UNCHANGED <<storeVars, read>>

\* stageDraft: a draft kept on this device, or imported, is put up for comparison
Stage(t, draft) ==
    LET x == tab[t] IN
    /\ x.started /\ x.phase # "loading" /\ ~x.inFlight
    /\ x.edits < MaxEdits
    /\ Becomes(t, [x EXCEPT !.draft = draft, !.edits = @ + 1, !.compare = x.cloud, !.phase = "conflict"])
    /\ UNCHANGED <<storeVars, read>>

\* refresh: the page comes back to the foreground
Refresh(t, i) ==
    /\ tab[t].started /\ ~tab[t].inFlight
    /\ Ask(i, t, "refresh", NoRequest, FALSE)
    /\ Becomes(t, [tab[t] EXCEPT !.latest = i])
    /\ UNCHANGED storeVars

\* The second half of save(): x is the tab as it is now
Submit(t, x, r) ==
    \/ /\ x.draft = x.cloud.config
       /\ Becomes(t, [x EXCEPT !.phase = "saved"])
       /\ UNCHANGED request
    \/ /\ x.draft # x.cloud.config
       /\ request[r] = Idle
       /\ request' = [request EXCEPT ![r] =
              [tab |-> t, serial |-> x.edits, heard |-> FALSE] @@ Sent(x.cloud.rev, x.draft)]
       /\ Becomes(t, [x EXCEPT !.submitted = r, !.inFlight = TRUE, !.latest = NoRead, !.phase = "saving"])

\* save: without a snapshot it reads one first
SaveClick(t, r, i) ==
    LET x == tab[t] IN
    /\ x.started /\ ~x.inFlight /\ x.phase \notin {"conflict", "loading"}
    /\ \/ /\ x.cloud = NoSnapshot
          /\ Ask(i, t, "save", NoRequest, FALSE)
          /\ Becomes(t, [x EXCEPT !.latest = i])
          /\ UNCHANGED request
       \/ x.cloud # NoSnapshot /\ Submit(t, x, r) /\ UNCHANGED read
    /\ UNCHANGED <<row, interests, view, counter>>

\* recheck: the button shows after a paint, so not while a lost save is first reconciled
Recheck(t, i) ==
    LET x == tab[t] IN
    /\ x.started /\ ~x.inFlight /\ x.phase \in {"uncertain", "dirty", "conflict"}
    /\ IF x.submitted # NoRequest
       THEN Ask(i, t, "reconcile", x.submitted, FALSE) /\ UNCHANGED <<tab, seen>>
       ELSE Ask(i, t, "refresh", NoRequest, FALSE) /\ Becomes(t, [x EXCEPT !.latest = i])
    /\ UNCHANGED storeVars

Decided(x) == [x EXCEPT !.compare = NoSnapshot, !.submitted = NoRequest]

AdoptCloud(t) ==
    LET x == tab[t] IN
    /\ x.phase = "conflict" /\ x.cloud # NoSnapshot
    /\ Becomes(t, IF x.cloud.config # NoConfig THEN [Decided(x) EXCEPT !.draft = x.cloud.config, !.phase = "saved"]
                  ELSE [Decided(x) EXCEPT !.draft = Preset, !.phase = "guest"])
    /\ UNCHANGED <<storeVars, read>>

KeepDraft(t) ==
    /\ tab[t].phase = "conflict"
    /\ Becomes(t, [Decided(tab[t]) EXCEPT !.phase = "dirty"])
    /\ UNCHANGED <<storeVars, read>>

\* discard: the button shows only over a saved config
Discard(t) ==
    LET x == tab[t] IN
    /\ x.phase \in {"dirty", "uncertain"} /\ ~x.inFlight
    /\ x.cloud # NoSnapshot /\ x.cloud.config # NoConfig
    /\ Becomes(t, [Decided(x) EXCEPT !.draft = x.cloud.config, !.phase = "saved"])
    /\ UNCHANGED <<storeVars, read>>

-----------------------------------------------------------------------------
(* Answers *)

\* The answer of a PATCH arrives
Hear(r) ==
    LET q == request[r] IN
    /\ q.step = "answered" /\ ~q.heard
    /\ LET x == [Settled(tab[q.tab], q) EXCEPT !.inFlight = FALSE] IN
       /\ tab' = [tab EXCEPT ![q.tab] = x]
       /\ seen' = [seen EXCEPT ![q.tab] = @ \union Shown(x) \union (IF q.kind = "saved" THEN {q.snapshot.rev} ELSE {})]
    /\ request' = [request EXCEPT ![r].heard = TRUE]
    /\ UNCHANGED <<row, interests, view, counter, read>>

\* Mutant: the catch forgets to reconcile when the submission is gone, and the save stays in flight
LoseOpen(r, i) ==
    LET q == request[r] x == tab[q.tab] IN
    /\ q.step # "idle" /\ ~q.heard
    /\ request' = [request EXCEPT ![r].heard = TRUE]
    /\ Becomes(q.tab, [x EXCEPT !.phase = "uncertain"])
    /\ UNCHANGED <<row, interests, view, counter, read>>

\* It is lost, while the server may still be at work: the tab reads the cloud
Lose(r, i) ==
    LET q == request[r] x == tab[q.tab] IN
    /\ q.step # "idle" /\ ~q.heard
    /\ request' = [request EXCEPT ![r].heard = TRUE]
    /\ IF x.submitted = NoRequest
       THEN Becomes(q.tab, [x EXCEPT !.phase = "uncertain", !.inFlight = FALSE]) /\ UNCHANGED read
       ELSE Becomes(q.tab, [x EXCEPT !.phase = "uncertain"]) /\ Ask(i, q.tab, "reconcile", x.submitted, TRUE)
    /\ UNCHANGED <<row, interests, view, counter>>

\* A refresh is over: only the latest counts, and none while a save is in flight.
\* The save that awaited it goes on with the tab as it is then.
AfterRefresh(i, x, r) ==
    LET t == read[i].tab IN
    IF read[i].kind = "save" /\ x.cloud # NoSnapshot /\ x.compare = NoSnapshot
    THEN Submit(t, x, r)
    ELSE Becomes(t, x) /\ UNCHANGED request

Counts(i) == tab[read[i].tab].latest = i /\ ~tab[read[i].tab].inFlight

RefreshBack(i, r) ==
    LET x == tab[read[i].tab] IN
    /\ read[i].step = "answered" /\ read[i].kind # "reconcile"
    /\ AfterRefresh(i, IF Counts(i) THEN Refreshed(x, read[i].snapshot) ELSE x, r)
    /\ read' = [read EXCEPT ![i] = Idle]
    /\ UNCHANGED <<row, interests, view, counter>>

RefreshFails(i, r) ==
    LET x == tab[read[i].tab] IN
    /\ read[i] # Idle /\ read[i].kind # "reconcile"
    /\ AfterRefresh(i, IF Counts(i) THEN [x EXCEPT !.phase = "uncertain"] ELSE x, r)
    /\ read' = [read EXCEPT ![i] = Idle]
    /\ UNCHANGED <<row, interests, view, counter>>

\* The finally of the save that awaited the reconciliation
Closing(i, x) == IF read[i].closing THEN [x EXCEPT !.inFlight = FALSE] ELSE x

ReconcileBack(i) ==
    LET x == tab[read[i].tab] IN
    /\ read[i].step = "answered" /\ read[i].kind = "reconcile"
    /\ Becomes(read[i].tab, Closing(i, Reconciled(x, request[read[i].submission], read[i].snapshot)))
    /\ read' = [read EXCEPT ![i] = Idle]
    /\ UNCHANGED storeVars

ReconcileFails(i) ==
    LET x == tab[read[i].tab] IN
    /\ read[i] # Idle /\ read[i].kind = "reconcile"
    /\ Becomes(read[i].tab, Closing(i, [x EXCEPT !.phase = "uncertain"]))
    /\ read' = [read EXCEPT ![i] = Idle]
    /\ UNCHANGED storeVars

\* Another device saves over what is there; its answer is of no concern here
OtherDevice(r, config) ==
    /\ request[r] = Idle /\ config # row.config
    /\ request' = [request EXCEPT ![r] = [tab |-> Elsewhere, serial |-> 0, heard |-> TRUE] @@ Sent(row.rev, config)]
    /\ UNCHANGED <<row, interests, view, counter, saveVars>>

-----------------------------------------------------------------------------
\* The worker goes on with a save.
Handle(r) == StoreStep(r) /\ UNCHANGED saveVars

Next ==
    \/ \E r \in Requests, config \in Configs : OtherDevice(r, config)
    \/ \E r \in Requests : Handle(r) \/ Hear(r)
    \/ \E i \in Reads : Look(i) \/ ReconcileBack(i) \/ ReconcileFails(i)
    \/ \E i \in Reads, r \in Requests : RefreshBack(i, r) \/ RefreshFails(i, r) \/ Lose(r, i)
    \/ \E t \in Tabs : AdoptCloud(t) \/ KeepDraft(t) \/ Discard(t)
    \/ \E t \in Tabs, i \in Reads : Start(t, i) \/ Refresh(t, i) \/ Recheck(t, i)
    \/ \E t \in Tabs, draft \in Configs : Edit(t, draft) \/ Stage(t, draft)
    \/ \E t \in Tabs, r \in Requests, i \in Reads : SaveClick(t, r, i)

Spec == Init /\ [][Next]_vars

\* A request settles: the worker answers and the browser gives up on what does not come
Fairness ==
    /\ \A r \in Requests : WF_vars(Handle(r)) /\ WF_vars(Hear(r))
    /\ \A i \in Reads : WF_vars(Look(i)) /\ WF_vars(ReconcileBack(i))
    /\ \A i \in Reads : WF_vars(\E r \in Requests : RefreshBack(i, r))
FairSpec == Spec /\ Fairness

-----------------------------------------------------------------------------
Phases == {"guest", "loading", "saved", "dirty", "saving", "conflict", "uncertain"}

\* The fields of the machine and of its requests keep their types.
TypeOK ==
    /\ row.rev \in Nat /\ row.config \in Configs \union {NoConfig}
    /\ \A t \in Tabs : /\ tab[t].phase \in Phases /\ tab[t].draft \in Configs /\ tab[t].edits \in 0..MaxEdits
                       /\ tab[t].submitted \in Requests \union {NoRequest} /\ tab[t].latest \in Reads \union {NoRead}
    /\ \A i \in Reads : read[i] # Idle => read[i].tab \in Tabs /\ read[i].kind \in {"refresh", "save", "reconcile"}

\* Nothing is overwritten unseen: a save names a revision whose config this user
\* had in the form or in the comparison before, however reads and saves crossed
\* (machine.ts:166-186, 221-224).
NeverOverwritesUnseen ==
    \A r \in Requests : request[r] # Idle /\ request[r].tab \in Tabs => request[r].expected \in seen[request[r].tab]

SavedAsShown(x) == x.phase = "saved" => x.cloud # NoSnapshot /\ x.draft = x.cloud.config

\* A tab at rest that says "saved" shows exactly the config it says is in the
\* cloud: no late answer covers an edit made meanwhile (machine.ts:264-266).
SavedShowsCloud == \A t \in Tabs : ~tab[t].inFlight => SavedAsShown(tab[t])

\* A save that is in flight comes to an end, answered or lost (machine.ts:274-283).
Saving(t) == tab[t].inFlight
SaveEnds == \A t \in Tabs : Saving(t) ~> ~Saving(t)

\* What holds of a save in every state.
SavesHold == TypeOK /\ SavedShowsCloud /\ NeverOverwritesUnseen
=============================================================================
