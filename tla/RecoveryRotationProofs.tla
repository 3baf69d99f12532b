----------------------- MODULE RecoveryRotationProofs ------------------------
(***************************************************************************)
(* The recovery codes of an account, for any number of devices, calls and  *)
(* proofs: at most one code is current, a saved code works until the step  *)
(* that replaces it, a proof pays once, and a page that shows a code shows *)
(* its account.                                                            *)
(***************************************************************************)
EXTENDS RecoveryRotation, FiniteSetTheorems, SequenceTheorems, TLAPS

(***************************************************************************)
(* Sequences that are appended to or changed in one place                  *)
(***************************************************************************)
LEMMA Appended ==
    ASSUME NEW S, NEW s \in Seq(S), NEW x \in S
    PROVE  /\ Append(s, x) \in Seq(S) /\ Len(Append(s, x)) = Len(s) + 1 /\ Len(s) \in Nat
           /\ \A i \in DOMAIN s : Append(s, x)[i] = s[i]
           /\ Append(s, x)[Len(s) + 1] = x
           /\ DOMAIN s = 1..Len(s) /\ DOMAIN Append(s, x) = 1..(Len(s) + 1)
OBVIOUS

LEMMA Changed ==
    ASSUME NEW S, NEW s \in Seq(S), NEW i \in DOMAIN s, NEW x \in S
    PROVE  /\ [s EXCEPT ![i] = x] \in Seq(S) /\ Len([s EXCEPT ![i] = x]) = Len(s) /\ Len(s) \in Nat
           /\ \A j \in DOMAIN s : [s EXCEPT ![i] = x][j] = IF j = i THEN x ELSE s[j]
           /\ DOMAIN s = 1..Len(s) /\ DOMAIN [s EXCEPT ![i] = x] = 1..Len(s)
BY ExceptSeq, LenProperties

(***************************************************************************)
(* The invariant: the store, the requests and the pages                    *)
(***************************************************************************)
CredRows == [sec : Nat, gen : Nat \ {0}, live : BOOLEAN, saved : BOOLEAN]
ProofRows == [page : Pages, state : {"live", "used", "expired"}]
RotationRows == [page : Pages, key : Nat, proof : Nat, old : Nat, sec : Nat, gen : Nat,
                 state : {"open", "confirmed", "expired"}]
CallRows == [page : Pages, kind : {"create", "start", "save", "finish", "over"},
             pc : {"read", "commit", "answer", "done"}, proof : Nat, key : Nat, at : Nat, sent : Nat,
             row : Nat, gen : Nat, ans : {"none", "ok", "auth", "gone", "conflict"}]
Summaries == [saved : BOOLEAN, gen : Nat]
ShownRows == [rotation : BOOLEAN, at : Nat, sec : Nat]
PageRows == [sum : Summaries \union {None}, shown : ShownRows \union {None},
             intent : {"none", "create", "rotate"}, key : Nat, proof : Nat, call : Nat, fresh : BOOLEAN]

\* Generations grow, and only the newest code is current.
Ordered ==
    \A i, j \in DOMAIN creds : i < j => creds[i].gen < creds[j].gen /\ ~creds[i].live

\* A rotation replaces a code by the generation after it, and its proof is used.
RotationOk(i) ==
    /\ rotations[i].old \in DOMAIN creds
    /\ rotations[i].gen = creds[rotations[i].old].gen + 1
    /\ rotations[i].sec \in 1..Len(calls)
    /\ rotations[i].proof \in DOMAIN proofs
    /\ proofs[rotations[i].proof].state = "used"

StoreOk ==
    /\ creds \in Seq(CredRows) /\ proofs \in Seq(ProofRows) /\ rotations \in Seq(RotationRows)
    /\ alive \in [Pages -> BOOLEAN] /\ kept \in SUBSET Nat
    /\ Ordered
    /\ \A i \in DOMAIN creds : creds[i].sec \in 0..Len(calls)
    /\ \A i \in DOMAIN rotations : RotationOk(i)
    /\ \A i, j \in DOMAIN rotations : i # j => rotations[i].proof # rotations[j].proof

\* What a request that creates a code has read: the generation of the code it may
\* replace or, when there was none, the newest generation, unless a code has come
\* since.  It is current or was used, and using it ended every session.
CreateRead(r) ==
    /\ r.row # 0 => r.row \in DOMAIN creds /\ r.gen = creds[r.row].gen
    /\ r.row = 0 /\ alive[r.page] /\ Live = {} => \A i \in DOMAIN creds : creds[i].gen <= r.gen

RequestOk(r) ==
    /\ r \in CallRows
    /\ r.proof \in 0..Len(proofs)
    /\ r.kind = "create" /\ r.pc = "commit" => CreateRead(r)
    /\ r.kind = "start" /\ ((r.pc = "commit" /\ r.at # 0) \/ (r.pc = "answer" /\ r.ans = "ok"))
           => r.at \in DOMAIN rotations
    /\ r.kind = "start" /\ r.pc = "read" => r.at = 0
    /\ r.kind = "finish" /\ r.pc = "read" => r.at \in DOMAIN rotations /\ r.sent \in kept

\* A page that shows a code, or whose answer may still count, shows its account.
PageOk(g) ==
    /\ g \in PageRows
    /\ g.proof \in 0..Len(proofs) /\ g.call \in 0..Len(calls)
    /\ g.shown # None => g.sum # None
    /\ g.shown # None /\ g.shown.rotation => g.shown.at \in DOMAIN rotations
    /\ g.call # 0 /\ g.fresh => g.sum # None

Inductive ==
    /\ StoreOk
    /\ calls \in Seq(CallRows) /\ \A c \in DOMAIN calls : RequestOk(calls[c])
    /\ page \in [Pages -> PageRows] /\ \A p \in Pages : PageOk(page[p])

-----------------------------------------------------------------------------
\* What every step does to the store as far as requests and pages rely on it.
Grows ==
    /\ Len(creds) <= Len(creds') /\ \A i \in DOMAIN creds : creds'[i].gen = creds[i].gen
    /\ Len(rotations) <= Len(rotations') /\ Len(proofs) <= Len(proofs') /\ Len(calls) <= Len(calls')
    /\ kept \subseteq kept'
    /\ \A p \in Pages : alive'[p] => alive[p]
    /\ creds' = creds \/ Live' # {} \/ \A p \in Pages : ~alive'[p]

LEMMA RequestStays ==
    ASSUME StoreOk, StoreOk', Grows, NEW r, RequestOk(r)
    PROVE  RequestOk(r)'
<1>1. /\ DOMAIN creds = 1..Len(creds) /\ DOMAIN creds' = 1..Len(creds')
      /\ DOMAIN rotations = 1..Len(rotations) /\ DOMAIN rotations' = 1..Len(rotations')
      /\ Len(creds) \in Nat /\ Len(creds') \in Nat /\ Len(rotations) \in Nat /\ Len(rotations') \in Nat
      /\ Len(proofs) \in Nat /\ Len(proofs') \in Nat
    BY LenProperties DEF StoreOk
<1>2. CreateRead(r) /\ r \in CallRows => CreateRead(r)'
    BY <1>1 DEF CreateRead, Grows, CallRows, Live
<1> QED BY <1>1, <1>2 DEF RequestOk, Grows

LEMMA PageStays ==
    ASSUME StoreOk, StoreOk', calls \in Seq(CallRows), calls' \in Seq(CallRows), Grows, NEW g, PageOk(g)
    PROVE  PageOk(g)'
<1>1. /\ DOMAIN rotations = 1..Len(rotations) /\ DOMAIN rotations' = 1..Len(rotations')
      /\ Len(rotations) \in Nat /\ Len(rotations') \in Nat
      /\ Len(proofs) \in Nat /\ Len(proofs') \in Nat /\ Len(calls) \in Nat /\ Len(calls') \in Nat
    BY LenProperties DEF StoreOk
<1> QED BY <1>1 DEF PageOk, Grows

\* A step keeps the invariant when it keeps the store and what it writes is right.
LEMMA StepKeeps ==
    ASSUME Inductive, Grows, StoreOk', calls' \in Seq(CallRows), page' \in [Pages -> PageRows],
           \A c \in DOMAIN calls' :
               \/ c \in DOMAIN calls /\ calls'[c] = calls[c]
               \/ RequestOk(calls[c])',
           \A p \in Pages : page'[p] = page[p] \/ PageOk(page[p])'
    PROVE  Inductive'
<1>1. \A c \in DOMAIN calls' : RequestOk(calls[c])'
    <2> SUFFICES ASSUME NEW c \in DOMAIN calls', c \in DOMAIN calls, calls'[c] = calls[c]
                 PROVE  RequestOk(calls[c])'
        OBVIOUS
    <2> DEFINE r == calls[c]
    <2>1. RequestOk(r) /\ StoreOk /\ calls'[c] = r
        BY DEF Inductive
    <2>2. PICK q : q = r
        OBVIOUS
    <2>3. RequestOk(q)'
        BY <2>1, <2>2, RequestStays
    <2>4. calls'[c] = q
        BY <2>1, <2>2
    <2> QED BY <2>3, <2>4 DEF RequestOk, CreateRead
<1>2. \A p \in Pages : PageOk(page[p])'
    <2> SUFFICES ASSUME NEW p \in Pages, page'[p] = page[p]
                 PROVE  PageOk(page[p])'
        OBVIOUS
    <2>1. PICK g : g = page[p]
        OBVIOUS
    <2>2. PageOk(g) /\ StoreOk /\ calls \in Seq(CallRows)
        BY <2>1 DEF Inductive
    <2>3. PageOk(g)'
        BY <2>2, PageStays
    <2>4. page'[p] = g
        BY <2>1
    <2> QED BY <2>3, <2>4 DEF PageOk
<1> QED BY <1>1, <1>2 DEF Inductive

LEMMA HandlerKeeps ==
    ASSUME Inductive, Grows, StoreOk', NEW c \in DOMAIN calls, NEW r, RequestOk(r)',
           calls' = [calls EXCEPT ![c] = r], UNCHANGED page
    PROVE  Inductive'
<1>1. r \in CallRows /\ calls \in Seq(CallRows)
    BY DEF RequestOk, Inductive
<1>2. /\ calls' \in Seq(CallRows) /\ DOMAIN calls' = DOMAIN calls
      /\ \A d \in DOMAIN calls : calls'[d] = IF d = c THEN r ELSE calls[d]
    BY <1>1, Changed
<1>3. RequestOk(calls[c])'
    BY <1>2 DEF RequestOk, CreateRead
<1>4. page' \in [Pages -> PageRows]
    BY DEF Inductive
<1> QED BY <1>2, <1>3, <1>4, StepKeeps

\* The store stays as it is but for proofs that are added, used or expire.
LEMMA StoreStays ==
    ASSUME StoreOk, UNCHANGED <<creds, rotations>>, proofs' \in Seq(ProofRows),
           \A k \in DOMAIN proofs : /\ k \in DOMAIN proofs'
                                    /\ proofs[k].state = "used" => proofs'[k].state = "used",
           alive' \in [Pages -> BOOLEAN], kept' \in SUBSET Nat,
           calls \in Seq(CallRows), calls' \in Seq(CallRows), Len(calls) <= Len(calls')
    PROVE  StoreOk'
<1>1. Len(calls) \in Nat /\ Len(calls') \in Nat
    BY LenProperties
<1>2. ASSUME NEW i \in DOMAIN rotations
      PROVE  RotationOk(i)'
    <2>1. RotationOk(i)
        BY DEF StoreOk
    <2>2. rotations[i].sec \in 1..Len(calls')
        BY <1>1, <2>1 DEF RotationOk
    <2> QED BY <2>1, <2>2 DEF RotationOk
<1> QED BY <1>1, <1>2 DEF StoreOk, Ordered

LEMMA NothingStored ==
    ASSUME Inductive, UNCHANGED <<creds, rotations, proofs, alive, kept>>, calls' \in Seq(CallRows),
           Len(calls) <= Len(calls')
    PROVE  StoreOk' /\ Grows
<1>1. StoreOk /\ calls \in Seq(CallRows)
    BY DEF Inductive
<1>2. StoreOk'
    BY <1>1, StoreStays DEF StoreOk
<1>3. Len(creds) \in Nat /\ Len(rotations) \in Nat /\ Len(proofs) \in Nat
    BY <1>1, LenProperties DEF StoreOk
<1> QED BY <1>2, <1>3 DEF Grows

-----------------------------------------------------------------------------
(***************************************************************************)
(* The codes                                                               *)
(***************************************************************************)
LEMMA LastIsGreatest ==
    ASSUME StoreOk
    PROVE  /\ LastGeneration \in Nat
           /\ \A i \in DOMAIN creds : creds[i].gen <= LastGeneration
           /\ \A i \in Live : i = Len(creds) /\ creds[i].gen = LastGeneration
<1>0. creds \in Seq(CredRows) /\ DOMAIN creds = 1..Len(creds) /\ Len(creds) \in Nat
    BY LenProperties DEF StoreOk
<1>1. \A i \in DOMAIN creds : creds[i].gen \in Nat
    <2>1. \A i \in DOMAIN creds : creds[i] \in CredRows
        BY <1>0, ElementOfSeq
    <2> QED BY <2>1 DEF CredRows
<1>2. CASE creds = <<>>
    BY <1>0, <1>2 DEF LastGeneration, Live
<1>3. CASE creds # <<>>
    <2> DEFINE gens == {creds[i].gen : i \in DOMAIN creds}
    <2>1. Len(creds) \in DOMAIN creds
        BY <1>0, <1>3
    <2>2. \A i \in DOMAIN creds : creds[i].gen <= creds[Len(creds)].gen
        <3>1. \A i \in DOMAIN creds : i < Len(creds) => creds[i].gen < creds[Len(creds)].gen
            BY <2>1 DEF StoreOk, Ordered
        <3>2. \A i \in DOMAIN creds : i = Len(creds) \/ i < Len(creds)
            BY <1>0
        <3> QED BY <1>1, <2>1, <3>1, <3>2
    <2>3. \E g \in gens : \A i \in DOMAIN creds : creds[i].gen <= g
        BY <2>1, <2>2
    <2>4. LastGeneration \in gens /\ \A i \in DOMAIN creds : creds[i].gen <= LastGeneration
        BY <1>3, <2>3 DEF LastGeneration
    <2>5. LastGeneration = creds[Len(creds)].gen /\ LastGeneration \in Nat
        BY <1>1, <2>1, <2>2, <2>4
    <2>6. \A i \in Live : i = Len(creds)
        BY <1>0, <2>1 DEF StoreOk, Ordered, Live
    <2> QED BY <2>4, <2>5, <2>6
<1> QED BY <1>2, <1>3

\* A new code after all others, which are not current any more.
LEMMA CodeAppended ==
    ASSUME StoreOk, NEW base \in Seq(CredRows), Len(base) = Len(creds),
           \A i \in DOMAIN creds :
               base[i].gen = creds[i].gen /\ base[i].sec = creds[i].sec /\ ~base[i].live,
           NEW code \in CredRows, code.live, code.sec \in 0..Len(calls'),
           \A i \in DOMAIN creds : creds[i].gen < code.gen,
           calls \in Seq(CallRows), calls' \in Seq(CallRows), Len(calls) <= Len(calls'),
           creds' = Append(base, code)
    PROVE  /\ creds' \in Seq(CredRows) /\ Ordered' /\ Len(creds) <= Len(creds')
           /\ \A i \in DOMAIN creds : i \in DOMAIN creds' /\ creds'[i].gen = creds[i].gen
           /\ \A i \in DOMAIN creds' : creds'[i].sec \in 0..Len(calls')
           /\ Live' # {}
<1>0. /\ creds \in Seq(CredRows) /\ DOMAIN creds = 1..Len(creds) /\ Len(creds) \in Nat
      /\ DOMAIN base = 1..Len(creds) /\ Len(calls) \in Nat /\ Len(calls') \in Nat
    BY LenProperties DEF StoreOk
<1>1. /\ creds' \in Seq(CredRows) /\ Len(creds') = Len(creds) + 1
      /\ DOMAIN creds' = 1..(Len(creds) + 1)
      /\ \A i \in DOMAIN creds : creds'[i] = base[i]
      /\ creds'[Len(creds) + 1] = code
    BY <1>0, Appended
<1>2. Ordered'
    <2> SUFFICES ASSUME NEW i \in DOMAIN creds', NEW j \in DOMAIN creds', i < j
                 PROVE  creds'[i].gen < creds'[j].gen /\ ~creds'[i].live
        BY DEF Ordered
    <2>1. i \in DOMAIN creds /\ creds'[i].gen = creds[i].gen /\ ~creds'[i].live
        BY <1>0, <1>1
    <2>2. CASE j \in DOMAIN creds
        <3>1. creds'[j].gen = creds[j].gen
            BY <1>1, <2>2
        <3> QED BY <2>1, <2>2, <3>1 DEF StoreOk, Ordered
    <2>3. CASE j = Len(creds) + 1
        BY <1>1, <2>1, <2>3
    <2> QED BY <1>0, <1>1, <2>2, <2>3
<1>3. \A i \in DOMAIN creds' : creds'[i].sec \in 0..Len(calls')
    BY <1>0, <1>1 DEF StoreOk
<1>4. Len(creds) + 1 \in Live'
    BY <1>0, <1>1 DEF Live
<1> QED BY <1>0, <1>1, <1>2, <1>3, <1>4

LEMMA StoreMoves ==
    ASSUME Inductive, calls' \in Seq(CallRows), Len(calls) <= Len(calls'),
           creds' \in Seq(CredRows), Ordered', Len(creds) <= Len(creds'),
           \A i \in DOMAIN creds : i \in DOMAIN creds' /\ creds'[i].gen = creds[i].gen,
           \A i \in DOMAIN creds' : creds'[i].sec \in 0..Len(calls'),
           rotations' \in Seq(RotationRows), Len(rotations) <= Len(rotations'),
           \A i \in DOMAIN rotations' :
               \/ /\ i \in DOMAIN rotations
                  /\ rotations'[i].old = rotations[i].old /\ rotations'[i].gen = rotations[i].gen
                  /\ rotations'[i].proof = rotations[i].proof
                  /\ rotations'[i].sec \in {rotations[i].sec} \union 1..Len(calls')
               \/ RotationOk(i)',
           \A i, j \in DOMAIN rotations' : i # j => rotations'[i].proof # rotations'[j].proof,
           proofs' \in Seq(ProofRows), Len(proofs) <= Len(proofs'),
           \A k \in DOMAIN proofs : proofs[k].state = "used" => proofs'[k].state = "used",
           alive' \in [Pages -> BOOLEAN], \A p \in Pages : alive'[p] => alive[p],
           kept' = kept,
           creds' = creds \/ Live' # {} \/ \A p \in Pages : ~alive'[p]
    PROVE  StoreOk' /\ Grows
<1>0. /\ DOMAIN creds = 1..Len(creds) /\ Len(creds) \in Nat
      /\ DOMAIN proofs = 1..Len(proofs) /\ DOMAIN proofs' = 1..Len(proofs')
      /\ Len(proofs) \in Nat /\ Len(proofs') \in Nat /\ Len(calls) \in Nat /\ Len(calls') \in Nat
      /\ StoreOk
    BY LenProperties DEF StoreOk, Inductive
<1>1. ASSUME NEW i \in DOMAIN rotations', i \in DOMAIN rotations,
             rotations'[i].old = rotations[i].old, rotations'[i].gen = rotations[i].gen,
             rotations'[i].proof = rotations[i].proof,
             rotations'[i].sec \in {rotations[i].sec} \union 1..Len(calls')
      PROVE  RotationOk(i)'
    <2>1. RotationOk(i)
        BY <1>0, <1>1 DEF StoreOk
    <2>2. rotations'[i].old \in DOMAIN creds' /\ rotations'[i].gen = creds'[rotations'[i].old].gen + 1
        BY <1>1, <2>1 DEF RotationOk
    <2>3. rotations'[i].proof \in DOMAIN proofs' /\ proofs'[rotations'[i].proof].state = "used"
        BY <1>0, <1>1, <2>1 DEF RotationOk
    <2>4. rotations'[i].sec \in 1..Len(calls')
        BY <1>0, <1>1, <2>1 DEF RotationOk
    <2> QED BY <2>2, <2>3, <2>4 DEF RotationOk
<1>2. \A i \in DOMAIN rotations' : RotationOk(i)'
    BY <1>1
<1>3. StoreOk'
    BY <1>0, <1>2 DEF StoreOk
<1> QED BY <1>3 DEF Grows

-----------------------------------------------------------------------------
(***************************************************************************)
(* The handlers                                                            *)
(***************************************************************************)
Answers == {"none", "ok", "auth", "gone", "conflict"}

LEMMA ReplyIs ==
    ASSUME Inductive, NEW c \in DOMAIN calls, NEW answer \in Answers, Reply(c, answer)
    PROVE  \E r \in CallRows :
               /\ calls' = [calls EXCEPT ![c] = r]
               /\ r.proof = calls[c].proof /\ r.pc = "answer" /\ r.ans = answer
               /\ r.kind = calls[c].kind /\ r.at = calls[c].at
<1> DEFINE r == [calls[c] EXCEPT !.pc = "answer", !.ans = answer]
<1>0. calls[c] \in CallRows /\ calls \in Seq(CallRows)
    BY ElementOfSeq, LenProperties DEF Inductive
<1>1. calls' = [calls EXCEPT ![c] = r]
    BY <1>0, LenProperties DEF Reply
<1>2. /\ r \in CallRows /\ r.proof = calls[c].proof /\ r.pc = "answer" /\ r.ans = answer
      /\ r.kind = calls[c].kind /\ r.at = calls[c].at
    BY <1>0 DEF CallRows, Answers
<1> HIDE DEF r
<1> QED BY <1>1, <1>2

LEMMA CallsAfter ==
    ASSUME Inductive, NEW c \in DOMAIN calls, NEW r \in CallRows, calls' = [calls EXCEPT ![c] = r]
    PROVE  /\ calls' \in Seq(CallRows) /\ Len(calls') = Len(calls) /\ Len(calls) \in Nat
           /\ c \in 1..Len(calls')
BY Changed, LenProperties DEF Inductive

LEMMA RepliesAfter ==
    ASSUME Inductive, NEW c \in DOMAIN calls, NEW answer \in Answers, Reply(c, answer)
    PROVE  /\ calls' \in Seq(CallRows) /\ Len(calls') = Len(calls) /\ Len(calls) \in Nat
           /\ c \in 1..Len(calls')
BY ReplyIs, CallsAfter

LEMMA ReplyKeeps ==
    ASSUME Inductive, Grows, StoreOk', NEW c \in DOMAIN calls, NEW answer \in Answers, Reply(c, answer),
           calls[c].kind = "start" /\ answer = "ok" => calls[c].at \in DOMAIN rotations',
           UNCHANGED page
    PROVE  Inductive'
<1>0. RequestOk(calls[c]) /\ Len(proofs) \in Nat /\ Len(proofs') \in Nat
    BY LenProperties DEF Inductive, StoreOk
<1>1. PICK r \in CallRows :
               /\ calls' = [calls EXCEPT ![c] = r]
               /\ r.proof = calls[c].proof /\ r.pc = "answer" /\ r.ans = answer
               /\ r.kind = calls[c].kind /\ r.at = calls[c].at
    BY ReplyIs
<1>2. RequestOk(r)'
    BY <1>0, <1>1 DEF RequestOk, Grows
<1> QED BY <1>1, <1>2, HandlerKeeps

\* A handler that only reads, or refuses, leaves the store as it was.
LEMMA RefusalKeeps ==
    ASSUME Inductive, NEW c \in DOMAIN calls, NEW answer \in Answers, Reply(c, answer), answer # "ok",
           UNCHANGED <<Stored, Around>>
    PROVE  Inductive'
<1>0. calls' \in Seq(CallRows) /\ Len(calls) <= Len(calls')
    BY RepliesAfter
<1>1. StoreOk' /\ Grows /\ page' = page
    BY <1>0, NothingStored DEF Stored, Around
<1> QED BY <1>1, ReplyKeeps

LEMMA ReadingKeeps ==
    ASSUME Inductive, NEW c \in DOMAIN calls, NEW r \in CallRows, RequestOk(r),
           calls' = [calls EXCEPT ![c] = r], UNCHANGED <<Stored, Around>>
    PROVE  Inductive'
<1>0a. calls' \in Seq(CallRows) /\ Len(calls') = Len(calls) /\ Len(calls) \in Nat
    BY ONLY Inductive, c \in DOMAIN calls, r \in CallRows, calls' = [calls EXCEPT ![c] = r], CallsAfter
<1>0. calls' \in Seq(CallRows) /\ Len(calls) <= Len(calls')
    BY <1>0a
<1>1. StoreOk' /\ Grows /\ page' = page
    BY <1>0, NothingStored DEF Stored, Around
<1>2. RequestOk(r)'
    BY <1>1, RequestStays DEF Inductive
<1> QED BY <1>1, <1>2, HandlerKeeps

LEMMA ReadCreateKeeps ==
    ASSUME Inductive, NEW c \in DOMAIN calls, ReadCreate(c)
    PROVE  Inductive'
<1>0. /\ calls[c] \in CallRows /\ calls \in Seq(CallRows) /\ RequestOk(calls[c]) /\ StoreOk
      /\ UNCHANGED <<Stored, Around>> /\ calls[c].kind = "create" /\ calls[c].pc = "read"
    BY ElementOfSeq, LenProperties DEF Inductive, ReadCreate, Reads
<1>1. CASE Reply(c, "gone") \/ Reply(c, "conflict")
    BY <1>0, <1>1, RefusalKeeps DEF Answers
<1>2. CASE calls' = [calls EXCEPT ![c].pc = "commit", ![c].gen = LastGeneration,
                       ![c].row = IF Live = {} THEN 0 ELSE CHOOSE i \in Live : TRUE]
    <2> DEFINE row == IF Live = {} THEN 0 ELSE CHOOSE i \in Live : TRUE
               r == [calls[c] EXCEPT !.pc = "commit", !.gen = LastGeneration, !.row = row]
    <2>1. /\ Live # {} => row \in Live
          /\ Live = {} => row = 0
        OBVIOUS
    <2>2. DOMAIN creds = 1..Len(creds) /\ Len(creds) \in Nat /\ Live \subseteq DOMAIN creds
        BY <1>0, LenProperties DEF StoreOk, Live
    <2>3. calls' = [calls EXCEPT ![c] = r]
        BY <1>0, <1>2, LenProperties
    <2> HIDE DEF row
    <2>4. row \in Nat /\ (row # 0 => row \in Live)
        BY <2>1, <2>2
    <2>5. LastGeneration \in Nat /\ (row # 0 => creds[row].gen = LastGeneration)
          /\ \A i \in DOMAIN creds : creds[i].gen <= LastGeneration
        BY <1>0, <2>4, LastIsGreatest
    <2>6. /\ r \in CallRows /\ r.row = row /\ r.gen = LastGeneration /\ r.kind = "create"
          /\ r.proof = calls[c].proof
        BY <1>0, <2>4, <2>5 DEF CallRows
    <2> HIDE DEF r
    <2>7. CreateRead(r)
        BY <2>2, <2>4, <2>5, <2>6 DEF CreateRead
    <2>8. RequestOk(r)
        BY <1>0, <2>6, <2>7 DEF RequestOk
    <2> QED BY <1>0, <2>3, <2>6, <2>8, ReadingKeeps
<1> QED BY <1>1, <1>2 DEF ReadCreate

\* The code that was read is still the one that a new code may replace: the new
\* generation is then greater than all.
LEMMA NextGeneration ==
    ASSUME StoreOk, NEW r \in CallRows, CreateRead(r), Replaceable(r.row), alive[r.page]
    PROVE  /\ r.row # 0 => r.row \in DOMAIN creds
           /\ \A i \in Live : i = r.row
           /\ \A i \in DOMAIN creds : creds[i].gen <= r.gen
<1>1. r.row # 0 => r.row \in Live /\ creds[r.row].gen = LastGeneration
    BY LastIsGreatest DEF Replaceable
<1>2. \A i \in Live : i = r.row
    BY <1>1, LastIsGreatest DEF Replaceable
<1> QED BY <1>1, <1>2, LastIsGreatest DEF CreateRead, Live, Replaceable

\* A code loses its life, or nothing happens, in a sequence of codes.
LEMMA Retired ==
    ASSUME StoreOk, NEW row, row # 0 => row \in DOMAIN creds
    PROVE  LET base == IF row = 0 THEN creds ELSE [creds EXCEPT ![row].live = FALSE]
           IN  /\ base \in Seq(CredRows) /\ Len(base) = Len(creds)
               /\ \A i \in DOMAIN creds :
                      /\ base[i].gen = creds[i].gen /\ base[i].sec = creds[i].sec
                      /\ base[i].saved = creds[i].saved
                      /\ base[i].live = (creds[i].live /\ i # row)
<1>0. creds \in Seq(CredRows) /\ DOMAIN creds = 1..Len(creds)
    BY LenProperties DEF StoreOk
<1>1. \A i \in DOMAIN creds : creds[i] \in CredRows
    BY <1>0, ElementOfSeq
<1>2. CASE row = 0
    BY <1>0, <1>1, <1>2 DEF CredRows
<1>3. CASE row # 0
    <2> DEFINE code == [creds[row] EXCEPT !.live = FALSE]
    <2>1. /\ code \in CredRows /\ code.gen = creds[row].gen /\ code.sec = creds[row].sec
          /\ code.saved = creds[row].saved /\ code.live = FALSE
        BY <1>1, <1>3 DEF CredRows
    <2>2. [creds EXCEPT ![row].live = FALSE] = [creds EXCEPT ![row] = code]
        OBVIOUS
    <2> HIDE DEF code
    <2> DEFINE base == [creds EXCEPT ![row] = code]
    <2>3. /\ base \in Seq(CredRows) /\ Len(base) = Len(creds)
          /\ \A i \in DOMAIN creds : base[i] = IF i = row THEN code ELSE creds[i]
        BY <1>0, <1>3, <2>1, Changed
    <2> HIDE DEF base
    <2>4. \A i \in DOMAIN creds :
                      /\ base[i].gen = creds[i].gen /\ base[i].sec = creds[i].sec
                      /\ base[i].saved = creds[i].saved
                      /\ base[i].live = (creds[i].live /\ i # row)
        BY <1>1, <2>1, <2>3 DEF CredRows
    <2> QED BY <1>3, <2>2, <2>3, <2>4 DEF base
<1> QED BY <1>2, <1>3

\* A proof that is spent stays in its place, and no other changes.
LEMMA SpentOk ==
    ASSUME StoreOk, NEW k \in 0..Len(proofs), NEW p \in Pages
    PROVE  /\ Spent(k, p) \in Seq(ProofRows) /\ Len(Spent(k, p)) = Len(proofs)
           /\ DOMAIN Spent(k, p) = DOMAIN proofs
           /\ \A i \in DOMAIN proofs : proofs[i].state = "used" => Spent(k, p)[i].state = "used"
           /\ Good(k, p) => k \in DOMAIN proofs /\ proofs[k].state = "live"
<1>0. proofs \in Seq(ProofRows) /\ DOMAIN proofs = 1..Len(proofs) /\ Len(proofs) \in Nat
    BY LenProperties DEF StoreOk
<1>1. \A i \in DOMAIN proofs : proofs[i] \in ProofRows
    BY <1>0, ElementOfSeq
<1>2. CASE Good(k, p)
    <2> DEFINE row == [proofs[k] EXCEPT !.state = "used"]
    <2>1. k \in DOMAIN proofs /\ proofs[k].state = "live"
        BY <1>0, <1>2 DEF Good
    <2>2. row \in ProofRows /\ row.state = "used"
        BY <1>1, <2>1 DEF ProofRows
    <2>3. Spent(k, p) = [proofs EXCEPT ![k] = row]
        BY <1>2 DEF Spent
    <2> HIDE DEF row
    <2>4. /\ [proofs EXCEPT ![k] = row] \in Seq(ProofRows)
          /\ Len([proofs EXCEPT ![k] = row]) = Len(proofs)
          /\ DOMAIN [proofs EXCEPT ![k] = row] = DOMAIN proofs
          /\ \A i \in DOMAIN proofs : [proofs EXCEPT ![k] = row][i] = IF i = k THEN row ELSE proofs[i]
        BY <1>0, <2>1, <2>2, Changed
    <2> QED BY <2>1, <2>2, <2>3, <2>4
<1>3. CASE ~Good(k, p)
    BY <1>0, <1>3 DEF Spent
<1> QED BY <1>2, <1>3

LEMMA CodesTyped ==
    ASSUME StoreOk
    PROVE  \A i \in DOMAIN creds : creds[i] \in CredRows /\ creds[i].gen \in Nat
<1>1. \A i \in DOMAIN creds : creds[i] \in CredRows
    BY ElementOfSeq, LenProperties DEF StoreOk
<1> QED BY <1>1 DEF CredRows

LEMMA AnsweredWith ==
    ASSUME NEW r \in CallRows, NEW at \in Nat
    PROVE  \E q \in CallRows :
               /\ q = [r EXCEPT !.pc = "answer", !.ans = "ok", !.at = at]
               /\ q.kind = r.kind /\ q.pc = "answer" /\ q.ans = "ok" /\ q.at = at /\ q.proof = r.proof
<1> DEFINE q == [r EXCEPT !.pc = "answer", !.ans = "ok", !.at = at]
<1>1. q \in CallRows
    BY DEF CallRows
<1>2. q.kind = r.kind /\ q.pc = "answer" /\ q.ans = "ok" /\ q.at = at /\ q.proof = r.proof
    BY DEF CallRows
<1> QED BY <1>1, <1>2

LEMMA CommitCreateKeeps ==
    ASSUME Inductive, NEW c \in DOMAIN calls, CommitCreate(c)
    PROVE  Inductive'
<1> DEFINE r == calls[c]
<1>0. /\ r \in CallRows /\ calls \in Seq(CallRows) /\ RequestOk(r) /\ StoreOk
      /\ UNCHANGED <<rotations, Around>> /\ r.kind = "create" /\ r.pc = "commit"
    BY ElementOfSeq, LenProperties DEF Inductive, CommitCreate, Commits
<1>1. CASE alive[r.page] /\ Eligible(r.page, r.proof) /\ Replaceable(r.row)
    <2> DEFINE base == IF r.row = 0 THEN creds ELSE [creds EXCEPT ![r.row].live = FALSE]
               code == [sec |-> c, gen |-> r.gen + 1, live |-> TRUE, saved |-> FALSE]
    <2>1. creds' = Append(base, code) /\ proofs' = Spent(r.proof, r.page)
        BY <1>1 DEF CommitCreate
    <2>2. /\ r.row # 0 => r.row \in DOMAIN creds
          /\ \A i \in Live : i = r.row
          /\ \A i \in DOMAIN creds : creds[i].gen <= r.gen
          /\ CreateRead(r)
        BY <1>0, <1>1, NextGeneration DEF RequestOk
    <2>3. DOMAIN calls = 1..Len(calls) /\ Len(calls) \in Nat /\ Len(creds) \in Nat
        BY <1>0, LenProperties DEF StoreOk
    <2>4. PICK q \in CallRows :
               /\ q = [r EXCEPT !.pc = "answer", !.ans = "ok", !.at = Len(creds) + 1]
               /\ q.kind = r.kind /\ q.pc = "answer" /\ q.ans = "ok" /\ q.at = Len(creds) + 1
               /\ q.proof = r.proof
        <3>1. Len(creds) + 1 \in Nat
            BY <2>3
        <3>2. r \in CallRows
            BY <1>0
        <3> HIDE DEF r
        <3> QED BY ONLY <3>1, <3>2, AnsweredWith
    <2>5. calls' = [calls EXCEPT ![c] = q]
        BY <1>0, <1>1, <2>3, <2>4 DEF CommitCreate
    <2>6. code \in CredRows /\ code.live /\ code.sec = c /\ code.gen = r.gen + 1 /\ r.gen \in Nat
          /\ r.proof \in 0..Len(proofs) /\ r.page \in Pages
        <3>1. r.gen \in Nat /\ r.page \in Pages /\ r.proof \in 0..Len(proofs)
            BY <1>0 DEF CallRows, RequestOk
        <3>2. c \in Nat /\ r.gen + 1 \in Nat \ {0}
            BY <2>3, <3>1
        <3> QED BY <3>1, <3>2 DEF CredRows
    <2>7. /\ base \in Seq(CredRows) /\ Len(base) = Len(creds)
          /\ \A i \in DOMAIN creds :
                 base[i].gen = creds[i].gen /\ base[i].sec = creds[i].sec
                 /\ base[i].live = (creds[i].live /\ i # r.row)
        BY <1>0, <2>2, Retired
    <2>8. \A i \in DOMAIN creds : ~base[i].live
        BY <2>2, <2>7 DEF Live
    <2>9. \A i \in DOMAIN creds : creds[i].gen < r.gen + 1
        <3>1. \A i \in DOMAIN creds : creds[i].gen \in Nat
            BY <1>0, CodesTyped
        <3> QED BY <2>2, <2>6, <3>1
    <2> HIDE DEF base, code
    <2>10. /\ calls' \in Seq(CallRows) /\ Len(calls') = Len(calls) /\ Len(calls) \in Nat
           /\ c \in 1..Len(calls')
        BY ONLY Inductive, c \in DOMAIN calls, q \in CallRows, <2>5, CallsAfter
    <2>11. code.sec \in 0..Len(calls') /\ Len(calls) <= Len(calls')
        BY <2>6, <2>10
    <2>12. \A i \in DOMAIN creds : creds[i].gen < code.gen
        BY <2>6, <2>9
    <2>13. /\ creds' \in Seq(CredRows) /\ Ordered' /\ Len(creds) <= Len(creds')
           /\ \A i \in DOMAIN creds : i \in DOMAIN creds' /\ creds'[i].gen = creds[i].gen
           /\ \A i \in DOMAIN creds' : creds'[i].sec \in 0..Len(calls')
           /\ Live' # {}
        BY <1>0, <2>1, <2>6, <2>7, <2>8, <2>10, <2>11, <2>12, CodeAppended
    <2>14. /\ proofs' \in Seq(ProofRows) /\ Len(proofs) <= Len(proofs')
           /\ \A k \in DOMAIN proofs : proofs[k].state = "used" => proofs'[k].state = "used"
        <3>1. Len(proofs) \in Nat
            BY <1>0, LenProperties DEF StoreOk
        <3> QED BY <1>0, <2>1, <2>6, <3>1, SpentOk
    <2>15. StoreOk' /\ Grows
        <3>1. /\ rotations' \in Seq(RotationRows) /\ Len(rotations) <= Len(rotations')
              /\ rotations' = rotations /\ kept' = kept /\ alive' = alive /\ alive \in [Pages -> BOOLEAN]
              /\ \A i, j \in DOMAIN rotations : i # j => rotations[i].proof # rotations[j].proof
            BY <1>0, LenProperties DEF StoreOk, Around
        <3> QED BY <2>10, <2>11, <2>13, <2>14, <3>1, StoreMoves
    <2>16. RequestOk(q)'
        <3>1. Len(proofs) \in Nat /\ Len(proofs') \in Nat
            BY <1>0, <2>14, LenProperties DEF StoreOk
        <3> QED BY <1>0, <2>4, <2>6, <2>14, <3>1 DEF RequestOk
    <2>17. page' = page
        BY <1>0 DEF Around
    <2> QED BY <2>5, <2>15, <2>16, <2>17, HandlerKeeps
<1>2. CASE ~(alive[r.page] /\ Eligible(r.page, r.proof) /\ Replaceable(r.row))
    <2>1. /\ UNCHANGED <<Stored, Around>>
          /\ Reply(c, IF ~alive[r.page] THEN "gone" ELSE IF ~Eligible(r.page, r.proof) THEN "auth" ELSE "conflict")
        BY <1>2 DEF CommitCreate, Stored
    <2>2. Reply(c, "gone") \/ Reply(c, "auth") \/ Reply(c, "conflict")
        BY <2>1
    <2> QED BY <2>1, <2>2, RefusalKeeps DEF Answers
<1> QED BY <1>1, <1>2

LEMMA SaveCodeKeeps ==
    ASSUME Inductive, NEW c \in DOMAIN calls, SaveCode(c)
    PROVE  Inductive'
<1> DEFINE r == calls[c]
<1>0. /\ r \in CallRows /\ RequestOk(r) /\ StoreOk /\ UNCHANGED <<rotations, proofs, Around>>
      /\ r.kind = "save"
    BY ElementOfSeq, LenProperties DEF Inductive, SaveCode, Reads
<1>1. CASE alive[r.page] /\ r.at \in Live /\ creds[r.at].sec = r.sent
    <2> DEFINE at == r.at
               code == [creds[at] EXCEPT !.saved = TRUE]
    <2>1. creds' = [creds EXCEPT ![at] = code] /\ Reply(c, "ok")
        BY <1>1 DEF SaveCode
    <2>2. at \in DOMAIN creds /\ creds[at] \in CredRows /\ creds[at].live
        BY <1>0, <1>1, CodesTyped DEF Live
    <2>3. /\ code \in CredRows /\ code.gen = creds[at].gen /\ code.live = creds[at].live
          /\ code.sec = creds[at].sec
        BY <2>2 DEF CredRows
    <2> HIDE DEF code, at
    <2>4. /\ creds' \in Seq(CredRows) /\ Len(creds') = Len(creds) /\ DOMAIN creds' = DOMAIN creds
          /\ Len(creds) \in Nat
          /\ \A i \in DOMAIN creds : creds'[i] = IF i = at THEN code ELSE creds[i]
        BY <1>0, <2>1, <2>2, <2>3, Changed DEF StoreOk
    <2>5. \A i \in DOMAIN creds : /\ creds'[i].gen = creds[i].gen /\ creds'[i].live = creds[i].live
                                  /\ creds'[i].sec = creds[i].sec
        BY <2>3, <2>4
    <2>6. Ordered'
        BY <1>0, <2>4, <2>5 DEF StoreOk, Ordered
    <2>7. at \in Live'
        BY <2>2, <2>4, <2>5 DEF Live
    <2>8. calls' \in Seq(CallRows) /\ Len(calls') = Len(calls) /\ Len(calls) <= Len(calls')
        BY <2>1, RepliesAfter DEF Answers
    <2>9. \A i \in DOMAIN creds' : creds'[i].sec \in 0..Len(calls')
        BY <1>0, <2>4, <2>5, <2>8 DEF StoreOk
    <2>10. StoreOk' /\ Grows
        <3>1. /\ rotations' \in Seq(RotationRows) /\ Len(rotations) <= Len(rotations')
              /\ rotations' = rotations /\ kept' = kept /\ alive' = alive /\ alive \in [Pages -> BOOLEAN]
              /\ proofs' = proofs /\ proofs \in Seq(ProofRows) /\ Len(proofs) <= Len(proofs')
              /\ Len(creds) <= Len(creds')
              /\ \A i, j \in DOMAIN rotations : i # j => rotations[i].proof # rotations[j].proof
            BY <1>0, <2>4, LenProperties DEF StoreOk, Around
        <3> QED BY <2>4, <2>5, <2>6, <2>7, <2>8, <2>9, <3>1, StoreMoves
    <2>11. page' = page /\ calls[c].kind # "start"
        BY <1>0 DEF Around
    <2> QED BY <2>1, <2>10, <2>11, ReplyKeeps DEF Answers
<1>2. CASE ~(alive[r.page] /\ r.at \in Live /\ creds[r.at].sec = r.sent)
    <2>1. Reply(c, "gone") /\ UNCHANGED <<Stored, Around>>
        BY <1>2 DEF SaveCode, Stored
    <2> QED BY <2>1, RefusalKeeps DEF Answers
<1> QED BY <1>1, <1>2

LEMMA ReadStartKeeps ==
    ASSUME Inductive, NEW c \in DOMAIN calls, ReadStart(c)
    PROVE  Inductive'
<1> DEFINE r == calls[c]
<1>0. /\ r \in CallRows /\ calls \in Seq(CallRows) /\ RequestOk(r) /\ StoreOk
      /\ UNCHANGED <<Stored, Around>> /\ r.kind = "start" /\ r.pc = "read"
    BY ElementOfSeq, LenProperties DEF Inductive, ReadStart, Reads
<1>1. CASE Reply(c, "gone") \/ Reply(c, "auth")
    BY <1>0, <1>1, RefusalKeeps DEF Answers
<1>2. ASSUME NEW i \in DOMAIN rotations, calls' = [calls EXCEPT ![c].pc = "commit", ![c].at = i]
      PROVE  Inductive'
    <2> DEFINE q == [r EXCEPT !.pc = "commit", !.at = i]
    <2>1. calls' = [calls EXCEPT ![c] = q]
        BY <1>0, <1>2, LenProperties
    <2>2. i \in Nat
        BY <1>0, LenProperties DEF StoreOk
    <2>3. q \in CallRows /\ q.kind = "start" /\ q.pc = "commit" /\ q.at = i /\ q.proof = r.proof
        BY <1>0, <2>2 DEF CallRows
    <2> HIDE DEF q
    <2>4. RequestOk(q)
        BY <1>0, <2>3 DEF RequestOk
    <2> QED BY <1>0, <2>1, <2>3, <2>4, ReadingKeeps
<1>3. ASSUME NEW i \in SavedLive, calls' = [calls EXCEPT ![c].pc = "commit", ![c].row = i],
             Repeated(r) = {}
      PROVE  Inductive'
    <2> DEFINE q == [r EXCEPT !.pc = "commit", !.row = i]
    <2>1. calls' = [calls EXCEPT ![c] = q]
        BY <1>0, <1>3, LenProperties
    <2>2. i \in Nat
        BY <1>0, LenProperties DEF StoreOk, SavedLive, Live
    <2>3. q \in CallRows /\ q.kind = "start" /\ q.pc = "commit" /\ q.at = r.at /\ q.proof = r.proof
        BY <1>0, <2>2 DEF CallRows
    <2> HIDE DEF q
    <2>4. RequestOk(q)
        BY <1>0, <2>3 DEF RequestOk
    <2> QED BY <1>0, <2>1, <2>3, <2>4, ReadingKeeps
<1> QED BY <1>1, <1>2, <1>3 DEF ReadStart, Repeated

LEMMA RotationsTyped ==
    ASSUME StoreOk
    PROVE  \A i \in DOMAIN rotations : rotations[i] \in RotationRows /\ RotationOk(i)
BY ElementOfSeq, LenProperties DEF StoreOk

\* The codes and the world stay; rotations and proofs move.
LEMMA RotationMoves ==
    ASSUME Inductive, calls' \in Seq(CallRows), Len(calls) = Len(calls'), UNCHANGED <<creds, Around>>,
           rotations' \in Seq(RotationRows), Len(rotations) <= Len(rotations'),
           \A i \in DOMAIN rotations' :
               \/ /\ i \in DOMAIN rotations
                  /\ rotations'[i].old = rotations[i].old /\ rotations'[i].gen = rotations[i].gen
                  /\ rotations'[i].proof = rotations[i].proof
                  /\ rotations'[i].sec \in {rotations[i].sec} \union 1..Len(calls')
               \/ RotationOk(i)',
           \A i, j \in DOMAIN rotations' : i # j => rotations'[i].proof # rotations'[j].proof,
           proofs' \in Seq(ProofRows), Len(proofs) <= Len(proofs'),
           \A k \in DOMAIN proofs : proofs[k].state = "used" => proofs'[k].state = "used"
    PROVE  StoreOk' /\ Grows
<1>0. StoreOk /\ Len(creds) \in Nat /\ Len(calls) \in Nat
    BY LenProperties DEF Inductive, StoreOk
<1>1. /\ creds' \in Seq(CredRows) /\ Ordered' /\ Len(creds) <= Len(creds') /\ creds' = creds
      /\ \A i \in DOMAIN creds : i \in DOMAIN creds' /\ creds'[i].gen = creds[i].gen
      /\ \A i \in DOMAIN creds' : creds'[i].sec \in 0..Len(calls')
      /\ kept' = kept /\ alive' = alive /\ alive' \in [Pages -> BOOLEAN]
      /\ Len(calls) <= Len(calls')
    BY <1>0 DEF StoreOk, Ordered, Around
<1> QED BY <1>1, StoreMoves

LEMMA StartedAt ==
    ASSUME NEW r, RequestOk(r), r.kind = "start", r.pc = "commit", r.at # 0
    PROVE  r.at \in DOMAIN rotations
BY DEF RequestOk

LEMMA ReplayStartKeeps ==
    ASSUME Inductive, NEW c \in DOMAIN calls, ReplayStart(c)
    PROVE  Inductive'
<1> DEFINE at == calls[c].at
<1>0. /\ RequestOk(calls[c]) /\ StoreOk /\ UNCHANGED <<creds, proofs, Around>>
      /\ at \in DOMAIN rotations
    <2>1. RequestOk(calls[c]) /\ StoreOk /\ UNCHANGED <<creds, proofs, Around>>
        BY DEF Inductive, ReplayStart
    <2>2. calls[c].kind = "start" /\ calls[c].pc = "commit" /\ at # 0
        BY DEF ReplayStart, Commits
    <2>3. at \in DOMAIN rotations
        BY <2>1, <2>2, StartedAt
    <2> QED BY <2>1, <2>3
<1>1. CASE rotations' = [rotations EXCEPT ![at].sec = c] /\ Reply(c, "ok")
    <2> DEFINE row == [rotations[at] EXCEPT !.sec = c]
    <2>1. /\ calls' \in Seq(CallRows) /\ Len(calls') = Len(calls) /\ Len(calls) \in Nat
          /\ c \in 1..Len(calls')
        BY <1>1, RepliesAfter DEF Answers
    <2>2. rotations[at] \in RotationRows
        BY <1>0, RotationsTyped
    <2>3. c \in Nat
        BY <2>1
    <2>4. /\ row \in RotationRows /\ row.sec = c /\ row.old = rotations[at].old
          /\ row.gen = rotations[at].gen /\ row.proof = rotations[at].proof
        BY ONLY <2>2, <2>3 DEF RotationRows
    <2>5. rotations' = [rotations EXCEPT ![at] = row]
        BY <1>1
    <2> HIDE DEF row
    <2>6. /\ rotations' \in Seq(RotationRows) /\ Len(rotations') = Len(rotations)
          /\ Len(rotations) \in Nat /\ DOMAIN rotations' = DOMAIN rotations
          /\ \A i \in DOMAIN rotations : rotations'[i] = IF i = at THEN row ELSE rotations[i]
        BY <1>0, <2>4, <2>5, Changed DEF StoreOk
    <2>7. \A i \in DOMAIN rotations :
             /\ rotations'[i].old = rotations[i].old /\ rotations'[i].gen = rotations[i].gen
             /\ rotations'[i].proof = rotations[i].proof
             /\ rotations'[i].sec \in {rotations[i].sec} \union 1..Len(calls')
        BY <2>1, <2>4, <2>6
    <2>8. \A i, j \in DOMAIN rotations : i # j => rotations[i].proof # rotations[j].proof
        BY <1>0 DEF StoreOk
    <2>9. StoreOk' /\ Grows
        <3>1. proofs' \in Seq(ProofRows) /\ Len(proofs) <= Len(proofs') /\ proofs' = proofs
            BY <1>0, LenProperties DEF StoreOk
        <3>2. Len(rotations) <= Len(rotations') /\ UNCHANGED <<creds, Around>>
            BY <1>0, <2>6
        <3> QED BY <2>1, <2>6, <2>7, <2>8, <3>1, <3>2, RotationMoves
    <2>10. page' = page /\ at \in DOMAIN rotations'
        BY <1>0, <2>6 DEF Around
    <2> QED BY <1>1, <2>9, <2>10, ReplyKeeps DEF Answers
<1>2. CASE Reply(c, "auth") /\ UNCHANGED rotations
    BY <1>0, <1>2, RefusalKeeps DEF Answers, Stored
<1> QED BY <1>1, <1>2 DEF ReplayStart

LEMMA CommitStartKeeps ==
    ASSUME Inductive, NEW c \in DOMAIN calls, CommitStart(c)
    PROVE  Inductive'
<1> DEFINE r == calls[c]
<1>0. /\ r \in CallRows /\ calls \in Seq(CallRows) /\ RequestOk(r) /\ StoreOk
      /\ UNCHANGED <<creds, Around>> /\ r.kind = "start"
    BY ElementOfSeq, LenProperties DEF Inductive, CommitStart, Commits
<1>1. CASE StartRotation(r)
    <2> DEFINE row == [page |-> r.page, key |-> r.key, proof |-> r.proof, old |-> r.row, sec |-> c,
                       gen |-> creds[r.row].gen + 1, state |-> "open"]
    <2>1. /\ proofs' = [proofs EXCEPT ![r.proof].state = "used"] /\ rotations' = Append(rotations, row)
          /\ calls' = [calls EXCEPT ![c].pc = "answer", ![c].ans = "ok", ![c].at = Len(rotations) + 1]
        BY <1>1 DEF CommitStart
    <2>2. /\ DOMAIN calls = 1..Len(calls) /\ Len(calls) \in Nat /\ Len(rotations) \in Nat
          /\ DOMAIN rotations = 1..Len(rotations) /\ DOMAIN creds = 1..Len(creds)
          /\ Len(creds) \in Nat
        BY <1>0, LenProperties DEF StoreOk
    <2>3. /\ r.row \in DOMAIN creds /\ creds[r.row].gen \in Nat /\ r.proof \in 0..Len(proofs)
          /\ r.page \in Pages /\ r.key \in Nat /\ r.row \in Nat /\ c \in Nat /\ Good(r.proof, r.page)
        <3>1. r.page \in Pages /\ r.key \in Nat
            BY <1>0 DEF CallRows
        <3>2. r.row \in DOMAIN creds /\ Good(r.proof, r.page)
            BY <1>1 DEF StartRotation, SavedLive, Live
        <3>3. creds[r.row].gen \in Nat
            BY <1>0, <3>2, CodesTyped
        <3>4. r.proof \in 0..Len(proofs)
            BY <1>0 DEF RequestOk
        <3> QED BY <2>2, <3>1, <3>2, <3>3, <3>4
    <2>4. /\ r.proof \in DOMAIN proofs /\ proofs[r.proof].state = "live" /\ r.proof \in Nat
          /\ proofs' = Spent(r.proof, r.page)
          /\ DOMAIN proofs' = DOMAIN proofs /\ Len(proofs') = Len(proofs) /\ Len(proofs) \in Nat
          /\ proofs' \in Seq(ProofRows)
          /\ \A k \in DOMAIN proofs : proofs[k].state = "used" => proofs'[k].state = "used"
        <3>1. proofs' = Spent(r.proof, r.page)
            BY <2>1, <2>3 DEF Spent
        <3>2. Len(proofs) \in Nat
            BY <1>0, LenProperties DEF StoreOk
        <3> QED BY <1>0, <2>3, <3>1, <3>2, SpentOk
    <2>5. proofs'[r.proof].state = "used"
        BY <1>0, <2>1, <2>4, ElementOfSeq, LenProperties DEF StoreOk, ProofRows
    <2>6. row \in RotationRows
        BY <2>3, <2>4 DEF RotationRows
    <2>7. PICK q \in CallRows :
               /\ q = [r EXCEPT !.pc = "answer", !.ans = "ok", !.at = Len(rotations) + 1]
               /\ q.kind = r.kind /\ q.pc = "answer" /\ q.ans = "ok" /\ q.at = Len(rotations) + 1
               /\ q.proof = r.proof
        <3>1. Len(rotations) + 1 \in Nat
            BY <2>2
        <3>2. r \in CallRows
            BY <1>0
        <3> HIDE DEF r
        <3> QED BY ONLY <3>1, <3>2, AnsweredWith
    <2>8. calls' = [calls EXCEPT ![c] = q]
        BY <1>0, <2>1, <2>2, <2>7
    <2>9. /\ calls' \in Seq(CallRows) /\ Len(calls') = Len(calls) /\ c \in 1..Len(calls')
        BY ONLY Inductive, c \in DOMAIN calls, q \in CallRows, <2>8, CallsAfter
    <2>10. /\ row.old \in DOMAIN creds' /\ row.gen = creds'[row.old].gen + 1 /\ row.sec \in 1..Len(calls')
           /\ row.proof = r.proof
        BY <1>0, <2>3, <2>9
    <2> HIDE DEF row
    <2>10a. rotations \in Seq(RotationRows)
        BY <1>0 DEF StoreOk
    <2>11. /\ rotations' \in Seq(RotationRows) /\ Len(rotations') = Len(rotations) + 1
           /\ DOMAIN rotations' = 1..(Len(rotations) + 1)
           /\ \A i \in DOMAIN rotations : rotations'[i] = rotations[i]
           /\ rotations'[Len(rotations) + 1] = row
        BY ONLY <2>1, <2>6, <2>10a, Appended
    <2> DEFINE new == Len(rotations) + 1
    <2>12. PICK n \in Nat : n = new
        BY <2>2
    <2>13. rotations'[n] = row /\ n \in DOMAIN rotations'
        BY <2>2, <2>11, <2>12
    <2>14. RotationOk(n)'
        BY <2>4, <2>5, <2>10, <2>13 DEF RotationOk
    <2>15. \A i \in DOMAIN rotations : rotations'[i].proof # row.proof
        <3>1. \A i \in DOMAIN rotations : RotationOk(i)
            BY <1>0 DEF StoreOk
        <3> QED BY <2>4, <2>10, <2>11, <3>1 DEF RotationOk
    <2>16. \A i \in DOMAIN rotations' : i \in DOMAIN rotations \/ i = n
        BY <2>2, <2>11, <2>12
    <2>17. \A i, j \in DOMAIN rotations' : i # j => rotations'[i].proof # rotations'[j].proof
        <3>1. \A i, j \in DOMAIN rotations : i # j => rotations[i].proof # rotations[j].proof
            BY <1>0 DEF StoreOk
        <3> QED BY <2>11, <2>13, <2>15, <2>16, <3>1
    <2>18. \A i \in DOMAIN rotations' :
               \/ /\ i \in DOMAIN rotations
                  /\ rotations'[i].old = rotations[i].old /\ rotations'[i].gen = rotations[i].gen
                  /\ rotations'[i].proof = rotations[i].proof
                  /\ rotations'[i].sec \in {rotations[i].sec} \union 1..Len(calls')
               \/ RotationOk(i)'
        <3> SUFFICES ASSUME NEW i \in DOMAIN rotations', i = n
                     PROVE  RotationOk(i)'
            BY <2>11, <2>16
        <3> QED BY <2>14
    <2>19. StoreOk' /\ Grows
        <3>1. Len(rotations) <= Len(rotations') /\ Len(proofs) <= Len(proofs') /\ Len(calls) = Len(calls')
              /\ calls' \in Seq(CallRows) /\ UNCHANGED <<creds, Around>>
            BY <1>0, <2>2, <2>4, <2>9, <2>11
        <3> QED BY <2>4, <2>11, <2>17, <2>18, <3>1, RotationMoves
    <2>20. RequestOk(q)'
        BY <1>0, <2>3, <2>4, <2>7, <2>12, <2>13 DEF RequestOk
    <2>21. page' = page
        BY <1>0 DEF Around
    <2> QED BY <2>8, <2>19, <2>20, <2>21, HandlerKeeps
<1>2. CASE ~StartRotation(r)
    BY <1>0, <1>2, RefusalKeeps DEF CommitStart, Answers, Stored
<1> QED BY <1>1, <1>2

LEMMA FinishRotationKeeps ==
    ASSUME Inductive, NEW c \in DOMAIN calls, FinishRotation(c)
    PROVE  Inductive'
<1> DEFINE r == calls[c]
           at == r.at
           old == rotations[at].old
<1>0. /\ RequestOk(r) /\ StoreOk /\ UNCHANGED <<proofs, Around>> /\ r.kind = "finish" /\ r.pc = "read"
      /\ calls \in Seq(CallRows)
    BY DEF Inductive, FinishRotation, Reads
<1>1. CASE Finishable(r)
    <2> DEFINE row == [rotations[at] EXCEPT !.state = "confirmed"]
               base == IF old = 0 THEN creds ELSE [creds EXCEPT ![old].live = FALSE]
               code == [sec |-> rotations[at].sec, gen |-> rotations[at].gen, live |-> TRUE, saved |-> TRUE]
    <2>1. at \in DOMAIN rotations
        BY <1>0 DEF RequestOk
    <2>2. rotations[at] \in RotationRows /\ RotationOk(at)
        BY <1>0, <2>1, RotationsTyped
    <2>3. old \in SavedLive /\ old \in DOMAIN creds /\ old # 0
        <3>1. old \in SavedLive
            BY <1>1 DEF Finishable
        <3> QED BY <1>0, <3>1, LenProperties DEF SavedLive, Live, StoreOk
    <2>4. /\ rotations' = [rotations EXCEPT ![at].state = "confirmed"]
          /\ creds' = Append(base, code) /\ Reply(c, "ok")
        BY <1>1, <2>3 DEF FinishRotation, Replaced
    <2>5. rotations' = [rotations EXCEPT ![at] = row]
        BY <2>4
    <2>6. /\ row \in RotationRows /\ row.sec = rotations[at].sec /\ row.old = old
          /\ row.gen = rotations[at].gen /\ row.proof = rotations[at].proof
        BY ONLY <2>2 DEF RotationRows
    <2>7. /\ old = Len(creds) /\ \A i \in Live : i = old
          /\ \A i \in DOMAIN creds : creds[i].gen <= creds[old].gen
        BY <1>0, <2>3, LastIsGreatest DEF SavedLive, Live
    <2>8. /\ rotations[at].gen = creds[old].gen + 1 /\ creds[old].gen \in Nat
          /\ rotations[at].sec \in 1..Len(calls) /\ Len(calls) \in Nat
        BY <1>0, <2>2, <2>3, CodesTyped, LenProperties DEF RotationOk
    <2>9. code \in CredRows /\ code.live /\ code.sec = rotations[at].sec /\ code.gen = creds[old].gen + 1
        BY <2>8 DEF CredRows
    <2>10. /\ base \in Seq(CredRows) /\ Len(base) = Len(creds)
           /\ \A i \in DOMAIN creds :
                 base[i].gen = creds[i].gen /\ base[i].sec = creds[i].sec
                 /\ base[i].live = (creds[i].live /\ i # old)
        BY <1>0, <2>3, Retired
    <2>11. \A i \in DOMAIN creds : ~base[i].live
        BY <2>7, <2>10 DEF Live
    <2>12. \A i \in DOMAIN creds : creds[i].gen < code.gen
        <3>1. \A i \in DOMAIN creds : creds[i].gen \in Nat
            BY <1>0, CodesTyped
        <3> QED BY <2>7, <2>8, <2>9, <3>1
    <2> HIDE DEF row, base, code
    <2>13. /\ calls' \in Seq(CallRows) /\ Len(calls') = Len(calls) /\ Len(calls) <= Len(calls')
        BY <2>4, RepliesAfter DEF Answers
    <2>14. code.sec \in 0..Len(calls')
        BY <2>8, <2>9, <2>13
    <2>15. /\ creds' \in Seq(CredRows) /\ Ordered' /\ Len(creds) <= Len(creds')
           /\ \A i \in DOMAIN creds : i \in DOMAIN creds' /\ creds'[i].gen = creds[i].gen
           /\ \A i \in DOMAIN creds' : creds'[i].sec \in 0..Len(calls')
           /\ Live' # {}
        BY <1>0, <2>4, <2>9, <2>10, <2>11, <2>12, <2>13, <2>14, CodeAppended
    <2>16. /\ rotations' \in Seq(RotationRows) /\ Len(rotations') = Len(rotations)
           /\ Len(rotations) \in Nat /\ DOMAIN rotations' = DOMAIN rotations
           /\ \A i \in DOMAIN rotations : rotations'[i] = IF i = at THEN row ELSE rotations[i]
        <3>1. rotations \in Seq(RotationRows)
            BY <1>0 DEF StoreOk
        <3> QED BY <2>1, <2>5, <2>6, <3>1, Changed
    <2>17. \A i \in DOMAIN rotations' :
               /\ i \in DOMAIN rotations
               /\ rotations'[i].old = rotations[i].old /\ rotations'[i].gen = rotations[i].gen
               /\ rotations'[i].proof = rotations[i].proof
               /\ rotations'[i].sec \in {rotations[i].sec} \union 1..Len(calls')
        BY <2>6, <2>16
    <2>18. \A i, j \in DOMAIN rotations' : i # j => rotations'[i].proof # rotations'[j].proof
        BY <1>0, <2>17 DEF StoreOk
    <2>19. StoreOk' /\ Grows
        <3>1. /\ proofs' \in Seq(ProofRows) /\ Len(proofs) <= Len(proofs') /\ proofs' = proofs
              /\ kept' = kept /\ alive' = alive /\ alive \in [Pages -> BOOLEAN]
              /\ Len(rotations) <= Len(rotations')
            BY <1>0, <2>16, LenProperties DEF StoreOk, Around
        <3> QED BY <2>13, <2>15, <2>16, <2>17, <2>18, <3>1, StoreMoves
    <2>20. page' = page /\ calls[c].kind # "start"
        BY <1>0 DEF Around
    <2> QED BY <2>4, <2>19, <2>20, ReplyKeeps DEF Answers
<1>2. CASE ~Finishable(r)
    <2>1. /\ Reply(c, "auth") \/ Reply(c, "gone")
          /\ UNCHANGED <<Stored, Around>>
        BY <1>2 DEF FinishRotation, Stored
    <2> QED BY <2>1, RefusalKeeps DEF Answers
<1> QED BY <1>1, <1>2

\* A request that is over has no effect any more.
LEMMA OverIs ==
    ASSUME NEW p \in Pages
    PROVE  \E q \in CallRows : /\ q = [Request(p, "over", 0, 0, 0, 0) EXCEPT !.pc = "done"]
                               /\ q.kind = "over" /\ q.proof = 0
<1> DEFINE q == [Request(p, "over", 0, 0, 0, 0) EXCEPT !.pc = "done"]
<1>1. q = [page |-> p, kind |-> "over", pc |-> "done", proof |-> 0, key |-> 0, at |-> 0,
           sent |-> 0, row |-> 0, gen |-> 0, ans |-> "none"]
    BY DEF Request
<1> HIDE DEF q
<1>2. q \in CallRows /\ q.kind = "over" /\ q.proof = 0
    BY <1>1 DEF CallRows
<1> QED BY <1>2 DEF q

LEMMA OverAfter ==
    ASSUME Inductive, NEW c \in DOMAIN calls, calls' = Over(c)
    PROVE  \E q \in CallRows : calls' = [calls EXCEPT ![c] = q] /\ q.kind = "over" /\ q.proof = 0
<1>0. calls[c] \in CallRows
    BY ElementOfSeq, LenProperties DEF Inductive
<1>1. calls[c].page \in Pages
    BY <1>0 DEF CallRows
<1> QED BY <1>1, OverIs DEF Over

LEMMA DropKeeps ==
    ASSUME Inductive, NEW c \in DOMAIN calls, Drop(c)
    PROVE  Inductive'
<1>1. PICK q \in CallRows : calls' = [calls EXCEPT ![c] = q] /\ q.kind = "over" /\ q.proof = 0
    BY OverAfter DEF Drop
<1>1a. calls' = [calls EXCEPT ![c] = q]
    BY <1>1
<1>1b. calls' \in Seq(CallRows) /\ Len(calls') = Len(calls) /\ Len(calls) \in Nat
    BY ONLY Inductive, c \in DOMAIN calls, q \in CallRows, <1>1a, CallsAfter
<1>2. calls' \in Seq(CallRows) /\ Len(calls) <= Len(calls')
    BY <1>1b
<1>3. StoreOk' /\ Grows /\ page' = page
    BY <1>2, NothingStored DEF Drop
<1>4. RequestOk(q)'
    BY <1>1, <1>3, LenProperties DEF RequestOk, StoreOk
<1> QED BY <1>1, <1>3, <1>4, HandlerKeeps

-----------------------------------------------------------------------------
(***************************************************************************)
(* Time, other devices and other paths                                     *)
(***************************************************************************)
LEMMA QuietKeeps ==
    ASSUME Inductive, Grows, StoreOk', UNCHANGED <<calls, page>>
    PROVE  Inductive'
BY StepKeeps DEF Inductive

LEMMA ElapseKeeps ==
    ASSUME Inductive, Elapse
    PROVE  Inductive'
<1>0. /\ StoreOk /\ UNCHANGED <<creds, alive, page, calls, kept>> /\ calls' \in Seq(CallRows)
      /\ Len(calls) = Len(calls') /\ Len(calls) <= Len(calls')
    BY LenProperties DEF Inductive, Elapse
<1>1. CASE UNCHANGED <<rotations, proofs>>
    BY <1>0, <1>1, NothingStored, QuietKeeps
<1>2. ASSUME NEW k \in DOMAIN proofs, proofs[k].state = "live", UNCHANGED rotations,
             proofs' = [proofs EXCEPT ![k].state = "expired"]
      PROVE  Inductive'
    <2> DEFINE row == [proofs[k] EXCEPT !.state = "expired"]
    <2>1. proofs \in Seq(ProofRows) /\ proofs[k] \in ProofRows /\ Len(proofs) \in Nat
          /\ Len(creds) \in Nat /\ Len(rotations) \in Nat
        BY <1>0, ElementOfSeq, LenProperties DEF StoreOk
    <2>2. row \in ProofRows /\ row.state = "expired"
        BY ONLY <2>1 DEF ProofRows
    <2>3. proofs' = [proofs EXCEPT ![k] = row]
        BY <1>2
    <2> HIDE DEF row
    <2>4. /\ proofs' \in Seq(ProofRows) /\ Len(proofs') = Len(proofs)
          /\ DOMAIN proofs' = DOMAIN proofs
          /\ \A i \in DOMAIN proofs : proofs'[i] = IF i = k THEN row ELSE proofs[i]
        BY <2>1, <2>2, <2>3, Changed
    <2>5. \A i \in DOMAIN proofs : /\ i \in DOMAIN proofs'
                                   /\ proofs[i].state = "used" => proofs'[i].state = "used"
        BY <1>2, <2>4
    <2>6. UNCHANGED <<creds, rotations>> /\ alive' \in [Pages -> BOOLEAN] /\ kept' \in SUBSET Nat
          /\ calls \in Seq(CallRows)
        BY <1>0, <1>2 DEF StoreOk
    <2>7. StoreOk'
        BY <1>0, <2>4, <2>5, <2>6, StoreStays
    <2>8. Grows
        BY <1>0, <1>2, <2>1, <2>4 DEF Grows
    <2> QED BY <1>0, <2>7, <2>8, QuietKeeps
<1>3. ASSUME NEW at \in DOMAIN rotations, UNCHANGED proofs,
             rotations' = [rotations EXCEPT ![at].state = "expired"]
      PROVE  Inductive'
    <2> DEFINE row == [rotations[at] EXCEPT !.state = "expired"]
    <2>1. rotations[at] \in RotationRows /\ rotations \in Seq(RotationRows) /\ Len(creds) \in Nat
        BY <1>0, RotationsTyped, LenProperties DEF StoreOk
    <2>2. /\ row \in RotationRows /\ row.sec = rotations[at].sec /\ row.old = rotations[at].old
          /\ row.gen = rotations[at].gen /\ row.proof = rotations[at].proof
        BY ONLY <2>1 DEF RotationRows
    <2>3. rotations' = [rotations EXCEPT ![at] = row]
        BY <1>3
    <2> HIDE DEF row
    <2>4. /\ rotations' \in Seq(RotationRows) /\ Len(rotations') = Len(rotations)
          /\ Len(rotations) \in Nat /\ DOMAIN rotations' = DOMAIN rotations
          /\ \A i \in DOMAIN rotations : rotations'[i] = IF i = at THEN row ELSE rotations[i]
        BY <2>1, <2>2, <2>3, Changed
    <2>5. \A i \in DOMAIN rotations' :
               /\ i \in DOMAIN rotations
               /\ rotations'[i].old = rotations[i].old /\ rotations'[i].gen = rotations[i].gen
               /\ rotations'[i].proof = rotations[i].proof
               /\ rotations'[i].sec \in {rotations[i].sec} \union 1..Len(calls')
        BY <2>2, <2>4
    <2>6. \A i, j \in DOMAIN rotations' : i # j => rotations'[i].proof # rotations'[j].proof
        BY <1>0, <2>5 DEF StoreOk
    <2>7. /\ creds' \in Seq(CredRows) /\ Ordered' /\ Len(creds) <= Len(creds') /\ creds' = creds
          /\ \A i \in DOMAIN creds : i \in DOMAIN creds' /\ creds'[i].gen = creds[i].gen
          /\ \A i \in DOMAIN creds' : creds'[i].sec \in 0..Len(calls')
        BY <1>0, <2>1 DEF StoreOk, Ordered
    <2>8. /\ proofs' \in Seq(ProofRows) /\ Len(proofs) <= Len(proofs') /\ proofs' = proofs
          /\ kept' = kept /\ alive' = alive /\ alive' \in [Pages -> BOOLEAN]
          /\ Len(rotations) <= Len(rotations')
        BY <1>0, <1>3, <2>4, LenProperties DEF StoreOk
    <2>9. StoreOk' /\ Grows
        BY <1>0, <2>4, <2>5, <2>6, <2>7, <2>8, StoreMoves
    <2> QED BY <1>0, <2>9, QuietKeeps
<1> QED BY <1>1, <1>2, <1>3 DEF Elapse

LEMMA EndSessionKeeps ==
    ASSUME Inductive, NEW p \in Pages, EndSession(p)
    PROVE  Inductive'
<1>0. /\ StoreOk /\ UNCHANGED <<creds, rotations, proofs, page, calls, kept>> /\ calls \in Seq(CallRows)
      /\ alive' = [alive EXCEPT ![p] = FALSE]
      /\ Len(creds) \in Nat /\ Len(rotations) \in Nat /\ Len(proofs) \in Nat /\ Len(calls) \in Nat
    BY LenProperties DEF Inductive, EndSession, Stored, StoreOk
<1>1. alive' \in [Pages -> BOOLEAN] /\ \A x \in Pages : alive'[x] => alive[x]
    BY <1>0 DEF StoreOk
<1>2. StoreOk'
    <2>1. Len(calls) <= Len(calls') /\ calls' \in Seq(CallRows) /\ proofs' \in Seq(ProofRows)
          /\ kept' \in SUBSET Nat /\ UNCHANGED <<creds, rotations>>
          /\ \A k \in DOMAIN proofs : /\ k \in DOMAIN proofs'
                                      /\ proofs[k].state = "used" => proofs'[k].state = "used"
        BY <1>0 DEF StoreOk
    <2> QED BY <1>0, <1>1, <2>1, StoreStays
<1>3. Grows
    BY <1>0, <1>1 DEF Grows
<1> QED BY <1>0, <1>2, <1>3, QuietKeeps

LEMMA UseCodeKeeps ==
    ASSUME Inductive, UseCode
    PROVE  Inductive'
<1>0. /\ StoreOk /\ UNCHANGED <<rotations, proofs, page, calls, kept>> /\ calls' \in Seq(CallRows)
      /\ alive' = [p \in Pages |-> FALSE]
      /\ Len(calls) <= Len(calls') /\ Len(calls) \in Nat /\ Len(creds) \in Nat
    BY LenProperties DEF Inductive, UseCode, StoreOk
<1>1. PICK i \in SavedLive : creds' = [creds EXCEPT ![i].live = FALSE]
    BY DEF UseCode
<1>2. i \in DOMAIN creds /\ i # 0
    BY <1>0, LenProperties DEF SavedLive, Live, StoreOk
<1>3. /\ creds' \in Seq(CredRows) /\ Len(creds') = Len(creds)
      /\ \A j \in DOMAIN creds :
            creds'[j].gen = creds[j].gen /\ creds'[j].sec = creds[j].sec
            /\ creds'[j].live = (creds[j].live /\ j # i)
    BY <1>0, <1>1, <1>2, Retired
<1>4. DOMAIN creds' = DOMAIN creds
    BY <1>0, <1>3, LenProperties DEF StoreOk
<1>5. Ordered'
    BY <1>0, <1>3, <1>4 DEF StoreOk, Ordered
<1>6. \A j \in DOMAIN creds' : creds'[j].sec \in 0..Len(calls')
    BY <1>0, <1>3, <1>4 DEF StoreOk
<1>7. /\ rotations' \in Seq(RotationRows) /\ Len(rotations) <= Len(rotations') /\ rotations' = rotations
      /\ proofs' \in Seq(ProofRows) /\ Len(proofs) <= Len(proofs') /\ proofs' = proofs
      /\ \A j, k \in DOMAIN rotations : j # k => rotations[j].proof # rotations[k].proof
      /\ alive' \in [Pages -> BOOLEAN] /\ \A p \in Pages : ~alive'[p]
      /\ Len(creds) <= Len(creds')
    BY <1>0, <1>3, LenProperties DEF StoreOk
<1>8. StoreOk' /\ Grows
    BY <1>0, <1>3, <1>4, <1>5, <1>6, <1>7, StoreMoves
<1> QED BY <1>0, <1>8, QuietKeeps

-----------------------------------------------------------------------------
(***************************************************************************)
(* The pages                                                               *)
(***************************************************************************)
LEMMA SummaryOk ==
    ASSUME RotationAssumption, StoreOk
    PROVE  Summary \in Summaries /\ Summary # None
<1> DEFINE gen == IF Live = {} THEN 0 ELSE creds[CHOOSE i \in Live : TRUE].gen
<1>1. Live # {} => (CHOOSE i \in Live : TRUE) \in DOMAIN creds
    BY DEF Live
<1>2. gen \in Nat
    BY <1>1, CodesTyped
<1>3. Summary = [saved |-> SavedLive # {}, gen |-> gen]
    BY DEF Summary
<1> HIDE DEF gen
<1>4. Summary \in Summaries
    BY <1>2, <1>3 DEF Summaries
<1> QED BY <1>4 DEF RotationAssumption, Summaries

LEMMA ResetOk ==
    ASSUME StoreOk, NEW g, PageOk(g)
    PROVE  /\ PageOk(ResetProof(g))
           /\ ResetProof(g).sum = g.sum /\ ResetProof(g).call = g.call
           /\ ResetProof(g).shown = g.shown /\ ResetProof(g).fresh = g.fresh
<1> DEFINE h == [g EXCEPT !.proof = 0]
<1>1. g \in PageRows /\ Len(proofs) \in Nat
    BY LenProperties DEF PageOk, StoreOk
<1>2. /\ h \in PageRows /\ h.sum = g.sum /\ h.shown = g.shown /\ h.proof = 0 /\ h.call = g.call
      /\ h.fresh = g.fresh
    BY ONLY <1>1 DEF PageRows
<1>3. h = ResetProof(g)
    BY DEF ResetProof
<1> HIDE DEF h
<1>4. PageOk(h)
    BY <1>1, <1>2 DEF PageOk
<1> QED BY <1>2, <1>3, <1>4

LEMMA AskOk ==
    ASSUME StoreOk, NEW g, PageOk(g), NEW intent \in {"none", "create", "rotate"}
    PROVE  PageOk(askRecoveryVerification(g, intent))
<1>1. PICK b : b = ResetProof(g)
    OBVIOUS
<1>2. PageOk(b) /\ b \in PageRows
    BY <1>1, ResetOk DEF PageOk
<1> DEFINE h == [b EXCEPT !.intent = intent]
<1>3. /\ h \in PageRows /\ h.sum = b.sum /\ h.shown = b.shown /\ h.proof = b.proof /\ h.call = b.call
      /\ h.fresh = b.fresh
    BY ONLY <1>2, intent \in {"none", "create", "rotate"} DEF PageRows
<1>4. h = askRecoveryVerification(g, intent)
    BY <1>1 DEF askRecoveryVerification
<1> HIDE DEF h
<1>5. PageOk(h)
    BY <1>2, <1>3 DEF PageOk
<1> QED BY <1>4, <1>5

\* An intent, a key or a rest changes nothing that counts for a page.
LEMMA IntentOk ==
    ASSUME NEW g, PageOk(g), NEW intent \in {"none", "create", "rotate"}, NEW key \in Nat
    PROVE  /\ PageOk([g EXCEPT !.intent = intent])
           /\ PageOk([g EXCEPT !.key = key])
           /\ PageOk([g EXCEPT !.intent = intent, !.key = key])
<1>0. g \in PageRows
    BY DEF PageOk
<1>1. ASSUME NEW h, h \in PageRows, h.sum = g.sum, h.shown = g.shown, h.proof = g.proof,
             h.call = g.call, h.fresh = g.fresh
      PROVE  PageOk(h)
    BY <1>1 DEF PageOk
<1>2. PageOk([g EXCEPT !.intent = intent])
    <2> DEFINE h == [g EXCEPT !.intent = intent]
    <2>1. h \in PageRows /\ h.sum = g.sum /\ h.shown = g.shown /\ h.proof = g.proof
          /\ h.call = g.call /\ h.fresh = g.fresh
        BY ONLY <1>0, intent \in {"none", "create", "rotate"} DEF PageRows
    <2> HIDE DEF h
    <2>2. PageOk(h)
        BY <1>1, <2>1
    <2> QED BY <2>2 DEF h
<1>3. PageOk([g EXCEPT !.key = key])
    <2> DEFINE h == [g EXCEPT !.key = key]
    <2>1. h \in PageRows /\ h.sum = g.sum /\ h.shown = g.shown /\ h.proof = g.proof
          /\ h.call = g.call /\ h.fresh = g.fresh
        BY ONLY <1>0, key \in Nat DEF PageRows
    <2> HIDE DEF h
    <2>2. PageOk(h)
        BY <1>1, <2>1
    <2> QED BY <2>2 DEF h
<1>4. PageOk([g EXCEPT !.intent = intent, !.key = key])
    <2> DEFINE h == [g EXCEPT !.intent = intent, !.key = key]
    <2>1. h \in PageRows /\ h.sum = g.sum /\ h.shown = g.shown /\ h.proof = g.proof
          /\ h.call = g.call /\ h.fresh = g.fresh
        BY ONLY <1>0, intent \in {"none", "create", "rotate"}, key \in Nat DEF PageRows
    <2> HIDE DEF h
    <2>2. PageOk(h)
        BY <1>1, <2>1
    <2> QED BY <2>2 DEF h
<1> QED BY <1>2, <1>3, <1>4

LEMMA RestOk ==
    ASSUME NEW g, PageOk(g), calls \in Seq(CallRows)
    PROVE  PageOk(Rest(g))
<1> DEFINE h == [g EXCEPT !.call = 0]
<1>0. g \in PageRows /\ Len(calls) \in Nat
    BY LenProperties DEF PageOk
<1>1. h \in PageRows /\ h.sum = g.sum /\ h.shown = g.shown /\ h.proof = g.proof
      /\ h.call = 0 /\ h.fresh = g.fresh
    BY ONLY <1>0 DEF PageRows
<1>2. h = Rest(g)
    BY DEF Rest
<1> HIDE DEF h
<1>3. PageOk(h)
    BY <1>0, <1>1 DEF PageOk
<1> QED BY <1>2, <1>3

LEMMA ForgetOk ==
    ASSUME StoreOk, NEW g, PageOk(g)
    PROVE  PageOk(forgetRecoveryCode(g)) /\ forgetRecoveryCode(g).shown = None
<1>1. PICK b : b = ResetProof(g)
    OBVIOUS
<1>2. PageOk(b) /\ b \in PageRows
    BY <1>1, ResetOk DEF PageOk
<1> DEFINE h == [b EXCEPT !.shown = None, !.intent = "none", !.key = 0]
<1>3. /\ h \in PageRows /\ h.sum = b.sum /\ h.shown = None /\ h.proof = b.proof /\ h.call = b.call
      /\ h.fresh = b.fresh
    BY ONLY <1>2 DEF PageRows
<1>4. h = forgetRecoveryCode(g)
    BY <1>1 DEF forgetRecoveryCode
<1> HIDE DEF h
<1>5. PageOk(h)
    BY <1>2, <1>3 DEF PageOk
<1> QED BY <1>3, <1>4, <1>5

LEMMA IdentityChangedOk ==
    ASSUME StoreOk, NEW g, PageOk(g)
    PROVE  PageOk(externalIdentityChanged(g))
<1>1. PICK b : b = forgetRecoveryCode(g)
    OBVIOUS
<1>2. PageOk(b) /\ b \in PageRows /\ b.shown = None
    BY <1>1, ForgetOk DEF PageOk
<1> DEFINE h == [b EXCEPT !.sum = None, !.fresh = FALSE]
<1>3. /\ h \in PageRows /\ h.sum = None /\ h.shown = b.shown /\ h.proof = b.proof /\ h.call = b.call
      /\ h.fresh = FALSE
    BY ONLY <1>2 DEF PageRows
<1>4. h = externalIdentityChanged(g)
    BY <1>1 DEF externalIdentityChanged
<1> HIDE DEF h
<1>5. PageOk(h)
    BY <1>2, <1>3 DEF PageOk
<1> QED BY <1>4, <1>5

LEMMA RefreshOk ==
    ASSUME RotationAssumption, StoreOk, NEW g, PageOk(g), NEW p \in Pages
    PROVE  PageOk(refresh(p, g))
<1>1. CASE alive[p]
    <2> DEFINE h == [g EXCEPT !.sum = Summary]
    <2>0. g \in PageRows /\ Summary \in Summaries /\ Summary # None
        BY SummaryOk DEF PageOk
    <2>1. h \in PageRows /\ h.sum = Summary /\ h.shown = g.shown /\ h.proof = g.proof
          /\ h.call = g.call /\ h.fresh = g.fresh
        BY ONLY <2>0 DEF PageRows
    <2>2. h = refresh(p, g)
        BY <1>1 DEF refresh
    <2> HIDE DEF h
    <2>3. PageOk(h)
        BY <2>0, <2>1 DEF PageOk
    <2> QED BY <2>2, <2>3
<1>2. CASE ~alive[p]
    BY <1>2, IdentityChangedOk DEF refresh
<1> QED BY <1>1, <1>2

LEMMA UnconfirmedOk ==
    ASSUME RotationAssumption, StoreOk, NEW g, PageOk(g), NEW p \in Pages
    PROVE  PageOk(Unconfirmed(p, g))
<1>1. PICK h : h = refresh(p, g)
    OBVIOUS
<1>2. PageOk(h) /\ PageOk(forgetRecoveryCode(h))
    BY <1>1, RefreshOk, ForgetOk
<1>3. Unconfirmed(p, g) \in {h, forgetRecoveryCode(h)}
    BY <1>1 DEF Unconfirmed
<1> QED BY <1>2, <1>3

\* What a delivered code brings: a start answered with success names its rotation.
LEMMA ShowOk ==
    ASSUME StoreOk, NEW g, PageOk(g), g.sum # None, NEW c \in Nat,
           RequestOk(calls[c]), calls[c].pc = "answer", calls[c].ans = "ok",
           calls[c].kind \in {"create", "start"}
    PROVE  PageOk(showDeliveredCode(g, c))
<1>1. PICK b : b = ResetProof(g)
    OBVIOUS
<1>2. PageOk(b) /\ b \in PageRows /\ b.sum = g.sum
    BY <1>1, ResetOk DEF PageOk
<1> DEFINE code == [rotation |-> calls[c].kind = "start", at |-> calls[c].at, sec |-> c]
           h == [b EXCEPT !.intent = "none", !.shown = code]
<1>3. calls[c].at \in Nat /\ (calls[c].kind = "start" => calls[c].at \in DOMAIN rotations)
    BY DEF RequestOk, CallRows
<1>4. code \in ShownRows /\ (code.rotation => code.at \in DOMAIN rotations)
    BY <1>3 DEF ShownRows
<1> HIDE DEF code
<1>5. /\ h \in PageRows /\ h.sum = b.sum /\ h.shown = code /\ h.proof = b.proof /\ h.call = b.call
      /\ h.fresh = b.fresh
    BY ONLY <1>2, <1>4 DEF PageRows
<1>6. h = showDeliveredCode(g, c)
    BY <1>1 DEF showDeliveredCode, code
<1> HIDE DEF h
<1>7. PageOk(h)
    BY <1>2, <1>4, <1>5 DEF PageOk
<1> QED BY <1>6, <1>7

LEMMA SettleOk ==
    ASSUME RotationAssumption, Inductive, NEW p \in Pages, NEW c \in DOMAIN calls, page[p].call = c,
           calls[c].pc = "answer"
    PROVE  PageOk(Settle(p, c))
<1>1. PICK g : g = page[p]
    OBVIOUS
<1>2. PageOk(g) /\ StoreOk /\ RequestOk(calls[c]) /\ c \in Nat /\ c # 0
    BY <1>1, LenProperties DEF Inductive
<1>3. CASE ~g.fresh
    BY <1>1, <1>2, <1>3 DEF Settle, SameIdentity
<1>4. CASE g.fresh /\ calls[c].ans = "gone"
    BY <1>1, <1>2, <1>4, IdentityChangedOk DEF Settle, SameIdentity
<1>5. CASE g.fresh /\ calls[c].ans # "gone"
    <2>1. g.sum # None
        BY <1>1, <1>2, <1>5 DEF PageOk
    <2>2. PageOk(Created(p, g, c)) \/ calls[c].kind # "create"
        <3>1. CASE calls[c].ans = "ok" /\ calls[c].kind = "create"
            BY <1>2, <2>1, <3>1, ShowOk DEF Created
        <3>2. CASE calls[c].ans = "auth"
            BY <1>2, <3>2, AskOk DEF Created
        <3>3. CASE calls[c].ans = "conflict"
            BY <1>2, <3>3, RefreshOk DEF Created
        <3>4. CASE calls[c].ans \notin {"ok", "auth", "conflict"}
            BY <1>2, <3>4 DEF Created
        <3> QED BY <3>1, <3>2, <3>3, <3>4
    <2>3. PageOk(Started(g, c)) \/ calls[c].kind # "start"
        <3>1. CASE calls[c].ans = "ok" /\ calls[c].kind = "start"
            BY <1>2, <2>1, <3>1, ShowOk DEF Started
        <3>2. CASE calls[c].ans = "auth"
            <4>1. PICK h : h = askRecoveryVerification(g, "rotate")
                OBVIOUS
            <4>2. PageOk(h)
                BY <1>2, <4>1, AskOk
            <4>3. PageOk([h EXCEPT !.key = 0])
                BY <4>2, IntentOk
            <4> QED BY <3>2, <4>1, <4>3 DEF Started
        <3>3. CASE calls[c].ans \notin {"ok", "auth"}
            <4>1. PageOk([g EXCEPT !.intent = "none"])
                BY <1>2, IntentOk
            <4> QED BY <3>3, <4>1 DEF Started
        <3> QED BY <3>1, <3>2, <3>3
    <2>4. PageOk(Confirmed(p, g, c))
        <3>1. PICK h : h = forgetRecoveryCode(g)
            OBVIOUS
        <3>2. PageOk(refresh(p, h))
            BY <1>2, <3>1, ForgetOk, RefreshOk
        <3>3. PageOk(Unconfirmed(p, g))
            BY <1>2, UnconfirmedOk
        <3> QED BY <3>1, <3>2, <3>3 DEF Confirmed
    <2> QED BY <1>1, <1>5, <2>2, <2>3, <2>4 DEF Settle, SameIdentity
<1> QED BY <1>3, <1>4, <1>5

LEMMA PageWritten ==
    ASSUME Inductive, Grows, StoreOk', calls' \in Seq(CallRows), NEW p \in Pages, NEW h, PageOk(h)',
           \A c \in DOMAIN calls' :
               \/ c \in DOMAIN calls /\ calls'[c] = calls[c]
               \/ RequestOk(calls[c])',
           page' = [page EXCEPT ![p] = h]
    PROVE  Inductive'
<1>1. h \in PageRows /\ page \in [Pages -> PageRows]
    BY DEF PageOk, Inductive
<1>2. page' \in [Pages -> PageRows] /\ page'[p] = h /\ \A x \in Pages : x # p => page'[x] = page[x]
    BY <1>1
<1>3. PageOk(page[p])'
    BY <1>2 DEF PageOk
<1> QED BY <1>2, <1>3, StepKeeps

\* The store and the requests stay; a page is written.
LEMMA OnlyPage ==
    ASSUME Inductive, UNCHANGED <<creds, rotations, proofs, alive, kept, calls>>,
           NEW p \in Pages, NEW h, PageOk(h), page' = [page EXCEPT ![p] = h]
    PROVE  Inductive'
<1>1. calls' \in Seq(CallRows) /\ Len(calls) <= Len(calls') /\ calls \in Seq(CallRows) /\ StoreOk
    BY LenProperties DEF Inductive
<1>2. StoreOk' /\ Grows
    BY <1>1, NothingStored
<1>3. PageOk(h)'
    BY <1>1, <1>2, PageStays
<1> QED BY <1>1, <1>2, <1>3, PageWritten

LEMMA AnswerKeeps ==
    ASSUME RotationAssumption, Inductive, NEW p \in Pages, Answer(p)
    PROVE  Inductive'
<1>0. PICK c : c = page[p].call
    OBVIOUS
<1>1. c \in DOMAIN calls /\ calls[c].pc = "answer" /\ calls' = Over(c)
      /\ UNCHANGED <<creds, rotations, proofs, alive, recent, changes, kept>>
    <2>1. c # 0 /\ calls[c].pc = "answer" /\ calls' = Over(c)
          /\ UNCHANGED <<creds, rotations, proofs, alive, recent, changes, kept>>
        BY <1>0 DEF Answer
    <2>2. calls \in Seq(CallRows) /\ PageOk(page[p])
        BY DEF Inductive
    <2>3. c \in 0..Len(calls)
        BY <1>0, <2>2 DEF PageOk
    <2>4. DOMAIN calls = 1..Len(calls) /\ Len(calls) \in Nat
        BY <2>2, LenProperties
    <2> QED BY <2>1, <2>3, <2>4
<1>2. PICK h : h = Rest(Settle(p, c))
    OBVIOUS
<1>3. PageOk(h)
    <2>1. PICK g : g = Settle(p, c)
        OBVIOUS
    <2>2. PageOk(g) /\ calls \in Seq(CallRows)
        BY <1>0, <1>1, <2>1, SettleOk DEF Inductive
    <2>3. h = Rest(g)
        BY <1>2, <2>1
    <2> QED BY <2>2, <2>3, RestOk
<1>4. page' = [page EXCEPT ![p] = h]
    BY <1>0, <1>2 DEF Answer
<1>5. PICK q \in CallRows : calls' = [calls EXCEPT ![c] = q] /\ q.kind = "over" /\ q.proof = 0
    BY <1>1, OverAfter
<1>6. calls' = [calls EXCEPT ![c] = q]
    BY <1>5
<1>7. calls \in Seq(CallRows)
    BY DEF Inductive
<1>8. /\ calls' \in Seq(CallRows) /\ Len(calls') = Len(calls) /\ Len(calls) \in Nat
      /\ DOMAIN calls = 1..Len(calls) /\ DOMAIN calls' = 1..Len(calls)
      /\ \A d \in DOMAIN calls : calls'[d] = IF d = c THEN q ELSE calls[d]
    BY ONLY q \in CallRows, <1>1, <1>6, <1>7, Changed
<1>9. StoreOk' /\ Grows
    BY <1>1, <1>8, NothingStored
<1>10. RequestOk(calls[c])'
    <2>1. calls'[c] = q /\ Len(proofs') \in Nat
        BY <1>1, <1>8, <1>9, LenProperties DEF StoreOk
    <2> QED BY <1>5, <2>1 DEF RequestOk
<1>11. PageOk(h)'
    BY <1>3, <1>7, <1>8, <1>9, PageStays DEF Inductive
<1> QED BY <1>4, <1>8, <1>9, <1>10, <1>11, PageWritten

LEMMA LoseKeeps ==
    ASSUME RotationAssumption, Inductive, NEW p \in Pages, Lose(p)
    PROVE  Inductive'
<1> DEFINE c == page[p].call
<1>1. PICK g : g = page[p]
    OBVIOUS
<1>2. PageOk(g) /\ StoreOk /\ calls \in Seq(CallRows)
    BY <1>1 DEF Inductive
<1>3. PICK lost : /\ page' = [page EXCEPT ![p] = Rest(lost)]
                  /\ lost \in {g, [g EXCEPT !.intent = "none"], Unconfirmed(p, g)}
    BY <1>1 DEF Lose
<1>4. PageOk(lost)
    BY <1>2, <1>3, IntentOk, UnconfirmedOk
<1>5. PICK h : h = Rest(lost)
    OBVIOUS
<1>6. PageOk(h)
    BY <1>2, <1>4, <1>5, RestOk
<1>7. page' = [page EXCEPT ![p] = h]
    BY <1>3, <1>5
<1> QED BY <1>6, <1>7, OnlyPage DEF Lose

LEMMA CancelKeeps ==
    ASSUME Inductive, NEW p \in Pages, Cancel(p)
    PROVE  Inductive'
<1>1. PICK b : b = ResetProof(page[p])
    OBVIOUS
<1>2. PageOk(b)
    BY <1>1, ResetOk DEF Inductive
<1>3. PICK h : h = [b EXCEPT !.intent = "none", !.key = 0]
    OBVIOUS
<1>4. PageOk(h)
    BY <1>2, <1>3, IntentOk
<1>5. page' = [page EXCEPT ![p] = h]
    BY <1>1, <1>3 DEF Cancel
<1> QED BY <1>4, <1>5, OnlyPage DEF Cancel

LEMMA ReloadKeeps ==
    ASSUME RotationAssumption, Inductive, NEW p \in Pages, Reload(p)
    PROVE  Inductive'
<1>1. PICK h : h = refresh(p, page[p])
    OBVIOUS
<1>2. PageOk(h)
    BY <1>1, RefreshOk DEF Inductive
<1>3. page' = [page EXCEPT ![p] = h]
    BY <1>1 DEF Reload
<1> QED BY <1>2, <1>3, OnlyPage DEF Reload

LEMMA ElsewhereKeeps ==
    ASSUME Inductive, NEW p \in Pages, IdentityChanged(p)
    PROVE  Inductive'
<1>1. PICK h : h = externalIdentityChanged(page[p])
    OBVIOUS
<1>2. PageOk(h)
    BY <1>1, IdentityChangedOk DEF Inductive
<1>3. page' = [page EXCEPT ![p] = h]
    BY <1>1 DEF IdentityChanged
<1> QED BY <1>2, <1>3, OnlyPage DEF IdentityChanged

\* The two requests that ask for a code.
LEMMA AskingIs ==
    ASSUME NEW p \in Pages, NEW proof \in Nat, NEW key \in Nat
    PROVE  /\ \E q \in CallRows : /\ q = Request(p, "create", proof, 0, 0, 0)
                                  /\ q.kind = "create" /\ q.pc = "read" /\ q.proof = proof /\ q.at = 0
           /\ \E q \in CallRows : /\ q = Request(p, "start", proof, key, 0, 0)
                                  /\ q.kind = "start" /\ q.pc = "read" /\ q.proof = proof /\ q.at = 0
<1> DEFINE a == [page |-> p, kind |-> "create", pc |-> "read", proof |-> proof, key |-> 0, at |-> 0,
                 sent |-> 0, row |-> 0, gen |-> 0, ans |-> "none"]
           b == [page |-> p, kind |-> "start", pc |-> "read", proof |-> proof, key |-> key, at |-> 0,
                 sent |-> 0, row |-> 0, gen |-> 0, ans |-> "none"]
<1>1. a \in CallRows /\ a.kind = "create" /\ a.pc = "read" /\ a.proof = proof /\ a.at = 0
    BY DEF CallRows
<1>2. b \in CallRows /\ b.kind = "start" /\ b.pc = "read" /\ b.proof = proof /\ b.at = 0
    BY DEF CallRows
<1>3. a = Request(p, "create", proof, 0, 0, 0) /\ b = Request(p, "start", proof, key, 0, 0)
    BY DEF Request
<1> HIDE DEF a, b
<1> QED BY <1>1, <1>2, <1>3

LEMMA SendGrows ==
    ASSUME Inductive, NEW p \in Pages, NEW g, NEW q \in CallRows, Send(p, g, q)
    PROVE  /\ calls' \in Seq(CallRows) /\ Len(calls') = Len(calls) + 1 /\ Len(calls) \in Nat
           /\ \A c \in DOMAIN calls' : \/ c \in DOMAIN calls /\ calls'[c] = calls[c]
                                       \/ calls'[c] = q
<1>1. calls \in Seq(CallRows) /\ calls' = Append(calls, q)
    BY DEF Inductive, Send
<1> QED BY ONLY <1>1, q \in CallRows, Appended

LEMMA SendKeeps ==
    ASSUME Inductive, Grows, StoreOk', NEW p \in Pages, NEW g, PageOk(g)', g.sum # None,
           NEW q, RequestOk(q)', Send(p, g, q)
    PROVE  Inductive'
<1>1. q \in CallRows /\ g \in PageRows
    BY DEF RequestOk, PageOk
<1>2. /\ calls' \in Seq(CallRows) /\ Len(calls') = Len(calls) + 1 /\ Len(calls) \in Nat
      /\ \A c \in DOMAIN calls' : \/ c \in DOMAIN calls /\ calls'[c] = calls[c]
                                  \/ calls'[c] = q
    BY <1>1, SendGrows
<1>3. PICK n \in Nat : n = Len(calls) + 1
    BY <1>2
<1> DEFINE h == [g EXCEPT !.call = n, !.fresh = TRUE]
<1>4. h \in PageRows /\ h.sum = g.sum /\ h.shown = g.shown /\ h.proof = g.proof /\ h.call = n
      /\ h.fresh = TRUE
    BY ONLY <1>1, n \in Nat DEF PageRows
<1>5. page' = [page EXCEPT ![p] = h]
    BY <1>3 DEF Send
<1> HIDE DEF h
<1>6. PageOk(h)'
    BY <1>2, <1>3, <1>4 DEF PageOk
<1>7. \A c \in DOMAIN calls' : \/ c \in DOMAIN calls /\ calls'[c] = calls[c]
                               \/ RequestOk(calls[c])'
    BY <1>2 DEF RequestOk, CreateRead
<1> QED BY <1>2, <1>5, <1>6, <1>7, PageWritten

LEMMA CreatingKeeps ==
    ASSUME Inductive, Grows, StoreOk', NEW p \in Pages, NEW g, PageOk(g)', g.sum # None, SendCreate(p, g)
    PROVE  Inductive'
<1>1. g \in PageRows /\ g.proof \in 0..Len(proofs') /\ g.proof \in Nat
    BY DEF PageOk, PageRows
<1>2. PICK q \in CallRows :
               /\ q = Request(p, "create", g.proof, 0, 0, 0)
               /\ q.kind = "create" /\ q.pc = "read" /\ q.proof = g.proof /\ q.at = 0
    BY <1>1, AskingIs
<1>3. RequestOk(q)'
    BY <1>1, <1>2 DEF RequestOk
<1>4. Send(p, g, q)
    BY <1>2 DEF SendCreate
<1> QED BY <1>3, <1>4, SendKeeps

LEMMA RotatingKeeps ==
    ASSUME Inductive, Grows, StoreOk', NEW p \in Pages, NEW g, PageOk(g)', g.sum # None, SendRotate(p, g)
    PROVE  Inductive'
<1>1. g \in PageRows /\ g.proof \in 0..Len(proofs') /\ g.proof \in Nat /\ g.key \in Nat
      /\ Len(calls) \in Nat
    BY LenProperties DEF PageOk, PageRows, Inductive
<1>2. PICK key \in Nat : key = IF g.key = 0 THEN Len(calls) + 1 ELSE g.key
    BY <1>1
<1>3. PICK q \in CallRows :
               /\ q = Request(p, "start", g.proof, key, 0, 0)
               /\ q.kind = "start" /\ q.pc = "read" /\ q.proof = g.proof /\ q.at = 0
    BY <1>1, <1>2, AskingIs
<1>4. RequestOk(q)'
    BY <1>1, <1>3 DEF RequestOk
<1> DEFINE h == [g EXCEPT !.key = key]
<1>5. /\ h \in PageRows /\ h.sum = g.sum /\ h.shown = g.shown /\ h.proof = g.proof /\ h.call = g.call
      /\ h.fresh = g.fresh
    BY ONLY <1>1, key \in Nat DEF PageRows
<1>6. Send(p, h, q)
    BY <1>2, <1>3 DEF SendRotate
<1> HIDE DEF h
<1>7. PageOk(h)' /\ h.sum # None
    BY <1>5 DEF PageOk
<1> QED BY <1>4, <1>6, <1>7, SendKeeps

\* Before a request is sent the page and the store are as the invariant has them.
LEMMA SendingPage ==
    ASSUME Inductive, NEW p \in Pages, NEW g, g = page[p], UNCHANGED <<creds, rotations, proofs, alive, kept>>,
           NEW q \in CallRows, NEW h, Send(p, h, q)
    PROVE  StoreOk' /\ Grows /\ PageOk(g)'
<1>1. /\ calls' \in Seq(CallRows) /\ Len(calls) <= Len(calls')
    BY SendGrows
<1>2. StoreOk' /\ Grows
    BY <1>1, NothingStored
<1> QED BY <1>1, <1>2, PageStays DEF Inductive

LEMMA createRecoveryCodeKeeps ==
    ASSUME Inductive, NEW p \in Pages, createRecoveryCode(p)
    PROVE  Inductive'
<1>1. PICK g : g = page[p]
    OBVIOUS
<1>2. g.sum # None /\ SendCreate(p, g) /\ UNCHANGED <<creds, rotations, proofs, alive, kept>>
    BY <1>1 DEF createRecoveryCode, Ready
<1>3. g.proof \in Nat
    BY <1>1 DEF Inductive, PageOk, PageRows
<1>4. PICK q \in CallRows : q = Request(p, "create", g.proof, 0, 0, 0)
    BY <1>3, AskingIs
<1>5. Send(p, g, q)
    BY <1>2, <1>4 DEF SendCreate
<1>6. StoreOk' /\ Grows /\ PageOk(g)'
    BY <1>1, <1>2, <1>5, SendingPage
<1> QED BY <1>2, <1>6, CreatingKeeps

LEMMA rotateRecoveryCodeKeeps ==
    ASSUME Inductive, NEW p \in Pages, rotateRecoveryCode(p)
    PROVE  Inductive'
<1>1. PICK g : g = page[p]
    OBVIOUS
<1>2. g.sum # None /\ PageOk(g) /\ StoreOk /\ UNCHANGED <<creds, rotations, proofs, alive, kept>>
    BY <1>1 DEF rotateRecoveryCode, Ready, Inductive
<1>3. CASE page' = [page EXCEPT ![p] = askRecoveryVerification(@, "rotate")] /\ UNCHANGED calls
    <2>1. PICK h : h = askRecoveryVerification(g, "rotate")
        OBVIOUS
    <2>2. PageOk(h)
        BY <1>2, <2>1, AskOk
    <2>3. page' = [page EXCEPT ![p] = h]
        BY <1>1, <1>3, <2>1
    <2> QED BY <1>2, <1>3, <2>2, <2>3, OnlyPage
<1>4. CASE SendRotate(p, g)
    <2>1. g.proof \in Nat /\ g.key \in Nat /\ Len(calls) \in Nat
        BY <1>2, LenProperties DEF Inductive, PageOk, PageRows
    <2>2. PICK key \in Nat : key = IF g.key = 0 THEN Len(calls) + 1 ELSE g.key
        BY <2>1
    <2>3. PICK q \in CallRows : q = Request(p, "start", g.proof, key, 0, 0)
        BY <2>1, <2>2, AskingIs
    <2>4. PICK h : Send(p, h, q)
        BY <1>4, <2>2, <2>3 DEF SendRotate
    <2>5. StoreOk' /\ Grows /\ PageOk(g)'
        BY <1>1, <1>2, <2>4, SendingPage
    <2> QED BY <1>2, <1>4, <2>5, RotatingKeeps
<1> QED BY <1>1, <1>3, <1>4 DEF rotateRecoveryCode

\* The code by mail was right: the page has a proof and a summary, and asks again.
LEMMA verifyProofKeeps ==
    ASSUME RotationAssumption, Inductive, NEW p \in Pages, verifyProof(p)
    PROVE  Inductive'
<1>1. PICK g : g = page[p]
    OBVIOUS
<1>2. /\ PageOk(g) /\ StoreOk /\ UNCHANGED <<creds, rotations, alive, kept>>
      /\ proofs' = Append(proofs, [page |-> p, state |-> "live"])
    BY <1>1 DEF verifyProof, Inductive
<1>3. PICK row \in ProofRows : row = [page |-> p, state |-> "live"]
    BY DEF ProofRows
<1>4. proofs' = Append(proofs, row) /\ proofs \in Seq(ProofRows)
    BY <1>2, <1>3 DEF StoreOk
<1>5. /\ proofs' \in Seq(ProofRows) /\ Len(proofs') = Len(proofs) + 1 /\ Len(proofs) \in Nat
      /\ \A k \in DOMAIN proofs : k \in DOMAIN proofs' /\ proofs'[k] = proofs[k]
    <2>1. /\ proofs' \in Seq(ProofRows) /\ Len(proofs') = Len(proofs) + 1 /\ Len(proofs) \in Nat
          /\ DOMAIN proofs = 1..Len(proofs) /\ DOMAIN proofs' = 1..(Len(proofs) + 1)
          /\ \A k \in DOMAIN proofs : proofs'[k] = proofs[k]
        BY ONLY row \in ProofRows, <1>4, Appended
    <2> QED BY <2>1
<1>6. PICK n \in Nat : n = Len(proofs) + 1
    BY <1>5
<1>7. PICK sum \in Summaries : sum = Summary /\ sum # None
    BY <1>2, SummaryOk
<1> DEFINE h == [g EXCEPT !.proof = n, !.sum = sum]
<1>8. g \in PageRows
    BY <1>2 DEF PageOk
<1>9. /\ h \in PageRows /\ h.sum = sum /\ h.shown = g.shown /\ h.proof = n /\ h.call = g.call
      /\ h.fresh = g.fresh /\ h.key \in Nat
    BY ONLY <1>8, n \in Nat, sum \in Summaries DEF PageRows
<1>10. SendCreate(p, h) \/ SendRotate(p, h)
    BY <1>1, <1>6, <1>7 DEF verifyProof
<1> HIDE DEF h
<1>11. \E q \in CallRows : \E z : Send(p, z, q)
    <2>1. Len(calls) \in Nat
        BY LenProperties DEF Inductive
    <2>2. PICK key \in Nat : key = IF h.key = 0 THEN Len(calls) + 1 ELSE h.key
        BY <1>9, <2>1
    <2>3. /\ \E q \in CallRows : q = Request(p, "create", h.proof, 0, 0, 0)
          /\ \E q \in CallRows : q = Request(p, "start", h.proof, key, 0, 0)
        BY <1>9, AskingIs
    <2>4. CASE SendCreate(p, h)
        BY <2>3, <2>4 DEF SendCreate
    <2>5. CASE SendRotate(p, h)
        BY <2>2, <2>3, <2>5 DEF SendRotate
    <2> QED BY <1>10, <2>4, <2>5
<1>12. /\ calls' \in Seq(CallRows) /\ Len(calls) <= Len(calls') /\ Len(calls) \in Nat
       /\ Len(calls') \in Nat /\ calls \in Seq(CallRows)
    BY <1>11, SendGrows DEF Inductive
<1>13. StoreOk'
    <2>1. /\ alive' \in [Pages -> BOOLEAN] /\ kept' \in SUBSET Nat /\ UNCHANGED <<creds, rotations>>
          /\ \A k \in DOMAIN proofs : /\ k \in DOMAIN proofs'
                                      /\ proofs[k].state = "used" => proofs'[k].state = "used"
        BY <1>2, <1>5 DEF StoreOk
    <2> QED BY <1>2, <1>5, <1>12, <2>1, StoreStays
<1>14. Grows
    BY <1>2, <1>5, <1>12, LenProperties DEF Grows, StoreOk
<1>15. PageOk(h)'
    <2>1. PageOk(g)'
        BY <1>2, <1>12, <1>13, <1>14, PageStays
    <2>2. n \in 0..Len(proofs')
        BY <1>5, <1>6
    <2> QED BY <1>7, <1>9, <2>1, <2>2 DEF PageOk
<1>16. h.sum # None
    BY <1>7, <1>9
<1> QED BY <1>10, <1>13, <1>14, <1>15, <1>16, CreatingKeeps, RotatingKeeps

\* What a page shows is sent back, and its secret is in its owner's hands.
LEMMA confirmRecoveryCodeKeeps ==
    ASSUME Inductive, NEW p \in Pages, confirmRecoveryCode(p)
    PROVE  Inductive'
<1>1. PICK g : g = page[p]
    OBVIOUS
<1>2. PICK s : s = g.shown
    OBVIOUS
<1>3. /\ PageOk(g) /\ StoreOk /\ UNCHANGED <<creds, rotations, proofs, alive>>
      /\ g.sum # None /\ s # None /\ kept' = kept \union {s.sec}
    BY <1>1, <1>2 DEF confirmRecoveryCode, Ready, Inductive
<1>4. s \in ShownRows
    BY <1>2, <1>3 DEF PageOk, PageRows
<1>5. s.at \in Nat /\ s.sec \in Nat /\ s.rotation \in BOOLEAN
    BY <1>4 DEF ShownRows
<1>6. s.rotation => s.at \in DOMAIN rotations
    BY <1>2, <1>3 DEF PageOk
<1>7. PICK kind \in {"save", "finish"} : kind = IF s.rotation THEN "finish" ELSE "save"
    OBVIOUS
<1>8. PICK z \in Nat : z = 0
    OBVIOUS
<1>9. kind \in {"create", "start", "save", "finish"}
    OBVIOUS
<1> DEFINE b == [page |-> p, kind |-> kind, pc |-> "read", proof |-> z, key |-> z, at |-> s.at,
                 sent |-> s.sec, row |-> 0, gen |-> 0, ans |-> "none"]
<1>10. /\ b \in CallRows /\ b = Request(p, kind, z, z, s.at, s.sec)
       /\ b.kind = kind /\ b.pc = "read" /\ b.proof = z /\ b.at = s.at /\ b.sent = s.sec
    <2>1. b \in CallRows
        BY <1>5, <1>9 DEF CallRows
    <2>2. b = Request(p, kind, z, z, s.at, s.sec)
        BY DEF Request
    <2> QED BY <2>1, <2>2
<1> HIDE DEF b
<1>11. PICK q \in CallRows :
               /\ q = Request(p, kind, z, z, s.at, s.sec)
               /\ q.kind = kind /\ q.pc = "read" /\ q.proof = z /\ q.at = s.at /\ q.sent = s.sec
    BY <1>10
<1>12. Send(p, g, q)
    BY <1>1, <1>2, <1>7, <1>8, <1>11 DEF confirmRecoveryCode
<1>13. /\ calls' \in Seq(CallRows) /\ Len(calls) <= Len(calls') /\ calls \in Seq(CallRows)
    BY <1>12, SendGrows DEF Inductive
<1>14. StoreOk'
    <2>1. /\ alive' \in [Pages -> BOOLEAN] /\ kept' \in SUBSET Nat /\ UNCHANGED <<creds, rotations>>
          /\ proofs' \in Seq(ProofRows)
          /\ \A k \in DOMAIN proofs : /\ k \in DOMAIN proofs'
                                      /\ proofs[k].state = "used" => proofs'[k].state = "used"
        BY <1>3, <1>5 DEF StoreOk
    <2> QED BY <1>3, <1>13, <2>1, StoreStays
<1>15. Grows
    BY <1>3, <1>13, LenProperties DEF Grows, StoreOk
<1>16. PageOk(g)'
    BY <1>3, <1>13, <1>14, <1>15, PageStays
<1>17. RequestOk(q)'
    <2>1. Len(proofs') \in Nat
        BY <1>14, LenProperties DEF StoreOk
    <2>2. q.kind = "finish" => q.at \in DOMAIN rotations'
        BY <1>3, <1>6, <1>7, <1>11
    <2>3. q.sent \in kept'
        BY <1>3, <1>11
    <2> QED BY <1>7, <1>8, <1>11, <2>1, <2>2, <2>3 DEF RequestOk
<1> QED BY <1>3, <1>12, <1>14, <1>15, <1>16, <1>17, SendKeeps

-----------------------------------------------------------------------------
(***************************************************************************)
(* The invariant                                                           *)
(***************************************************************************)
LEMMA InitKeeps ==
    ASSUME RotationAssumption, Init
    PROVE  Inductive
<1>1. rotations = <<>> /\ proofs = <<>> /\ calls = <<>> /\ kept = {0} /\ alive = [p \in Pages |-> TRUE]
      /\ page = [p \in Pages |-> NewPage]
    BY DEF Init
<1>2. /\ rotations \in Seq(RotationRows) /\ proofs \in Seq(ProofRows) /\ calls \in Seq(CallRows)
      /\ DOMAIN rotations = {} /\ DOMAIN calls = {} /\ Len(proofs) = 0 /\ Len(calls) = 0
    BY <1>1
<1>3. /\ creds \in Seq(CredRows) /\ Ordered
      /\ \A i \in DOMAIN creds : creds[i].sec = 0
    <2>1. CASE creds = <<>>
        BY <2>1 DEF Ordered
    <2>2. CASE creds = <<FirstCode>>
        <3>1. FirstCode \in CredRows /\ FirstCode.sec = 0
            BY DEF FirstCode, CredRows
        <3> QED BY <2>2, <3>1 DEF Ordered
    <2> QED BY <2>1, <2>2 DEF Init
<1>4. StoreOk
    BY <1>1, <1>2, <1>3 DEF StoreOk
<1>5. PICK sum \in Summaries : sum = Summary /\ sum # None
    BY <1>4, SummaryOk
<1> DEFINE h == [sum |-> sum, shown |-> None, intent |-> "none", key |-> 0, proof |-> 0,
                 call |-> 0, fresh |-> TRUE]
<1>6. h = NewPage
    BY <1>5 DEF NewPage
<1>7. h \in PageRows /\ h.sum = sum /\ h.shown = None /\ h.proof = 0 /\ h.call = 0
    BY DEF PageRows
<1> HIDE DEF h
<1>8. PageOk(h)
    BY <1>2, <1>5, <1>7 DEF PageOk
<1>9. page \in [Pages -> PageRows] /\ \A p \in Pages : PageOk(page[p])
    BY <1>1, <1>6, <1>7, <1>8
<1> QED BY <1>2, <1>4, <1>9 DEF Inductive

LEMMA NextKeeps ==
    ASSUME RotationAssumption, Inductive, [Next]_vars
    PROVE  Inductive'
<1>1. CASE UNCHANGED vars
    <2>1. StoreOk' /\ Grows
        <3>1. calls' \in Seq(CallRows) /\ Len(calls) <= Len(calls')
            BY <1>1, LenProperties DEF Inductive, vars
        <3> QED BY <1>1, <3>1, NothingStored DEF vars
    <2> QED BY <1>1, <2>1, QuietKeeps DEF vars
<1>2. ASSUME NEW p \in Pages,
             \/ createRecoveryCode(p) \/ rotateRecoveryCode(p) \/ verifyProof(p)
             \/ Cancel(p) \/ confirmRecoveryCode(p) \/ Reload(p) \/ IdentityChanged(p)
             \/ Answer(p) \/ Lose(p) \/ EndSession(p)
      PROVE  Inductive'
    BY <1>2, createRecoveryCodeKeeps, rotateRecoveryCodeKeeps, verifyProofKeeps, CancelKeeps,
       confirmRecoveryCodeKeeps, ReloadKeeps, ElsewhereKeeps, AnswerKeeps, LoseKeeps, EndSessionKeeps
<1>3. ASSUME NEW c \in DOMAIN calls, Handle(c) \/ Drop(c)
      PROVE  Inductive'
    BY <1>3, ReadCreateKeeps, CommitCreateKeeps, SaveCodeKeeps, ReadStartKeeps, ReplayStartKeeps,
       CommitStartKeeps, FinishRotationKeeps, DropKeeps DEF Handle
<1>4. CASE Elapse \/ UseCode
    BY <1>4, ElapseKeeps, UseCodeKeeps
<1> QED BY <1>1, <1>2, <1>3, <1>4 DEF Next

LEMMA AlwaysInductive ==
    ASSUME RotationAssumption
    PROVE  Spec => []Inductive
<1>1. Init => Inductive
    BY InitKeeps
<1>2. Inductive /\ [Next]_vars => Inductive'
    BY NextKeeps
<1> QED BY <1>1, <1>2, PTL DEF Spec

-----------------------------------------------------------------------------
(***************************************************************************)
(* The theorems                                                            *)
(***************************************************************************)
LEMMA TypesFollow ==
    ASSUME Inductive
    PROVE  TypeOK
<1>1. /\ StoreOk /\ \A i \in DOMAIN creds : creds[i] \in CredRows
      /\ Len(calls) \in Nat /\ Len(proofs) \in Nat
    BY CodesTyped, LenProperties DEF Inductive, StoreOk
<1>2. ASSUME NEW i \in DOMAIN creds
      PROVE  creds[i] \in [sec : 0..Len(calls), gen : Nat \ {0}, live : BOOLEAN, saved : BOOLEAN]
    BY <1>1, <1>2 DEF CredRows, StoreOk
<1>3. \A i \in DOMAIN rotations : rotations[i].sec \in 1..Len(calls) /\ rotations[i].old \in DOMAIN creds
    BY <1>1 DEF StoreOk, RotationOk
<1>4. \A p \in Pages : page[p].call \in 0..Len(calls) /\ page[p].proof \in 0..Len(proofs)
    BY DEF Inductive, PageOk
<1> QED BY <1>2, <1>3, <1>4 DEF TypeOK

LEMMA OneIsLive ==
    ASSUME Inductive
    PROVE  OneLiveCode
<1>1. Live \subseteq {Len(creds)}
    BY LastIsGreatest DEF Inductive
<1>2. Cardinality(Live) <= 1
    <2>1. CASE Live = {}
        BY <2>1, FS_EmptySet
    <2>2. CASE Live = {Len(creds)}
        <3>1. Cardinality({Len(creds)}) = 1
            BY FS_Singleton
        <3> QED BY <2>2, <3>1
    <2>3. Live = {} \/ Live = {Len(creds)}
        BY <1>1
    <2> QED BY <2>1, <2>2, <2>3
<1> QED BY <1>2 DEF OneLiveCode, Inductive, StoreOk, Ordered

LEMMA ProofsPayOnce ==
    ASSUME Inductive
    PROVE  ProofPaysOnce /\ ShownToOwner
BY DEF ProofPaysOnce, ShownToOwner, Inductive, StoreOk, RotationOk, PageOk

\* However many devices create, replace and confirm codes at once: at most one code
\* is current and it is the newest, generations grow, a proof pays for one rotation,
\* and a page that shows a code shows its account (credential.ts:94-163,
\* service.ts:371-585, account.ts:316-334).
THEOREM RecoveryIsSound ==
    ASSUME RotationAssumption
    PROVE  Spec => []RotationHolds
<1>1. Inductive => RotationHolds
    BY TypesFollow, OneIsLive, ProofsPayOnce DEF RotationHolds
<1>2. Spec => []Inductive
    BY AlwaysInductive
<1> QED BY <1>1, <1>2, PTL

\* A step that touches no code leaves every saved code as it was.
LEMMA SavedStays ==
    ASSUME UNCHANGED creds
    PROVE  WorksUntilReplaced
BY DEF WorksUntilReplaced, SavedLive, Live

LEMMA StepReplaces ==
    ASSUME RotationAssumption, Inductive, [Next]_vars
    PROVE  WorksUntilReplaced \/ UNCHANGED vars
<1>0. StoreOk /\ creds \in Seq(CredRows) /\ DOMAIN creds = 1..Len(creds) /\ Len(creds) \in Nat
    BY LenProperties DEF Inductive, StoreOk
<1>1. CASE UseCode
    BY <1>1 DEF WorksUntilReplaced
<1>2. ASSUME NEW c \in DOMAIN calls, CommitCreate(c)
      PROVE  WorksUntilReplaced
    <2> DEFINE row == calls[c].row
    <2>1. CASE UNCHANGED creds
        BY <2>1, SavedStays
    <2>2. CASE Replaceable(row) /\ ~UNCHANGED creds
        <3> DEFINE base == IF row = 0 THEN creds ELSE [creds EXCEPT ![row].live = FALSE]
                   code == [sec |-> c, gen |-> calls[c].gen + 1, live |-> TRUE, saved |-> FALSE]
        <3>1. creds' = Append(base, code)
            BY <1>2, <2>2 DEF CommitCreate
        <3>2. row # 0 => row \in DOMAIN creds /\ ~creds[row].saved
            BY <2>2 DEF Replaceable, Live
        <3>3. /\ base \in Seq(CredRows) /\ Len(base) = Len(creds)
              /\ \A i \in DOMAIN creds :
                    base[i].saved = creds[i].saved /\ base[i].live = (creds[i].live /\ i # row)
            BY <1>0, <3>2, Retired
        <3> HIDE DEF base, code
        <3>4. \A i \in DOMAIN creds : i \in DOMAIN creds' /\ creds'[i] = base[i]
            BY <1>0, <3>1, <3>3
        <3>5. \A i \in SavedLive : i \in DOMAIN creds /\ creds[i].live /\ creds[i].saved /\ i # row
            BY <1>0, <3>2 DEF SavedLive, Live
        <3> QED BY <3>3, <3>4, <3>5 DEF WorksUntilReplaced, Live
    <2> QED BY <1>2, <2>1, <2>2 DEF CommitCreate
<1>3. ASSUME NEW c \in DOMAIN calls, SaveCode(c)
      PROVE  WorksUntilReplaced
    <2> DEFINE at == calls[c].at
    <2>1. CASE UNCHANGED creds
        BY <2>1, SavedStays
    <2>2. CASE at \in Live /\ creds' = [creds EXCEPT ![at].saved = TRUE]
        <3>1. \A i \in DOMAIN creds : creds[i] \in CredRows
            BY <1>0, CodesTyped
        <3>2. \A i \in DOMAIN creds : /\ i \in DOMAIN creds' /\ creds'[i].live = creds[i].live
                                      /\ creds[i].saved => creds'[i].saved
            BY <2>2, <3>1 DEF CredRows
        <3> QED BY <3>2 DEF WorksUntilReplaced, SavedLive, Live
    <2> QED BY <1>3, <2>1, <2>2 DEF SaveCode
<1>4. ASSUME NEW c \in DOMAIN calls, FinishRotation(c)
      PROVE  WorksUntilReplaced
    <2> DEFINE at == calls[c].at
               code == [sec |-> rotations[at].sec, gen |-> rotations[at].gen, live |-> TRUE, saved |-> TRUE]
               base == [creds EXCEPT ![rotations[at].old].live = FALSE]
    <2>1. CASE UNCHANGED creds
        BY <2>1, SavedStays
    <2>2. CASE Finishable(calls[c]) /\ creds' = Append(base, code)
        <3>1. rotations[at].sec = calls[c].sent
            BY <2>2 DEF Finishable
        <3>2. calls[c].sent \in kept
            BY <1>4 DEF Inductive, RequestOk, FinishRotation, Reads
        <3>3. Len(base) = Len(creds) /\ base \in Seq(CredRows)
            <4>1. rotations[at].old \in DOMAIN creds /\ rotations[at].old # 0
                BY <1>0, <2>2 DEF Finishable, SavedLive, Live
            <4> QED BY <1>0, <4>1, Retired
        <3>4. code.live /\ code.saved /\ code.sec = rotations[at].sec
            OBVIOUS
        <3> HIDE DEF code, base
        <3>5. Len(creds) + 1 \in DOMAIN creds' /\ creds'[Len(creds) + 1] = code
            BY <1>0, <2>2, <3>3
        <3>6. Len(creds) + 1 > Len(creds)
            BY <1>0
        <3> QED BY <3>1, <3>2, <3>4, <3>5, <3>6 DEF WorksUntilReplaced
    <2> QED BY <1>4, <2>1, <2>2 DEF FinishRotation, Replaced
<1>5. CASE UNCHANGED creds
    BY <1>5, SavedStays
<1>6. ASSUME NEW p \in Pages,
             \/ createRecoveryCode(p) \/ rotateRecoveryCode(p) \/ verifyProof(p)
             \/ Cancel(p) \/ confirmRecoveryCode(p) \/ Reload(p) \/ IdentityChanged(p)
             \/ Answer(p) \/ Lose(p) \/ EndSession(p)
      PROVE  UNCHANGED creds
    BY <1>6 DEF createRecoveryCode, rotateRecoveryCode, verifyProof, Cancel, confirmRecoveryCode,
        Reload, IdentityChanged, Answer, Lose, EndSession, Stored
<1>7. ASSUME NEW c \in DOMAIN calls, ReadCreate(c) \/ ReadStart(c) \/ ReplayStart(c) \/ CommitStart(c)
                                     \/ Drop(c)
      PROVE  UNCHANGED creds
    BY <1>7 DEF ReadCreate, ReadStart, ReplayStart, CommitStart, Drop, Stored
<1>8. CASE Elapse
    BY <1>8, SavedStays DEF Elapse
<1> QED BY <1>1, <1>2, <1>3, <1>4, <1>5, <1>6, <1>7, <1>8 DEF Next, Handle

\* A saved code works until the very step that puts another code, already in its
\* owner's hands, in its place; only using it ends it otherwise (service.ts:371,
\* service.ts:521-585).
THEOREM SavedCodeWorks ==
    ASSUME RotationAssumption
    PROVE  Spec => [][WorksUntilReplaced]_vars
<1>1. Inductive /\ [Next]_vars => [WorksUntilReplaced]_vars
    BY StepReplaces
<1>2. Spec => []Inductive
    BY AlwaysInductive
<1> QED BY <1>1, <1>2, PTL DEF Spec
=============================================================================
