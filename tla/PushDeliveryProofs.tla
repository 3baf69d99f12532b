------------------------- MODULE PushDeliveryProofs -------------------------
(***************************************************************************)
(* The notices of one occurrence, for any number of users, passes and page *)
(* and all limits.  PushesHold is inductive.  Every step is shown to keep  *)
(* its three parts: what a pass has of its row, how messages are sent, and *)
(* how the expansion reaches everybody.                                    *)
(***************************************************************************)
EXTENDS PushDelivery, FiniteSetTheorems, WellFoundedInduction, TLAPS

Sends == PairAgrees /\ CallsHeld /\ UnsentUntouched /\ NeverResent
Pages == PagesHeld /\ CursorHeld /\ NobodyMissed
Flying == {"calling", "unknown", "accepted"}
RowsTyped ==
    /\ msg \in [Users -> Message \union {None}] /\ del \in [Users -> Statuses \union {None}]
    /\ \A u \in Users : Has(u) <=> del[u] # None

(***************************************************************************)
(* Numbers and pages                                                       *)
(***************************************************************************)
LEMMA LeastExists ==
    ASSUME NEW S \in SUBSET Nat, S # {}
    PROVE  \E x \in S : \A y \in S : x <= y
<1>1. \E x \in S : \A y \in S : ~(<<y, x>> \in OpToRel(<, Nat))
    BY WFMin, NatLessThanWellFounded, Zenon
<1>2. PICK x \in S : \A y \in S : ~(<<y, x>> \in OpToRel(<, Nat))
    BY <1>1
<1>3. \A y \in S : ~(y < x)
    BY <1>2 DEF OpToRel
<1> QED BY <1>3

\* Max is what its name says, of numbers up to a bound.
LEMMA GreatestExists ==
    ASSUME NEW n \in Nat, NEW S \in SUBSET (0..n), S # {}
    PROVE  Max(S) \in S /\ \A y \in S : y <= Max(S)
<1> DEFINE T == {n - x : x \in S}
<1>1. T \in SUBSET Nat /\ T # {}
    <2>1. \A x \in S : n - x \in Nat
        OBVIOUS
    <2> QED BY <2>1
<1>2. PICK t \in T : \A y \in T : t <= y
    BY <1>1, LeastExists
<1>3. PICK x \in S : t = n - x
    BY <1>2
<1>4. \A y \in S : x >= y
    <2> TAKE y \in S
    <2>1. t <= n - y
        BY <1>2
    <2> QED BY <2>1, <1>3
<1>5. \E z \in S : \A y \in S : z >= y
    BY <1>4
<1>6. Max(S) \in S /\ \A y \in S : Max(S) >= y
    BY <1>5, Zenon DEF Max
<1> QED BY <1>6

LEMMA UsersFinite ==
    ASSUME Bounds, NEW S \in SUBSET Users
    PROVE  IsFiniteSet(S) /\ Cardinality(S) \in Nat
<1>1. Upper \in Nat
    BY DEF Bounds
<1>2. IsFiniteSet(Users)
    BY <1>1, FS_Interval DEF Users
<1> QED BY <1>2, FS_Subset, FS_CardinalityType

\* A page of the expansion is the beginning of what is left of it: it skips nobody,
\* and a page that is not full is all that is left.
LEMMA PageSkipsNobody ==
    ASSUME Bounds, TypeOK, NEW last,
           last = IF PageUsers = {} THEN Upper ELSE Max(PageUsers)
    PROVE  /\ last \in 0..Upper
           /\ \A u \in able : u > job.cursor /\ (u <= last \/ Cardinality(PageUsers) < Page)
                  => u \in PageUsers
<1> DEFINE left == {w \in able : w > job.cursor}
<1> DEFINE Before(w) == {v \in left : v < w}
<1>a. Upper \in Nat
    BY DEF Bounds
<1>b. Page \in Nat \ {0}
    BY DEF Bounds
<1>0. Upper \in Nat /\ Page \in Nat \ {0} /\ Users \subseteq Nat /\ able \subseteq Users
    BY <1>a, <1>b DEF Users, TypeOK
<1>1. left \in SUBSET Users /\ left \in SUBSET Nat
    BY <1>0
<1>2. PageUsers = {w \in left : Cardinality(Before(w)) < Page} /\ PageUsers \in SUBSET Users
    BY <1>1 DEF PageUsers
<1>3. \A S \in SUBSET Users : IsFiniteSet(S) /\ Cardinality(S) \in Nat
    BY UsersFinite
<1>4. ASSUME NEW w \in left, NEW S \in SUBSET Users, Before(w) \subseteq S,
             Cardinality(S) < Page
      PROVE  w \in PageUsers
    <2>1. Cardinality(Before(w)) <= Cardinality(S)
        BY <1>3, <1>4, FS_Subset
    <2>2. Before(w) \in SUBSET Users
        BY <1>1
    <2>3. Cardinality(Before(w)) \in Nat /\ Cardinality(S) \in Nat
        BY <1>3, <2>2
    <2> QED BY <1>0, <1>2, <1>4, <2>1, <2>3
<1>5. PageUsers # {} => Max(PageUsers) \in PageUsers
    <2>1. PageUsers \in SUBSET (0..Upper)
        BY <1>0, <1>2 DEF Users
    <2> QED BY <1>0, <2>1, GreatestExists
<1>6. last \in 0..Upper
    BY <1>0, <1>2, <1>5 DEF Users
<1>7. ASSUME NEW u \in left, Cardinality(PageUsers) < Page
      PROVE  u \in PageUsers
    <2> SUFFICES ASSUME u \notin PageUsers
                 PROVE  FALSE
        OBVIOUS
    <2>1. left \ PageUsers \in SUBSET Nat /\ left \ PageUsers # {}
        BY <1>1
    <2>2. PICK w \in left \ PageUsers : \A y \in left \ PageUsers : w <= y
        BY <2>1, LeastExists
    <2>3. Before(w) \subseteq PageUsers
        BY <1>1, <2>2
    <2> QED BY <1>2, <1>4, <1>7, <2>2, <2>3
<1>8. ASSUME NEW u \in left, u <= last
      PROVE  u \in PageUsers
    <2>1. CASE PageUsers = {}
        <3>1. Cardinality(PageUsers) = 0
            BY <2>1, FS_EmptySet
        <3> QED BY <1>0, <1>7, <3>1
    <2>2. CASE PageUsers # {}
        <3>1. last \in PageUsers /\ last \in left
            BY <1>2, <1>5, <2>2
        <3>2. Before(u) \subseteq Before(last)
            BY <1>1, <1>8, <3>1
        <3>3. Before(last) \in SUBSET Users /\ Cardinality(Before(last)) < Page
            BY <1>1, <1>2, <3>1
        <3> HIDE DEF Before
        <3> QED BY <1>4, <3>2, <3>3
    <2> QED BY <2>1, <2>2
<1> HIDE DEF Before
<1> QED BY <1>6, <1>7, <1>8

(***************************************************************************)
(* Shapes                                                                  *)
(***************************************************************************)
LEMMA Shapes ==
    ASSUME Bounds, TypeOK, NEW p \in Passes, pass[p] # None
    PROVE  /\ pass[p] \in Reads /\ pass[p].at \in Nat
           /\ pass[p].pc \in {"page", "claim", "close", "call", "write"}
           /\ pass[p].pc = "page" => pass[p] \in PageRead
           /\ pass[p].pc = "claim" => pass[p] \in Candidate
           /\ pass[p].pc = "close" => pass[p] \in Refused
           /\ pass[p].pc = "call" => pass[p] \in Called
           /\ pass[p].pc = "write" => pass[p] \in Answered
           /\ pass[p].pc # "page" => pass[p].u \in Users
<1>1. pass[p] \in Reads
    BY DEF TypeOK
<1>2. CASE pass[p] \in PageRead
    BY <1>1, <1>2 DEF PageRead
<1>3. CASE pass[p] \in Candidate
    BY <1>1, <1>3 DEF Candidate
<1>4. CASE pass[p] \in Refused
    BY <1>1, <1>4 DEF Refused
<1>5. CASE pass[p] \in Called
    BY <1>1, <1>5 DEF Called
<1>6. CASE pass[p] \in Answered
    BY <1>1, <1>6 DEF Answered
<1> QED BY <1>1, <1>2, <1>3, <1>4, <1>5, <1>6 DEF Reads

LEMMA RowShapes ==
    ASSUME Bounds, TypeOK, NEW u \in Users, Has(u)
    PROVE  /\ msg[u] \in Message /\ del[u] \in Statuses
           /\ msg[u].status \in Statuses /\ {msg[u].attempts, msg[u].lv, msg[u].until, msg[u].next} \subseteq Nat
<1>1. msg[u] \in Message /\ del[u] \in Statuses
    BY DEF TypeOK, Has
<1> QED BY <1>1 DEF Message

LEMMA NoneIsNoStatus ==
    ASSUME Bounds
    PROVE  None \notin Statuses /\ None \notin Message /\ None \notin Reads
BY DEF Bounds

\* One row changes.
LEMMA OneRow ==
    ASSUME Bounds, TypeOK, NEW u \in Users, Has(u), NEW m \in Message, NEW d \in Statuses,
           msg' = [msg EXCEPT ![u] = m], del' = [del EXCEPT ![u] = d]
    PROVE  /\ RowsTyped' /\ msg'[u] = m /\ del'[u] = d
           /\ \A v \in Users \ {u} : msg'[v] = msg[v] /\ del'[v] = del[v]
           /\ \A v \in Users : Has(v)' <=> Has(v)
<1>1. None \notin Statuses /\ None \notin Message
    BY NoneIsNoStatus
<1>2. msg \in [Users -> Message \union {None}] /\ del \in [Users -> Statuses \union {None}]
    BY DEF TypeOK
<1>3. msg' \in [Users -> Message \union {None}] /\ del' \in [Users -> Statuses \union {None}]
    BY <1>2
<1>4. /\ msg'[u] = m /\ del'[u] = d
      /\ \A v \in Users \ {u} : msg'[v] = msg[v] /\ del'[v] = del[v]
    BY <1>2
<1>5. \A v \in Users : Has(v)' <=> Has(v)
    BY <1>1, <1>4 DEF Has
<1>6. \A v \in Users : Has(v)' <=> del'[v] # None
    BY <1>1, <1>4, <1>5 DEF TypeOK, Has
<1> QED BY <1>3, <1>4, <1>5, <1>6 DEF RowsTyped

\* One pass moves.
LEMMA OnePass ==
    ASSUME TypeOK, NEW p \in Passes, NEW x \in Reads \union {None},
           pass' = [pass EXCEPT ![p] = x]
    PROVE  /\ pass' \in [Passes -> Reads \union {None}] /\ pass'[p] = x
           /\ \A r \in Passes \ {p} : pass'[r] = pass[r]
BY DEF TypeOK

LEMMA RestingPass ==
    ASSUME TypeOK, NEW p \in Passes, Rest(p)
    PROVE  /\ pass' \in [Passes -> Reads \union {None}] /\ pass'[p] = None
           /\ \A r \in Passes \ {p} : pass'[r] = pass[r]
BY DEF TypeOK, Rest

(***************************************************************************)
(* Frames: what a step leaves alone keeps its part                         *)
(***************************************************************************)
SameRows == \A u \in Users : Has(u)' <=> Has(u)
\* What the passes that call rely on, and what a row owes by itself.
Carries(u) ==
    msg'[u].lv = msg[u].lv /\ (msg[u].status \in Flying => msg'[u].status \in Flying)
Tidy(u) ==
    Agrees(u)' /\ ((~Has(u)' \/ msg'[u].status \in Waiting) => reached[u] = 0)

LEMMA UntouchedRow ==
    ASSUME PushesHold, NEW u \in Users, msg'[u] = msg[u], del'[u] = del[u]
    PROVE  Tidy(u) /\ Carries(u)
<1>1. Has(u)' <=> Has(u)
    BY DEF Has
<1>2. Agrees(u)'
    BY <1>1 DEF PushesHold, PairAgrees, Agrees
<1> QED BY <1>1, <1>2 DEF PushesHold, UnsentUntouched, Tidy, Carries

LEMMA RowsKept ==
    ASSUME RowsHeld, SameRows, TypeOK',
           \A r \in Passes : (pass'[r] # None /\ pass'[r].pc # "page") =>
               \/ pass'[r] = pass[r] /\ pass[r].u \in Users
               \/ pass'[r].u \in Users /\ Has(pass'[r].u)
    PROVE  RowsHeld'
BY DEF RowsHeld, SameRows, Has

LEMMA SendsKept ==
    ASSUME Bounds, PushesHold, UNCHANGED reached, \A u \in Users : Tidy(u),
           \A r \in Passes : Calling(r)' => pass'[r] = pass[r] /\ Carries(pass[r].u)
    PROVE  Sends'
<1>1. PairAgrees'
    BY DEF PairAgrees, Tidy
<1>2. UnsentUntouched'
    BY DEF UnsentUntouched, Tidy
<1>3. NeverResent'
    BY DEF PushesHold, NeverResent
<1>4. \A r \in Passes : Calling(r)' => Calling(r) /\ pass'[r] = pass[r]
    BY DEF Calling
<1>5. \A r \in Passes : Calling(r)' => CallHolds(pass[r])'
    BY <1>4 DEF PushesHold, CallsHeld, CallHolds, Carries, Flying
<1>6. CallsHeld'
    BY <1>4, <1>5 DEF PushesHold, CallsHeld, CallHolds
<1> QED BY <1>1, <1>2, <1>3, <1>6 DEF Sends

LEMMA PagesKept ==
    ASSUME Bounds, PushesHold, SameRows, UNCHANGED job, steady' \subseteq steady,
           ~Valid(now) => ~Valid(now)',
           \A r \in Passes : Reading(r)' => pass'[r] = pass[r]
    PROVE  Pages'
<1>1. \A r \in Passes : Reading(r)' => Reading(r) /\ pass'[r] = pass[r]
    BY DEF Reading
<1>2. steady \subseteq Users
    BY DEF PushesHold, TypeOK
<1>3. ASSUME NEW r \in Passes, Reading(r)'
      PROVE  PageHolds(pass[r])'
    <2>1. PageHolds(pass[r]) /\ pass[r] \in PageRead /\ pass'[r] = pass[r]
        BY <1>1, <1>3, Shapes DEF PushesHold, PagesHeld, Reading
    <2>2. pass[r].targets \subseteq Users
        BY <2>1 DEF PageRead
    <2> QED BY <1>2, <2>1, <2>2 DEF PageHolds, SameRows
<1>4. PagesHeld'
    BY <1>1, <1>3 DEF PagesHeld
<1>5. CursorHeld'
    BY <1>2 DEF PushesHold, CursorHeld, SameRows
<1>6. NobodyMissed'
    <2>1. now \in Nat /\ Expiry \in Nat
        BY DEF PushesHold, TypeOK, Bounds
    <2> QED BY <1>2, <2>1 DEF PushesHold, NobodyMissed, SameRows, Valid
<1> QED BY <1>4, <1>5, <1>6 DEF Pages

\* A step in which passes at most end and rows stay in order.
LEMMA StepKept ==
    ASSUME Bounds, PushesHold, TypeOK', UNCHANGED <<job, reached>>, steady' \subseteq steady,
           ~Valid(now) => ~Valid(now)', SameRows, \A u \in Users : Tidy(u),
           \A r \in Passes : pass'[r] # None =>
               pass'[r] = pass[r] /\ (Calling(r) => Carries(pass[r].u))
    PROVE  PushesHold'
<1>1. RowsHeld'
    <2>1. \A r \in Passes : (pass'[r] # None /\ pass'[r].pc # "page") =>
              pass'[r] = pass[r] /\ pass[r].u \in Users
        BY Shapes DEF PushesHold
    <2> QED BY <2>1, RowsKept DEF PushesHold
<1>2. Sends'
    <2>1. \A r \in Passes : Calling(r)' => pass'[r] = pass[r] /\ Carries(pass[r].u)
        BY DEF Calling
    <2> QED BY <2>1, SendsKept
<1>3. Pages'
    <2>1. \A r \in Passes : Reading(r)' => pass'[r] = pass[r]
        BY DEF Reading
    <2> QED BY <2>1, PagesKept
<1> QED BY <1>1, <1>2, <1>3 DEF PushesHold, Sends, Pages

LEMMA RowsWait ==
    ASSUME Bounds, PushesHold, UNCHANGED <<msg, del>>
    PROVE  /\ SameRows /\ \A u \in Users : Tidy(u)
           /\ \A r \in Passes : Calling(r) => Carries(pass[r].u)
<1>1. \A u \in Users : Tidy(u) /\ Carries(u)
    BY UntouchedRow
<1>2. \A r \in Passes : Calling(r) => pass[r].u \in Users
    BY Shapes DEF Calling, PushesHold
<1> QED BY <1>1, <1>2 DEF SameRows, Has

(***************************************************************************)
(* The expansion                                                           *)
(***************************************************************************)
LEMMA StartExpansionKeeps ==
    ASSUME Bounds, PushesHold, StartExpansion
    PROVE  PushesHold'
<1>1. UNCHANGED <<now, occ, able, wants, open, msg, del, sent, pass, edits, reached>>
    BY DEF StartExpansion
<1>2. job' = [job EXCEPT !.status = "pending", !.due = now] /\ job.status = "none"
      /\ steady' = able \intersect wants
    BY DEF StartExpansion
<1>3. job'.status = "pending" /\ job'.cursor = job.cursor /\ job.cursor = 0 /\ now \in Nat
      /\ job' \in [status : {"none", "pending", "done"}, cursor : 0..Upper, ver : Nat, due : Nat]
    BY <1>2 DEF PushesHold, TypeOK, CursorHeld
<1>4. TypeOK'
    BY <1>1, <1>2, <1>3 DEF PushesHold, TypeOK, Has
<1>5. SameRows /\ (\A u \in Users : Tidy(u)) /\ \A r \in Passes : Calling(r) => Carries(pass[r].u)
    BY <1>1, RowsWait
<1>6. RowsHeld'
    BY <1>1 DEF PushesHold, RowsHeld, Has
<1>7. Sends'
    <2>1. \A r \in Passes : Calling(r)' => pass'[r] = pass[r] /\ Carries(pass[r].u)
        BY <1>1, <1>5 DEF Calling
    <2> QED BY <1>1, <1>5, <2>1, SendsKept
<1>8. Pages'
    <2>1. \A r \in Passes : ~Reading(r)'
        BY <1>1, <1>2 DEF PushesHold, PagesHeld, PageHolds, Reading
    <2>2. \A u \in Users : u \in Nat /\ ~(u <= 0)
        BY DEF Users
    <2>3. steady' \subseteq Users
        BY <1>2 DEF PushesHold, TypeOK
    <2> QED BY <1>3, <2>1, <2>2, <2>3 DEF Pages, PagesHeld, CursorHeld, NobodyMissed
<1> QED BY <1>4, <1>6, <1>7, <1>8 DEF PushesHold, Sends, Pages

\* What a page has read, it leaves nobody out of.
LEMMA ReadPageKeeps ==
    ASSUME Bounds, PushesHold, NEW p \in Passes, ReadPage(p)
    PROVE  PushesHold'
<1> PICK stale : stale = ~Valid(now)
    OBVIOUS
<1> PICK users : users = IF stale THEN {} ELSE PageUsers
    OBVIOUS
<1> PICK last : last = IF users = {} THEN Upper ELSE Max(users)
    OBVIOUS
<1> PICK targets : targets = {u \in users \intersect wants : del[u] = None}
    OBVIOUS
<1> PICK done : done = (stale \/ Cardinality(users) < Page \/ last >= Upper)
    OBVIOUS
<1>1. UNCHANGED <<now, occ, able, wants, open, job, msg, del, sent, edits, reached, steady>>
      /\ job.status = "pending"
    BY DEF ReadPage, History
<1> PICK q : q = [pc |-> "page", at |-> now, ver |-> job.ver, stale |-> stale, last |-> last,
                  done |-> done, targets |-> targets]
    OBVIOUS
<1>2. pass' = [pass EXCEPT ![p] = q]
    BY DEF ReadPage
<1>3. users \subseteq able /\ targets \subseteq Users /\ Upper \in Nat /\ steady \subseteq able \intersect wants
      /\ able \subseteq Users
    BY DEF PushesHold, TypeOK, PageUsers, Bounds
<1>4. last \in 0..Upper
    <2>1. CASE users = {}
        BY <1>3, <2>1
    <2>2. CASE users # {}
        BY <2>2, PageSkipsNobody DEF PushesHold
    <2> QED BY <2>1, <2>2
<1>5. q \in PageRead /\ q \in Reads
    <2>1. now \in Nat /\ job.ver \in Nat /\ stale \in BOOLEAN /\ done \in BOOLEAN
        BY DEF PushesHold, TypeOK
    <2> QED BY <1>3, <1>4, <2>1 DEF PageRead, Reads
<1>6. /\ pass' \in [Passes -> Reads \union {None}] /\ pass'[p] = q
      /\ \A r \in Passes \ {p} : pass'[r] = pass[r]
    BY <1>2, <1>5, OnePass DEF PushesHold
<1>7. TypeOK'
    BY <1>1, <1>6 DEF PushesHold, TypeOK, Has
<1>8. SameRows /\ (\A u \in Users : Tidy(u)) /\ \A r \in Passes : Calling(r) => Carries(pass[r].u)
    BY <1>1, RowsWait
<1>9. RowsHeld'
    BY <1>1, <1>6 DEF PushesHold, RowsHeld, Has
<1>10. Sends'
    <2>1. \A r \in Passes : Calling(r)' => pass'[r] = pass[r] /\ Carries(pass[r].u)
        BY <1>6, <1>8 DEF Calling
    <2> QED BY <1>1, <1>8, <2>1, SendsKept
<1>11. PageHolds(q)'
    <2>1. \A u \in q.targets : ~Has(u)
        BY <1>3 DEF PushesHold, TypeOK
    <2>2. stale => done /\ targets = {}
        OBVIOUS
    <2>3. ASSUME ~stale, NEW u \in steady, u <= last \/ done
          PROVE  Has(u) \/ u \in targets
        <3>1. u \in able /\ u \in wants /\ u \in Users /\ u \in Nat /\ job.cursor \in Nat
            BY <1>3 DEF Users, PushesHold, TypeOK
        <3>2. CASE u <= job.cursor
            BY <1>1, <3>2 DEF PushesHold, CursorHeld
        <3>3. CASE u > job.cursor
            <4>1. u <= Upper /\ last \in Nat
                BY <1>3, <1>4, <3>1 DEF Users
            <4>2. u <= last \/ Cardinality(users) < Page
                <5>1. CASE u <= last
                    BY <5>1
                <5>2. CASE done
                    <6>1. stale \/ Cardinality(users) < Page \/ last >= Upper
                        BY <5>2, Zenon
                    <6>2. Cardinality(users) < Page \/ last >= Upper
                        BY <2>3, <6>1
                    <6> QED BY <6>2, <4>1, <1>3, <3>1
                <5> QED BY <2>3, <5>1, <5>2
            <4>3. u \in PageUsers
                BY <2>3, <3>1, <3>3, <4>2, PageSkipsNobody DEF PushesHold
            <4>4. del[u] = None => u \in targets
                BY <2>3, <3>1, <4>3
            <4> QED BY <3>1, <4>4 DEF PushesHold, TypeOK
        <3> QED BY <3>1, <3>2, <3>3
    <2>4. job.ver \in Nat
        BY DEF PushesHold, TypeOK
    <2>5. /\ q.ver = job.ver /\ q.stale = stale /\ q.last = last /\ q.done = done
          /\ q.targets = targets
        OBVIOUS
    <2>6. /\ job'.status # "none" /\ q.ver <= job'.ver
          /\ q.stale => q.done /\ q.targets = {} /\ ~Valid(now)'
        <3>1. stale => ~Valid(now)
            BY Zenon
        <3>2. Valid(now)' <=> Valid(now)
            BY <1>1 DEF Valid
        <3>3. job'.status # "none" /\ q.ver <= job'.ver
            BY <1>1, <2>4, <2>5
        <3> QED BY <2>2, <2>5, <3>1, <3>2, <3>3, Zenon
    <2>7. /\ \A u \in q.targets : ~Has(u)'
          /\ ~q.stale => \A u \in steady' : (u <= q.last \/ q.done) => Has(u)' \/ u \in q.targets
        BY <1>1, <2>1, <2>3, <2>5 DEF Has
    <2> QED BY <2>6, <2>7 DEF PageHolds
<1>12. PagesHeld'
    <2>1. \A r \in Passes \ {p} : Reading(r)' => PageHolds(pass[r])'
        BY <1>1, <1>6 DEF PushesHold, PagesHeld, PageHolds, Reading, Has, Valid
    <2> QED BY <1>6, <1>11, <2>1 DEF PagesHeld, PageHolds
<1>13. CursorHeld' /\ NobodyMissed'
    BY <1>1 DEF PushesHold, CursorHeld, NobodyMissed, Has
<1> QED BY <1>7, <1>9, <1>10, <1>12, <1>13 DEF PushesHold, Sends

\* The pages still read are out of date once the job has moved.
LEMMA OldPages ==
    ASSUME Bounds, PushesHold, UNCHANGED <<now, occ>>, job'.status # "none", job'.ver = job.ver + 1,
           \A r \in Passes : Reading(r)' => pass'[r] = pass[r]
    PROVE  PagesHeld'
<1> SUFFICES ASSUME NEW r \in Passes, Reading(r)'
             PROVE  PageHolds(pass[r])'
    BY DEF PagesHeld
<1>1. Reading(r) /\ pass'[r] = pass[r]
    BY DEF Reading
<1>2. PageHolds(pass[r]) /\ pass[r] \in PageRead
    BY <1>1, Shapes DEF PushesHold, PagesHeld, Reading
<1>3. pass[r].ver \in Nat /\ job.ver \in Nat
    BY <1>2 DEF PageRead, PushesHold, TypeOK
<1>4. pass[r].ver <= job.ver
    BY <1>2 DEF PageHolds
<1>5. pass[r].ver <= job'.ver /\ pass[r].ver # job'.ver
    BY <1>3, <1>4
<1>6. pass[r].stale => pass[r].done /\ pass[r].targets = {} /\ ~Valid(now)
    BY <1>2 DEF PageHolds
<1>7. Valid(now)' <=> Valid(now)
    BY DEF Valid
<1> QED BY <1>1, <1>5, <1>6, <1>7 DEF PageHolds

LEMMA CommitPageKeeps ==
    ASSUME Bounds, PushesHold, NEW p \in Passes, CommitPage(p)
    PROVE  PushesHold'
<1> PICK q : q = pass[p]
    OBVIOUS
<1>1. /\ q # None /\ q.pc = "page" /\ Rest(p)
      /\ UNCHANGED <<now, occ, able, wants, open, sent, edits, reached, steady>>
    BY DEF CommitPage, History
<1>2. q \in PageRead /\ PageHolds(q) /\ Reading(p)
    BY <1>1, Shapes DEF PushesHold, PagesHeld, Reading
<1>3. /\ pass' \in [Passes -> Reads \union {None}] /\ pass'[p] = None
      /\ \A r \in Passes \ {p} : pass'[r] = pass[r]
    BY <1>1, RestingPass DEF PushesHold
<1>4. CASE ~PageGuard(q)
    <2>1. UNCHANGED <<job, msg, del>>
        BY <1>4 DEF CommitPage
    <2>2. TypeOK'
        BY <1>1, <1>3, <2>1 DEF PushesHold, TypeOK, Has
    <2>3. SameRows /\ (\A u \in Users : Tidy(u)) /\ \A r \in Passes : Calling(r) => Carries(pass[r].u)
        BY <2>1, RowsWait
    <2>4. Valid(now)' <=> Valid(now)
        BY <1>1 DEF Valid
    <2> QED BY <1>1, <1>3, <2>1, <2>2, <2>3, <2>4, StepKept
<1>5. CASE PageGuard(q)
    <2>1. /\ job' = [job EXCEPT !.cursor = q.last, !.ver = @ + 1,
                                !.status = IF q.done THEN "done" ELSE "pending"]
          /\ msg' = [u \in Users |-> IF u \in q.targets THEN Born ELSE msg[u]]
          /\ del' = [u \in Users |-> IF u \in q.targets THEN "pending" ELSE del[u]]
          /\ job.status = "pending" /\ job.ver = q.ver
        BY <1>5 DEF CommitPage, PageDone, PageGuard
    <2>2. q.last \in 0..Upper /\ q.done \in BOOLEAN /\ q.targets \subseteq Users /\ q.stale \in BOOLEAN
        BY <1>2 DEF PageRead
    <2>3. /\ job' \in [status : {"none", "pending", "done"}, cursor : 0..Upper, ver : Nat, due : Nat]
          /\ job'.ver = job.ver + 1 /\ job'.cursor = q.last
          /\ job'.status = IF q.done THEN "done" ELSE "pending"
        <3> PICK as : as = IF q.done THEN "done" ELSE "pending"
            OBVIOUS
        <3>1. as \in {"none", "pending", "done"} /\ job.ver + 1 \in Nat
            BY DEF PushesHold, TypeOK
        <3>2. job' = [job EXCEPT !.cursor = q.last, !.ver = job.ver + 1, !.status = as]
            BY <2>1
        <3>3. job \in [status : {"none", "pending", "done"}, cursor : 0..Upper, ver : Nat, due : Nat]
            BY DEF PushesHold, TypeOK
        <3> QED BY <2>2, <3>1, <3>2, <3>3
    <2>4. Born \in Message /\ Born # None /\ Born.status = "pending" /\ "pending" \in Statuses /\ "pending" # None
        BY NoneIsNoStatus DEF Born, Message, Statuses
    <2>5. \A u \in q.targets : ~Has(u)
        BY <1>2, <2>1 DEF PageHolds
    <2>6. msg \in [Users -> Message \union {None}] /\ del \in [Users -> Statuses \union {None}]
        BY DEF PushesHold, TypeOK
    <2> HIDE DEF Born
    <2>7. /\ msg' \in [Users -> Message \union {None}] /\ del' \in [Users -> Statuses \union {None}]
          /\ \A u \in q.targets : msg'[u] = Born /\ del'[u] = "pending"
          /\ \A u \in Users \ q.targets : msg'[u] = msg[u] /\ del'[u] = del[u]
        BY <2>1, <2>2, <2>4, <2>6
    <2>8. \A u \in Users : Has(u)' <=> (Has(u) \/ u \in q.targets)
        BY <2>4, <2>7 DEF Has
    <2>9. \A u \in Users : Has(u)' <=> del'[u] # None
        BY <2>4, <2>7, <2>8 DEF Has, PushesHold, TypeOK
    <2>10. TypeOK'
        BY <1>1, <1>3, <2>3, <2>7, <2>9 DEF PushesHold, TypeOK
    <2>11. \A r \in Passes : (pass'[r] # None /\ pass'[r].pc # "page") =>
               pass'[r] = pass[r] /\ pass[r].u \in Users \ q.targets /\ Has(pass[r].u)
        BY <1>3, <2>5, Shapes DEF PushesHold, RowsHeld
    <2>12. RowsHeld'
        BY <2>8, <2>11 DEF RowsHeld
    <2>13. \A u \in Users : Tidy(u)
        <3>1. \A u \in Users \ q.targets : Tidy(u)
            BY <2>7, UntouchedRow
        <3>2. \A u \in q.targets : Tidy(u)
            <4> TAKE u \in q.targets
            <4>1. u \in Users /\ msg'[u].status = "pending" /\ del'[u] = "pending"
                BY <2>2, <2>4, <2>7
            <4>2. reached[u] = 0
                BY <2>5, <4>1 DEF PushesHold, UnsentUntouched
            <4> QED BY <4>1, <4>2 DEF Tidy, Agrees
        <3> QED BY <3>1, <3>2
    <2>14. \A r \in Passes : Calling(r)' => pass'[r] = pass[r] /\ Carries(pass[r].u)
        BY <2>7, <2>11, UntouchedRow DEF Calling
    <2>15. Sends'
        BY <1>1, <2>13, <2>14, SendsKept
    <2>16. PagesHeld'
        BY <1>1, <1>3, <2>3, OldPages DEF Reading
    <2>17. steady' \subseteq Users /\ steady' = steady
        BY <1>1 DEF PushesHold, TypeOK
    <2>18. CASE q.stale
        <3>1. q.done /\ ~Valid(now)
            BY <1>2, <2>18 DEF PageHolds
        <3>2. ~(occ' = "current" /\ now' < Expiry)
            <4>1. now \in Nat /\ Expiry \in Nat
                BY DEF PushesHold, TypeOK, Bounds
            <4> QED BY <1>1, <3>1, <4>1 DEF Valid
        <3>3. CursorHeld' /\ NobodyMissed'
            BY <2>3, <3>1, <3>2 DEF CursorHeld, NobodyMissed
        <3> QED BY <2>10, <2>12, <2>15, <2>16, <3>3 DEF PushesHold, Sends
    <2>19. CASE ~q.stale
        <3>1. \A u \in steady : (u <= q.last \/ q.done) => Has(u) \/ u \in q.targets
            BY <1>2, <2>1, <2>19 DEF PageHolds
        <3>2. \A u \in steady' : (u <= q.last \/ q.done) => Has(u)'
            BY <2>8, <2>17, <3>1
        <3>3. CursorHeld' /\ NobodyMissed'
            BY <2>3, <3>2 DEF CursorHeld, NobodyMissed
        <3> QED BY <2>10, <2>12, <2>15, <2>16, <3>3 DEF PushesHold, Sends
    <2> QED BY <2>2, <2>18, <2>19
<1> QED BY <1>4, <1>5

LEMMA FailPageKeeps ==
    ASSUME Bounds, PushesHold, NEW p \in Passes, FailPage(p)
    PROVE  PushesHold'
<1>1. /\ Rest(p) /\ job.status = "pending" /\ job' = [job EXCEPT !.due = now + 1, !.ver = @ + 1]
      /\ UNCHANGED <<now, occ, able, wants, open, msg, del, sent, edits, reached, steady>>
    BY DEF FailPage, History
<1>2. /\ pass' \in [Passes -> Reads \union {None}] /\ pass'[p] = None
      /\ \A r \in Passes \ {p} : pass'[r] = pass[r]
    BY <1>1, RestingPass DEF PushesHold
<1>3. /\ job' \in [status : {"none", "pending", "done"}, cursor : 0..Upper, ver : Nat, due : Nat]
      /\ job'.ver = job.ver + 1 /\ job'.cursor = job.cursor /\ job'.status = "pending"
    <2>1. now + 1 \in Nat /\ job.ver + 1 \in Nat
        BY DEF PushesHold, TypeOK
    <2> QED BY <1>1, <2>1 DEF PushesHold, TypeOK
<1>4. TypeOK'
    BY <1>1, <1>2, <1>3 DEF PushesHold, TypeOK, Has
<1>5. SameRows /\ (\A u \in Users : Tidy(u)) /\ \A r \in Passes : Calling(r) => Carries(pass[r].u)
    BY <1>1, RowsWait
<1>6. RowsHeld'
    BY <1>1, <1>2 DEF PushesHold, RowsHeld, Has
<1>7. \A r \in Passes : Calling(r)' => pass'[r] = pass[r] /\ Carries(pass[r].u)
    BY <1>2, <1>5 DEF Calling
<1>8. Sends'
    BY <1>1, <1>5, <1>7, SendsKept
<1>9. PagesHeld'
    BY <1>1, <1>2, <1>3, OldPages DEF Reading
<1>10. CursorHeld' /\ NobodyMissed'
    BY <1>1, <1>3 DEF PushesHold, CursorHeld, NobodyMissed, Has
<1> QED BY <1>4, <1>6, <1>8, <1>9, <1>10 DEF PushesHold, Sends

(***************************************************************************)
(* Sending                                                                 *)
(***************************************************************************)
LEMMA WaitingStatuses == Waiting \subseteq Statuses /\ Waiting \intersect Flying = {}
BY DEF Waiting, Statuses, Flying

LEMMA PickKeeps ==
    ASSUME Bounds, PushesHold, NEW p \in Passes, Pick(p)
    PROVE  PushesHold'
<1>1. /\ pass[p] = None
      /\ UNCHANGED <<now, occ, able, wants, open, job, msg, del, sent, edits, reached, steady>>
    BY DEF Pick, History
<1>2. PICK u \in Users :
          /\ Has(u) /\ msg[u].status \in Waiting /\ msg[u].next <= now /\ Expiry > now
          /\ pass' = [pass EXCEPT ![p] =
                [pc |-> IF Review(u) = "eligible" THEN "claim" ELSE "close", at |-> now, u |-> u,
                 status |-> msg[u].status, lv |-> msg[u].lv, as |-> Review(u)]]
    BY DEF Pick
<1> PICK as : as = Review(u)
    OBVIOUS
<1> PICK x : x = [pc |-> IF as = "eligible" THEN "claim" ELSE "close", at |-> now, u |-> u,
                  status |-> msg[u].status, lv |-> msg[u].lv, as |-> as]
    OBVIOUS
<1>3. as \in {"eligible", "superseded", "skipped"}
    <2>1. now \in Nat /\ Expiry \in Nat
        BY DEF PushesHold, TypeOK, Bounds
    <2>2. ~(Expiry <= now)
        BY <1>2, <2>1
    <2> QED BY <2>2 DEF Review
<1>4. x \in Reads /\ x.pc \in {"claim", "close"} /\ x.u = u
    <2>1. now \in Nat /\ msg[u].lv \in Nat
        BY <1>2, RowShapes DEF PushesHold, TypeOK
    <2>2. CASE as = "eligible"
        BY <1>2, <2>1, <2>2 DEF Reads, Candidate
    <2>3. CASE as # "eligible"
        BY <1>2, <1>3, <2>1, <2>3 DEF Reads, Refused
    <2> QED BY <2>2, <2>3
<1>5. /\ pass' \in [Passes -> Reads \union {None}] /\ pass'[p] = x
      /\ \A r \in Passes \ {p} : pass'[r] = pass[r]
    BY <1>2, <1>4, OnePass DEF PushesHold
<1>6. TypeOK'
    BY <1>1, <1>5 DEF PushesHold, TypeOK, Has
<1>7. SameRows /\ (\A v \in Users : Tidy(v)) /\ \A r \in Passes : Calling(r) => Carries(pass[r].u)
    BY <1>1, RowsWait
<1>8. RowsHeld'
    <2>1. Has(u)'
        BY <1>1, <1>2 DEF Has
    <2> QED BY <1>1, <1>4, <1>5, <2>1 DEF PushesHold, RowsHeld, Has
<1>9. \A r \in Passes : Calling(r)' => pass'[r] = pass[r] /\ Carries(pass[r].u)
    BY <1>4, <1>5, <1>7 DEF Calling
<1>10. Sends'
    BY <1>1, <1>7, <1>9, SendsKept
<1>11. \A r \in Passes : Reading(r)' => pass'[r] = pass[r]
    BY <1>4, <1>5 DEF Reading
<1>12. Valid(now)' <=> Valid(now)
    BY <1>1 DEF Valid
<1>13. Pages'
    BY <1>1, <1>7, <1>11, <1>12, PagesKept
<1> QED BY <1>6, <1>8, <1>10, <1>13 DEF PushesHold, Sends, Pages

\* Closing: whatever became of the message meanwhile, the two rows still agree.
LEMMA ClosePairRow ==
    ASSUME Bounds, PushesHold, NEW p \in Passes, pass[p] # None, pass[p].pc \in {"claim", "close"},
           NEW as \in {"superseded", "skipped"}, ClosePair(pass[p], as)
    PROVE  RowsTyped' /\ SameRows /\ \A u \in Users : Tidy(u) /\ Carries(u)
<1>q. PICK q : q = pass[p]
    OBVIOUS
<1>u. PICK u : u = q.u
    OBVIOUS
<1>1. u \in Users /\ Has(u) /\ q.status \in Waiting
    BY <1>q, <1>u, Shapes DEF Candidate, Refused, PushesHold, RowsHeld
<1>2. msg[u] \in Message /\ del[u] \in Statuses
    BY <1>1, RowShapes DEF PushesHold
<1>s. PICK st : st = IF Unchanged(q) THEN as ELSE msg[u].status
    OBVIOUS
<1>m. PICK m : m = [msg[u] EXCEPT !.status = st]
    OBVIOUS
<1>d. PICK d : d = IF del[u] \in Waiting THEN as ELSE del[u]
    OBVIOUS
<1>3. st \in Statuses /\ d \in Statuses /\ as \in Statuses
    BY <1>s, <1>d, <1>2 DEF Statuses, Message
<1>4. m \in Message /\ m.status = st /\ m.lv = msg[u].lv
    BY <1>m, <1>2, <1>3 DEF Message
<1>5. msg \in [Users -> Message \union {None}] /\ del \in [Users -> Statuses \union {None}]
    BY DEF PushesHold, TypeOK
<1>6. msg' = [msg EXCEPT ![u] = m] /\ del' = [del EXCEPT ![u] = d]
    BY <1>q, <1>u, <1>s, <1>m, <1>d, <1>1, <1>5 DEF ClosePair
<1>7. /\ RowsTyped' /\ msg'[u] = m /\ del'[u] = d
      /\ \A v \in Users \ {u} : msg'[v] = msg[v] /\ del'[v] = del[v]
      /\ \A v \in Users : Has(v)' <=> Has(v)
    BY <1>1, <1>2, <1>3, <1>4, <1>6, OneRow DEF PushesHold
<1>8. Unchanged(q) => msg[u].status \in Waiting
    BY <1>u, <1>1 DEF Unchanged
<1>9. Carries(u)
    BY <1>s, <1>4, <1>7, <1>8, WaitingStatuses DEF Carries
<1>10. Tidy(u)
    <2>1. (Has(u)' /\ msg'[u].status \in Waiting) => reached[u] = 0
        <3>1. as \notin Waiting
            BY DEF Waiting
        <3> QED BY <1>s, <1>1, <1>4, <1>7, <3>1 DEF PushesHold, UnsentUntouched
    <2>2. Agrees(u)
        BY <1>1 DEF PushesHold, PairAgrees
    <2>3. Agrees(u)'
        <3>1. CASE del[u] \in Waiting
            BY <1>s, <1>d, <1>1, <1>4, <1>7, <2>2, <3>1 DEF Agrees, Waiting
        <3>2. CASE del[u] \notin Waiting
            BY <1>s, <1>d, <1>1, <1>4, <1>7, <1>8, <2>2, <3>2 DEF Agrees, Waiting
        <3> QED BY <3>1, <3>2
    <2> QED BY <1>1, <1>7, <2>1, <2>3 DEF Tidy
<1>11. \A v \in Users \ {u} : Tidy(v) /\ Carries(v)
    BY <1>7, UntouchedRow
<1> QED BY <1>7, <1>9, <1>10, <1>11 DEF SameRows

\* A pass that ends, and the rows stay typed and in order.
LEMMA PassEnds ==
    ASSUME Bounds, PushesHold, NEW p \in Passes, Rest(p), RowsTyped', SameRows,
           able' \subseteq able, steady' \subseteq steady \intersect able',
           \A u \in Users : Tidy(u), \A r \in Passes \ {p} : Calling(r) => Carries(pass[r].u),
           UNCHANGED <<now, occ, wants, open, job, sent, edits, reached>>
    PROVE  PushesHold'
<1>1. /\ pass' \in [Passes -> Reads \union {None}] /\ pass'[p] = None
      /\ \A r \in Passes \ {p} : pass'[r] = pass[r]
    BY RestingPass DEF PushesHold
<1>2. TypeOK'
    BY <1>1 DEF PushesHold, TypeOK, RowsTyped, Has
<1>3. Valid(now)' <=> Valid(now)
    BY DEF Valid
<1> QED BY <1>1, <1>2, <1>3, StepKept

LEMMA CloseMessageKeeps ==
    ASSUME Bounds, PushesHold, NEW p \in Passes, CloseMessage(p)
    PROVE  PushesHold'
<1>1. /\ pass[p] # None /\ pass[p].pc = "close" /\ Rest(p) /\ ClosePair(pass[p], pass[p].as)
      /\ UNCHANGED <<now, occ, able, wants, open, job, sent, edits, reached, steady>>
    BY DEF CloseMessage, History
<1>2. pass[p].as \in {"superseded", "skipped"}
    BY <1>1, Shapes DEF PushesHold, Refused
<1>3. RowsTyped' /\ SameRows /\ \A u \in Users : Tidy(u) /\ Carries(u)
    BY <1>1, <1>2, ClosePairRow
<1>4. \A r \in Passes : Calling(r) => pass[r].u \in Users
    BY Shapes DEF PushesHold, Calling
<1>5. steady \subseteq able
    BY DEF PushesHold, TypeOK
<1> QED BY <1>1, <1>3, <1>4, <1>5, PassEnds

LEMMA DaysTyped ==
    ASSUME Bounds, NEW t \in Nat
    PROVE  Day(t) \in Nat /\ DayEnd(t) \in Nat
<1>1. DayLen \in Nat \ {0}
    BY DEF Bounds
<1>2. PICK d : d = t \div DayLen
    OBVIOUS
<1>3. d \in Nat
    BY <1>1, <1>2
<1>4. (d + 1) * DayLen \in Nat
    BY <1>1, <1>3
<1> QED BY <1>2, <1>3, <1>4 DEF Day, DayEnd

\* A claim takes the row from every other pass: whoever still calls has another one.
LEMMA ClaimKeeps ==
    ASSUME Bounds, PushesHold, NEW p \in Passes, Claim(p)
    PROVE  PushesHold'
<1>q. PICK q : q = pass[p]
    OBVIOUS
<1>u. PICK u : u = q.u
    OBVIOUS
<1>m. PICK m : m = [status |-> "calling", attempts |-> msg[u].attempts + 1, lv |-> q.lv + 1,
                    until |-> q.at + CallLease, next |-> 0]
    OBVIOUS
<1>x. PICK x : x = [pc |-> "call", at |-> q.at, u |-> u, lv |-> q.lv + 1]
    OBVIOUS
<1>1. /\ q # None /\ q.pc = "claim" /\ ClaimGuard(q)
      /\ del' = [del EXCEPT ![u] = "calling"] /\ sent' = [sent EXCEPT ![Day(q.at)] = @ + 1]
      /\ pass' = [pass EXCEPT ![p] = x]
      /\ UNCHANGED <<now, occ, able, wants, open, job, edits, reached, steady>>
    BY <1>q, <1>u, <1>x DEF Claim, History
<1>2. u \in Users /\ Has(u) /\ q.status \in Waiting /\ q.lv \in Nat /\ q.at \in Nat
    BY <1>1, <1>q, <1>u, Shapes DEF Candidate, PushesHold, RowsHeld
<1>3. msg[u] \in Message /\ msg[u].attempts \in Nat /\ msg \in [Users -> Message \union {None}]
    BY <1>2, RowShapes DEF PushesHold, TypeOK
<1>4. m \in Message /\ m.status = "calling" /\ m.lv = q.lv + 1
    <2>1. CallLease \in Nat
        BY DEF Bounds
    <2>2. q.at + CallLease \in Nat /\ msg[u].attempts + 1 \in Nat /\ q.lv + 1 \in Nat
        BY <1>2, <1>3, <2>1
    <2> QED BY <1>m, <2>2 DEF Message, Statuses
<1>5. msg' = [msg EXCEPT ![u] = m]
    BY <1>q, <1>u, <1>m, <1>2, <1>3 DEF Claim
<1>6. /\ RowsTyped' /\ msg'[u] = m /\ del'[u] = "calling"
      /\ \A v \in Users \ {u} : msg'[v] = msg[v] /\ del'[v] = del[v]
      /\ \A v \in Users : Has(v)' <=> Has(v)
    BY <1>1, <1>2, <1>4, <1>5, OneRow DEF PushesHold, Statuses
<1>7. x \in Reads /\ x \in Called
    BY <1>x, <1>2 DEF Reads, Called
<1>8. /\ pass' \in [Passes -> Reads \union {None}] /\ pass'[p] = x
      /\ \A r \in Passes \ {p} : pass'[r] = pass[r]
    BY <1>1, <1>7, OnePass DEF PushesHold
<1>9. sent' \in [0..Day(MaxTime) -> Nat]
    <2>1. sent \in [0..Day(MaxTime) -> Nat]
        BY DEF PushesHold, TypeOK
    <2>2. PICK D, k : D = 0..Day(MaxTime) /\ k = Day(q.at)
        OBVIOUS
    <2>3. sent \in [D -> Nat] /\ sent' = [sent EXCEPT ![k] = sent[k] + 1]
        BY <1>1, <2>1, <2>2
    <2>4. sent' \in [D -> Nat]
        <3>1. CASE k \in D
            <4>1. sent[k] + 1 \in Nat
                BY <2>3, <3>1
            <4> QED BY <2>3, <4>1
        <3>2. CASE k \notin D
            <4>1. sent' = sent
                BY <2>3, <3>2
            <4> QED BY <2>3, <4>1
        <3> QED BY <3>1, <3>2
    <2> QED BY <2>2, <2>4
<1>10. TypeOK'
    BY <1>1, <1>6, <1>8, <1>9 DEF PushesHold, TypeOK, RowsTyped
<1>11. RowsHeld'
    BY <1>2, <1>6, <1>8, <1>x, Shapes DEF PushesHold, RowsHeld
<1>12. msg[u].status \in Waiting /\ reached[u] = 0
    BY <1>1, <1>2, <1>u DEF ClaimGuard, Unchanged, PushesHold, UnsentUntouched
<1>13. \A r \in Passes : Calling(r) => pass[r].u \in Users \ {u}
    BY <1>12, WaitingStatuses, Shapes DEF PushesHold, CallsHeld, CallHolds, Calling, Flying
<1>14. PairAgrees'
    BY <1>4, <1>6 DEF PushesHold, PairAgrees, Agrees
<1>15. UnsentUntouched'
    BY <1>1, <1>4, <1>6 DEF PushesHold, UnsentUntouched, Waiting
<1>16. CallsHeld'
    <2>1. \A r \in Passes \ {p} : Calling(r)' => Calling(r) /\ pass'[r] = pass[r]
        BY <1>8 DEF Calling
    <2>2. ASSUME NEW r \in Passes \ {p}, Calling(r)'
          PROVE  CallHolds(pass[r])'
        BY <1>1, <1>6, <1>13, <2>1, <2>2 DEF PushesHold, CallsHeld, CallHolds
    <2>3. CallHolds(pass[p])'
        BY <1>1, <1>4, <1>6, <1>8, <1>12, <1>x DEF CallHolds
    <2>4. \A r \in Passes \ {p} : Calling(r)' => pass'[r].u # pass'[p].u
        BY <1>8, <1>13, <1>x, <2>1
    <2> QED BY <1>8, <2>1, <2>2, <2>3, <2>4 DEF PushesHold, CallsHeld
<1>17. Pages'
    <2>1. \A r \in Passes : Reading(r)' => pass'[r] = pass[r]
        BY <1>8, <1>x DEF Reading
    <2>2. Valid(now)' <=> Valid(now)
        BY <1>1 DEF Valid
    <2> QED BY <1>1, <1>6, <2>1, <2>2, PagesKept DEF SameRows
<1>18. NeverResent'
    BY <1>1 DEF PushesHold, NeverResent
<1> QED BY <1>10, <1>11, <1>14, <1>15, <1>16, <1>17, <1>18 DEF PushesHold, Pages

LEMMA MissClaimKeeps ==
    ASSUME Bounds, PushesHold, NEW p \in Passes, MissClaim(p)
    PROVE  PushesHold'
<1>q. PICK q : q = pass[p]
    OBVIOUS
<1>1. /\ pass[p] # None /\ pass[p].pc = "claim" /\ Rest(p)
      /\ UNCHANGED <<now, occ, able, wants, open, job, sent, edits, reached, steady>>
    BY DEF MissClaim, History
<1>2. q.u \in Users /\ Has(q.u) /\ q.at \in Nat
    BY <1>1, <1>q, Shapes DEF Candidate, PushesHold, RowsHeld
<1>3. \A r \in Passes : Calling(r) => pass[r].u \in Users
    BY Shapes DEF PushesHold, Calling
<1>4. RowsTyped' /\ SameRows /\ \A u \in Users : Tidy(u) /\ Carries(u)
    <2>1. CASE UNCHANGED <<msg, del>>
        <3>1. RowsTyped'
            BY <2>1 DEF PushesHold, TypeOK, RowsTyped, Has
        <3> QED BY <2>1, <3>1, UntouchedRow DEF SameRows, Has
    <2>2. CASE ClosePair(q, "skipped")
        BY <1>1, <1>q, <2>2, ClosePairRow
    <2>3. CASE /\ msg' = [msg EXCEPT ![q.u].next = IF Unchanged(q) THEN DayEnd(q.at) ELSE @]
               /\ UNCHANGED del
        <3>1. msg[q.u] \in Message /\ del[q.u] \in Statuses /\ msg[q.u].next \in Nat
            BY <1>2, RowShapes DEF PushesHold
        <3>n. PICK n : n = IF Unchanged(q) THEN DayEnd(q.at) ELSE msg[q.u].next
            OBVIOUS
        <3>2. n \in Nat
            BY <1>2, <3>1, <3>n, DaysTyped
        <3>m. PICK m : m = [msg[q.u] EXCEPT !.next = n]
            OBVIOUS
        <3>3. m \in Message /\ m.status = msg[q.u].status /\ m.lv = msg[q.u].lv
            BY <3>1, <3>2, <3>m DEF Message
        <3>4. msg \in [Users -> Message \union {None}] /\ del \in [Users -> Statuses \union {None}]
            BY DEF PushesHold, TypeOK
        <3>5. msg' = [msg EXCEPT ![q.u] = m] /\ del' = [del EXCEPT ![q.u] = del[q.u]]
            BY <1>2, <2>3, <3>4, <3>m, <3>n
        <3>6. /\ RowsTyped' /\ msg'[q.u] = m /\ del'[q.u] = del[q.u]
              /\ \A v \in Users \ {q.u} : msg'[v] = msg[v] /\ del'[v] = del[v]
              /\ \A v \in Users : Has(v)' <=> Has(v)
            BY <1>2, <3>1, <3>3, <3>5, OneRow DEF PushesHold
        <3>7. Tidy(q.u) /\ Carries(q.u)
            BY <1>2, <3>3, <3>6 DEF PushesHold, PairAgrees, Agrees, UnsentUntouched, Tidy, Carries
        <3>8. \A v \in Users \ {q.u} : Tidy(v) /\ Carries(v)
            BY <3>6, UntouchedRow
        <3> QED BY <3>6, <3>7, <3>8 DEF SameRows
    <2> QED BY <1>q, <2>1, <2>2, <2>3 DEF MissClaim
<1>5. steady \subseteq able
    BY DEF PushesHold, TypeOK
<1> QED BY <1>1, <1>3, <1>4, <1>5, PassEnds

\* A call arrives or not. It is the only one there is for its row, and the first.
LEMMA CallArrives ==
    ASSUME Bounds, PushesHold, NEW p \in Passes, Calling(p), pass[p].pc = "call",
           NEW n \in {0, 1}, reached' = [reached EXCEPT ![pass[p].u] = @ + n],
           UNCHANGED <<msg, del>>, \A r \in Passes \ {p} : pass'[r] = pass[r],
           \/ pass'[p] = None
           \/ /\ pass'[p].pc = "write" /\ pass'[p].u = pass[p].u /\ pass'[p].lv = pass[p].lv
              /\ n = 1 => pass'[p].answer \in {"accepted", "unknown"}
    PROVE  Sends' /\ reached' \in [Users -> Nat]
<1>u. PICK u : u = pass[p].u
    OBVIOUS
<1>1. u \in Users /\ Has(u)
    BY <1>u, Shapes DEF PushesHold, RowsHeld, Calling
<1>2. CallHolds(pass[p])
    BY DEF PushesHold, CallsHeld
<1>3. reached[u] = 0 /\ msg[u].status \in Flying
    BY <1>u, <1>2 DEF CallHolds, Flying
<1>4. reached \in [Users -> Nat]
    BY DEF PushesHold, TypeOK
<1>5. /\ reached' \in [Users -> Nat] /\ reached'[u] = n
      /\ \A v \in Users \ {u} : reached'[v] = reached[v]
    BY <1>u, <1>1, <1>3, <1>4
<1>6. NeverResent'
    BY <1>5 DEF PushesHold, NeverResent
<1>7. PairAgrees'
    BY DEF PushesHold, PairAgrees, Agrees, Has
<1>8. UnsentUntouched'
    BY <1>1, <1>3, <1>5, WaitingStatuses DEF PushesHold, UnsentUntouched, Has
<1>9. \A r \in Passes \ {p} : Calling(r)' => Calling(r) /\ pass'[r] = pass[r] /\ pass[r].u \in Users \ {u}
    <2>1. \A r \in Passes \ {p} : Calling(r) => pass[r].u \in Users
        BY Shapes DEF PushesHold, Calling
    <2> QED BY <1>u, <2>1 DEF PushesHold, CallsHeld, Calling
<1>10. CallsHeld'
    <2>1. ASSUME NEW r \in Passes \ {p}, Calling(r)'
          PROVE  CallHolds(pass[r])'
        BY <1>5, <1>9, <2>1 DEF PushesHold, CallsHeld, CallHolds
    <2>2. Calling(p)' => CallHolds(pass[p])' /\ pass'[p].u = u
        BY <1>u, <1>2, <1>5 DEF CallHolds, Calling
    <2> QED BY <1>9, <2>1, <2>2 DEF PushesHold, CallsHeld
<1> QED BY <1>5, <1>6, <1>7, <1>8, <1>10 DEF Sends

LEMMA CallKeeps ==
    ASSUME Bounds, PushesHold, NEW p \in Passes, Call(p)
    PROVE  PushesHold'
<1>q. PICK q : q = pass[p]
    OBVIOUS
<1>1. /\ q # None /\ q.pc = "call"
      /\ UNCHANGED <<now, occ, able, wants, open, job, msg, del, sent, edits, steady>>
    BY <1>q DEF Call
<1>2. PICK a \in Answers :
          /\ pass' = [pass EXCEPT ![p] = [pc |-> "write", at |-> q.at, u |-> q.u, lv |-> q.lv, answer |-> a]]
          /\ reached' = [reached EXCEPT ![q.u] = @ + IF a \in {"accepted", "unknown"} THEN 1 ELSE 0]
    BY <1>q DEF Call
<1>n. PICK n : n = IF a \in {"accepted", "unknown"} THEN 1 ELSE 0
    OBVIOUS
<1>x. PICK x : x = [pc |-> "write", at |-> q.at, u |-> q.u, lv |-> q.lv, answer |-> a]
    OBVIOUS
<1>3. q \in Called /\ q.u \in Users /\ Has(q.u)
    BY <1>1, <1>q, Shapes DEF PushesHold, RowsHeld, Called
<1>4. x \in Reads
    BY <1>3, <1>x DEF Called, Answered, Reads
<1>5. /\ pass' \in [Passes -> Reads \union {None}] /\ pass'[p] = x
      /\ \A r \in Passes \ {p} : pass'[r] = pass[r]
    BY <1>2, <1>4, <1>x, OnePass DEF PushesHold
<1>6. Sends' /\ reached' \in [Users -> Nat]
    <2>1. Calling(p)
        BY <1>1, <1>q DEF Calling
    <2>2. n \in {0, 1} /\ (n = 1 => a \in {"accepted", "unknown"})
        BY <1>n
    <2>3. x.pc = "write" /\ x.u = q.u /\ x.lv = q.lv /\ x.answer = a
        BY <1>x
    <2>4. reached' = [reached EXCEPT ![pass[p].u] = @ + n]
        BY <1>q, <1>2, <1>n
    <2> QED BY <1>1, <1>5, <1>q, <2>1, <2>2, <2>3, <2>4, CallArrives
<1>7. TypeOK'
    BY <1>1, <1>5, <1>6 DEF PushesHold, TypeOK, Has
<1>8. RowsHeld'
    BY <1>1, <1>3, <1>5, <1>x DEF PushesHold, RowsHeld, Has
<1>9. Pages'
    <2>1. \A r \in Passes : Reading(r)' => pass'[r] = pass[r]
        BY <1>5, <1>x DEF Reading
    <2>2. (Valid(now)' <=> Valid(now)) /\ SameRows
        BY <1>1 DEF Valid, SameRows, Has
    <2> QED BY <1>1, <2>1, <2>2, PagesKept
<1> QED BY <1>6, <1>7, <1>8, <1>9 DEF PushesHold, Sends, Pages

LEMMA CrashKeeps ==
    ASSUME Bounds, PushesHold, NEW p \in Passes, Crash(p)
    PROVE  PushesHold'
<1>1. /\ pass[p] # None /\ Rest(p)
      /\ UNCHANGED <<now, occ, able, wants, open, job, msg, del, sent, edits, steady>>
    BY DEF Crash
<1>2. /\ pass' \in [Passes -> Reads \union {None}] /\ pass'[p] = None
      /\ \A r \in Passes \ {p} : pass'[r] = pass[r]
    BY <1>1, RestingPass DEF PushesHold
<1>3. CASE UNCHANGED reached
    <2>1. RowsTyped'
        BY <1>1 DEF PushesHold, TypeOK, RowsTyped, Has
    <2>2. steady \subseteq able
        BY DEF PushesHold, TypeOK
    <2> QED BY <1>1, <1>3, <2>1, <2>2, RowsWait, PassEnds
<1>4. CASE pass[p].pc = "call" /\ reached' = [reached EXCEPT ![pass[p].u] = @ + 1]
    <2>1. Sends' /\ reached' \in [Users -> Nat]
        <3>1. Calling(p)
            BY <1>1, <1>4 DEF Calling
        <3> QED BY <1>1, <1>2, <1>4, <3>1, CallArrives
    <2>2. TypeOK'
        BY <1>1, <1>2, <2>1 DEF PushesHold, TypeOK, Has
    <2>3. RowsHeld'
        BY <1>1, <1>2 DEF PushesHold, RowsHeld, Has
    <2>4. Pages'
        <3>1. \A r \in Passes : Reading(r)' => pass'[r] = pass[r]
            BY <1>2 DEF Reading
        <3>2. (Valid(now)' <=> Valid(now)) /\ SameRows
            BY <1>1 DEF Valid, SameRows, Has
        <3> QED BY <1>1, <3>1, <3>2, PagesKept
    <2> QED BY <2>1, <2>2, <2>3, <2>4 DEF PushesHold, Sends, Pages
<1> QED BY <1>3, <1>4 DEF Crash

\* The settlement of a call changes its row only while the row is being called, and
\* opens it for another call only if this one has certainly not arrived.
LEMMA SettleRow ==
    ASSUME Bounds, PushesHold, NEW p \in Passes, Calling(p), NEW next \in Nat,
           NEW as \in {"accepted", "unknown", "failed", "expired", "retry_wait", "invalid_data"},
           as = "retry_wait" => reached[pass[p].u] = 0, Settle(pass[p], as, next)
    PROVE  /\ RowsTyped' /\ SameRows /\ \A u \in Users : Tidy(u)
           /\ \A r \in Passes \ {p} : Calling(r) => Carries(pass[r].u)
<1>u. PICK u : u = pass[p].u
    OBVIOUS
<1>1. u \in Users /\ Has(u) /\ CallHolds(pass[p]) /\ msg[u].lv = pass[p].lv
    BY <1>u, Shapes DEF PushesHold, RowsHeld, CallsHeld, CallHolds, Calling
<1>2. msg[u] \in Message /\ del[u] \in Statuses
    BY <1>1, RowShapes DEF PushesHold
<1>m. PICK m : m = IF msg[u].status = "calling"
                   THEN [msg[u] EXCEPT !.status = as, !.until = 0, !.next = next] ELSE msg[u]
    OBVIOUS
<1>d. PICK d : d = IF del[u] = "calling" THEN as ELSE del[u]
    OBVIOUS
<1>3. as \in Statuses /\ d \in Statuses
    BY <1>2, <1>d DEF Statuses
<1>4. m \in Message
    <2>1. [msg[u] EXCEPT !.status = as, !.until = 0, !.next = next] \in Message
        BY <1>2, <1>3 DEF Message
    <2> QED BY <1>2, <1>m, <2>1
<1>5. m.status = IF msg[u].status = "calling" THEN as ELSE msg[u].status
    BY <1>2, <1>m DEF Message
<1>6. msg \in [Users -> Message \union {None}] /\ del \in [Users -> Statuses \union {None}]
    BY DEF PushesHold, TypeOK
<1>7. msg' = [msg EXCEPT ![u] = m] /\ del' = [del EXCEPT ![u] = d]
    BY <1>u, <1>m, <1>d, <1>1, <1>6 DEF Settle, SettledDelivery
<1>8. /\ RowsTyped' /\ msg'[u] = m /\ del'[u] = d
      /\ \A v \in Users \ {u} : msg'[v] = msg[v] /\ del'[v] = del[v]
      /\ \A v \in Users : Has(v)' <=> Has(v)
    BY <1>1, <1>2, <1>3, <1>4, <1>7, OneRow DEF PushesHold
<1>9. Tidy(u)
    <2>1. Agrees(u)
        BY <1>1 DEF PushesHold, PairAgrees
    <2>2. Agrees(u)'
        BY <1>d, <1>1, <1>5, <1>8, <2>1 DEF Agrees
    <2>3. (Has(u)' /\ msg'[u].status \in Waiting) => reached[u] = 0
        BY <1>u, <1>1, <1>5, <1>8 DEF PushesHold, UnsentUntouched, Waiting
    <2> QED BY <1>1, <1>8, <2>2, <2>3 DEF Tidy
<1>10. \A v \in Users \ {u} : Tidy(v) /\ Carries(v)
    BY <1>8, UntouchedRow
<1>11. \A r \in Passes \ {p} : Calling(r) => pass[r].u \in Users \ {u}
    <2>1. \A r \in Passes \ {p} : Calling(r) => pass[r].u \in Users
        BY Shapes DEF PushesHold, Calling
    <2> QED BY <1>u, <2>1 DEF PushesHold, CallsHeld
<1> QED BY <1>8, <1>9, <1>10, <1>11 DEF SameRows

LEMMA NextTryTyped ==
    ASSUME Bounds, NEW t \in Nat, NEW attempts \in Nat
    PROVE  NextTry(t, attempts) \in Nat
<1>1. Exponent(attempts) \in 0..16
    BY DEF Exponent
<1>2. PICK wait : wait = Backoff * 2 ^ Exponent(attempts)
    OBVIOUS
<1>3. wait \in Nat
    BY <1>1, <1>2 DEF Bounds
<1> QED BY <1>2, <1>3 DEF NextTry

LEMMA WriteKeeps ==
    ASSUME Bounds, PushesHold, NEW p \in Passes, Write(p)
    PROVE  PushesHold'
<1>q. PICK q : q = pass[p]
    OBVIOUS
<1>a. PICK as : as = Transition(q.u, q.answer, q.at)
    OBVIOUS
<1>n. PICK next : next = IF as = "retry_wait" THEN NextTry(q.at, msg[q.u].attempts) ELSE 0
    OBVIOUS
<1>1. /\ q # None /\ q.pc = "write" /\ Rest(p) /\ Settle(q, as, next)
      /\ able' = (IF q.answer = "gone" THEN able \ {q.u} ELSE able)
      /\ steady' = steady \intersect able'
      /\ UNCHANGED <<now, occ, wants, open, job, sent, edits, reached>>
    BY <1>q, <1>a, <1>n DEF Write
<1>2. q \in Answered /\ q.u \in Users /\ Has(q.u) /\ Calling(p) /\ CallHolds(q)
    BY <1>1, <1>q, Shapes DEF PushesHold, RowsHeld, CallsHeld, Calling
<1>3. q.at \in Nat /\ q.answer \in Answers /\ msg[q.u].attempts \in Nat
    BY <1>2, RowShapes DEF Answered, PushesHold
<1>4. next \in Nat
    BY <1>3, <1>n, NextTryTyped
<1>5. as \in {"accepted", "unknown", "failed", "expired", "retry_wait", "invalid_data"}
      /\ (as = "retry_wait" => q.answer = "retry_later")
    BY <1>3, <1>a DEF Transition, Answers
<1>6. as = "retry_wait" => reached[q.u] = 0
    BY <1>2, <1>5 DEF CallHolds
<1>7. /\ RowsTyped' /\ SameRows /\ \A u \in Users : Tidy(u)
      /\ \A r \in Passes \ {p} : Calling(r) => Carries(pass[r].u)
    BY <1>1, <1>2, <1>4, <1>5, <1>6, <1>q, SettleRow
<1>8. able' \subseteq able
    BY <1>1
<1> QED BY <1>1, <1>7, <1>8, PassEnds

LEMMA InvalidKeeps ==
    ASSUME Bounds, PushesHold, NEW p \in Passes, Invalid(p)
    PROVE  PushesHold'
<1>1. /\ Calling(p) /\ Rest(p) /\ Settle(pass[p], "invalid_data", 0)
      /\ UNCHANGED <<now, occ, able, wants, open, job, sent, edits, reached, steady>>
    BY DEF Invalid, History, Calling
<1>2. /\ RowsTyped' /\ SameRows /\ \A u \in Users : Tidy(u)
      /\ \A r \in Passes \ {p} : Calling(r) => Carries(pass[r].u)
    BY <1>1, SettleRow
<1>3. steady \subseteq able
    BY DEF PushesHold, TypeOK
<1> QED BY <1>1, <1>2, <1>3, PassEnds

(***************************************************************************)
(* Maintenance, receipts, the world                                        *)
(***************************************************************************)
\* Passes wait while rows are put in order.
LEMMA RowsInOrder ==
    ASSUME Bounds, PushesHold, RowsTyped', SameRows, \A u \in Users : Tidy(u) /\ Carries(u),
           UNCHANGED <<now, occ, able, wants, open, job, sent, pass, edits, reached, steady>>
    PROVE  PushesHold'
<1>1. TypeOK'
    BY DEF PushesHold, TypeOK, RowsTyped, Has
<1>2. Valid(now)' <=> Valid(now)
    BY DEF Valid
<1>3. \A r \in Passes : Calling(r) => pass[r].u \in Users
    BY Shapes DEF PushesHold, Calling
<1> QED BY <1>1, <1>2, <1>3, StepKept

LEMMA MaintainKeeps ==
    ASSUME Bounds, PushesHold, Maintain
    PROVE  PushesHold'
<1>1. /\ UNCHANGED <<now, occ, able, wants, open, job, sent, pass, edits, reached, steady>>
      /\ msg' = [u \in Users |-> IF Has(u) THEN Maintained(u) ELSE None]
      /\ del' = [u \in Users |-> MaintainedDelivery(u)]
    BY DEF Maintain, History
<1>2. \A u \in Users : Has(u) => msg[u] \in Message /\ del[u] \in Statuses
    BY RowShapes DEF PushesHold
<1>3. ASSUME NEW u \in Users, Has(u)
      PROVE  /\ Maintained(u) \in Message /\ Maintained(u).lv = msg[u].lv
             /\ Maintained(u).status = IF LeaseOver(u) THEN "unknown"
                                       ELSE IF Overdue(u) THEN "expired" ELSE msg[u].status
    <2>1. "unknown" \in Statuses /\ "expired" \in Statuses
        BY DEF Statuses
    <2>2. [msg[u] EXCEPT !.status = "unknown", !.until = 0] \in Message
          /\ [msg[u] EXCEPT !.status = "expired"] \in Message
        BY <1>2, <1>3, <2>1 DEF Message
    <2> QED BY <1>2, <1>3, <2>2 DEF Maintained, Message
<1>4. ASSUME NEW u \in Users
      PROVE  /\ Has(u) => MaintainedDelivery(u) \in Statuses
             /\ ~Has(u) => MaintainedDelivery(u) = None
    <2>1. ~Has(u) => del[u] = None
        BY DEF PushesHold, TypeOK
    <2> QED BY <1>2, <2>1 DEF MaintainedDelivery, LeaseOver, Overdue, Statuses
<1>5. \A u \in Users : /\ Has(u) => msg'[u] = Maintained(u) /\ msg'[u] \in Message
                       /\ ~Has(u) => msg'[u] = None
                       /\ del'[u] = MaintainedDelivery(u)
    BY <1>1, <1>3
<1>6. SameRows
    BY <1>5, NoneIsNoStatus DEF SameRows, Has
<1>7. RowsTyped'
    <2>1. msg' \in [Users -> Message \union {None}]
        BY <1>1, <1>3
    <2>2. del' \in [Users -> Statuses \union {None}]
        BY <1>1, <1>4
    <2>3. \A u \in Users : Has(u)' <=> del'[u] # None
        BY <1>4, <1>5, <1>6, NoneIsNoStatus DEF SameRows
    <2> QED BY <2>1, <2>2, <2>3 DEF RowsTyped
<1>8. \A u \in Users : Tidy(u) /\ Carries(u)
    <2> TAKE u \in Users
    <2>1. CASE ~Has(u)
        <3>1. msg'[u] = msg[u] /\ del'[u] = del[u]
            BY <1>4, <1>5, <2>1 DEF Has, PushesHold, TypeOK
        <3> QED BY <3>1, UntouchedRow
    <2>2. CASE Has(u)
        <3>1. /\ Has(u)' /\ msg'[u].lv = msg[u].lv /\ del'[u] = MaintainedDelivery(u)
              /\ msg'[u].status = IF LeaseOver(u) THEN "unknown"
                                  ELSE IF Overdue(u) THEN "expired" ELSE msg[u].status
            BY <1>3, <1>5, <1>6, <2>2 DEF SameRows
        <3>2. Carries(u)
            BY <3>1 DEF Carries, LeaseOver, Overdue, Flying, Waiting
        <3>3. Agrees(u)
            BY DEF PushesHold, PairAgrees
        <3>4. Agrees(u)'
            BY <2>2, <3>1, <3>3 DEF Agrees, MaintainedDelivery, LeaseOver, Overdue, Waiting
        <3>5. msg'[u].status \in Waiting => reached[u] = 0
            BY <2>2, <3>1 DEF PushesHold, UnsentUntouched, Waiting
        <3> QED BY <3>1, <3>2, <3>4, <3>5 DEF Tidy
    <2> QED BY <2>1, <2>2
<1> QED BY <1>1, <1>6, <1>7, <1>8, RowsInOrder

LEMMA SupersedeKeeps ==
    ASSUME Bounds, PushesHold, Supersede
    PROVE  PushesHold'
<1>1. /\ UNCHANGED <<now, occ, able, wants, open, job, msg, sent, pass, edits, reached, steady>>
      /\ del' = [u \in Users |-> IF del[u] \in Waiting THEN "superseded" ELSE del[u]]
    BY DEF Supersede, History
<1>2. "superseded" \in Statuses /\ Waiting \subseteq Statuses
    BY DEF Statuses, Waiting
<1>3. del' \in [Users -> Statuses \union {None}]
    BY <1>1, <1>2 DEF PushesHold, TypeOK
<1>4. \A u \in Users : del'[u] # None <=> del[u] # None
    BY <1>1, <1>2, NoneIsNoStatus
<1>5. RowsTyped' /\ SameRows
    BY <1>1, <1>3, <1>4 DEF PushesHold, TypeOK, RowsTyped, SameRows, Has
<1>6. \A u \in Users : Tidy(u) /\ Carries(u)
    <2> TAKE u \in Users
    <2>1. Agrees(u)
        BY DEF PushesHold, PairAgrees
    <2>2. Agrees(u)'
        BY <1>1, <2>1 DEF Agrees, Has, Waiting
    <2> QED BY <1>1, <2>2 DEF Tidy, Carries, PushesHold, UnsentUntouched, Has
<1> QED BY <1>1, <1>5, <1>6, RowsInOrder

LEMMA ReceiptKeeps ==
    ASSUME Bounds, PushesHold, NEW u \in Users, Receipt(u)
    PROVE  PushesHold'
<1>d. PICK d : d = IF del[u] = "unknown" THEN "accepted" ELSE del[u]
    OBVIOUS
<1>m. PICK m : m = [msg[u] EXCEPT !.status = "accepted"]
    OBVIOUS
<1>1. /\ Has(u) /\ msg[u].status = "unknown" /\ msg' = [msg EXCEPT ![u] = m]
      /\ del' = [del EXCEPT ![u] = d]
      /\ UNCHANGED <<now, occ, able, wants, open, job, sent, pass, edits, reached, steady>>
    BY <1>d, <1>m DEF Receipt, History, PushesHold, TypeOK
<1>2. msg[u] \in Message /\ del[u] \in Statuses
    BY <1>1, RowShapes DEF PushesHold
<1>3. m \in Message /\ m.lv = msg[u].lv /\ m.status = "accepted" /\ d \in Statuses
    BY <1>2, <1>d, <1>m DEF Message, Statuses
<1>4. /\ RowsTyped' /\ msg'[u] = m /\ del'[u] = d
      /\ \A v \in Users \ {u} : msg'[v] = msg[v] /\ del'[v] = del[v]
      /\ \A v \in Users : Has(v)' <=> Has(v)
    BY <1>1, <1>3, OneRow DEF PushesHold
<1>5. Tidy(u) /\ Carries(u)
    <2>1. Agrees(u)
        BY DEF PushesHold, PairAgrees
    <2>2. Agrees(u)'
        BY <1>d, <1>1, <1>3, <1>4, <2>1 DEF Agrees
    <2> QED BY <1>1, <1>3, <1>4, <2>2 DEF Tidy, Carries, Waiting, Flying
<1>6. \A v \in Users \ {u} : Tidy(v) /\ Carries(v)
    BY <1>4, UntouchedRow
<1>7. SameRows
    BY <1>4 DEF SameRows
<1> QED BY <1>1, <1>4, <1>5, <1>6, <1>7, RowsInOrder

LEMMA EditKeeps ==
    ASSUME Bounds, PushesHold, Edit
    PROVE  PushesHold'
<1>1. /\ UNCHANGED <<now, job, msg, del, sent, pass, reached>>
      /\ edits' = edits + 1 /\ steady' = steady \intersect able' \intersect wants'
    BY DEF Edit
<1>2. /\ able' \subseteq Users /\ wants' \subseteq Users /\ open' \in BOOLEAN
      /\ occ' \in {"current", "old"} /\ (occ = "old" => occ' = "old")
    BY DEF Edit, SymDiff, PushesHold, TypeOK
<1>3. TypeOK'
    BY <1>1, <1>2 DEF PushesHold, TypeOK, Has
<1>4. ~Valid(now) => ~Valid(now)'
    BY <1>1, <1>2 DEF Valid, PushesHold, TypeOK
<1>5. SameRows /\ (\A u \in Users : Tidy(u)) /\ \A r \in Passes : Calling(r) => Carries(pass[r].u)
    BY <1>1, RowsWait
<1> QED BY <1>1, <1>3, <1>4, <1>5, StepKept

LEMMA TickKeeps ==
    ASSUME Bounds, PushesHold, Tick
    PROVE  PushesHold'
<1>1. /\ now' = now + 1 /\ now \in Nat /\ Expiry \in Nat
      /\ UNCHANGED <<occ, able, wants, open, job, msg, del, sent, pass, edits, reached, steady>>
    BY DEF Tick, History, PushesHold, TypeOK, Bounds
<1>2. TypeOK'
    BY <1>1 DEF PushesHold, TypeOK, Has
<1>3. ~Valid(now) => ~Valid(now)'
    BY <1>1 DEF Valid
<1>4. SameRows /\ (\A u \in Users : Tidy(u)) /\ \A r \in Passes : Calling(r) => Carries(pass[r].u)
    BY <1>1, RowsWait
<1> QED BY <1>1, <1>2, <1>3, <1>4, StepKept

(***************************************************************************)
(* The theorems                                                            *)
(***************************************************************************)
LEMMA InitHolds ==
    ASSUME Bounds, Init
    PROVE  PushesHold
<1>1. TypeOK
    <2>1. Upper \in Nat
        BY DEF Bounds
    <2> QED BY <2>1 DEF Init, TypeOK, Has
<1>2. (\A p \in Passes : pass[p] = None) /\ (\A u \in Users : ~Has(u) /\ reached[u] = 0)
      /\ job.status = "none" /\ job.cursor = 0
    BY DEF Init, Has
<1>3. RowsHeld /\ CallsHeld /\ PagesHeld
    BY <1>2 DEF RowsHeld, CallsHeld, PagesHeld, Calling, Reading
<1>4. NeverResent /\ PairAgrees /\ UnsentUntouched /\ NobodyMissed /\ CursorHeld
    BY <1>2 DEF NeverResent, PairAgrees, Agrees, UnsentUntouched, NobodyMissed, CursorHeld
<1> QED BY <1>1, <1>3, <1>4 DEF PushesHold

LEMMA StepKeeps ==
    ASSUME Bounds, PushesHold, [Next]_vars
    PROVE  PushesHold'
<1>1. CASE UNCHANGED vars
    <2>1. TypeOK' /\ (Valid(now)' <=> Valid(now))
        BY <1>1 DEF vars, PushesHold, TypeOK, Has, Valid
    <2>2. SameRows /\ (\A u \in Users : Tidy(u)) /\ \A r \in Passes : Calling(r) => Carries(pass[r].u)
        BY <1>1, RowsWait DEF vars
    <2> QED BY <1>1, <2>1, <2>2, StepKept DEF vars
<1>2. CASE Next
    <2>1. CASE StartExpansion
        BY <2>1, StartExpansionKeeps
    <2>2. CASE Maintain
        BY <2>2, MaintainKeeps
    <2>3. CASE Edit
        BY <2>3, EditKeeps
    <2>4. CASE Supersede
        BY <2>4, SupersedeKeeps
    <2>5. CASE Tick
        BY <2>5, TickKeeps
    <2>6. ASSUME NEW p \in Passes,
                 \/ ReadPage(p) \/ CommitPage(p) \/ FailPage(p)
                 \/ Pick(p) \/ CloseMessage(p) \/ Claim(p) \/ MissClaim(p)
                 \/ Call(p) \/ Write(p) \/ Invalid(p) \/ Crash(p)
          PROVE  PushesHold'
        BY <2>6, ReadPageKeeps, CommitPageKeeps, FailPageKeeps, PickKeeps, CloseMessageKeeps,
           ClaimKeeps, MissClaimKeeps, CallKeeps, WriteKeeps, InvalidKeeps, CrashKeeps
    <2>7. ASSUME NEW u \in Users, Receipt(u)
          PROVE  PushesHold'
        BY <2>7, ReceiptKeeps
    <2> QED BY <1>2, <2>1, <2>2, <2>3, <2>4, <2>5, <2>6, <2>7 DEF Next
<1> QED BY <1>1, <1>2

THEOREM PushesAreKept == ASSUME Bounds PROVE Spec => []PushesHold
<1>1. Init => PushesHold
    BY InitHolds
<1>2. PushesHold /\ [Next]_vars => PushesHold'
    BY StepKeeps
<1> QED BY <1>1, <1>2, PTL DEF Spec

\* A notice the push service may have accepted is not sent again, however passes cross,
\* die or overrun their lease.
THEOREM NoticesAreNotResent == ASSUME Bounds PROVE Spec => []NeverResent
<1>1. PushesHold => NeverResent
    BY DEF PushesHold
<1> QED BY <1>1, PushesAreKept, PTL

\* A message and its delivery tell one story in every state.
THEOREM RowsAgree == ASSUME Bounds PROVE Spec => []PairAgrees
<1>1. PushesHold => PairAgrees
    BY DEF PushesHold
<1> QED BY <1>1, PushesAreKept, PTL

\* An expansion that ends under its plan has reached everybody it had to reach.
THEOREM EverybodyIsReached == ASSUME Bounds PROVE Spec => []NobodyMissed
<1>1. PushesHold => NobodyMissed
    BY DEF PushesHold
<1> QED BY <1>1, PushesAreKept, PTL

\* Only the commit of a page creates messages, and only for a plan that stands.
THEOREM OldPlansGetNothing == ASSUME Bounds PROVE Spec => [][NotForOldPlan]_vars
<1>1. PushesHold /\ [Next]_vars => [NotForOldPlan]_vars
    <2> SUFFICES ASSUME PushesHold, [Next]_vars, NEW u \in Users, ~Has(u), msg'[u] # None
                 PROVE  occ = "current"
        BY DEF NotForOldPlan
    <2>1. CASE UNCHANGED msg
        BY <2>1 DEF Has
    <2>2. \A p \in Passes : (pass[p] # None /\ pass[p].pc # "page") => pass[p].u # u
        BY DEF PushesHold, RowsHeld
    <2>3. ASSUME NEW p \in Passes, CommitPage(p)
          PROVE  occ = "current"
        <3>1. PageGuard(pass[p]) /\ u \in pass[p].targets /\ pass[p] # None /\ pass[p].pc = "page"
            BY <2>3, <2>1 DEF CommitPage, Has
        <3>2. pass[p].stale => pass[p].targets = {}
            BY <3>1 DEF PushesHold, PagesHeld, PageHolds, Reading
        <3> QED BY <3>1, <3>2 DEF PageGuard, Valid
    <2>4. ASSUME NEW p \in Passes,
                 \/ CloseMessage(p) \/ Claim(p) \/ MissClaim(p) \/ Write(p) \/ Invalid(p)
          PROVE  msg'[u] = msg[u]
        <3>1. pass[p] # None /\ pass[p].pc # "page" /\ pass[p].u # u
            BY <2>2, <2>4 DEF CloseMessage, Claim, MissClaim, Write, Invalid
        <3>2. msg \in [Users -> Message \union {None}]
            BY DEF PushesHold, TypeOK
        <3> QED BY <2>4, <3>1, <3>2
               DEF CloseMessage, Claim, MissClaim, Write, Invalid, ClosePair, Settle
    <2>5. ASSUME NEW v \in Users, Receipt(v)
          PROVE  msg'[u] = msg[u]
        BY <2>5 DEF Receipt, PushesHold, TypeOK, Has
    <2>6. ASSUME Maintain
          PROVE  msg'[u] = None
        BY <2>6 DEF Maintain
    <2> QED BY <2>1, <2>3, <2>4, <2>5, <2>6
           DEF Next, vars, Has, StartExpansion, Edit, Supersede, Tick, ReadPage, FailPage, Pick, Call,
               Crash, History
<1> QED BY <1>1, PushesAreKept, PTL DEF Spec
=============================================================================
