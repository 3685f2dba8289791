---------------------------- MODULE IngressProofs ----------------------------
(***************************************************************************)
(* Proofs about Ingress for every list of forges, every configuration and  *)
(* every set of pull requests and branches.                                *)
(***************************************************************************)
EXTENDS Ingress, TLAPS

-----------------------------------------------------------------------------
(* What the handling of a delivery computes. *)

\* The entry that is found for a delivery fits it, when secrets tell the forges apart: no
\* other entry has the sender's secret.
LEMMA SenderIsFound ==
    ASSUME SecretsTellApart, NEW m \in Delivery, ParseAnyGitHub(m) # 0
    PROVE  /\ ParseAnyGitHub(m) \in DOMAIN ForgeList
           /\ ForgeList[ParseAnyGitHub(m)].id = m.ref.forge
<1> DEFINE fits == {i \in 1..Len(ForgeList) : Verifies(ForgeList[i], m)}
<1>1. DOMAIN ForgeList = 1..Len(ForgeList)
  BY IngressAssumption
<1>2. PICK k \in DOMAIN ForgeList : ForgeList[k].id = m.ref.forge
  BY IngressAssumption DEF Delivery, ForgeIds
<1>3. SecretOf(m.ref.forge) = ForgeList[k].secret
  BY <1>2, IngressAssumption DEF SecretOf
<1>4. fits \subseteq {k}
  BY <1>1, <1>2, <1>3 DEF SecretsTellApart, Verifies
<1>5. ParseAnyGitHub(m) = IF fits # {} THEN Min(fits) ELSE 0
  BY DEF ParseAnyGitHub, SelectInSeq
<1>6. fits = {k}
  BY <1>4, <1>5
<1>7. Min({k}) = k
  BY <1>1, <1>2, IngressAssumption DEF Min
<1> QED
  BY <1>2, <1>5, <1>6, <1>7

\* Handle makes rows of that type.
LEMMA RowTyped ==
    ASSUME TypeOK, NEW m \in Delivery, Admitted(m)
    PROVE  Row(m) \in RowType
<1>1. ForgeOf(m) \in Clients
  BY DEF Admitted, Supported, Clients
<1>2. m.ref \in Refs /\ m.ref.repo \in Repos /\ m.commit \in Commits
  BY DEF Delivery, Repos
<1>3. Number(m) \in Numbers
  BY <1>2, IngressAssumption DEF Number, Numbers
<1>4. PolicyHash(Pol(m)) \in Hashes
  BY <1>2 DEF TypeOK, Pol, Hashes
<1>5. Publish(m) \in [inline : BOOLEAN, approvals : BOOLEAN, isFork : BOOLEAN]
  <2>1. Pol(m).publish \in PublishBlocks
    BY <1>2, IngressAssumption DEF TypeOK, Pol
  <2>2. Pol(m).publish.approvals \in BOOLEAN
    BY <2>1 DEF PublishBlocks
  <2>3. IsFork(m) \in BOOLEAN
    BY DEF IsFork
  <2> QED
    BY <2>2, <2>3 DEF Publish
<1> QED
  BY <1>1, <1>2, <1>3, <1>4, <1>5 DEF Row, RowType, Statuses

-----------------------------------------------------------------------------
(* What a step may do to the table: rows keep everything but their status, no row becomes
   active again, and a new one is the row of a delivery that was let through. *)

Alike(a, b) ==
    /\ a.event = b.event /\ a.forge = b.forge /\ a.repo = b.repo /\ a.number = b.number
    /\ a.head = b.head /\ a.hash = b.hash /\ a.publish = b.publish
    /\ a.status = "submitted" => b.status = "submitted"

Kept == \A i \in DOMAIN rows : rows'[i] \in RowType /\ Alike(rows'[i], rows[i])

\* Another status makes a row like the old one.
LEMMA NewStatus ==
    ASSUME NEW row \in RowType, NEW s \in Statuses \ {"submitted"}
    PROVE  [row EXCEPT !.status = s] \in RowType /\ Alike([row EXCEPT !.status = s], row)
BY DEF RowType, Alike

\* The supersede statement changes the status of rows only, and leaves none of its pull request submitted.
LEMMA Superseding ==
    ASSUME NEW old \in RowType, NEW row
    PROVE  /\ Supersede(old, row) \in RowType /\ Alike(Supersede(old, row), old)
           /\ SamePR(old, row) => Supersede(old, row).status # "submitted"
<1> DEFINE hit == [old EXCEPT !.status = "superseded"]
<1>1. hit \in RowType /\ Alike(hit, old) /\ hit.status = "superseded"
  BY NewStatus DEF Statuses, RowType
<1>2. Supersede(old, row) = IF SamePR(old, row) /\ old.status \in {"submitted", "review_failed"}
                            THEN hit ELSE old
  BY DEF Supersede
<1> HIDE DEF hit
<1>3. Alike(old, old)
  BY DEF Alike
<1> QED
  BY <1>1, <1>2, <1>3

\* Create inserts at the end of the table.
LEMMA Inserting ==
    ASSUME TypeOK, NEW row \in RowType, ~Duplicate(row), Create(row)
    PROVE  /\ Kept
           /\ DOMAIN rows' = DOMAIN rows \cup {Len(rows) + 1}
           /\ rows'[Len(rows) + 1] = row
           /\ rows' \in Seq(RowType)
           /\ \A i \in DOMAIN rows : SamePR(rows[i], row) => rows'[i].status # "submitted"
<1> DEFINE old == [i \in DOMAIN rows |-> Supersede(rows[i], row)]
<1>1. rows' = Append(old, row)
  BY DEF Create
<1>2. rows \in Seq(RowType) /\ DOMAIN rows = 1..Len(rows)
  BY DEF TypeOK
<1>3. \A i \in DOMAIN rows : rows[i] \in RowType
  BY <1>2
<1>4. \A i \in DOMAIN rows : old[i] \in RowType /\ Alike(old[i], rows[i])
  BY <1>3, Superseding
<1>5. \A i \in DOMAIN rows : SamePR(rows[i], row) => old[i].status # "submitted"
  BY <1>3, Superseding
<1>6. old \in Seq(RowType) /\ Len(old) = Len(rows) /\ DOMAIN old = DOMAIN rows
  <2>1. DOMAIN old = 1..Len(rows) /\ Len(rows) \in Nat
    BY <1>2
  <2>2. old \in [1..Len(rows) -> RowType]
    BY <1>2, <1>4
  <2> QED
    BY <2>1, <2>2
<1> HIDE DEF old
<1>7. /\ DOMAIN rows' = DOMAIN rows \cup {Len(rows) + 1}
      /\ rows'[Len(rows) + 1] = row
      /\ \A i \in DOMAIN rows : rows'[i] = old[i]
      /\ rows' \in Seq(RowType)
  BY <1>1, <1>2, <1>6
<1> QED
  BY <1>4, <1>5, <1>7 DEF Kept

-----------------------------------------------------------------------------
(* The invariant: every row is explained by the delivery it was made for. *)

Explained(row) ==
    LET m == row.event
    IN  /\ ParseAnyGitHub(m) # 0 /\ Admitted(m)
        /\ row.forge = ForgeOf(m) /\ row.repo = m.ref.repo /\ row.number = Number(m)
        /\ row.head = m.commit /\ row.hash = PolicyHash(Pol(m)) /\ row.publish = Publish(m)

AllExplained == \A i \in DOMAIN rows : Explained(rows[i])

IInv == TypeOK /\ AllExplained /\ OneActiveRun /\ CommitGetsRun

\* The configuration is read once.
LEMMA SamePolicy ==
    ASSUME defaults' = defaults, rules' = rules, NEW m
    PROVE  /\ Admitted(m)' <=> Admitted(m)
           /\ Pol(m)' = Pol(m) /\ ForgeOf(m)' = ForgeOf(m) /\ Publish(m)' = Publish(m)
<1>1. Pol(m)' = Pol(m)
  BY DEF Pol
<1> QED
  BY <1>1 DEF Admitted, Triggered, ForkGate, ForgeOf, Publish

\* A row like an explained one is explained.
LEMMA StaysExplained ==
    ASSUME defaults' = defaults, rules' = rules, NEW a, NEW b, Explained(b), Alike(a, b)
    PROVE  Explained(a)'
<1> DEFINE m == b.event
<1>1. /\ Admitted(m)' <=> Admitted(m)
      /\ Pol(m)' = Pol(m) /\ ForgeOf(m)' = ForgeOf(m) /\ Publish(m)' = Publish(m)
  BY SamePolicy
<1>2. a.event = m
  BY DEF Alike
<1> QED
  BY <1>1, <1>2 DEF Explained, Alike

\* A step that stores no run: statuses may change, and a delivery may be handled that is
\* turned away or a duplicate, or be forgotten.
LEMMA NoInsert ==
    ASSUME IInv, TypeOK', defaults' = defaults, rules' = rules, DOMAIN rows' = DOMAIN rows, Kept,
           \A m \in seen' \ seen : Admitted(m) => Duplicate(Row(m))
    PROVE  IInv'
<1>1. AllExplained'
  BY StaysExplained DEF IInv, AllExplained, Kept
<1>2. OneActiveRun'
  BY DEF IInv, OneActiveRun, Active, Kept, Alike, SameKey, SamePR
<1>3. CommitGetsRun'
  <2> SUFFICES ASSUME NEW m \in seen', Admitted(m)'
               PROVE  \E i \in DOMAIN rows' : /\ rows'[i].repo = m.ref.repo
                                              /\ rows'[i].head = m.commit
                                              /\ rows'[i].hash = PolicyHash(Pol(m)')
    BY DEF CommitGetsRun, PolicyHash
  <2>1. Admitted(m) /\ Pol(m)' = Pol(m)
    BY SamePolicy
  <2>2. PICK i \in DOMAIN rows : /\ rows[i].repo = m.ref.repo
                                 /\ rows[i].head = m.commit
                                 /\ rows[i].hash = PolicyHash(Pol(m))
    <3>1. CASE m \in seen
      BY <2>1, <3>1 DEF IInv, CommitGetsRun
    <3>2. CASE m \notin seen
      BY <2>1, <3>2 DEF Duplicate, SameKey, Row
    <3> QED
      BY <3>1, <3>2
  <2> QED
    BY <2>1, <2>2 DEF Kept, Alike
<1> QED
  BY <1>1, <1>2, <1>3 DEF IInv

\* A delivery that is let through and finds no active run of its key.
LEMMA InsertKeeps ==
    ASSUME IInv, TypeOK', defaults' = defaults, rules' = rules, NEW m \in Delivery,
           ParseAnyGitHub(m) # 0, Admitted(m), ~Duplicate(Row(m)), Create(Row(m)),
           seen' = seen \cup {m}
    PROVE  IInv'
<1>0. PICK n, row : n = Len(rows) + 1 /\ row = Row(m)
  OBVIOUS
<1>1. /\ Kept
      /\ DOMAIN rows' = DOMAIN rows \cup {n}
      /\ rows'[n] = row
      /\ \A i \in DOMAIN rows : SamePR(rows[i], row) => rows'[i].status # "submitted"
  BY <1>0, RowTyped, Inserting DEF IInv
<1>2. /\ row.event = m /\ row.forge = ForgeOf(m) /\ row.repo = m.ref.repo /\ row.number = Number(m)
      /\ row.head = m.commit /\ row.hash = PolicyHash(Pol(m)) /\ row.publish = Publish(m)
  BY <1>0 DEF Row
<1>3. \A i \in DOMAIN rows : rows[i].status = "submitted" => ~SameKey(rows[i], row)
  BY <1>0 DEF Duplicate
<1>4. \A x : /\ Admitted(x)' <=> Admitted(x)
            /\ Pol(x)' = Pol(x) /\ ForgeOf(x)' = ForgeOf(x) /\ Publish(x)' = Publish(x)
  BY SamePolicy
<1>5. AllExplained'
  <2>1. \A i \in DOMAIN rows : Explained(rows[i])'
    BY <1>1, StaysExplained DEF IInv, AllExplained, Kept
  <2>2. Explained(rows[n])'
    BY <1>1, <1>2, <1>4 DEF Explained
  <2> QED
    BY <1>1, <2>1, <2>2 DEF AllExplained
<1>6. OneActiveRun'
  <2>1. \A i \in DOMAIN rows : rows'[i].status = "submitted" =>
           ~SameKey(rows'[i], row) /\ ~SamePR(rows'[i], row)
    BY <1>1, <1>3 DEF Kept, Alike, SameKey, SamePR
  <2>2. \A i, j \in DOMAIN rows :
           i # j /\ rows'[i].status = "submitted" /\ rows'[j].status = "submitted"
              => ~SameKey(rows'[i], rows'[j]) /\ ~SamePR(rows'[i], rows'[j])
    BY <1>1 DEF IInv, OneActiveRun, Active, Kept, Alike, SameKey, SamePR
  <2> QED
    BY <1>1, <2>1, <2>2 DEF OneActiveRun, Active, SameKey, SamePR
<1>7. CommitGetsRun'
  <2> SUFFICES ASSUME NEW x \in seen', Admitted(x)'
               PROVE  \E i \in DOMAIN rows' : /\ rows'[i].repo = x.ref.repo
                                              /\ rows'[i].head = x.commit
                                              /\ rows'[i].hash = PolicyHash(Pol(x)')
    BY DEF CommitGetsRun, PolicyHash
  <2>1. CASE x = m
    BY <1>1, <1>2, <1>4, <2>1
  <2>2. CASE x \in seen
    <3>1. PICK i \in DOMAIN rows : /\ rows[i].repo = x.ref.repo
                                   /\ rows[i].head = x.commit
                                   /\ rows[i].hash = PolicyHash(Pol(x))
      BY <1>4, <2>2 DEF IInv, CommitGetsRun
    <3> QED
      BY <1>1, <1>4, <3>1 DEF Kept, Alike
  <2> QED
    BY <2>1, <2>2
<1> QED
  BY <1>5, <1>6, <1>7 DEF IInv

-----------------------------------------------------------------------------
\* There are no rows at first.
LEMMA InitInv == Init => IInv
<1> SUFFICES ASSUME Init PROVE IInv
  OBVIOUS
<1>1. rows = <<>> /\ seen = {} /\ sent = {} /\ DOMAIN rows = {}
  BY DEF Init
<1>2. TypeOK
  BY <1>1 DEF Init, TypeOK
<1> QED
  BY <1>1, <1>2 DEF IInv, AllExplained, OneActiveRun, CommitGetsRun

\* A step explains the row it adds, and keeps the others explained.
LEMMA StepInv == IInv /\ [Next]_vars => IInv'
<1> SUFFICES ASSUME IInv, [Next]_vars PROVE IInv'
  OBVIOUS
<1>1. TypeOK /\ rows \in Seq(RowType) /\ DOMAIN rows = 1..Len(rows) /\ sent \subseteq Delivery
  BY DEF IInv, TypeOK
<1>2. \A i \in DOMAIN rows : rows[i] \in RowType
  BY <1>1
<1>3. rows' = rows => Kept /\ DOMAIN rows' = DOMAIN rows
  BY <1>2 DEF Kept, Alike
<1>4. CASE UNCHANGED vars
  <2>1. TypeOK'
    BY <1>1, <1>4 DEF TypeOK, vars
  <2> QED
    BY <1>3, <1>4, <2>1, NoInsert DEF vars
<1>5. ASSUME NEW ref \in Refs, NEW commit \in Commits, NEW action \in {"synchronize", "labeled"},
             NEW from \in {ref.home, Gone}, gone' \subseteq Refs, Send(ref, commit, action, from)
      PROVE  IInv'
  <2>1. tip' \in [Refs -> [no : Nat, commit : Commits \cup {NoCommit}]]
    BY <1>1, <1>5 DEF TypeOK, Send
  <2>2. [ref |-> ref, no |-> tip[ref].no + 1, commit |-> commit, action |-> action, from |-> from]
          \in Delivery
    BY <1>1 DEF TypeOK, Delivery
  <2>3. TypeOK'
    BY <1>1, <1>5, <2>1, <2>2 DEF TypeOK, Send
  <2> QED
    BY <1>3, <1>5, <2>3, NoInsert DEF Send
<1>6. ASSUME NEW ref \in Refs, NEW commit \in Commits, Push(ref, commit)
      PROVE  IInv'
  <2>1. gone' \subseteq Refs
    BY <1>1, <1>6 DEF TypeOK, Push
  <2> QED
    BY <1>5, <1>6, <2>1 DEF Push
<1>7. ASSUME NEW ref \in Refs, NEW from \in {ref.home, Gone}, Label(ref, from)
      PROVE  IInv'
  <2>1. gone' \subseteq Refs
    BY <1>1, <1>7 DEF TypeOK, Label
  <2>2. tip[ref].commit \in Commits
    BY <1>1, <1>7 DEF TypeOK, Label
  <2> QED
    BY <1>5, <1>7, <2>1, <2>2 DEF Label
<1>8. ASSUME NEW m \in sent, Handle(m)
      PROVE  IInv'
  <2>1. m \in Delivery /\ seen' = seen \cup {m} /\ seen' \subseteq sent'
    BY <1>1, <1>8 DEF Handle, TypeOK
  <2>2. CASE ~Admitted(m) \/ Duplicate(Row(m))
    <3>1. rows' = rows
      BY <1>8, <2>2 DEF Handle, Create
    <3>2. TypeOK'
      BY <1>1, <1>8, <2>1, <3>1 DEF TypeOK, Handle
    <3> QED
      BY <1>3, <1>8, <2>1, <2>2, <3>1, <3>2, NoInsert DEF Handle
  <2>3. CASE Admitted(m) /\ ~Duplicate(Row(m))
    <3>1. Create(Row(m)) /\ ParseAnyGitHub(m) # 0
      BY <1>8, <2>3 DEF Handle
    <3>2. rows' \in Seq(RowType)
      BY <1>1, <2>1, <2>3, <3>1, RowTyped, Inserting
    <3>3. TypeOK'
      BY <1>1, <1>8, <2>1, <3>2 DEF TypeOK, Handle
    <3> QED
      BY <1>8, <2>1, <2>3, <3>1, <3>3, InsertKeeps DEF Handle
  <2> QED
    BY <2>2, <2>3
<1>9. ASSUME NEW m \in sent, Forget(m)
      PROVE  IInv'
  <2>1. TypeOK'
    BY <1>1, <1>9 DEF TypeOK, Forget
  <2> QED
    BY <1>3, <1>9, <2>1, NoInsert DEF Forget
<1>10. ASSUME NEW i \in DOMAIN rows, NEW s \in {"succeeded", "review_failed"}, End(i, s)
       PROVE  IInv'
  <2>1. DOMAIN rows' = DOMAIN rows /\ \A j \in DOMAIN rows :
           rows'[j] = IF j = i THEN [rows[j] EXCEPT !.status = s] ELSE rows[j]
    BY <1>1, <1>10 DEF End
  <2>2. [rows[i] EXCEPT !.status = s] \in RowType /\ Alike([rows[i] EXCEPT !.status = s], rows[i])
    BY <1>2, NewStatus DEF Statuses
  <2>3. Kept
    BY <1>2, <2>1, <2>2 DEF Kept, Alike
  <2>4. rows' \in Seq(RowType)
    BY <1>1, <1>10, <2>2 DEF End
  <2>5. TypeOK'
    BY <1>1, <1>10, <2>4 DEF TypeOK, End
  <2> QED
    BY <1>10, <2>1, <2>3, <2>5, NoInsert DEF End
<1> QED
  BY <1>4, <1>6, <1>7, <1>8, <1>9, <1>10 DEF Next

\* The inductive invariant holds in every state.
LEMMA Invariance == Spec => []IInv
BY InitInv, StepInv, PTL DEF Spec

\* Every row is of a client, of the repository, number, commit and policy of its delivery.
THEOREM TypeCorrect == Spec => []TypeOK
<1>1. IInv => TypeOK
  BY DEF IInv
<1> QED
  BY Invariance, <1>1, PTL

\* However deliveries are repeated, reordered or forgotten, one key and one pull request have
\* one active run.
THEOREM OneActiveRunAlways == Spec => []OneActiveRun
<1>1. IInv => OneActiveRun
  BY DEF IInv
<1> QED
  BY Invariance, <1>1, PTL

\* An event that was let through has a run of its commit and policy.
THEOREM CommitAlwaysGetsRun == Spec => []CommitGetsRun
<1>1. IInv => CommitGetsRun
  BY DEF IInv
<1> QED
  BY Invariance, <1>1, PTL

\* With secrets that tell the forges apart, a run has the credentials of its event's forge.
THEOREM AlwaysStaysOnItsForge == Spec => []StaysOnItsForge
<1>1. IInv => StaysOnItsForge
  <2> SUFFICES ASSUME IInv, SecretsTellApart, NEW i \in DOMAIN rows,
                      Pol(rows[i].event).forge = Inherit
               PROVE  rows[i].forge = rows[i].event.ref.forge
    BY DEF StaysOnItsForge
  <2>1. rows[i] \in RowType
    BY DEF IInv, TypeOK
  <2>2. rows[i].event \in Delivery
    BY <2>1 DEF RowType
  <2>3. ParseAnyGitHub(rows[i].event) # 0 /\ rows[i].forge = ForgeOf(rows[i].event)
    BY DEF IInv, AllExplained, Explained
  <2>4. ForgeList[ParseAnyGitHub(rows[i].event)].id = rows[i].event.ref.forge
    BY <2>2, <2>3, SenderIsFound
  <2> QED
    BY <2>3, <2>4 DEF ForgeOf
<1> QED
  BY Invariance, <1>1, PTL

\* The policy of forks reaches the gate, the inline comments and the publisher, whatever
\* rules and defaults say of them.
THEOREM ForkPolicyAlwaysKept == Spec => []ForkPolicyKept
<1>1. IInv => ForkPolicyKept
  <2> SUFFICES ASSUME IInv, NEW i \in DOMAIN rows, NEW m, m = rows[i].event,
                      Fork(m.ref), m.from # Gone
               PROVE  /\ Pol(m).forkPolicy # "none"
                      /\ Pol(m).forkPolicy = "summary_only" => ~rows[i].publish.inline
                      /\ rows[i].publish.isFork
    BY DEF ForkPolicyKept
  <2>1. rows[i] \in RowType
    BY DEF IInv, TypeOK
  <2>2. m.from = m.ref.home
    BY <2>1 DEF RowType, Delivery
  <2>3. Admitted(m) /\ rows[i].publish = Publish(m)
    BY DEF IInv, AllExplained, Explained
  <2>4. IsFork(m)
    BY <2>2 DEF IsFork, Fork
  <2>5. Pol(m).forkPolicy # "none"
    BY <2>3, <2>4 DEF Admitted, ForkGate
  <2>6. Publish(m).isFork
    BY <2>4 DEF Publish
  <2>7. Pol(m).forkPolicy = "summary_only" => ~Publish(m).inline
    BY <2>4 DEF Publish
  <2> QED
    BY <2>3, <2>5, <2>6, <2>7
<1> QED
  BY Invariance, <1>1, PTL
=============================================================================
