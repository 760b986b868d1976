---------------------------- MODULE EvidenceProofs ----------------------------
(***************************************************************************)
(* Proofs about module Evidence: for any number of receipts, timestamps    *)
(* and things that happen to the evidence, in any order.                   *)
(***************************************************************************)
EXTENDS Evidence, ChainVerifierProofs

SidecarRecord == [id : Nat, tsa : Services, token : Tokens, imprint : Nat]

\* A receipt as it was signed.
AsSigned(r) == [r EXCEPT !.edit = "none"]

\* What an action receipt says of the decision agrees with what it says of the
\* call: what was let through was not kept from the upstream, and only what
\* failed closed is a dead letter.
Decided(r) ==
  IsAction(r) =>
    /\ r.decision # None
    /\ r.decision \in {"ALLOW", "FAIL_OPEN"} => r.called # "no"
    /\ r.dead => r.decision = "FAIL_CLOSED"

\* Receipt i of the workflow is the i-th of a chain that ends when it is closed.
Numbered(rs) ==
  \A i \in Places(rs) :
    /\ rs[i].id = i /\ rs[i].seq = i - 1 /\ rs[i].edit = "none"
    /\ rs[i].type = "workflow_closed" => i = Len(rs)

\* What the auditors have of a workflow was issued, but for its edits.
WorkflowTampered ==
  /\ sent # << >> /\ Numbered(sent)
  /\ \A i \in Places(evidence) : \E j \in Places(sent) : AsSigned(evidence[i]) = sent[j]
  /\ \A k \in 1 .. Len(sidecar) : sidecar[k].imprint \in Places(sent)
  /\ damage = 0 => evidence = sent

\* ts has the receipts of rs in another order.
Reordered(rs, ts) ==
  /\ Len(ts) = Len(rs)
  /\ \E move \in Bijection(Places(rs), Places(rs)) : \A i \in Places(rs) : ts[i] = rs[move[i]]

EvidenceInv ==
  /\ EvidenceTypeOK
  /\ \A i \in Places(sent) : Decided(sent[i])
  /\ \A i \in Places(evidence) : Decided(evidence[i])
  /\ vector = NoVector => WorkflowTampered
  /\ vector # NoVector =>
       sent = vector.receipts /\ sidecar = vector.tsa /\ Reordered(sent, evidence)

-----------------------------------------------------------------------------
\* Two receipts agree but for their id, number and link.
Alike(r, q) ==
  /\ r.wf = q.wf /\ r.type = q.type /\ r.edit = q.edit /\ r.decision = q.decision
  /\ r.money = q.money /\ r.dead = q.dead /\ r.called = q.called /\ r.degraded = q.degraded
  /\ r.pre = q.pre /\ r.outcome = q.outcome /\ r.dedupe = q.dedupe

LEMMA Naming ==
  ASSUME NEW draft \in Receipt, NEW id \in Nat
  PROVE  LET r == [draft EXCEPT !.id = id]
         IN  /\ r \in Receipt /\ Alike(r, draft)
             /\ r.id = id /\ r.seq = draft.seq /\ r.prev = draft.prev
BY DEF Receipt, Alike

LEMMA Editing ==
  ASSUME NEW draft \in Receipt, NEW edit \in {"none", "signed", "unsigned", "version"}
  PROVE  LET r == [draft EXCEPT !.edit = edit]
         IN  /\ r \in Receipt /\ r.edit = edit /\ r.type = draft.type
             /\ r.seq = draft.seq /\ r.prev = draft.prev /\ r.degraded = draft.degraded
BY DEF Receipt

LEMMA Relinking ==
  ASSUME NEW draft \in Receipt, NEW prev \in Nat
  PROVE  LET r == [draft EXCEPT !.prev = prev]
         IN  /\ r \in Receipt /\ Alike(r, draft)
             /\ r.id = draft.id /\ r.seq = draft.seq /\ r.prev = prev
BY DEF Receipt, Alike

LEMMA Renumbering ==
  ASSUME NEW draft \in Receipt, NEW seq \in Nat
  PROVE  LET r == [draft EXCEPT !.seq = seq]
         IN  /\ r \in Receipt /\ Alike(r, draft)
             /\ r.id = draft.id /\ r.seq = seq /\ r.prev = draft.prev
BY DEF Receipt, Alike

Linked(draft, id, prev, seq) == [draft EXCEPT !.id = id, !.prev = prev, !.seq = seq]

\* What chainReceipt makes of drafts, written without recursion: a receipt
\* behind the first has its place for an id, the id before its own for a hash.
LinkedFrom(drafts) ==
  [i \in 1 .. Len(drafts) |->
     IF i = 1 THEN [drafts[1] EXCEPT !.id = 1]
     ELSE Linked(drafts[i], i, i - 1, drafts[1].seq + i - 1)]

LEMMA LinkedReceipts ==
  ASSUME NEW drafts \in Seq(Receipt)
  PROVE  /\ LinkedFrom(drafts) \in Seq(Receipt) /\ Len(LinkedFrom(drafts)) = Len(drafts)
         /\ \A i \in 1 .. Len(drafts) :
              LET r == LinkedFrom(drafts)[i]
              IN  /\ r \in Receipt /\ Alike(r, drafts[i])
                  /\ r.id = i
                  /\ r.seq = drafts[1].seq + i - 1
                  /\ r.prev = IF i = 1 THEN drafts[1].prev ELSE i - 1
<1> DEFINE n == Len(drafts)
           c == LinkedFrom(drafts)
<1>1. n \in Nat /\ DOMAIN c = 1 .. n
  BY LenProperties DEF LinkedFrom
<1>2. ASSUME NEW i \in 1 .. n
      PROVE  /\ c[i] \in Receipt /\ Alike(c[i], drafts[i])
             /\ c[i].id = i /\ c[i].seq = drafts[1].seq + i - 1
             /\ c[i].prev = IF i = 1 THEN drafts[1].prev ELSE i - 1
  <2>1. drafts[1] \in Receipt /\ drafts[i] \in Receipt /\ i \in Nat /\ i - 1 \in Nat
    BY <1>1, ElementOfSeq
  <2>2. drafts[1].seq \in Nat /\ drafts[1].prev \in Nat
    BY <2>1 DEF Receipt
  <2>3. CASE i = 1
    <3>1. c[i] = [drafts[1] EXCEPT !.id = 1]
      BY <2>3 DEF LinkedFrom
    <3>2. drafts[1].seq = drafts[1].seq + 1 - 1
      BY <2>2
    <3> DEFINE r == [drafts[1] EXCEPT !.id = 1]
    <3>3. /\ r \in Receipt /\ Alike(r, drafts[1])
          /\ r.id = 1 /\ r.seq = drafts[1].seq /\ r.prev = drafts[1].prev
      BY <2>1, Naming
    <3> HIDE DEF c, r
    <3> QED BY <2>3, <3>1, <3>2, <3>3 DEF r
  <2>4. CASE i # 1
    <3>1. c[i] = Linked(drafts[i], i, i - 1, drafts[1].seq + i - 1)
      BY <2>4 DEF LinkedFrom
    <3>2. drafts[1].seq + i - 1 \in Nat
      BY <2>1, <2>2
    <3> HIDE DEF c
    <3>3. PICK d, r, num, link :
            /\ d = drafts[i] /\ r = c[i] /\ num = drafts[1].seq + i - 1 /\ link = i - 1
      OBVIOUS
    <3>4. r = Linked(d, i, link, num) /\ d \in Receipt /\ num \in Nat /\ link \in Nat
      BY <2>1, <3>1, <3>2, <3>3
    <3>5. r \in Receipt /\ Alike(r, d)
      BY <2>1, <3>4 DEF Receipt, Alike, Linked
    <3>6. r.id = i /\ r.seq = num /\ r.prev = link
      BY <2>1, <3>4 DEF Receipt, Linked
    <3> QED BY <2>4, <3>3, <3>5, <3>6
  <2> QED BY <2>3, <2>4
<1>3. c \in Seq(Receipt) /\ Len(c) = n
  <2>1. c = [i \in 1 .. n |-> c[i]]
    BY DEF LinkedFrom
  <2>2. c \in [1 .. n -> Receipt]
    BY <1>1, <1>2, <2>1
  <2> QED BY <1>1, <2>2
<1> QED BY <1>2, <1>3

LEMMA ChainIsLinked ==
  ASSUME NEW drafts \in Seq(Receipt)
  PROVE  ChainOf(drafts) = LinkedFrom(drafts)
<1> DEFINE n == Len(drafts)
           Chained1(c) == [i \in 1 .. n |->
             LET draft == [drafts[i] EXCEPT !.id = i]
             IN  IF i = 1 THEN draft ELSE ChainReceipt(draft, c[i-1])]
           C == ChainOf(drafts)
           L == LinkedFrom(drafts)
<1>0. n \in Nat
  BY LenProperties
<1>1. C = CHOOSE c : c = Chained1(c)
  BY DEF ChainOf
<1>2. L = Chained1(L)
  <2>1. ASSUME NEW i \in 1 .. n PROVE L[i] = Chained1(L)[i]
    <3>1. CASE i = 1
      BY <3>1 DEF LinkedFrom
    <3>2. CASE i # 1
      <4>1. /\ i - 1 \in 1 .. n /\ i \in Nat /\ drafts[i] \in Receipt /\ drafts[1] \in Receipt
            /\ L[i] = [drafts[i] EXCEPT !.id = i, !.prev = i - 1, !.seq = drafts[1].seq + i - 1]
        BY <1>0, <3>2, ElementOfSeq DEF LinkedFrom, Linked
      <4>2. L[i-1].id = i - 1 /\ L[i-1].seq = drafts[1].seq + (i - 1) - 1 /\ drafts[1].seq \in Nat
        <5>1. \A k \in 1 .. n : L[k].id = k /\ L[k].seq = drafts[1].seq + k - 1
          BY LinkedReceipts
        <5>2. drafts[1].seq \in Nat
          BY <4>1 DEF Receipt
        <5> QED BY <4>1, <5>1, <5>2
      <4>3. Chained1(L)[i] = ChainReceipt([drafts[i] EXCEPT !.id = i], L[i-1])
        BY ONLY <3>2, i \in 1 .. n
      <4>4. L[i-1].seq + 1 = drafts[1].seq + i - 1
        BY <4>1, <4>2
      <4>5. PICK d, c, num, prev :
              d = drafts[i] /\ c = L[i-1] /\ num = drafts[1].seq + i - 1 /\ prev = i - 1
        OBVIOUS
      <4>6. d \in Receipt /\ c.id = prev /\ c.seq + 1 = num
        BY <4>1, <4>2, <4>4, <4>5
      <4>7. ChainReceipt([d EXCEPT !.id = i], c) = [d EXCEPT !.id = i, !.prev = prev, !.seq = num]
        BY ONLY <4>6 DEF ChainReceipt, Digest, Receipt
      <4> QED BY <4>1, <4>3, <4>5, <4>7
    <3> QED BY <3>1, <3>2
  <2>2. DOMAIN L = 1 .. n /\ L = [i \in 1 .. n |-> L[i]]
    BY DEF LinkedFrom
  <2> QED BY <2>1, <2>2
<1>3. C = Chained1(C)
  BY <1>1, <1>2
<1>4. DOMAIN C = 1 .. n
  BY <1>3
<1>5. 1 .. n \subseteq {i \in 1 .. n : C[i] = L[i]}
  <2> DEFINE T == {i \in 1 .. n : C[i] = L[i]}
  <2>1. CASE n = 0
    BY <2>1
  <2>2. CASE n > 0
    <3>1. 1 \in T
      <4>1. 1 \in 1 .. n
        BY <1>0, <2>2
      <4>2. C[1] = Chained1(C)[1] /\ L[1] = Chained1(L)[1]
        BY <1>2, <1>3
      <4> QED BY <4>1, <4>2
    <3>2. ASSUME NEW k \in 2 .. n, k - 1 \in T PROVE k \in T
      <4>1. k \in 1 .. n /\ k # 1
        BY <1>0
      <4>2. C[k] = Chained1(C)[k] /\ L[k] = Chained1(L)[k]
        BY <1>2, <1>3
      <4> QED BY <3>2, <4>1, <4>2
    <3> HIDE DEF T, Chained1
    <3>3. 1 .. n \subseteq T
      BY <1>0, <3>1, <3>2, PlaceInduction
    <3> QED BY <3>3 DEF T
  <2> QED BY <1>0, <2>1, <2>2
<1>6. C = [i \in 1 .. n |-> C[i]]
  BY <1>3
<1>7. L = [i \in 1 .. n |-> L[i]]
  BY DEF LinkedFrom
<1> HIDE DEF Chained1
<1> QED BY <1>5, <1>6, <1>7

-----------------------------------------------------------------------------
\* What chains are built of: no outcome among it, nothing edited.
Draft ==
  {r \in Receipt :
     /\ r.wf = 1 /\ r.seq = 0 /\ r.prev = NullHash /\ r.edit = "none"
     /\ Decided(r) /\ ~ IsPost(r)}

LEMMA FieldsAreDrafts ==
  ASSUME NEW type \in {"workflow_manifest", "budget_warning", "workflow_closed"}
  PROVE  Fields(type) \in Draft /\ Fields(type).type = type
BY DEF Fields, Draft, Receipt, Decided, IsAction, IsPost, None, NullHash

LEMMA CallsAreDrafts ==
  ASSUME NEW decision \in {"ALLOW", "BLOCK", "STEP_UP", "FAIL_OPEN", "FAIL_CLOSED"},
         NEW called \in {"yes", "no", "untracked"},
         decision \in {"ALLOW", "FAIL_OPEN"} => called # "no"
  PROVE  /\ Call(decision, called) \in Draft
         /\ Call(decision, called).type = "action_receipt"
<1>1. Action \in Receipt
  BY DEF Action, Fields, Receipt, None, NullHash
<1>2. Call(decision, called) \in Receipt
  BY <1>1 DEF Call, Receipt
<1> QED
  BY <1>2 DEF Call, Action, Fields, Draft, Decided, IsAction, IsPost, NullHash, None

LEMMA ActionsAreDrafts ==
  /\ Action \in Draft /\ [Action EXCEPT !.degraded = TRUE] \in Draft
  /\ \A called \in {"yes", "no", "untracked"} : DeadCall(called) \in Draft
<1>1. Action \in Draft
  BY DEF Action, Fields, Draft, Receipt, Decided, IsAction, IsPost, None, NullHash
<1>2. [Action EXCEPT !.degraded = TRUE] \in Draft
  BY DEF Action, Fields, Draft, Receipt, Decided, IsAction, IsPost, None, NullHash
<1>3. ASSUME NEW called \in {"yes", "no", "untracked"} PROVE DeadCall(called) \in Draft
  <2>1. PICK c \in Draft : c = Call("FAIL_CLOSED", called)
    BY CallsAreDrafts
  <2>2. c.decision = "FAIL_CLOSED" /\ DeadCall(called) = [c EXCEPT !.dead = TRUE]
    BY <2>1 DEF Call, Action, Fields, DeadCall
  <2>3. PICK d : d = [c EXCEPT !.dead = TRUE]
    OBVIOUS
  <2>4. /\ c \in Receipt /\ Decided(c) /\ ~ IsPost(c)
        /\ c.wf = 1 /\ c.seq = 0 /\ c.prev = NullHash /\ c.edit = "none"
    BY ONLY c \in Draft DEF Draft
  <2>5. /\ d \in Receipt /\ d.type = c.type /\ d.decision = c.decision /\ d.called = c.called
        /\ d.wf = c.wf /\ d.seq = c.seq /\ d.prev = c.prev /\ d.edit = c.edit
    BY ONLY <2>3, <2>4 DEF Receipt
  <2>6. Decided(d) /\ ~ IsPost(d)
    BY ONLY <2>2, <2>4, <2>5 DEF Decided, IsAction, IsPost
  <2>7. d \in Draft
    BY ONLY <2>4, <2>5, <2>6 DEF Draft
  <2> QED BY ONLY <2>2, <2>3, <2>7
<1> QED BY <1>1, <1>2, <1>3

\* Receipts of their types, whose outcomes are those of actions.
Sound(rs) ==
  /\ rs \in Seq(Receipt) /\ \A i \in Places(rs) : Decided(rs[i])
  /\ ResolvedIds(rs) \subseteq IdsOf(rs, IsAction)

LEMMA NoOutcomeIsSound ==
  ASSUME NEW rs \in Seq(Receipt), \A i \in Places(rs) : Decided(rs[i]) /\ ~ IsPost(rs[i])
  PROVE  Sound(rs)
BY DEF Sound, ResolvedIds, Places

LEMMA ChainIsSound ==
  ASSUME NEW drafts \in Seq(Draft)
  PROVE  Sound(ChainOf(drafts))
<1>1. drafts \in Seq(Receipt) /\ Len(drafts) \in Nat
  BY DEF Draft
<1>2. PICK c : c = ChainOf(drafts)
  OBVIOUS
<1>3. /\ c \in Seq(Receipt) /\ Len(c) = Len(drafts)
      /\ \A i \in 1 .. Len(drafts) : Alike(c[i], drafts[i])
  BY <1>1, <1>2, ChainIsLinked, LinkedReceipts
<1>4. ASSUME NEW i \in 1 .. Len(drafts) PROVE Decided(c[i]) /\ ~ IsPost(c[i])
  <2>1. drafts[i] \in Draft
    BY ElementOfSeq
  <2> QED BY <1>3, <2>1 DEF Alike, Draft, Decided, IsAction, IsPost
<1> QED BY <1>2, <1>3, <1>4, NoOutcomeIsSound DEF Places

LEMMA GoldenIsSound ==
  ASSUME NEW calls \in Seq(Draft)
  PROVE  Sound(GoldenChain(calls))
<1>1. Manifest \in Draft /\ Closed \in Draft
  BY FieldsAreDrafts DEF Manifest, Closed
<1>2. << Manifest >> \in Seq(Draft) /\ << Closed >> \in Seq(Draft)
  BY <1>1
<1>3. << Manifest >> \o calls \in Seq(Draft)
  BY <1>2, ConcatProperties
<1>4. << Manifest >> \o calls \o << Closed >> \in Seq(Draft)
  BY <1>2, <1>3, ConcatProperties
<1> QED BY <1>4, ChainIsSound DEF GoldenChain

\* What the vectors' records have to say.
VectorTokens == PlainTokens \cup {"md5", "early"}

LEMMA StampedAsRecords ==
  ASSUME NEW rs \in Seq(Receipt), NEW tsa \in {"digicert", "evilcorp-tsa"},
         NEW tokens, \A i \in Places(rs) : tokens[i] \in VectorTokens
  PROVE  StampedAs(rs, tsa, tokens) \in Seq(SidecarRecord)
<1>1. Len(rs) \in Nat /\ \A i \in 1 .. Len(rs) : rs[i] \in Receipt
  BY LenProperties, ElementOfSeq
<1>2. \A r \in Receipt : r.id \in Nat
  BY DEF Receipt
<1>3. tsa \in Services /\ VectorTokens \subseteq Tokens
  BY DEF Services, Accepting, Tokens, BadTokens, PyBadTokens, VectorTokens, PlainTokens
<1> QED BY <1>1, <1>2, <1>3 DEF StampedAs, SidecarRecord, Places, Digest

LEMMA StampedByRecords ==
  ASSUME NEW rs \in Seq(Receipt), NEW tsa \in {"digicert", "evilcorp-tsa"}, NEW token \in VectorTokens
  PROVE  StampedBy(rs, tsa, token) \in Seq(SidecarRecord)
<1> DEFINE tokens == [i \in Places(rs) |-> token]
<1>1. \A i \in Places(rs) : tokens[i] \in VectorTokens
  OBVIOUS
<1> HIDE DEF tokens
<1>2. StampedAs(rs, tsa, tokens) \in Seq(SidecarRecord)
  BY <1>1, StampedAsRecords
<1> QED BY <1>2 DEF StampedBy, tokens

VectorSound(v) == Sound(v.receipts) /\ v.tsa \in Seq(SidecarRecord)

LEMMA VectorIsSound ==
  ASSUME NEW receipts, Sound(receipts), NEW tsa \in Seq(SidecarRecord),
         NEW id, NEW l1, NEW l2, NEW l3
  PROVE  VectorSound(Vector(id, receipts, tsa, l1, l2, l3))
BY DEF Vector, VectorSound

LEMMA AloneIsSound ==
  ASSUME NEW r \in Receipt, Decided(r), ~ IsPost(r)
  PROVE  Sound(Alone(r))
<1> DEFINE q == [r EXCEPT !.id = 1]
<1>1. q \in Receipt
  BY DEF Receipt
<1>2. Decided(q) /\ ~ IsPost(q)
  BY DEF Receipt, Decided, IsAction, IsPost
<1> HIDE DEF q
<1>3. << q >> \in Seq(Receipt) /\ Len(<< q >>) = 1 /\ << q >>[1] = q
  BY <1>1
<1>4. \A i \in 1 .. 1 : Decided(<< q >>[i]) /\ ~ IsPost(<< q >>[i])
  BY <1>2, <1>3
<1>5. Sound(<< q >>)
  BY <1>3, <1>4, NoOutcomeIsSound DEF Places
<1> QED BY <1>5 DEF q, Alone

LEMMA TwoAreSound ==
  ASSUME NEW seq \in Nat, NEW prev \in Nat
  PROVE  Sound(ManifestAnd(seq, prev))
<1>1. PICK a \in Draft, m \in Draft : a = Action /\ m = Manifest
  BY FieldsAreDrafts, ActionsAreDrafts DEF Manifest
<1> DEFINE p == [m EXCEPT !.id = 1]
           q == [a EXCEPT !.id = 2, !.seq = seq, !.prev = prev]
<1>2. p \in Receipt /\ q \in Receipt
  BY DEF Draft, Receipt
<1>3. Decided(p) /\ ~ IsPost(p) /\ Decided(q) /\ ~ IsPost(q)
  BY DEF Draft, Receipt, Decided, IsAction, IsPost
<1> HIDE DEF p, q
<1>4. << p, q >> \in Seq(Receipt) /\ Len(<< p, q >>) = 2 /\ << p, q >>[1] = p /\ << p, q >>[2] = q
  BY <1>2
<1>5. \A i \in 1 .. 2 : Decided(<< p, q >>[i]) /\ ~ IsPost(<< p, q >>[i])
  BY <1>3, <1>4
<1>6. Sound(<< p, q >>)
  BY <1>4, <1>5, NoOutcomeIsSound DEF Places
<1> QED BY <1>1, <1>6 DEF p, q, ManifestAnd

LEMMA UntaggedIsSound == Sound(Untagged)
<1> DEFINE post == [Fields("post_receipt") EXCEPT !.pre = 2, !.outcome = "SUCCESS"]
<1>1. /\ Manifest \in Receipt /\ Decided(Manifest) /\ ~ IsPost(Manifest)
      /\ Action \in Receipt /\ Decided(Action) /\ IsAction(Action) /\ ~ IsPost(Action)
  <2>1. Manifest \in Draft /\ Action \in Draft /\ Action.type = "action_receipt"
    BY FieldsAreDrafts, ActionsAreDrafts DEF Manifest, Action, Fields
  <2> QED BY <2>1 DEF Draft, IsAction
<1>2. post \in Receipt /\ Decided(post) /\ post.pre = 2
  BY DEF Fields, Receipt, Decided, IsAction, IsPost, None, NullHash
<1> HIDE DEF post
<1>3. PICK drafts : drafts = << Manifest, Action, post >>
  OBVIOUS
<1>4. /\ drafts \in Seq(Receipt) /\ Len(drafts) = 3
      /\ drafts[1] = Manifest /\ drafts[2] = Action /\ drafts[3] = post
  BY <1>1, <1>2, <1>3
<1>5. PICK c : c = Untagged
  OBVIOUS
<1>6. c = ChainOf(drafts)
  BY <1>3, <1>5 DEF Untagged, post
<1>7. /\ c \in Seq(Receipt) /\ Len(c) = 3
      /\ \A i \in 1 .. 3 : c[i].id = i /\ Alike(c[i], drafts[i])
  BY <1>4, <1>6, ChainIsLinked, LinkedReceipts
<1>8. ASSUME NEW i \in 1 .. 3
      PROVE  Decided(c[i]) /\ (IsPost(c[i]) => c[i].pre = 2)
  <2>1. Alike(c[i], drafts[i]) /\ Decided(drafts[i]) /\ (IsPost(drafts[i]) => drafts[i].pre = 2)
    BY <1>1, <1>2, <1>4, <1>7
  <2> QED BY <2>1 DEF Alike, Decided, IsAction, IsPost
<1>9. IsAction(c[2]) /\ c[2].id = 2
  BY <1>1, <1>4, <1>7 DEF Alike, IsAction
<1>10. ResolvedIds(c) \subseteq {2}
  BY <1>7, <1>8 DEF ResolvedIds, Places
<1>11. 2 \in IdsOf(c, IsAction)
  BY <1>7, <1>9 DEF IdsOf, Places
<1> QED BY <1>5, <1>7, <1>8, <1>10, <1>11 DEF Sound, Places

LEMMA GV17Length == Len(GV17Chain) = 3
<1>1. Manifest \in Draft /\ Closed \in Draft /\ AllowedCall \in Draft
  BY FieldsAreDrafts, CallsAreDrafts DEF Manifest, Closed, AllowedCall
<1>2. PICK m, a, c : /\ m = << Manifest >> /\ m \in Seq(Receipt) /\ Len(m) = 1
                     /\ a = << AllowedCall >> /\ a \in Seq(Receipt) /\ Len(a) = 1
                     /\ c = << Closed >> /\ c \in Seq(Receipt) /\ Len(c) = 1
  <2>1. \A r \in Receipt : << r >> \in Seq(Receipt) /\ Len(<< r >>) = 1
    OBVIOUS
  <2>2. Manifest \in Receipt /\ AllowedCall \in Receipt /\ Closed \in Receipt
    BY <1>1 DEF Draft
  <2> QED BY <2>1, <2>2
<1>3. PICK drafts : drafts = m \o a \o c /\ drafts \in Seq(Receipt) /\ Len(drafts) = 3
  <2>1. m \o a \in Seq(Receipt) /\ Len(m \o a) = 2
    BY <1>2, ConcatProperties
  <2>2. (m \o a) \o c \in Seq(Receipt) /\ Len((m \o a) \o c) = 3
    BY <1>2, <2>1, ConcatProperties
  <2> QED BY <2>2
<1>4. GV17Chain = ChainOf(drafts)
  BY <1>2, <1>3 DEF GV17Chain, GoldenChain
<1>5. Len(LinkedFrom(drafts)) = 3
  BY <1>3, LinkedReceipts
<1> QED BY <1>3, <1>4, <1>5, ChainIsLinked

LEMMA VectorsAreSound == \A v \in Vectors : VectorSound(v)
<1>1. /\ Manifest \in Draft /\ Action \in Draft /\ Closed \in Draft
      /\ [Action EXCEPT !.degraded = TRUE] \in Draft
  BY FieldsAreDrafts, ActionsAreDrafts DEF Manifest, Closed
<1>2. << >> \in Seq(SidecarRecord)
  OBVIOUS
<1>3. /\ Sound(BuildValidChain) /\ Sound(Degraded)
      /\ Sound(ChainOf(<< Manifest >>)) /\ Sound(ChainOf(<< Manifest, Manifest >>))
      /\ Sound(ChainOf(<< Manifest, Action, Action >>))
  <2>1. /\ << Manifest, Action, Closed >> \in Seq(Draft)
        /\ << Manifest, [Action EXCEPT !.degraded = TRUE], Closed >> \in Seq(Draft)
        /\ << Manifest >> \in Seq(Draft) /\ << Manifest, Manifest >> \in Seq(Draft)
        /\ << Manifest, Action, Action >> \in Seq(Draft)
    <3>1. ASSUME NEW a \in Draft, NEW b \in Draft, NEW c \in Draft
          PROVE  << a, b, c >> \in Seq(Draft) /\ << a >> \in Seq(Draft) /\ << a, b >> \in Seq(Draft)
      OBVIOUS
    <3> QED BY <1>1, <3>1
  <2> QED BY <2>1, ChainIsSound DEF BuildValidChain, Degraded
<1>4. \A edit \in {"signed", "version"} : Sound(Alone([Manifest EXCEPT !.edit = edit]))
  <2>1. ASSUME NEW edit \in {"signed", "version"}
        PROVE  /\ [Manifest EXCEPT !.edit = edit] \in Receipt
               /\ Decided([Manifest EXCEPT !.edit = edit]) /\ ~ IsPost([Manifest EXCEPT !.edit = edit])
    <3>1. PICK m \in Draft : m = Manifest
      BY <1>1
    <3> QED BY <3>1 DEF Draft, Receipt, Decided, IsAction, IsPost
  <2> QED BY <2>1, AloneIsSound
<1>5. Sound(Alone([Manifest EXCEPT !.prev = WrongHash])) /\ Sound(Alone(Action))
  <2>1. PICK m \in Draft : m = Manifest
    BY <1>1
  <2>2. /\ [m EXCEPT !.prev = WrongHash] \in Receipt
        /\ Decided([m EXCEPT !.prev = WrongHash]) /\ ~ IsPost([m EXCEPT !.prev = WrongHash])
    BY DEF Draft, Receipt, Decided, IsAction, IsPost, WrongHash
  <2>3. Action \in Receipt /\ Decided(Action) /\ ~ IsPost(Action)
    BY <1>1 DEF Draft
  <2> QED BY <2>1, <2>2, <2>3, AloneIsSound
<1>6. /\ Sound(ManifestAnd(2, 1)) /\ Sound(ManifestAnd(1, WrongHash))
      /\ Sound(ManifestAnd(0, NullHash))
  BY TwoAreSound DEF WrongHash, NullHash
<1>7. ASSUME NEW tsa \in {"digicert", "evilcorp-tsa"}, NEW token \in VectorTokens
      PROVE  StampedBy(BuildValidChain, tsa, token) \in Seq(SidecarRecord)
  BY <1>3, StampedByRecords DEF Sound
<1>70. PlainTokens \subseteq VectorTokens /\ "md5" \in VectorTokens /\ "early" \in VectorTokens
  BY DEF VectorTokens
<1>71. /\ \A token \in PlainTokens : /\ StampedBy(BuildValidChain, "digicert", token) \in Seq(SidecarRecord)
                                      /\ StampedBy(BuildValidChain, "evilcorp-tsa", token) \in Seq(SidecarRecord)
       /\ StampedBy(BuildValidChain, "digicert", "md5") \in Seq(SidecarRecord)
       /\ StampedBy(BuildValidChain, "digicert", "early") \in Seq(SidecarRecord)
  BY <1>7, <1>70, Zenon
<1>72. ASSUME NEW token \in PlainTokens
       PROVE  VectorSound(TV13(token)) /\ VectorSound(TV14(token)) /\ VectorSound(TV16(token))
  BY <1>3, <1>71, VectorIsSound DEF TV13, TV14, TV16
<1>8. \A v \in ChainVectors : VectorSound(v)
  BY <1>2, <1>3, <1>4, <1>5, <1>6, VectorIsSound DEF ChainVectors
<1>9. \A v \in TimestampVectors : VectorSound(v)
  <2>1. \A token \in PlainTokens : VectorSound(TV13(token)) /\ VectorSound(TV14(token)) /\ VectorSound(TV16(token))
    BY <1>72
  <2>2. /\ VectorSound(Vector("TV-15", Alone(Action), << >>, "PASS", "FAIL", "SKIPPED"))
        /\ VectorSound(Vector("TV-19", Alone([Manifest EXCEPT !.edit = "version"]), << >>, "PASS", "FAIL", "SKIPPED"))
        /\ VectorSound(Vector("TV-20", Degraded, << >>, "PASS", "PASS", "SKIPPED"))
        /\ VectorSound(Vector("TV-21", Untagged, << >>, "PASS", "PASS", "SKIPPED"))
    BY <1>2, <1>3, <1>4, <1>5, UntaggedIsSound, VectorIsSound
  <2>3. /\ VectorSound(Vector("TV-17", BuildValidChain, StampedBy(BuildValidChain, "digicert", "md5"), "PASS", "PASS", "FAIL"))
        /\ VectorSound(Vector("TV-18", BuildValidChain, StampedBy(BuildValidChain, "digicert", "early"), "PASS", "PASS", "FAIL"))
    BY <1>3, <1>71, VectorIsSound
  <2> QED BY ONLY <2>1, <2>2, <2>3 DEF TimestampVectors
<1>10. ASSUME NEW calls \in Seq(Draft), NEW id PROVE VectorSound(Golden(id, calls))
  BY <1>2, GoldenIsSound, VectorIsSound DEF Golden
<1>11. /\ AllowedCall \in Draft /\ BlockedCall \in Draft /\ Call("STEP_UP", "no") \in Draft
       /\ Call("FAIL_OPEN", "yes") \in Draft /\ Call("ALLOW", "untracked") \in Draft
       /\ DeadCall("no") \in Draft /\ DeadCall("yes") \in Draft
  BY CallsAreDrafts, ActionsAreDrafts DEF AllowedCall, BlockedCall
<1>12. ASSUME NEW a \in Draft, NEW b \in Draft, NEW c \in Draft
       PROVE  /\ << >> \in Seq(Draft) /\ << a >> \in Seq(Draft) /\ << a, b >> \in Seq(Draft)
              /\ << a, b, c >> \in Seq(Draft)
  OBVIOUS
<1>13. /\ << >> \in Seq(Draft) /\ << AllowedCall >> \in Seq(Draft) /\ << BlockedCall >> \in Seq(Draft)
       /\ << Call("STEP_UP", "no") >> \in Seq(Draft) /\ << Call("FAIL_OPEN", "yes") >> \in Seq(Draft)
       /\ << Call("ALLOW", "untracked") >> \in Seq(Draft) /\ << AllowedCall, DeadCall("no") >> \in Seq(Draft)
       /\ << DeadCall("yes") >> \in Seq(Draft) /\ << AllowedCall, AllowedCall, AllowedCall >> \in Seq(Draft)
  BY <1>11, <1>12
<1>14. ASSUME NEW tokens \in [1 .. 3 -> PlainTokens] PROVE VectorSound(GV17(tokens))
  <2>1. Sound(GV17Chain)
    BY <1>13, GoldenIsSound DEF GV17Chain
  <2>2. \A i \in Places(GV17Chain) : tokens[i] \in VectorTokens
    BY <1>70, GV17Length DEF Places
  <2>3. StampedAs(GV17Chain, "digicert", tokens) \in Seq(SidecarRecord)
    BY <2>1, <2>2, StampedAsRecords, Zenon DEF Sound
  <2> QED BY <2>1, <2>3, VectorIsSound DEF GV17
<1>15. /\ VectorSound(GV01) /\ VectorSound(GV02) /\ VectorSound(GV03) /\ VectorSound(GV04)
       /\ VectorSound(GV05) /\ VectorSound(GV06) /\ VectorSound(GV07) /\ VectorSound(GV08)
       /\ VectorSound(GV09) /\ VectorSound(GV10) /\ VectorSound(GV11) /\ VectorSound(GV12)
  BY <1>10, <1>13 DEF GV01, GV02, GV03, GV04, GV05, GV06, GV07, GV08, GV09, GV10, GV11, GV12
<1>16. /\ VectorSound(GV13) /\ VectorSound(GV14) /\ VectorSound(GV15) /\ VectorSound(GV16)
       /\ VectorSound(GV18)
  BY <1>10, <1>13 DEF GV13, GV14, GV15, GV16, GV18
<1>17. \A v \in GoldenVectors : VectorSound(v)
  BY <1>14, <1>15, <1>16 DEF GoldenVectors
<1> QED BY <1>8, <1>9, <1>17 DEF Vectors

-----------------------------------------------------------------------------
\* Two receipts are one but for an edit.
Same(r, q) ==
  /\ r.id = q.id /\ r.seq = q.seq /\ r.type = q.type /\ r.decision = q.decision
  /\ r.money = q.money /\ r.dead = q.dead /\ r.called = q.called
  /\ r.pre = q.pre /\ r.outcome = q.outcome /\ r.dedupe = q.dedupe

LEMMA EditsApart ==
  ASSUME NEW r \in Receipt, NEW q \in Receipt, AsSigned(r) = AsSigned(q)
  PROVE  Same(r, q) /\ (r.edit = q.edit => r = q)
<1>1. /\ AsSigned(r).id = r.id /\ AsSigned(r).seq = r.seq /\ AsSigned(r).type = r.type
      /\ AsSigned(r).decision = r.decision /\ AsSigned(r).money = r.money
      /\ AsSigned(r).dead = r.dead /\ AsSigned(r).called = r.called /\ AsSigned(r).pre = r.pre
      /\ AsSigned(r).outcome = r.outcome /\ AsSigned(r).dedupe = r.dedupe
      /\ AsSigned(r).wf = r.wf /\ AsSigned(r).prev = r.prev /\ AsSigned(r).degraded = r.degraded
  BY DEF AsSigned, Receipt
<1>2. /\ AsSigned(q).id = q.id /\ AsSigned(q).seq = q.seq /\ AsSigned(q).type = q.type
      /\ AsSigned(q).decision = q.decision /\ AsSigned(q).money = q.money
      /\ AsSigned(q).dead = q.dead /\ AsSigned(q).called = q.called /\ AsSigned(q).pre = q.pre
      /\ AsSigned(q).outcome = q.outcome /\ AsSigned(q).dedupe = q.dedupe
      /\ AsSigned(q).wf = q.wf /\ AsSigned(q).prev = q.prev /\ AsSigned(q).degraded = q.degraded
  BY DEF AsSigned, Receipt
<1>3. Same(r, q)
  BY <1>1, <1>2 DEF Same
<1>4. r.edit = q.edit => r = q
  BY <1>1, <1>2 DEF Receipt
<1> QED BY <1>3, <1>4

\* The receipts of ts are those of rs in another order, but for edits.
Moved(rs, ts, move) ==
  /\ Len(ts) = Len(rs)
  /\ move \in [Places(rs) -> Places(rs)]
  /\ \A j \in Places(rs) : \E i \in Places(rs) : move[i] = j
  /\ \A i, j \in Places(rs) : move[i] = move[j] => i = j
  /\ \A i \in Places(rs) : Same(ts[i], rs[move[i]])

\* Two successes of a money action have one key.
SucceedsTwice(rs) ==
  \E i, j \in Places(rs) :
    i # j /\ KeySuccess(rs[i]) /\ KeySuccess(rs[j]) /\ rs[i].dedupe = rs[j].dedupe

LEMMA DuplicateIsTwice ==
  ASSUME NEW rs, Len(rs) \in Nat
  PROVE  DuplicateKeys(rs) # {} <=> SucceedsTwice(rs)
<1>1. ASSUME DuplicateKeys(rs) # {} PROVE SucceedsTwice(rs)
  <2>1. PICK i \in Places(rs) :
          KeySuccess(rs[i]) /\ \E j \in 1 .. i - 1 : KeySuccess(rs[j]) /\ rs[j].dedupe = rs[i].dedupe
    BY <1>1 DEF DuplicateKeys
  <2>2. PICK j \in 1 .. i - 1 : KeySuccess(rs[j]) /\ rs[j].dedupe = rs[i].dedupe
    BY <2>1
  <2>3. j \in Places(rs) /\ i # j
    BY DEF Places
  <2> QED BY <2>1, <2>2, <2>3 DEF SucceedsTwice
<1>2. ASSUME SucceedsTwice(rs) PROVE DuplicateKeys(rs) # {}
  <2>1. PICK i, j \in Places(rs) :
          i # j /\ KeySuccess(rs[i]) /\ KeySuccess(rs[j]) /\ rs[i].dedupe = rs[j].dedupe
    BY <1>2 DEF SucceedsTwice
  <2>2. i \in 1 .. j - 1 \/ j \in 1 .. i - 1
    BY <2>1 DEF Places
  <2>3. i \in DuplicateKeys(rs) \/ j \in DuplicateKeys(rs)
    BY <2>1, <2>2 DEF DuplicateKeys
  <2> QED BY <2>3
<1> QED BY <1>1, <1>2

LEMMA SameReceipts ==
  ASSUME NEW rs, NEW ts, \A i \in Places(rs) : \E j \in Places(ts) : Same(rs[i], ts[j])
  PROVE  /\ Ids(rs) \subseteq Ids(ts)
         /\ IdsOf(rs, MoneyAllowed) \subseteq IdsOf(ts, MoneyAllowed)
         /\ ResolvedIds(rs) \subseteq ResolvedIds(ts)
         /\ SuccessIds(rs) \subseteq SuccessIds(ts)
         /\ BudgetWarnings(rs) # {} => BudgetWarnings(ts) # {}
<1>1. ASSUME NEW x \in Ids(rs) PROVE x \in Ids(ts)
  <2>1. PICK i \in Places(rs) : x = rs[i].id
    BY DEF Ids
  <2>2. PICK j \in Places(ts) : Same(rs[i], ts[j])
    OBVIOUS
  <2> QED BY <2>1, <2>2 DEF Ids, Same
<1>2. ASSUME NEW x \in IdsOf(rs, MoneyAllowed) PROVE x \in IdsOf(ts, MoneyAllowed)
  <2>1. PICK i \in Places(rs) : x = rs[i].id /\ MoneyAllowed(rs[i])
    BY DEF IdsOf
  <2>2. PICK j \in Places(ts) : Same(rs[i], ts[j])
    OBVIOUS
  <2>3. x = ts[j].id /\ MoneyAllowed(ts[j])
    BY <2>1, <2>2 DEF Same, MoneyAllowed, IsAction
  <2> QED BY <2>3 DEF IdsOf
<1>3. ASSUME NEW x \in ResolvedIds(rs) PROVE x \in ResolvedIds(ts)
  <2>1. PICK i \in Places(rs) : x = rs[i].pre /\ IsPost(rs[i])
    BY DEF ResolvedIds
  <2>2. PICK j \in Places(ts) : Same(rs[i], ts[j])
    OBVIOUS
  <2>3. x = ts[j].pre /\ IsPost(ts[j])
    BY <2>1, <2>2 DEF Same, IsPost
  <2> QED BY <2>3 DEF ResolvedIds
<1>4. ASSUME NEW x \in SuccessIds(rs) PROVE x \in SuccessIds(ts)
  <2>1. PICK i \in Places(rs) : x = rs[i].pre /\ IsPost(rs[i]) /\ rs[i].outcome = "SUCCESS"
    BY DEF SuccessIds
  <2>2. PICK j \in Places(ts) : Same(rs[i], ts[j])
    OBVIOUS
  <2>3. x = ts[j].pre /\ IsPost(ts[j]) /\ ts[j].outcome = "SUCCESS"
    BY <2>1, <2>2 DEF Same, IsPost
  <2> QED BY <2>3 DEF SuccessIds
<1>5. ASSUME BudgetWarnings(rs) # {} PROVE BudgetWarnings(ts) # {}
  <2>1. PICK i \in Places(rs) : rs[i].type = "budget_warning"
    BY <1>5 DEF BudgetWarnings
  <2>2. PICK j \in Places(ts) : Same(rs[i], ts[j])
    OBVIOUS
  <2> QED BY <2>1, <2>2 DEF BudgetWarnings, Same
<1> QED BY <1>1, <1>2, <1>3, <1>4, <1>5

LEMMA MovedBothWays ==
  ASSUME NEW rs, NEW ts, NEW move, Moved(rs, ts, move)
  PROVE  /\ Places(ts) = Places(rs)
         /\ \A i \in Places(ts) : \E j \in Places(rs) : Same(ts[i], rs[j])
         /\ \A i \in Places(rs) : \E j \in Places(ts) : Same(rs[i], ts[j])
<1>1. Places(ts) = Places(rs)
  BY DEF Moved, Places
<1>2. ASSUME NEW i \in Places(rs) PROVE \E j \in Places(rs) : Same(ts[i], rs[j])
  BY DEF Moved
<1>3. ASSUME NEW i \in Places(rs) PROVE \E j \in Places(rs) : Same(rs[i], ts[j])
  <2>1. PICK j \in Places(rs) : move[j] = i
    BY DEF Moved
  <2>2. Same(ts[j], rs[i])
    BY <2>1 DEF Moved
  <2> QED BY <2>2 DEF Same
<1> QED BY <1>1, <1>2, <1>3

\* Verdicts and amounts do not depend on the order of the receipts, nor on
\* whether they were edited.
LEMMA OutcomesMoved ==
  ASSUME NEW rs, NEW ts, NEW move, Moved(rs, ts, move), Len(rs) \in Nat
  PROVE  /\ Ids(ts) = Ids(rs)
         /\ IdsOf(ts, MoneyAllowed) = IdsOf(rs, MoneyAllowed)
         /\ MissingPost(ts) = MissingPost(rs)
         /\ DuplicateKeys(ts) = {} <=> DuplicateKeys(rs) = {}
         /\ BudgetWarnings(ts) = {} <=> BudgetWarnings(rs) = {}
         /\ SuccessIds(ts) = SuccessIds(rs)
<1> DEFINE P == Places(rs)
<1>1. /\ Places(ts) = P
      /\ \A i \in Places(ts) : \E j \in P : Same(ts[i], rs[j])
      /\ \A i \in P : \E j \in Places(ts) : Same(rs[i], ts[j])
  BY MovedBothWays
<1>2. /\ Ids(ts) \subseteq Ids(rs) /\ IdsOf(ts, MoneyAllowed) \subseteq IdsOf(rs, MoneyAllowed)
      /\ ResolvedIds(ts) \subseteq ResolvedIds(rs) /\ SuccessIds(ts) \subseteq SuccessIds(rs)
      /\ BudgetWarnings(ts) # {} => BudgetWarnings(rs) # {}
  BY <1>1, SameReceipts
<1>3. /\ Ids(rs) \subseteq Ids(ts) /\ IdsOf(rs, MoneyAllowed) \subseteq IdsOf(ts, MoneyAllowed)
      /\ ResolvedIds(rs) \subseteq ResolvedIds(ts) /\ SuccessIds(rs) \subseteq SuccessIds(ts)
      /\ BudgetWarnings(rs) # {} => BudgetWarnings(ts) # {}
  BY <1>1, SameReceipts
<1>4. /\ Ids(ts) = Ids(rs) /\ IdsOf(ts, MoneyAllowed) = IdsOf(rs, MoneyAllowed)
      /\ ResolvedIds(ts) = ResolvedIds(rs) /\ SuccessIds(ts) = SuccessIds(rs)
  BY <1>2, <1>3
<1>7. SucceedsTwice(ts) => SucceedsTwice(rs)
  <2> SUFFICES ASSUME NEW i \in P, NEW j \in P, i # j, KeySuccess(ts[i]), KeySuccess(ts[j]),
                      ts[i].dedupe = ts[j].dedupe
               PROVE  SucceedsTwice(rs)
    BY <1>1 DEF SucceedsTwice
  <2>1. /\ move[i] \in P /\ move[j] \in P /\ move[i] # move[j]
        /\ Same(ts[i], rs[move[i]]) /\ Same(ts[j], rs[move[j]])
    BY DEF Moved
  <2>2. PICK k, l : k = move[i] /\ l = move[j]
    OBVIOUS
  <2>3. KeySuccess(rs[k]) /\ KeySuccess(rs[l]) /\ rs[k].dedupe = rs[l].dedupe
    BY <2>1, <2>2 DEF KeySuccess, IsPost, Same
  <2> QED BY ONLY <2>1, <2>2, <2>3 DEF SucceedsTwice
<1>8. SucceedsTwice(rs) => SucceedsTwice(ts)
  <2> SUFFICES ASSUME NEW i \in P, NEW j \in P, i # j, KeySuccess(rs[i]), KeySuccess(rs[j]),
                      rs[i].dedupe = rs[j].dedupe
               PROVE  SucceedsTwice(ts)
    BY DEF SucceedsTwice
  <2>0. \A q \in P : \E p \in P : move[p] = q
    BY Zenon DEF Moved
  <2>1. PICK k, l \in P : move[k] = i /\ move[l] = j
    BY <2>0
  <2>2. k # l /\ Same(ts[k], rs[i]) /\ Same(ts[l], rs[j])
    BY <2>1 DEF Moved
  <2>3. KeySuccess(ts[k]) /\ KeySuccess(ts[l]) /\ ts[k].dedupe = ts[l].dedupe
    BY <2>2 DEF KeySuccess, IsPost, Same
  <2> QED BY <1>1, <2>2, <2>3 DEF SucceedsTwice
<1>9. DuplicateKeys(ts) = {} <=> DuplicateKeys(rs) = {}
  BY <1>7, <1>8, DuplicateIsTwice DEF Moved
<1> QED BY <1>2, <1>3, <1>4, <1>9 DEF MissingPost

IdsAt(rs, S) == {rs[i].id : i \in S}

LEMMA AmountsMoved ==
  ASSUME NEW rs, NEW ts, NEW move, Moved(rs, ts, move), Len(rs) \in Nat
  PROVE  /\ IdsAt(ts, Processed(ts)) = IdsAt(rs, Processed(rs))
         /\ IdsAt(ts, Protected(ts)) = IdsAt(rs, Protected(rs))
<1> DEFINE P == Places(rs)
<1>1. /\ Places(ts) = P
      /\ \A i \in P : \E j \in P : Same(ts[i], rs[j])
      /\ \A j \in P : \E i \in P : Same(ts[i], rs[j])
  <2>1. ASSUME NEW i \in P, NEW j \in P, Same(rs[i], ts[j]) PROVE Same(ts[j], rs[i])
    BY <2>1 DEF Same
  <2> QED BY <2>1, MovedBothWays
<1>2. SuccessIds(ts) = SuccessIds(rs)
  BY OutcomesMoved
<1>3. ASSUME NEW i \in P, NEW j \in P, Same(ts[i], rs[j])
      PROVE  /\ i \in Processed(ts) <=> j \in Processed(rs)
             /\ i \in Protected(ts) <=> j \in Protected(rs)
             /\ ts[i].id = rs[j].id
  <2>1. i \in MoneyActions(ts) <=> j \in MoneyActions(rs)
    BY <1>1, <1>3 DEF MoneyActions, IsAction, Same
  <2>2. Approved(ts, ts[i]) <=> Approved(rs, rs[j])
    BY <1>2, <1>3 DEF Approved, Same
  <2>3. Executed(ts, ts[i]) <=> Executed(rs, rs[j])
    BY <1>3, <2>2 DEF Executed, Same
  <2>4. UpstreamNotCalled(ts, ts[i]) <=> UpstreamNotCalled(rs, rs[j])
    BY <1>3, <2>2 DEF UpstreamNotCalled, Same
  <2> QED BY <1>3, <2>1, <2>3, <2>4 DEF Processed, Protected, Same
<1>4. Processed(ts) \subseteq P /\ Processed(rs) \subseteq P /\ Protected(ts) \subseteq P /\ Protected(rs) \subseteq P
  BY <1>1 DEF Processed, Protected, MoneyActions
<1>5. ASSUME NEW i \in Processed(ts) PROVE \E j \in Processed(rs) : ts[i].id = rs[j].id
  <2>1. PICK j \in P : Same(ts[i], rs[j])
    BY <1>1, <1>4
  <2> QED BY <1>3, <1>4, <2>1
<1>6. ASSUME NEW i \in Processed(rs) PROVE \E j \in Processed(ts) : rs[i].id = ts[j].id
  <2>1. PICK j \in P : Same(ts[j], rs[i])
    BY <1>1, <1>4
  <2> QED BY <1>3, <1>4, <2>1
<1>7. ASSUME NEW i \in Protected(ts) PROVE \E j \in Protected(rs) : ts[i].id = rs[j].id
  <2>1. PICK j \in P : Same(ts[i], rs[j])
    BY <1>1, <1>4
  <2> QED BY <1>3, <1>4, <2>1
<1>8. ASSUME NEW i \in Protected(rs) PROVE \E j \in Protected(ts) : rs[i].id = ts[j].id
  <2>1. PICK j \in P : Same(ts[j], rs[i])
    BY <1>1, <1>4
  <2> QED BY <1>3, <1>4, <2>1
<1>9. {ts[i].id : i \in Processed(ts)} = {rs[i].id : i \in Processed(rs)}
  BY <1>5, <1>6
<1>10. {ts[i].id : i \in Protected(ts)} = {rs[i].id : i \in Protected(rs)}
  BY <1>7, <1>8
<1> QED BY <1>9, <1>10 DEF IdsAt

-----------------------------------------------------------------------------
\* ------------------------- the inductive invariant -------------------------

LEMMA CallDrafts == Calls \subseteq Draft
<1>1. Decisions \subseteq Draft
  BY CallsAreDrafts, ActionsAreDrafts DEF Decisions
<1>2. ASSUME NEW d \in Draft PROVE [d EXCEPT !.money = TRUE] \in Draft
  BY DEF Draft, Receipt, Decided, IsAction, IsPost
<1>3. Action \in Draft
  BY ONLY ActionsAreDrafts
<1>4. ASSUME NEW x \in Calls PROVE x \in Draft
  <2>1. x = Action \/ \E d \in Decisions : x = [d EXCEPT !.money = TRUE]
    BY ONLY <1>4, Zenon DEF Calls
  <2>2. CASE x = Action
    BY ONLY <1>3, <2>2
  <2>3. CASE \E d \in Decisions : x = [d EXCEPT !.money = TRUE]
    <3>1. PICK d \in Decisions : x = [d EXCEPT !.money = TRUE]
      BY ONLY <2>3
    <3>2. [d EXCEPT !.money = TRUE] \in Draft
      BY ONLY <1>1, <1>2, <3>1
    <3> QED BY ONLY <3>1, <3>2
  <2> QED BY ONLY <2>1, <2>2, <2>3
<1> QED BY ONLY <1>4, Zenon

\* What an issuer records: a draft that is not edited, an outcome only of an
\* action on record.
Recordable(draft) ==
  /\ draft \in Receipt /\ draft.edit = "none" /\ Decided(draft)
  /\ IsPost(draft) => draft.pre \in IdsOf(sent, IsAction)

LEMMA IssueCases ==
  ASSUME EvidenceTypeOK, Issue
  PROVE  \E draft : Recordable(draft) /\ Records(draft)
<1>1. CASE Decide
  <2>1. PICK draft \in Calls : Records(draft)
    BY <1>1 DEF Decide
  <2>2. Recordable(draft)
    BY CallDrafts DEF Draft, Recordable
  <2> QED BY <2>1, <2>2
<1>2. CASE Warn \/ Close
  <2>1. Fields("budget_warning") \in Draft /\ Closed \in Draft
    BY FieldsAreDrafts DEF Closed
  <2>2. Recordable(Fields("budget_warning")) /\ Recordable(Closed)
    BY <2>1 DEF Draft, Recordable
  <2> QED BY <1>2, <2>2 DEF Warn, Close
<1>3. CASE Resolve
  <2>1. PICK i \in MoneyActions(sent), outcome \in {"SUCCESS", "FAILED"}, key \in Keys \cup {None} :
          Records([Fields("post_receipt") EXCEPT !.pre = sent[i].id, !.outcome = outcome, !.dedupe = key])
    BY <1>3 DEF Resolve
  <2>2. i \in Places(sent) /\ IsAction(sent[i])
    BY DEF MoneyActions
  <2>3. PICK id : id = sent[i].id
    OBVIOUS
  <2>4. id \in Nat /\ id \in IdsOf(sent, IsAction)
    <3>1. sent[i] \in Receipt
      BY <2>2, ElementOfSeq DEF EvidenceTypeOK, Places
    <3> QED BY <2>2, <2>3, <3>1 DEF Receipt, IdsOf
  <2> DEFINE draft == [Fields("post_receipt") EXCEPT !.pre = id, !.outcome = outcome, !.dedupe = key]
  <2>5. draft \in Receipt
    BY <2>4 DEF Fields, Receipt, None, NullHash
  <2>6. draft.edit = "none" /\ draft.pre = id /\ Decided(draft)
    BY <2>4 DEF Fields, Decided, IsAction
  <2>7. Recordable(draft)
    BY <2>4, <2>5, <2>6 DEF Recordable
  <2> HIDE DEF draft
  <2> QED BY <2>1, <2>3, <2>7 DEF draft
<1> QED BY <1>1, <1>2, <1>3 DEF Issue

\* The receipt that is recorded.
LEMMA NextReceipt ==
  ASSUME EvidenceTypeOK, WorkflowTampered, NEW draft, Recordable(draft)
  PROVE  LET r == ChainReceipt([draft EXCEPT !.id = Len(sent) + 1], Last(sent))
         IN  /\ r \in Receipt /\ Alike(r, draft)
             /\ r.id = Len(sent) + 1 /\ r.seq = Len(sent)
<1> DEFINE n == Len(sent)
           last == sent[n]
<1>1. n \in Nat \ {0} /\ n \in Places(sent)
  BY EmptySeq DEF EvidenceTypeOK, WorkflowTampered, Places
<1>2. last.id = n /\ last.seq = n - 1
  BY <1>1 DEF WorkflowTampered, Numbered
<1>3. PICK r, d : r = ChainReceipt([draft EXCEPT !.id = n + 1], last) /\ d = draft
  OBVIOUS
<1>4. r = [[d EXCEPT !.id = n + 1] EXCEPT !.prev = n, !.seq = (n - 1) + 1]
  BY <1>2, <1>3 DEF ChainReceipt, Digest
<1>5. (n - 1) + 1 = n /\ n + 1 \in Nat /\ n \in Nat /\ d \in Receipt
  BY <1>1, <1>3 DEF Recordable
<1> HIDE DEF n
<1>6. r = [[d EXCEPT !.id = n + 1] EXCEPT !.prev = n, !.seq = n]
  BY <1>4, <1>5
<1>7. r \in Receipt
  BY <1>5, <1>6 DEF Receipt
<1>8. Alike(r, d) /\ r.id = n + 1 /\ r.seq = n
  BY <1>5, <1>6 DEF Receipt, Alike
<1> QED BY <1>3, <1>7, <1>8 DEF n, Last

LEMMA ResolvedStays ==
  ASSUME NEW rs \in Seq(Receipt), NEW r \in Receipt,
         ResolvedIds(rs) \subseteq IdsOf(rs, IsAction),
         IsPost(r) => r.pre \in IdsOf(rs, IsAction)
  PROVE  ResolvedIds(Append(rs, r)) \subseteq IdsOf(Append(rs, r), IsAction)
<1> DEFINE n == Len(rs)
           ts == Append(rs, r)
<1>1. /\ n \in Nat /\ Len(ts) = n + 1 /\ ts[n + 1] = r
      /\ \A i \in 1 .. n : ts[i] = rs[i]
  BY AppendProperties, LenProperties
<1>2. 1 .. n + 1 = 1 .. n \cup {n + 1}
  BY <1>1
<1> HIDE DEF ts, n
<1>3. ASSUME NEW x \in IdsOf(rs, IsAction) PROVE x \in IdsOf(ts, IsAction)
  <2>1. PICK i \in 1 .. n : IsAction(rs[i]) /\ x = rs[i].id
    BY DEF IdsOf, Places, n
  <2>2. i \in 1 .. n + 1 /\ IsAction(ts[i]) /\ x = ts[i].id
    BY <1>1, <1>2, <2>1
  <2> QED BY <1>1, <2>2 DEF IdsOf, Places
<1>4. ASSUME NEW x \in ResolvedIds(ts) PROVE x \in IdsOf(rs, IsAction)
  <2>1. PICK i \in 1 .. n + 1 : IsPost(ts[i]) /\ x = ts[i].pre
    BY <1>1 DEF ResolvedIds, Places
  <2>2. CASE i = n + 1
    BY <1>1, <2>1, <2>2
  <2>3. CASE i \in 1 .. n
    <3>1. IsPost(rs[i]) /\ x = rs[i].pre
      BY <1>1, <2>1, <2>3
    <3>2. x \in ResolvedIds(rs)
      BY <2>3, <3>1 DEF ResolvedIds, Places, n
    <3> QED BY <3>2
  <2> QED BY <1>2, <2>2, <2>3
<1> QED BY <1>3, <1>4 DEF ts

LEMMA RecordsKeeps ==
  ASSUME EvidenceInv, NEW draft, Recordable(draft), Records(draft)
  PROVE  EvidenceInv'
<1> DEFINE n == Len(sent)
           r == ChainReceipt([draft EXCEPT !.id = n + 1], Last(sent))
<1>1. vector = NoVector /\ WorkflowTampered /\ EvidenceTypeOK
  BY DEF Records, EvidenceInv
<1>2. /\ sent' = Append(sent, r) /\ evidence' = Append(evidence, r)
      /\ sidecar' = sidecar /\ damage' = damage /\ vector' = vector
      /\ damage = 0 /\ ~ Ended
  BY DEF Records
<1>3. r \in Receipt /\ Alike(r, draft) /\ r.id = n + 1 /\ r.seq = n
  BY <1>1, NextReceipt
<1> HIDE DEF r
<1>4. evidence = sent /\ sent # << >> /\ sent \in Seq(Receipt) /\ n \in Nat
  BY <1>1, <1>2 DEF WorkflowTampered, EvidenceTypeOK
<1>5. /\ sent' \in Seq(Receipt) /\ Len(sent') = n + 1 /\ sent'[n + 1] = r
      /\ \A i \in 1 .. n : sent'[i] = sent[i]
      /\ sent' # << >> /\ evidence' = sent'
  BY <1>2, <1>3, <1>4, AppendProperties
<1>6. r.edit = "none" /\ Decided(r) /\ (IsPost(r) => r.pre \in IdsOf(sent, IsAction))
  BY <1>3 DEF Recordable, Alike, Decided, IsAction, IsPost
<1>7. EvidenceTypeOK'
  <2>1. ResolvedIds(sent') \subseteq IdsOf(sent', IsAction)
    BY <1>1, <1>2, <1>3, <1>4, <1>6, ResolvedStays DEF EvidenceTypeOK
  <2> QED BY <1>1, <1>2, <1>5, <2>1 DEF EvidenceTypeOK
<1>8. \A i \in 1 .. n + 1 : i \in 1 .. n \/ i = n + 1
  BY <1>4
<1>9. \A i \in Places(sent') : Decided(sent'[i])
  BY <1>4, <1>5, <1>6, <1>8 DEF EvidenceInv, Places
<1>10. Numbered(sent')
  <2>1. ASSUME NEW i \in 1 .. n
        PROVE  sent[i].id = i /\ sent[i].seq = i - 1 /\ sent[i].edit = "none" /\ sent[i].type # "workflow_closed"
    <3>1. /\ sent[i].id = i /\ sent[i].seq = i - 1 /\ sent[i].edit = "none"
          /\ sent[i].type = "workflow_closed" => i = n
      BY <1>1 DEF WorkflowTampered, Numbered, Places
    <3>2. sent[n].type # "workflow_closed"
      BY <1>2, <1>4 DEF Ended, Last
    <3> QED BY <3>1, <3>2
  <2>2. ASSUME NEW i \in 1 .. n + 1
        PROVE  /\ sent'[i].id = i /\ sent'[i].seq = i - 1 /\ sent'[i].edit = "none"
               /\ sent'[i].type = "workflow_closed" => i = n + 1
    <3>1. CASE i \in 1 .. n
      BY <1>5, <2>1, <3>1
    <3>2. CASE i = n + 1
      BY <1>3, <1>4, <1>5, <1>6, <3>2
    <3> QED BY <1>8, <3>1, <3>2
  <2> QED BY <1>5, <2>2 DEF Numbered, Places
<1>11. \A i \in Places(sent') : AsSigned(sent'[i]) = sent'[i]
  <2> SUFFICES ASSUME NEW i \in Places(sent') PROVE AsSigned(sent'[i]) = sent'[i]
    OBVIOUS
  <2>1. sent'[i] \in Receipt /\ sent'[i].edit = "none"
    BY <1>5, <1>10, ElementOfSeq DEF Numbered, Places
  <2> QED BY <2>1 DEF AsSigned, Receipt
<1>12. \A k \in 1 .. Len(sidecar') : sidecar'[k].imprint \in Places(sent')
  BY <1>1, <1>2, <1>4, <1>5 DEF WorkflowTampered, Places
<1>13. WorkflowTampered'
  <2>1. \A i \in Places(evidence') : \E j \in Places(sent') : AsSigned(evidence'[i]) = sent'[j]
    BY <1>5, <1>11
  <2> QED BY <1>5, <1>10, <1>12, <2>1 DEF WorkflowTampered
<1> QED BY <1>1, <1>2, <1>5, <1>7, <1>9, <1>13 DEF EvidenceInv

LEMMA StampKeeps ==
  ASSUME EvidenceInv, NEW i \in Places(sent), NEW j \in Places(sent), Stamp(i, j)
  PROVE  EvidenceInv'
<1>1. vector = NoVector /\ WorkflowTampered /\ EvidenceTypeOK
  BY DEF Stamp, EvidenceInv
<1>2. PICK a \in Answers :
        sidecar' = Append(sidecar,
          [id |-> sent[j].id, tsa |-> a.tsa, token |-> a.token, imprint |-> Digest(sent[i])])
  BY DEF Stamp
<1>3. sent' = sent /\ evidence' = evidence /\ damage' = damage /\ vector' = vector
  BY DEF Stamp
<1>4. sent[i] \in Receipt /\ sent[j] \in Receipt
  BY <1>1, ElementOfSeq DEF EvidenceTypeOK, Places
<1>5. sent[i].id = i /\ sent[i].id \in Nat /\ sent[j].id \in Nat
  BY <1>1, <1>4 DEF WorkflowTampered, Numbered, Receipt
<1>6. PICK rec : rec = [id |-> sent[j].id, tsa |-> a.tsa, token |-> a.token, imprint |-> Digest(sent[i])]
  OBVIOUS
<1>7. a.tsa \in Services /\ a.token \in Tokens
  BY AnswersAreTokens
<1>8. rec \in SidecarRecord /\ rec.imprint = i
  BY <1>5, <1>6, <1>7 DEF SidecarRecord, Digest
<1>9. sidecar \in Seq(SidecarRecord) /\ sidecar' = Append(sidecar, rec)
  BY <1>1, <1>2, <1>6 DEF EvidenceTypeOK, SidecarRecord
<1>10. /\ sidecar' \in Seq(SidecarRecord) /\ Len(sidecar') = Len(sidecar) + 1
       /\ Len(sidecar) \in Nat /\ sidecar'[Len(sidecar) + 1] = rec
       /\ \A k \in 1 .. Len(sidecar) : sidecar'[k] = sidecar[k]
  BY <1>8, <1>9, AppendProperties, LenProperties
<1>11. \A k \in 1 .. Len(sidecar') : sidecar'[k].imprint \in Places(sent)
  <2> SUFFICES ASSUME NEW k \in 1 .. Len(sidecar') PROVE sidecar'[k].imprint \in Places(sent)
    OBVIOUS
  <2>1. CASE k = Len(sidecar) + 1
    BY <1>8, <1>10, <2>1
  <2>2. CASE k \in 1 .. Len(sidecar)
    BY <1>1, <1>10, <2>2 DEF WorkflowTampered
  <2> QED BY <1>10, <2>1, <2>2
<1>12. EvidenceTypeOK'
  BY <1>1, <1>3, <1>10 DEF EvidenceTypeOK, SidecarRecord
<1>13. WorkflowTampered'
  BY <1>1, <1>3, <1>11 DEF WorkflowTampered
<1> QED BY <1>1, <1>3, <1>12, <1>13 DEF EvidenceInv

\* A change of order upon a change of order is one.
LEMMA ReorderedTwice ==
  ASSUME NEW rs, NEW ts, NEW us, Reordered(rs, ts), Reordered(ts, us)
  PROVE  Reordered(rs, us)
<1> DEFINE P == Places(rs)
<1>1. PICK f \in Bijection(P, P) : \A i \in P : ts[i] = rs[f[i]]
  BY DEF Reordered
<1>2. Len(ts) = Len(rs) /\ Len(us) = Len(rs) /\ Places(ts) = P
  BY DEF Reordered, Places
<1>3. PICK g \in Bijection(P, P) : \A i \in P : us[i] = ts[g[i]]
  BY <1>2 DEF Reordered
<1> DEFINE h == [i \in P |-> f[g[i]]]
<1>4. /\ f \in [P -> P] /\ g \in [P -> P]
      /\ \A i, j \in P : f[i] = f[j] => i = j
      /\ \A i, j \in P : g[i] = g[j] => i = j
      /\ \A j \in P : \E i \in P : f[i] = j
      /\ \A j \in P : \E i \in P : g[i] = j
  BY DEF Bijection, Injection, Surjection, IsInjective
<1>5. h \in [P -> P]
  BY <1>4
<1>6. \A i, j \in P : h[i] = h[j] => i = j
  BY <1>4
<1>7. \A j \in P : \E i \in P : h[i] = j
  BY <1>4
<1>8. h \in Bijection(P, P)
  BY <1>5, <1>6, <1>7 DEF Bijection, Injection, Surjection, IsInjective
<1>9. \A i \in P : us[i] = rs[h[i]]
  BY <1>1, <1>3, <1>4
<1> QED BY <1>2, <1>8, <1>9 DEF Reordered

LEMMA SwapReorders ==
  ASSUME NEW rs \in Seq(Receipt), NEW i \in Places(rs), NEW j \in Places(rs), i # j
  PROVE  LET ts == [rs EXCEPT ![i] = rs[j], ![j] = rs[i]]
         IN  ts \in Seq(Receipt) /\ Reordered(rs, ts)
<1> DEFINE P == Places(rs)
           ts == [rs EXCEPT ![i] = rs[j], ![j] = rs[i]]
           f == [k \in P |-> IF k = i THEN j ELSE IF k = j THEN i ELSE k]
<1>1. /\ Len(rs) \in Nat /\ P = 1 .. Len(rs) /\ DOMAIN rs = P
      /\ rs \in [P -> Receipt]
  BY LenProperties DEF Places
<1>2. ts \in [P -> Receipt]
  BY <1>1
<1>3. ts \in Seq(Receipt) /\ Len(ts) = Len(rs)
  BY <1>1, <1>2
<1>4. \A k \in P : ts[k] = rs[f[k]]
  BY <1>1
<1>5. f \in [P -> P]
  OBVIOUS
<1>6. \A k, l \in P : f[k] = f[l] => k = l
  OBVIOUS
<1>7. \A l \in P : \E k \in P : f[k] = l
  <2> SUFFICES ASSUME NEW l \in P PROVE \E k \in P : f[k] = l
    OBVIOUS
  <2>1. CASE l = i
    <3>1. f[j] = l
      BY <2>1
    <3> QED BY <3>1
  <2>2. CASE l = j
    <3>1. f[i] = l
      BY <2>2
    <3> QED BY <3>1
  <2>3. CASE l # i /\ l # j
    <3>1. f[l] = l
      BY <2>3
    <3> QED BY <3>1
  <2> QED BY <2>1, <2>2, <2>3
<1>8. f \in Bijection(P, P)
  <2> HIDE DEF f
  <2> QED BY <1>5, <1>6, <1>7 DEF Bijection, Injection, Surjection, IsInjective
<1> QED BY <1>3, <1>4, <1>8 DEF Reordered

\* What happens to the evidence keeps the invariant if every receipt that is
\* left was there, but for an edit, and a vector only changes its order.
LEMMA HappensKeeps ==
  ASSUME EvidenceInv, NEW rs \in Seq(Receipt), Happens(rs),
         \A i \in Places(rs) : \E k \in Places(evidence) : AsSigned(rs[i]) = AsSigned(evidence[k]),
         vector # NoVector => Reordered(evidence, rs)
  PROVE  EvidenceInv'
<1>1. /\ evidence' = rs /\ damage' = damage + 1
      /\ sent' = sent /\ sidecar' = sidecar /\ vector' = vector
  BY DEF Happens
<1>2. EvidenceTypeOK /\ EvidenceTypeOK'
  BY <1>1 DEF EvidenceInv, EvidenceTypeOK
<1>3. ASSUME NEW i \in Places(rs) PROVE Decided(rs[i])
  <2>1. PICK k \in Places(evidence) : AsSigned(rs[i]) = AsSigned(evidence[k])
    OBVIOUS
  <2>2. rs[i] \in Receipt /\ evidence[k] \in Receipt /\ Decided(evidence[k])
    BY <1>2, ElementOfSeq DEF EvidenceTypeOK, EvidenceInv, Places
  <2>3. Same(rs[i], evidence[k])
    BY <2>1, <2>2, EditsApart
  <2> QED BY <2>2, <2>3 DEF Same, Decided, IsAction
<1>4. ASSUME vector = NoVector PROVE WorkflowTampered'
  <2>1. WorkflowTampered
    BY <1>4 DEF EvidenceInv
  <2>2. ASSUME NEW i \in Places(rs) PROVE \E j \in Places(sent) : AsSigned(rs[i]) = sent[j]
    <3>1. PICK k \in Places(evidence) : AsSigned(rs[i]) = AsSigned(evidence[k])
      OBVIOUS
    <3> QED BY <2>1, <3>1 DEF WorkflowTampered
  <2>3. damage' # 0
    BY <1>1, <1>2 DEF EvidenceTypeOK
  <2> QED BY <1>1, <2>1, <2>2, <2>3 DEF WorkflowTampered
<1>5. ASSUME vector # NoVector
      PROVE  sent = vector.receipts /\ sidecar = vector.tsa /\ Reordered(sent, rs)
  <2>1. sent = vector.receipts /\ sidecar = vector.tsa /\ Reordered(sent, evidence)
    BY <1>5 DEF EvidenceInv
  <2> QED BY <1>5, <2>1, ReorderedTwice
<1> QED BY <1>1, <1>2, <1>3, <1>4, <1>5 DEF EvidenceInv

LEMMA DamageKeeps ==
  ASSUME EvidenceInv, Damage
  PROVE  EvidenceInv'
<1>1. evidence \in Seq(Receipt) /\ Len(evidence) \in Nat
  BY LenProperties DEF EvidenceInv, EvidenceTypeOK
<1>2. PICK i \in Places(evidence) :
        \/ \E j \in Places(evidence) : Reorder(i, j)
        \/ Lose(i)
        \/ \E edit \in {"signed", "unsigned"} : Edit(i, edit)
  BY DEF Damage
<1>3. ASSUME NEW j \in Places(evidence), Reorder(i, j) PROVE EvidenceInv'
  <2> DEFINE rs == [evidence EXCEPT ![i] = evidence[j], ![j] = evidence[i]]
  <2>1. i # j /\ Happens(rs)
    BY <1>1, <1>3 DEF Reorder, Places
  <2>2. rs \in Seq(Receipt) /\ Reordered(evidence, rs)
    BY <1>1, <2>1, SwapReorders
  <2> HIDE DEF rs
  <2>3. ASSUME NEW k \in Places(rs)
        PROVE  \E l \in Places(evidence) : AsSigned(rs[k]) = AsSigned(evidence[l])
    <3>1. PICK f \in Bijection(Places(evidence), Places(evidence)) :
            \A l \in Places(evidence) : rs[l] = evidence[f[l]]
      BY <2>2 DEF Reordered
    <3>2. k \in Places(evidence) /\ f[k] \in Places(evidence)
      BY <2>2 DEF Reordered, Places, Bijection, Injection
    <3> QED BY <3>1, <3>2
  <2> QED BY <2>1, <2>2, <2>3, HappensKeeps
<1>4. ASSUME Lose(i) PROVE EvidenceInv'
  <2> DEFINE n == Len(evidence)
             rs == RemoveAt(evidence, i)
             head == SubSeq(evidence, 1, i - 1)
             tail == SubSeq(evidence, i + 1, n)
  <2>1. vector = NoVector /\ Happens(rs) /\ rs = head \o tail
    BY <1>4 DEF Lose, RemoveAt
  <2>2. i \in 1 .. n /\ n \in Nat
    BY <1>1 DEF Places
  <2>3. head \in Seq(Receipt) /\ Len(head) = i - 1 /\ \A k \in 1 .. i - 1 : head[k] = evidence[k]
    BY <1>1, <2>2, SubSeqProperties
  <2>4. tail \in Seq(Receipt) /\ Len(tail) = n - i /\ \A k \in 1 .. n - i : tail[k] = evidence[k + i]
    BY <1>1, <2>2, SubSeqProperties
  <2> HIDE DEF head, tail, rs
  <2>5. /\ rs \in Seq(Receipt) /\ Len(rs) = n - 1
        /\ \A k \in 1 .. n - 1 : rs[k] = IF k <= i - 1 THEN head[k] ELSE tail[k - (i - 1)]
    <3>1. /\ rs \in Seq(Receipt) /\ Len(rs) = Len(head) + Len(tail)
          /\ \A k \in 1 .. Len(head) + Len(tail) :
               rs[k] = IF k <= Len(head) THEN head[k] ELSE tail[k - Len(head)]
      BY <2>1, <2>3, <2>4, ConcatProperties
    <3>2. Len(head) + Len(tail) = n - 1
      BY <2>2, <2>3, <2>4
    <3> QED BY <2>3, <3>1, <3>2
  <2>6. ASSUME NEW k \in Places(rs)
        PROVE  \E l \in Places(evidence) : AsSigned(rs[k]) = AsSigned(evidence[l])
    <3>1. k \in 1 .. n - 1
      BY <2>5 DEF Places
    <3>2. CASE k <= i - 1
      <4>1. rs[k] = evidence[k] /\ k \in Places(evidence)
        BY <2>2, <2>3, <2>5, <3>1, <3>2 DEF Places
      <4> QED BY <4>1
    <3>3. CASE ~ (k <= i - 1)
      <4>1. k - (i - 1) \in 1 .. n - i /\ k - (i - 1) + i = k + 1 /\ k + 1 \in Places(evidence)
        BY <2>2, <3>1, <3>3 DEF Places
      <4>2. rs[k] = evidence[k + 1]
        BY <2>4, <2>5, <3>1, <3>3, <4>1
      <4> QED BY <4>1, <4>2
    <3> QED BY <3>2, <3>3
  <2> QED BY <2>1, <2>5, <2>6, HappensKeeps
<1>5. ASSUME NEW edit \in {"signed", "unsigned"}, Edit(i, edit) PROVE EvidenceInv'
  <2> DEFINE rs == [evidence EXCEPT ![i].edit = edit]
  <2>1. vector = NoVector /\ Happens(rs)
    BY <1>5 DEF Edit
  <2>2. PICK r \in Receipt : r = evidence[i]
    BY <1>1, ElementOfSeq DEF Places
  <2>3. [r EXCEPT !.edit = edit] \in Receipt /\ AsSigned([r EXCEPT !.edit = edit]) = AsSigned(r)
    BY DEF Receipt, AsSigned
  <2>4. /\ rs \in Seq(Receipt) /\ Len(rs) = Len(evidence)
        /\ \A k \in Places(evidence) : rs[k] = IF k = i THEN [r EXCEPT !.edit = edit] ELSE evidence[k]
    BY <1>1, <2>2, <2>3, ExceptSeq DEF Places
  <2> HIDE DEF rs
  <2>5. ASSUME NEW k \in Places(rs)
        PROVE  \E l \in Places(evidence) : AsSigned(rs[k]) = AsSigned(evidence[l])
    BY <2>2, <2>3, <2>4 DEF Places
  <2> QED BY <2>1, <2>4, <2>5, HappensKeeps
<1> QED BY <1>2, <1>3, <1>4, <1>5

LEMMA EvidenceNextKeeps ==
  ASSUME EvidenceInv, [EvidenceNext]_evidenceVars
  PROVE  EvidenceInv'
<1>1. CASE Issue
  <2>1. EvidenceTypeOK
    BY DEF EvidenceInv
  <2> QED BY <1>1, <2>1, IssueCases, RecordsKeeps
<1>2. CASE Timestamp
  BY <1>2, StampKeeps DEF Timestamp
<1>3. CASE Damage
  BY <1>3, DamageKeeps
<1>4. CASE UNCHANGED evidenceVars
  BY <1>4 DEF evidenceVars, EvidenceInv, EvidenceTypeOK, WorkflowTampered
<1> QED BY <1>1, <1>2, <1>3, <1>4 DEF EvidenceNext

LEMMA EvidenceStarts ==
  ASSUME EvidenceInit
  PROVE  EvidenceInv
<1>1. evidence = sent /\ damage = 0
  BY DEF EvidenceInit
<1>2. CASE vector = NoVector /\ sent = ChainOf(<< Manifest >>) /\ sidecar = << >>
  <2>1. PICK m \in Draft : m = Manifest /\ m.type = "workflow_manifest"
    BY FieldsAreDrafts DEF Manifest
  <2>2. PICK drafts : drafts = << m >>
    OBVIOUS
  <2>3. drafts \in Seq(Draft) /\ drafts \in Seq(Receipt) /\ Len(drafts) = 1 /\ drafts[1] = m
    BY <2>2 DEF Draft
  <2>4. sent = ChainOf(drafts)
    BY <1>2, <2>1, <2>2
  <2>5. Sound(sent)
    BY <2>3, <2>4, ChainIsSound
  <2>6. sent = LinkedFrom(drafts)
    BY <2>3, <2>4, ChainIsLinked
  <2>7. /\ sent \in Seq(Receipt) /\ Len(sent) = 1 /\ sent[1] \in Receipt /\ Alike(sent[1], m)
        /\ sent[1].id = 1 /\ sent[1].seq = m.seq + 1 - 1
    BY <2>3, <2>6, LinkedReceipts
  <2>8. sent[1].seq = 0 /\ sent[1].edit = "none" /\ sent[1].type # "workflow_closed"
    BY <2>1, <2>7 DEF Draft, Alike
  <2>9. Numbered(sent) /\ sent # << >>
    <3>1. \A i \in Places(sent) : i = 1
      BY <2>7 DEF Places
    <3>2. Numbered(sent)
      BY <2>7, <2>8, <3>1 DEF Numbered
    <3>3. sent # << >>
      <4>1. sent \in Seq(Receipt) /\ Len(sent) = 1
        BY <2>7
      <4> QED BY ONLY <4>1, EmptySeq
    <3> QED BY <3>2, <3>3
  <2>10. AsSigned(sent[1]) = sent[1]
    BY <2>7, <2>8 DEF AsSigned, Receipt
  <2>11. WorkflowTampered
    BY <1>1, <1>2, <2>7, <2>9, <2>10 DEF WorkflowTampered, Places
  <2>12. EvidenceTypeOK
    BY <1>1, <1>2, <2>5 DEF EvidenceTypeOK, Sound
  <2> QED BY <1>1, <1>2, <2>5, <2>11, <2>12 DEF EvidenceInv, Sound
<1>3. CASE vector \in Vectors /\ sent = vector.receipts /\ sidecar = vector.tsa
  <2>1. Sound(sent) /\ sidecar \in Seq(SidecarRecord)
    BY <1>3, VectorsAreSound DEF VectorSound
  <2>2. vector # NoVector
    BY <1>3, EvidenceBounds
  <2>3. Reordered(sent, evidence)
    <3> DEFINE same == [i \in Places(sent) |-> i]
    <3>1. same \in Bijection(Places(sent), Places(sent))
      BY DEF Bijection, Injection, Surjection, IsInjective
    <3>2. \A i \in Places(sent) : evidence[i] = sent[same[i]]
      BY <1>1
    <3> QED BY <1>1, <3>1, <3>2 DEF Reordered
  <2>4. EvidenceTypeOK
    BY <1>1, <1>3, <2>1 DEF EvidenceTypeOK, Sound, SidecarRecord
  <2> QED BY <1>1, <1>3, <2>1, <2>2, <2>3, <2>4 DEF EvidenceInv, Sound
<1> QED BY <1>2, <1>3 DEF EvidenceInit

LEMMA EvidenceInvariant == EvidenceSpec => []EvidenceInv
BY EvidenceStarts, EvidenceNextKeeps, PTL DEF EvidenceSpec

\* Every variable of the workflow and of its evidence holds a value of its
\* kind, and outcomes are those of actions on record.
THEOREM EvidenceTypeCorrect == EvidenceSpec => []EvidenceTypeOK
<1>1. EvidenceInv => EvidenceTypeOK
  BY DEF EvidenceInv
<1> QED BY <1>1, EvidenceInvariant, PTL

\* `nonsudo report` adds the amount of a money action to "processed" or to
\* "prevented" and to one of them only, but for the two kinds of action that
\* CountedOnce names, whatever happened to the receipts.
THEOREM MoneyCountedOnce == EvidenceSpec => []CountedOnce
<1>1. ASSUME EvidenceInv, NEW i \in MoneyActions(evidence)
      PROVE  LET r == evidence[i]
             IN  /\ i \notin Processed(evidence) \cup Protected(evidence) <=> r.decision = "FAIL_OPEN"
                 /\ i \in Processed(evidence) \cap Protected(evidence)
                      <=> Approved(evidence, r) /\ r.called = "no"
  <2>1. i \in Places(evidence) /\ IsAction(evidence[i])
    BY DEF MoneyActions
  <2>2. evidence[i] \in Receipt
    BY <1>1, <2>1, ElementOfSeq DEF EvidenceInv, EvidenceTypeOK, Places
  <2>3. PICK r : r = evidence[i]
    OBVIOUS
  <2>4. /\ r.decision \in {"ALLOW", "BLOCK", "STEP_UP", "FAIL_OPEN", "FAIL_CLOSED"}
        /\ r.decision \in {"ALLOW", "FAIL_OPEN"} => r.called # "no"
        /\ r.dead => r.decision = "FAIL_CLOSED"
        /\ r.called \in {"yes", "no", "untracked"} /\ r.dead \in BOOLEAN
    BY <1>1, <2>1, <2>2, <2>3 DEF EvidenceInv, Decided, Receipt, None
  <2>5. Approved(evidence, r) => r.decision = "STEP_UP"
    BY DEF Approved
  <2>6. i \in Processed(evidence) <=> Executed(evidence, r)
    BY <2>3 DEF Processed
  <2>7. i \in Protected(evidence) <=> UpstreamNotCalled(evidence, r)
    BY <2>3 DEF Protected
  <2> QED BY <2>3, <2>4, <2>5, <2>6, <2>7 DEF Executed, UpstreamNotCalled
<1>2. EvidenceInv => CountedOnce
  BY <1>1 DEF CountedOnce
<1> QED BY <1>2, EvidenceInvariant, PTL

-----------------------------------------------------------------------------
\* ------------------------------ timestamps ------------------------------

LEMMA GreatestPlace ==
  ASSUME NEW n \in Nat, NEW T \in SUBSET (1 .. n), T # {}
  PROVE  Max(T) \in T
<1> DEFINE Mirror == {n - t : t \in T}
<1>1. Mirror \in SUBSET Nat /\ Mirror # {}
  <2>1. \A t \in T : n - t \in Nat
    OBVIOUS
  <2>2. PICK t \in T : TRUE
    OBVIOUS
  <2>3. n - t \in Mirror
    OBVIOUS
  <2> QED BY <2>1, <2>3
<1>2. PICK m \in Mirror : \A k \in Mirror : m <= k
  BY <1>1, LeastNumber
<1>3. PICK t \in T : m = n - t
  OBVIOUS
<1>4. \A u \in T : t >= u
  <2> SUFFICES ASSUME NEW u \in T PROVE t >= u
    OBVIOUS
  <2>1. n - u \in Mirror /\ t \in Int /\ u \in Int
    OBVIOUS
  <2> QED BY <1>2, <1>3, <2>1
<1> QED BY <1>4 DEF Max

\* The record that counts for a receipt is one of the sidecar, about it.
LEMMA RecordIsThere ==
  ASSUME NEW tsa \in Seq(SidecarRecord), NEW r, Stamped(tsa, r)
  PROVE  \E k \in 1 .. Len(tsa) : RecordOf(tsa, r) = tsa[k] /\ tsa[k].id = r.id
<1>1. Len(tsa) \in Nat
  BY LenProperties
<1>2. RecordsOf(tsa, r.id) \in SUBSET (1 .. Len(tsa)) /\ RecordsOf(tsa, r.id) # {}
  BY DEF Stamped, RecordsOf
<1>3. Max(RecordsOf(tsa, r.id)) \in RecordsOf(tsa, r.id)
  BY <1>1, <1>2, GreatestPlace
<1> QED BY <1>3 DEF RecordsOf, RecordOf

\* Timestamps are judged receipt by receipt.
LEMMA StampsMoved ==
  ASSUME NEW rs, NEW ts, NEW tsa, Reordered(rs, ts)
  PROVE  L3Status(ts, tsa) = L3Status(rs, tsa) /\ PyL3Status(ts, tsa) = PyL3Status(rs, tsa)
<1> DEFINE P == Places(rs)
           Checked(s) == {i \in Places(s) : Stamped(tsa, s[i])}
<1>1. Places(ts) = P
  BY DEF Reordered, Places
<1>2. PICK f \in Bijection(P, P) : \A i \in P : ts[i] = rs[f[i]]
  BY DEF Reordered
<1>3. f \in [P -> P] /\ \A j \in P : \E i \in P : f[i] = j
  BY DEF Bijection, Injection, Surjection
<1>4. /\ \A i \in Timestamped(ts, tsa) : \E j \in Timestamped(rs, tsa) : ts[i] = rs[j]
      /\ \A j \in Timestamped(rs, tsa) : \E i \in Timestamped(ts, tsa) : ts[i] = rs[j]
  BY <1>1, <1>2, <1>3 DEF Timestamped
<1>5. /\ \A i \in Checked(ts) : \E j \in Checked(rs) : ts[i] = rs[j]
      /\ \A j \in Checked(rs) : \E i \in Checked(ts) : ts[i] = rs[j]
  BY <1>1, <1>2, <1>3
<1>6. /\ Timestamped(ts, tsa) = {} <=> Timestamped(rs, tsa) = {}
      /\ (\A i \in Timestamped(ts, tsa) : TokenValid(ts[i], RecordOf(tsa, ts[i])))
           <=> (\A i \in Timestamped(rs, tsa) : TokenValid(rs[i], RecordOf(tsa, rs[i])))
  <2> HIDE DEF P
  <2> QED BY ONLY <1>4
<1> HIDE DEF Checked
<1>7. /\ Checked(ts) = {} <=> Checked(rs) = {}
      /\ (\A i \in Checked(ts) : PyTokenValid(ts[i], RecordOf(tsa, ts[i])))
           <=> (\A i \in Checked(rs) : PyTokenValid(rs[i], RecordOf(tsa, rs[i])))
  BY ONLY <1>5
<1>8. L3Status(ts, tsa) = L3Status(rs, tsa)
  BY <1>6 DEF L3Status
<1>9. PyL3Status(ts, tsa) = PyL3Status(rs, tsa)
  BY <1>7 DEF PyL3Status, Checked
<1> QED BY <1>8, <1>9

LEMMA ReorderedIsMoved ==
  ASSUME NEW rs \in Seq(Receipt), NEW ts, Reordered(rs, ts)
  PROVE  \E move : Moved(rs, ts, move)
<1> DEFINE P == Places(rs)
<1>1. PICK f \in Bijection(P, P) : \A i \in P : ts[i] = rs[f[i]]
  BY DEF Reordered
<1>2. /\ f \in [P -> P] /\ \A i, j \in P : f[i] = f[j] => i = j
      /\ \A j \in P : \E i \in P : f[i] = j
  BY DEF Bijection, Injection, Surjection, IsInjective
<1>3. \A i \in P : Same(ts[i], rs[f[i]])
  BY <1>1 DEF Same
<1>4. Moved(rs, ts, f)
  BY <1>2, <1>3 DEF Moved, Reordered
<1> QED BY <1>4

\* Whatever two lines change places, verifyL3, verifyL4 and _l4 say the same of
\* the file as before, and `nonsudo report` adds up the same amounts.
THEOREM OrderIsImmaterial == EvidenceSpec => OrderChangesNoVerdict
<1>1. ASSUME EvidenceInv, NEW i \in Places(evidence), NEW j \in Places(evidence), Reorder(i, j)
      PROVE  /\ L3Status(evidence', sidecar') = L3Status(evidence, sidecar)
             /\ L4Status(evidence') = L4Status(evidence)
             /\ PyL4Status(evidence') = PyL4Status(evidence)
             /\ {evidence'[k].id : k \in Processed(evidence')} = {evidence[k].id : k \in Processed(evidence)}
             /\ {evidence'[k].id : k \in Protected(evidence')} = {evidence[k].id : k \in Protected(evidence)}
  <2>1. evidence \in Seq(Receipt) /\ Len(evidence) \in Nat /\ i # j
    BY <1>1, LenProperties DEF EvidenceInv, EvidenceTypeOK, Reorder, Places
  <2>2. Reordered(evidence, evidence') /\ sidecar' = sidecar
    <3>1. evidence' = [evidence EXCEPT ![i] = evidence[j], ![j] = evidence[i]] /\ sidecar' = sidecar
      BY <1>1 DEF Reorder, Happens
    <3> QED BY <2>1, <3>1, SwapReorders
  <2>3. PICK rs, ts : rs = evidence /\ ts = evidence'
    OBVIOUS
  <2>4. PICK move : Moved(rs, ts, move)
    BY <2>1, <2>2, <2>3, ReorderedIsMoved
  <2>5. L3Status(ts, sidecar') = L3Status(rs, sidecar)
    BY <2>2, <2>3, StampsMoved
  <2>6. L4Status(ts) = L4Status(rs) /\ PyL4Status(ts) = PyL4Status(rs)
    <3>1. /\ IdsOf(ts, MoneyAllowed) = IdsOf(rs, MoneyAllowed) /\ MissingPost(ts) = MissingPost(rs)
          /\ DuplicateKeys(ts) \cup BudgetWarnings(ts) = {} <=> DuplicateKeys(rs) \cup BudgetWarnings(rs) = {}
      BY <2>1, <2>3, <2>4, OutcomesMoved
    <3> QED BY <3>1 DEF L4Status, PyL4Status
  <2>7. /\ IdsAt(ts, Processed(ts)) = IdsAt(rs, Processed(rs))
        /\ IdsAt(ts, Protected(ts)) = IdsAt(rs, Protected(rs))
    BY <2>1, <2>3, <2>4, AmountsMoved
  <2>8. /\ IdsAt(evidence', Processed(evidence')) = IdsAt(evidence, Processed(evidence))
        /\ IdsAt(evidence', Protected(evidence')) = IdsAt(evidence, Protected(evidence))
    BY ONLY <2>3, <2>7
  <2>9. {evidence'[k].id : k \in Processed(evidence')} = {evidence[k].id : k \in Processed(evidence)}
    BY ONLY <2>8, Zenon DEF IdsAt
  <2>10. {evidence'[k].id : k \in Protected(evidence')} = {evidence[k].id : k \in Protected(evidence)}
    BY ONLY <2>8, Zenon DEF IdsAt
  <2>11. /\ L3Status(evidence', sidecar') = L3Status(evidence, sidecar)
         /\ L4Status(evidence') = L4Status(evidence) /\ PyL4Status(evidence') = PyL4Status(evidence)
    BY ONLY <2>3, <2>5, <2>6
  <2> QED BY ONLY <2>9, <2>10, <2>11
<1>2. EvidenceInv /\ [EvidenceNext]_evidenceVars =>
        [(\E i, j \in Places(evidence) : Reorder(i, j)) =>
           /\ L3Status(evidence', sidecar') = L3Status(evidence, sidecar)
           /\ L4Status(evidence') = L4Status(evidence)
           /\ PyL4Status(evidence') = PyL4Status(evidence)
           /\ {evidence'[i].id : i \in Processed(evidence')} = {evidence[i].id : i \in Processed(evidence)}
           /\ {evidence'[i].id : i \in Protected(evidence')} = {evidence[i].id : i \in Protected(evidence)}]_evidence
  BY <1>1
<1> QED BY <1>2, EvidenceInvariant, PTL DEF EvidenceSpec, OrderChangesNoVerdict

-----------------------------------------------------------------------------
\* ------------------------- what a pass says -------------------------

LEMMA ReceiptNumbers == \A r \in Receipt : r.seq \in Int /\ r.id \in Int
BY DEF Receipt

LEMMA ValidIsChained ==
  ASSUME NEW rs \in Seq(Receipt), rs # << >>, ChainValid(rs)
  PROVE  /\ Chained(Sorted(rs)) /\ Sorted(rs) # << >>
         /\ \A i \in Places(rs) : rs[i].edit \notin {"signed", "version"}
<1>1. /\ Len(Sorted(rs)) = Len(rs) /\ Sorted(rs) \in Seq(Receipt) /\ Len(rs) \in Nat
      /\ \A i \in 1 .. Len(rs) : /\ Rank(rs, i) \in 1 .. Len(rs)
                                  /\ Sorted(rs)[Rank(rs, i)] = rs[i]
  BY Sorting, ReceiptNumbers
<1>2. Sorted(rs) # << >>
  BY <1>1
<1>3. Chained(Sorted(rs))
  BY <1>2, NoErrorMeansChained DEF ChainValid, ChainErrors
<1>4. \A i \in Places(rs) : rs[i].edit \notin {"signed", "version"}
  BY <1>1, <1>3 DEF Chained, SignatureValid, Places
<1> QED BY <1>2, <1>3, <1>4

\* If verifyReceipts passes a file, every receipt in it that a timestamp was
\* checked for is exactly as it was signed: an edit that the signature does not
\* see changes the hash that was stamped.
THEOREM StampIsSeal == EvidenceSpec => []StampSealsReceipt
<1>1. ASSUME EvidenceInv, AllTiersPass(evidence, sidecar),
             NEW i \in Timestamped(evidence, sidecar)
      PROVE  evidence[i] \in Range(sent)
  <2>1. evidence \in Seq(Receipt) /\ sent \in Seq(Receipt) /\ sidecar \in Seq(SidecarRecord)
    BY <1>1 DEF EvidenceInv, EvidenceTypeOK, SidecarRecord
  <2>2. i \in Places(evidence) /\ Stamped(sidecar, evidence[i])
    BY DEF Timestamped
  <2>3. \A j \in Places(sent) : sent[j] \in Range(sent)
    BY <2>1 DEF Places, Range
  <2>4. CASE vector # NoVector
    <3>1. Reordered(sent, evidence)
      BY <1>1, <2>4 DEF EvidenceInv
    <3>2. PICK f \in Bijection(Places(sent), Places(sent)) :
            \A k \in Places(sent) : evidence[k] = sent[f[k]]
      BY <3>1 DEF Reordered
    <3>3. i \in Places(sent) /\ f[i] \in Places(sent)
      BY <2>2, <3>1 DEF Reordered, Places, Bijection, Injection
    <3> QED BY <2>3, <3>2, <3>3
  <2>5. CASE vector = NoVector
    <3>1. WorkflowTampered
      BY <1>1, <2>5 DEF EvidenceInv
    <3>2. PICK j \in Places(sent) : AsSigned(evidence[i]) = sent[j]
      BY <2>2, <3>1 DEF WorkflowTampered
    <3>3. /\ evidence[i] \in Receipt /\ sent[j] \in Receipt
          /\ sent[j].id = j /\ sent[j].edit = "none" /\ j \in Nat /\ j > 0
      BY <2>1, <2>2, <3>1, ElementOfSeq DEF WorkflowTampered, Numbered, Places
    <3>4. PICK r, q : r = evidence[i] /\ q = sent[j]
      OBVIOUS
    <3>5. /\ r \in Receipt /\ q \in Receipt /\ AsSigned(r) = q
          /\ q.edit = "none" /\ q.id = j
      BY <3>2, <3>3, <3>4
    <3>6. r.id = j /\ (r.edit = "none" => r = q)
      BY <3>5 DEF AsSigned, Receipt
    <3>7. TokenValid(r, RecordOf(sidecar, r))
      BY <1>1, <3>4 DEF AllTiersPass, L3Status
    <3>8. PICK k \in 1 .. Len(sidecar) : RecordOf(sidecar, r) = sidecar[k]
      BY <2>1, <2>2, <3>4, RecordIsThere
    <3>9. HashAsRead(r) \in Places(sent)
      BY <3>1, <3>7, <3>8 DEF TokenValid, WorkflowTampered
    <3>10. r.edit \notin {"signed", "version"}
      <4>1. evidence # << >>
        BY <2>1, <2>2, EmptySeq DEF Places
      <4>2. ChainValid(evidence)
        BY <1>1, <2>1, PassMeansValid, ReceiptNumbers DEF AllTiersPass
      <4> QED BY <2>1, <2>2, <3>4, <4>1, <4>2, ValidIsChained
    <3>11. r.edit # "unsigned"
      <4> SUFFICES ASSUME r.edit = "unsigned" PROVE FALSE
        OBVIOUS
      <4>1. HashAsRead(r) = 0 - j
        BY <3>6 DEF HashAsRead, Digest
      <4> QED BY <3>3, <3>9, <4>1 DEF Places
    <3>12. r.edit = "none"
      BY <3>5, <3>10, <3>11 DEF Receipt
    <3> QED BY <2>3, <3>4, <3>6, <3>12
  <2> QED BY <2>4, <2>5
<1>2. EvidenceInv => StampSealsReceipt
  BY <1>1 DEF StampSealsReceipt
<1> QED BY <1>2, EvidenceInvariant, PTL

\* Both verifiers give a sidecar that they read alike one status.
LEMMA ReadAlikeJudgedAlike ==
  ASSUME NEW rs, NEW tsa \in Seq(SidecarRecord), ReadAlike(rs, tsa)
  PROVE  PyL3Status(rs, tsa) = L3Status(rs, tsa)
<1> DEFINE Checked == {i \in Places(rs) : Stamped(tsa, rs[i])}
<1>1. ASSUME NEW i \in Checked
      PROVE  /\ HasReceiptId(rs[i])
             /\ PyTokenValid(rs[i], RecordOf(tsa, rs[i])) <=> TokenValid(rs[i], RecordOf(tsa, rs[i]))
  <2>1. PICK k \in 1 .. Len(tsa) : RecordOf(tsa, rs[i]) = tsa[k] /\ tsa[k].id = rs[i].id
    BY RecordIsThere
  <2>2. HasReceiptId(rs[i]) /\ tsa[k].token \notin {"misread", "early_misread"}
    BY <2>1 DEF ReadAlike
  <2>3. tsa[k].token \in BadTokens <=> tsa[k].token \in PyBadTokens
    BY <2>2 DEF BadTokens, PyBadTokens
  <2> QED BY <2>1, <2>2, <2>3 DEF PyTokenValid, TokenValid
<1>2. Timestamped(rs, tsa) = Checked
  BY <1>1 DEF Timestamped
<1>3. (\A i \in Checked : PyTokenValid(rs[i], RecordOf(tsa, rs[i])))
        <=> (\A i \in Checked : TokenValid(rs[i], RecordOf(tsa, rs[i])))
  BY <1>1
<1> HIDE DEF Checked
<1>4. L3Status(rs, tsa) =
        IF Checked = {} THEN "SKIPPED"
        ELSE IF \A i \in Checked : TokenValid(rs[i], RecordOf(tsa, rs[i])) THEN "PASS" ELSE "FAIL"
  BY <1>2 DEF L3Status
<1>5. PyL3Status(rs, tsa) =
        IF Checked = {} THEN "SKIPPED"
        ELSE IF \A i \in Checked : PyTokenValid(rs[i], RecordOf(tsa, rs[i])) THEN "PASS" ELSE "FAIL"
  BY DEF PyL3Status, Checked
<1> QED BY <1>3, <1>4, <1>5

\* verifyReceipts and `verify --full` of the installed command pass the same
\* files, and python-verifier too where both read the sidecar alike.
THEOREM TiersAgree == EvidenceSpec => []UpperTiersAgree
<1>1. ASSUME EvidenceInv, evidence # << >>
      PROVE  LET pass == AllTiersPass(evidence, sidecar)
             IN  /\ BinVerifyFull(evidence, sidecar) = 0 <=> pass
                 /\ ReadAlike(evidence, sidecar) => (PyVerdict(evidence, sidecar) = "PASS" <=> pass)
  <2>1. evidence \in Seq(Receipt) /\ sidecar \in Seq(SidecarRecord)
    BY <1>1 DEF EvidenceInv, EvidenceTypeOK, SidecarRecord
  <2>2. OverallPass(evidence) <=> ChainValid(evidence)
    BY <2>1, ReceiptNumbers, PassMeansValid
  <2>3. PyPass(evidence) <=> ChainValid(evidence)
    BY <1>1, <2>1, ReceiptNumbers, PythonPassesAlike
  <2>4. BinVerify(evidence) = 1 <=> ~ ChainValid(evidence)
    BY <1>1 DEF BinVerify
  <2>5. L3Status(evidence, sidecar) \in {"SKIPPED", "PASS", "FAIL"}
    BY DEF L3Status
  <2>6. L4Status(evidence) = "FAIL" <=> MissingPost(evidence) # {}
    BY DEF L4Status
  <2>7. PyL4Status(evidence) = "FAIL" <=> MissingPost(evidence) # {}
    BY DEF PyL4Status, MissingPost
  <2>8. BinVerifyFull(evidence, sidecar) = 0 <=> AllTiersPass(evidence, sidecar)
    BY <2>2, <2>4, <2>5 DEF BinVerifyFull, AllTiersPass
  <2>9. ASSUME ReadAlike(evidence, sidecar)
        PROVE  PyVerdict(evidence, sidecar) = "PASS" <=> AllTiersPass(evidence, sidecar)
    <3>1. PyL3Status(evidence, sidecar) = L3Status(evidence, sidecar)
      BY <2>1, <2>9, ReadAlikeJudgedAlike
    <3> QED BY <1>1, <2>2, <2>3, <2>6, <2>7, <3>1 DEF PyVerdict, AllTiersPass
  <2> QED BY <2>8, <2>9
<1>2. EvidenceInv => UpperTiersAgree
  BY <1>1 DEF UpperTiersAgree
<1> QED BY <1>2, EvidenceInvariant, PTL

\* Behind an exit code of 0 or 3 the receipts are those that were issued, in
\* some order, but for edits.
LEMMA CompleteIsAll ==
  ASSUME EvidenceInv, AllTiersPass(evidence, sidecar), ChainComplete(evidence)
  PROVE  \E move : Moved(sent, evidence, move)
<1>1. evidence \in Seq(Receipt) /\ sent \in Seq(Receipt) /\ evidence # << >>
  BY DEF EvidenceInv, EvidenceTypeOK, ChainComplete
<1>2. CASE vector # NoVector
  BY <1>1, <1>2, ReorderedIsMoved DEF EvidenceInv
<1>3. CASE vector = NoVector
  <2> DEFINE n == Len(evidence)
             move == [i \in 1 .. n |-> Rank(evidence, i)]
  <2>1. WorkflowTampered
    BY <1>3 DEF EvidenceInv
  <2>2. /\ n \in Nat
        /\ \A i \in 1 .. n : Rank(evidence, i) \in 1 .. n /\ Sorted(evidence)[Rank(evidence, i)] = evidence[i]
        /\ \A k \in 1 .. n : \E i \in 1 .. n : Rank(evidence, i) = k /\ Sorted(evidence)[k] = evidence[i]
        /\ \A i, j \in 1 .. n : Rank(evidence, i) = Rank(evidence, j) => i = j
    <3>1. (\A r \in Receipt : r.seq \in Int) /\ evidence \in Seq(Receipt)
      BY <1>1, ReceiptNumbers
    <3>2. /\ Len(evidence) \in Nat /\ Sorted(evidence) \in Seq(Receipt) /\ Len(Sorted(evidence)) = Len(evidence)
          /\ \A i \in 1 .. Len(evidence) : Rank(evidence, i) \in 1 .. Len(evidence)
                                            /\ Sorted(evidence)[Rank(evidence, i)] = evidence[i]
          /\ \A k \in 1 .. Len(evidence) : \E i \in 1 .. Len(evidence) :
                Rank(evidence, i) = k /\ Sorted(evidence)[k] = evidence[i]
          /\ \A i, j \in 1 .. Len(evidence) : Rank(evidence, i) = Rank(evidence, j) => i = j
          /\ \A j, k \in 1 .. Len(evidence) : j <= k => Sorted(evidence)[j].seq <= Sorted(evidence)[k].seq
      BY ONLY <3>1, Sorting, Zenon
    <3> QED BY ONLY <3>2
  <2>3. ChainValid(evidence)
    BY <1>1, PassMeansValid, ReceiptNumbers DEF AllTiersPass
  <2>4. Chained(Sorted(evidence))
    BY <1>1, <2>3, ValidIsChained
  <2>5. \A k \in 1 .. n : Sorted(evidence)[k].seq = k - 1
    BY <1>1, <2>4, NumbersDiffer, ReceiptNumbers
  <2>6. ASSUME NEW i \in 1 .. n
        PROVE  Rank(evidence, i) \in Places(sent) /\ Same(evidence[i], sent[Rank(evidence, i)])
    <3>1. PICK j \in Places(sent) : AsSigned(evidence[i]) = sent[j]
      BY <2>1 DEF WorkflowTampered, Places
    <3>2. /\ evidence[i] \in Receipt /\ sent[j] \in Receipt /\ j \in Int
          /\ sent[j].seq = j - 1 /\ sent[j].edit = "none"
      BY <1>1, <2>1, ElementOfSeq DEF WorkflowTampered, Numbered, Places
    <3>3. AsSigned(sent[j]) = sent[j]
      BY <3>2 DEF AsSigned, Receipt
    <3>4. Same(evidence[i], sent[j])
      BY <3>1, <3>2, <3>3, EditsApart
    <3>5. evidence[i].seq = Rank(evidence, i) - 1 /\ Rank(evidence, i) \in Int
      <4>1. PICK k : k = Rank(evidence, i)
        OBVIOUS
      <4>2. k \in 1 .. n /\ Sorted(evidence)[k] = evidence[i]
        BY <2>2, <4>1
      <4>3. evidence[i].seq = k - 1 /\ k \in Int
        BY <2>5, <4>2
      <4> QED BY <4>1, <4>3
    <3>6. evidence[i].seq = j - 1
      BY <3>2, <3>4 DEF Same
    <3>7. j = Rank(evidence, i)
      BY <3>2, <3>5, <3>6
    <3> QED BY <3>4, <3>7
  <2>7. Len(sent) = n
    <3>1. n \in 1 .. n
      BY <1>1, <2>2, EmptySeq
    <3>2. PICK i \in 1 .. n : Rank(evidence, i) = n /\ Sorted(evidence)[n] = evidence[i]
      BY <2>2, <3>1
    <3>3. evidence[i].type = "workflow_closed"
      BY <3>2 DEF ChainComplete
    <3>4. n \in Places(sent) /\ sent[n].type = "workflow_closed"
      BY <2>6, <3>2, <3>3 DEF Same
    <3> QED BY <2>1, <3>4 DEF WorkflowTampered, Numbered
  <2>8. Places(sent) = 1 .. n
    BY <2>7 DEF Places
  <2>9. \A i \in 1 .. n : move[i] = Rank(evidence, i)
    OBVIOUS
  <2>10. move \in [1 .. n -> 1 .. n]
    BY <2>2
  <2> HIDE DEF move
  <2>11. /\ \A j \in 1 .. n : \E i \in 1 .. n : move[i] = j
         /\ \A i, j \in 1 .. n : move[i] = move[j] => i = j
         /\ \A i \in 1 .. n : Same(evidence[i], sent[move[i]])
    <3>1. \A j \in 1 .. n : \E i \in 1 .. n : move[i] = j
      BY <2>2, <2>9
    <3>2. ASSUME NEW i \in 1 .. n, NEW j \in 1 .. n, move[i] = move[j] PROVE i = j
      <4>1. move[i] = Rank(evidence, i) /\ move[j] = Rank(evidence, j)
        BY <2>9
      <4>2. Rank(evidence, i) = Rank(evidence, j)
        BY ONLY <3>2, <4>1
      <4>3. \A k, l \in 1 .. n : Rank(evidence, k) = Rank(evidence, l) => k = l
        BY <2>2
      <4> QED BY <4>2, <4>3
    <3>3. \A i \in 1 .. n : Same(evidence[i], sent[move[i]])
      BY <2>6, <2>9
    <3> QED BY <3>1, <3>2, <3>3
  <2>12. Moved(sent, evidence, move)
    BY <2>7, <2>8, <2>10, <2>11 DEF Moved
  <2> QED BY <2>12
<1> QED BY <1>2, <1>3

\* Whatever is lost, edited or put in another order, and however often, a
\* clean exit means the whole workflow, every allowed money action with an
\* outcome, and with 0 no duplicate and no budget warning.
THEOREM CleanExitIsAccounted == EvidenceSpec => []CleanExitMeansAccounted
<1>1. ASSUME EvidenceInv, VerifyExitCode(evidence, sidecar, FALSE) \in {0, 3}
      PROVE  /\ Ids(evidence) = Ids(sent) /\ MissingPost(sent) = {}
             /\ VerifyExitCode(evidence, sidecar, FALSE) = 0 =>
                  DuplicateKeys(sent) = {} /\ BudgetWarnings(sent) = {}
  <2>1. /\ AllTiersPass(evidence, sidecar) /\ ChainComplete(evidence)
        /\ VerifyExitCode(evidence, sidecar, FALSE) = 0 => L4Status(evidence) # "WARN"
    BY <1>1 DEF VerifyExitCode
  <2>2. PICK move : Moved(sent, evidence, move)
    BY <1>1, <2>1, CompleteIsAll
  <2>3. Len(sent) \in Nat
    BY <1>1, LenProperties DEF EvidenceInv, EvidenceTypeOK
  <2>4. /\ Ids(evidence) = Ids(sent) /\ MissingPost(evidence) = MissingPost(sent)
        /\ DuplicateKeys(evidence) = {} <=> DuplicateKeys(sent) = {}
        /\ BudgetWarnings(evidence) = {} <=> BudgetWarnings(sent) = {}
    BY <2>2, <2>3, OutcomesMoved
  <2>5. MissingPost(evidence) = {}
    BY <2>1 DEF AllTiersPass, L4Status
  <2>6. L4Status(evidence) # "WARN" => DuplicateKeys(evidence) = {} /\ BudgetWarnings(evidence) = {}
    BY <2>5 DEF L4Status
  <2> QED BY <2>1, <2>4, <2>5, <2>6
<1>2. EvidenceInv => CleanExitMeansAccounted
  BY <1>1 DEF CleanExitMeansAccounted
<1> QED BY <1>2, EvidenceInvariant, PTL

-----------------------------------------------------------------------------
\* ------------------------- the published vectors -------------------------

Codes(warnings) == {w.code : w \in warnings}

\* What both verifiers say of lines ts with sidecar tsa.
Reads(ts, tsa, l1, l2, l3, warned) ==
  /\ (\A i \in Places(ts) : L1Pass(ts, i)) <=> l1 = "PASS"
  /\ (\A i \in Places(ts) : L2Pass(ts, i)) <=> l2 = "PASS"
  /\ L3Status(ts, tsa) = l3
  /\ PyL1(ts) <=> l1 = "PASS"
  /\ PyL2(ts) <=> l2 = "PASS"
  /\ PyL3Status(ts, tsa) = PyExpected(tsa, l3)
  /\ Codes(ChainWarnings(ts)) = warned

\* They say it of the receipts in any order.
Expecting(rs, tsa, l1, l2, l3, warned) ==
  \A ts \in Seq(Receipt) : Reordered(rs, ts) => Reads(ts, tsa, l1, l2, l3, warned)

Rising(rs) == \A i, j \in Places(rs) : i < j => rs[i].seq < rs[j].seq

\* Both verifiers put receipts whose numbers rise back in their order.
LEMMA RisingIsRestored ==
  ASSUME NEW rs \in Seq(Receipt), Rising(rs), NEW ts \in Seq(Receipt), Reordered(rs, ts)
  PROVE  Len(ts) = Len(rs) /\ Sorted(ts) = rs /\ PySorted(ts) = rs
<1> DEFINE P == 1 .. Len(rs)
<1>1. PICK f \in Bijection(P, P) : \A i \in P : ts[i] = rs[f[i]]
  BY DEF Reordered, Places
<1>2. /\ f \in [P -> P] /\ \A i, j \in P : f[i] = f[j] => i = j
  BY DEF Bijection, Injection, IsInjective
<1>3. Len(ts) = Len(rs) /\ Len(rs) \in Nat
  BY LenProperties DEF Reordered
<1>4. \A i \in P : rs[i].seq \in Int
  BY ReceiptNumbers, ElementOfSeq
<1>5. \A i, j \in P : rs[i].seq = rs[j].seq => i = j
  <2> SUFFICES ASSUME NEW i \in P, NEW j \in P, i # j PROVE rs[i].seq # rs[j].seq
    OBVIOUS
  <2>1. rs[i].seq < rs[j].seq \/ rs[j].seq < rs[i].seq
    BY <1>3 DEF Rising, Places
  <2> QED BY <1>4, <2>1
<1>6. Sorted(ts) = Sorted(rs)
  BY <1>1, <1>3, <1>5, SortedPermuted, ReceiptNumbers
<1>7. Sorted(rs) = rs
  BY SortedStays, ReceiptNumbers DEF Rising, Places
<1>8. \A i, j \in 1 .. Len(ts) : ts[i].seq = ts[j].seq => i = j
  <2> SUFFICES ASSUME NEW i \in P, NEW j \in P, ts[i].seq = ts[j].seq PROVE i = j
    BY <1>3
  <2>1. ts[i] = rs[f[i]] /\ ts[j] = rs[f[j]] /\ f[i] \in P /\ f[j] \in P
    BY <1>1, <1>2
  <2>2. f[i] = f[j]
    BY <1>5, <2>1
  <2> QED BY <1>2, <2>2
<1>9. PySorted(ts) = Sorted(ts)
  BY <1>8, PySortsAlike, ReceiptNumbers
<1> QED BY <1>3, <1>6, <1>7, <1>9

\* What _l2 demands of sorted receipts.
PyChained(s) ==
  /\ s # << >> => HeadsChain(s[1])
  /\ \A i \in 1 .. Len(s) : s[i].edit # "version"
  /\ \A i \in 2 .. Len(s) : PyFollows(s[i], s[i-1])

\* So it is enough to know what they say of them in order.
LEMMA RisingReads ==
  ASSUME NEW rs \in Seq(Receipt), Rising(rs), NEW tsa, NEW l1, NEW l2,
         (\A i \in Places(rs) : SignatureValid(rs[i])) <=> l1 = "PASS",
         (\A i \in Places(rs) : RowPasses(SortedErrors(rs), i)) <=> l2 = "PASS",
         PyChained(rs) <=> l2 = "PASS",
         PyL3Status(rs, tsa) = PyExpected(tsa, L3Status(rs, tsa))
  PROVE  Expecting(rs, tsa, l1, l2, L3Status(rs, tsa),
                   Codes(DegradedState(rs) \cup MoneyActionTagMissing(rs)))
<1> SUFFICES ASSUME NEW ts \in Seq(Receipt), Reordered(rs, ts)
             PROVE  Reads(ts, tsa, l1, l2, L3Status(rs, tsa),
                          Codes(DegradedState(rs) \cup MoneyActionTagMissing(rs)))
  BY DEF Expecting
<1>1. Len(ts) = Len(rs) /\ Places(ts) = Places(rs) /\ Sorted(ts) = rs /\ PySorted(ts) = rs
  BY RisingIsRestored DEF Places
<1>2. PICK f \in Bijection(Places(rs), Places(rs)) : \A i \in Places(rs) : ts[i] = rs[f[i]]
  BY DEF Reordered
<1>3. f \in [Places(rs) -> Places(rs)] /\ \A j \in Places(rs) : \E i \in Places(rs) : f[i] = j
  BY DEF Bijection, Injection, Surjection
<1>4. (\A i \in Places(ts) : SignatureValid(ts[i])) <=> \A i \in Places(rs) : SignatureValid(rs[i])
  <2>1. ASSUME \A i \in Places(rs) : SignatureValid(rs[i]), NEW i \in Places(rs) PROVE SignatureValid(ts[i])
    <3>1. f[i] \in Places(rs) /\ ts[i] = rs[f[i]]
      BY ONLY <1>2, <1>3, i \in Places(rs)
    <3> QED BY <2>1, <3>1
  <2>2. ASSUME \A i \in Places(rs) : SignatureValid(ts[i]), NEW j \in Places(rs) PROVE SignatureValid(rs[j])
    <3>1. PICK i \in Places(rs) : f[i] = j
      BY <1>3
    <3>2. ts[i] = rs[j]
      BY <1>2, <3>1
    <3> QED BY <2>2, <3>2
  <2> QED BY <1>1, <2>1, <2>2
<1>5. (\A i \in Places(ts) : L1Pass(ts, i)) <=> l1 = "PASS"
  BY <1>4 DEF L1Pass
<1>6. (\A i \in Places(ts) : L2Pass(ts, i)) <=> l2 = "PASS"
  BY <1>1 DEF L2Pass, ChainErrors
<1>7. PyL1(ts) <=> l1 = "PASS"
  BY <1>4 DEF PyL1
<1>8. PyL2(ts) <=> l2 = "PASS"
  BY <1>1 DEF PyL2, PyChained
<1>9. L3Status(ts, tsa) = L3Status(rs, tsa) /\ PyL3Status(ts, tsa) = PyL3Status(rs, tsa)
  BY StampsMoved
<1>10. ChainWarnings(ts) = DegradedState(rs) \cup MoneyActionTagMissing(rs)
  BY <1>1 DEF ChainWarnings
<1> QED BY <1>5, <1>6, <1>7, <1>8, <1>9, <1>10 DEF Reads

LEMMA NoSidecarSkips ==
  ASSUME NEW rs
  PROVE  /\ L3Status(rs, << >>) = "SKIPPED" /\ PyL3Status(rs, << >>) = "SKIPPED"
         /\ PyExpected(<< >>, "SKIPPED") = "SKIPPED"
<1>1. \A r : ~ Stamped(<< >>, r)
  BY DEF Stamped, RecordsOf
<1>2. Places(<< >>) = {}
  BY DEF Places
<1> QED BY <1>1, <1>2 DEF L3Status, PyL3Status, Timestamped, PyExpected

LEMMA NothingToWarnOf ==
  ASSUME NEW rs, \A i \in Places(rs) : ~ rs[i].degraded /\ ~ IsPost(rs[i])
  PROVE  Codes(DegradedState(rs) \cup MoneyActionTagMissing(rs)) = {}
BY DEF Codes, DegradedState, MoneyActionTagMissing

\* Drafts that begin as a chain must, none of them edited.
Opening(drafts) ==
  /\ drafts \in Seq(Receipt) /\ Len(drafts) > 0 /\ HeadsChain(drafts[1])
  /\ \A i \in 1 .. Len(drafts) : drafts[i].wf = 1 /\ drafts[i].edit = "none"

LEMMA OpeningIsChained ==
  ASSUME NEW drafts, Opening(drafts), NEW rs, rs = ChainOf(drafts)
  PROVE  /\ rs \in Seq(Receipt) /\ Len(rs) = Len(drafts) /\ Len(rs) \in Nat /\ rs # << >>
         /\ \A i \in Places(rs) : rs[i] \in Receipt /\ Alike(rs[i], drafts[i]) /\ rs[i].id = i /\ rs[i].edit = "none"
         /\ Rising(rs) /\ Chained(rs) /\ PyChained(rs)
<1> DEFINE n == Len(drafts)
<1>1. drafts \in Seq(Receipt) /\ n \in Nat /\ n > 0 /\ rs = LinkedFrom(drafts)
  BY LenProperties, ChainIsLinked DEF Opening
<1>2. /\ rs \in Seq(Receipt) /\ Len(rs) = n
      /\ \A i \in 1 .. n : /\ rs[i] \in Receipt /\ Alike(rs[i], drafts[i]) /\ rs[i].id = i
                           /\ rs[i].seq = drafts[1].seq + i - 1
                           /\ rs[i].prev = IF i = 1 THEN drafts[1].prev ELSE i - 1
  BY <1>1, LinkedReceipts
<1>3. drafts[1].seq = 0 /\ drafts[1].prev = NullHash /\ drafts[1].type = "workflow_manifest"
  BY DEF Opening, HeadsChain
<1>4. \A i \in 1 .. n : rs[i].seq = i - 1 /\ rs[i].wf = 1 /\ rs[i].edit = "none"
  BY <1>2, <1>3 DEF Opening, Alike
<1>5. rs # << >> /\ 1 \in 1 .. n
  BY <1>1, <1>2, EmptySeq
<1>6. HeadsChain(rs[1])
  <2>1. rs[1].seq = 1 - 1 /\ rs[1].prev = NullHash
    BY <1>2, <1>3, <1>4, <1>5
  <2>2. rs[1].type = "workflow_manifest"
    BY <1>2, <1>3, <1>5 DEF Alike
  <2> QED BY <2>1, <2>2 DEF HeadsChain
<1>7. ASSUME NEW k \in 2 .. n
      PROVE  /\ rs[k].wf = rs[1].wf /\ rs[k].wf = rs[k-1].wf
             /\ rs[k].seq = rs[k-1].seq + 1 /\ rs[k].prev = HashAsRead(rs[k-1])
  <2>1. k \in 1 .. n /\ k - 1 \in 1 .. n /\ k # 1
    BY <1>1
  <2>2. HashAsRead(rs[k-1]) = k - 1
    BY <1>2, <1>4, <2>1 DEF HashAsRead, Digest
  <2> QED BY <1>2, <1>4, <1>5, <2>1, <2>2
<1>8. Rising(rs)
  BY <1>2, <1>4 DEF Rising, Places
<1>9. Chained(rs)
  BY <1>2, <1>4, <1>6, <1>7 DEF Chained, SignatureValid
<1>10. PyChained(rs)
  BY <1>2, <1>4, <1>6, <1>7 DEF PyChained, PyFollows
<1> QED BY <1>1, <1>2, <1>4, <1>5, <1>8, <1>9, <1>10 DEF Places

\* Such a chain passes, whatever its sidecar says.
LEMMA ChainReads ==
  ASSUME NEW drafts, Opening(drafts), NEW rs, rs = ChainOf(drafts),
         NEW tsa, PyL3Status(rs, tsa) = PyExpected(tsa, L3Status(rs, tsa))
  PROVE  Expecting(rs, tsa, "PASS", "PASS", L3Status(rs, tsa),
                   Codes(DegradedState(rs) \cup MoneyActionTagMissing(rs)))
<1>1. /\ rs \in Seq(Receipt) /\ rs # << >> /\ Rising(rs) /\ Chained(rs) /\ PyChained(rs)
      /\ \A i \in Places(rs) : SignatureValid(rs[i])
  BY OpeningIsChained DEF SignatureValid
<1>2. SortedErrors(rs) = {}
  BY <1>1, NoErrorMeansChained
<1>3. \A i \in Places(rs) : RowPasses(SortedErrors(rs), i)
  BY <1>2 DEF RowPasses
<1> QED BY <1>1, <1>3, RisingReads

\* The tokens of service `name` are good for TypeScript if l3 is PASS, else not.
StampedFor(rs, name, tokens, l3) ==
  /\ name \in {"digicert", "evilcorp-tsa"} /\ l3 \in {"PASS", "FAIL"}
  /\ \A i \in Places(rs) : tokens[i] \in VectorTokens
  /\ l3 = "PASS" <=> name = "digicert" /\ \A i \in Places(rs) : tokens[i] \in PlainTokens

\* The records of StampedAs are one for each receipt, about that receipt.
LEMMA StampReads ==
  ASSUME NEW drafts, Opening(drafts), NEW rs, rs = ChainOf(drafts),
         \A i \in 1 .. Len(drafts) : HasReceiptId(drafts[i]),
         NEW name, NEW tokens, NEW l3, StampedFor(rs, name, tokens, l3),
         NEW tsa, tsa = StampedAs(rs, name, tokens)
  PROVE  L3Status(rs, tsa) = l3 /\ PyL3Status(rs, tsa) = PyExpected(tsa, l3)
<1>0. /\ name \in {"digicert", "evilcorp-tsa"} /\ l3 \in {"PASS", "FAIL"}
      /\ \A i \in Places(rs) : tokens[i] \in VectorTokens
      /\ l3 = "PASS" <=> name = "digicert" /\ \A i \in Places(rs) : tokens[i] \in PlainTokens
  BY DEF StampedFor
<1>1. /\ rs \in Seq(Receipt) /\ Len(rs) \in Nat /\ rs # << >>
      /\ \A i \in Places(rs) : Alike(rs[i], drafts[i]) /\ rs[i].id = i /\ rs[i].edit = "none"
      /\ Len(rs) = Len(drafts)
  BY OpeningIsChained
<1>2. tsa \in Seq(SidecarRecord)
  BY <1>0, <1>1, StampedAsRecords
<1>3. /\ DOMAIN tsa = Places(rs)
      /\ \A i \in Places(rs) : /\ tsa[i].id = rs[i].id /\ tsa[i].tsa = name
                               /\ tsa[i].token = tokens[i] /\ tsa[i].imprint = Digest(rs[i])
  BY DEF StampedAs
<1>4. Len(tsa) = Len(rs)
  BY <1>1, <1>2, <1>3, LenProperties DEF Places
<1>5. ASSUME NEW i \in Places(rs)
      PROVE  /\ HasReceiptId(rs[i]) /\ Stamped(tsa, rs[i])
             /\ TokenValid(rs[i], RecordOf(tsa, rs[i])) <=> name = "digicert" /\ tokens[i] \in PlainTokens
             /\ PyTokenValid(rs[i], RecordOf(tsa, rs[i])) <=> name = "digicert" /\ tokens[i] = "good"
  <2>1. HasReceiptId(rs[i])
    BY <1>1 DEF HasReceiptId, Alike, Places
  <2>2. Stamped(tsa, rs[i])
    BY <1>3, <1>4 DEF Stamped, RecordsOf, Places
  <2>3. PICK k \in Places(rs) : RecordOf(tsa, rs[i]) = tsa[k] /\ tsa[k].id = rs[i].id
    BY <1>2, <1>4, <2>2, RecordIsThere DEF Places
  <2>4. k = i
    BY <1>1, <1>3, <2>3
  <2>5. HashAsRead(rs[i]) = Digest(rs[i])
    BY <1>1 DEF HashAsRead
  <2>6. name \in Accepting <=> name = "digicert"
    BY <1>0 DEF Accepting
  <2>7. PICK token : token = tokens[i] /\ token \in VectorTokens
    BY <1>0
  <2>8. (token \notin BadTokens <=> token \in PlainTokens) /\ (token \notin PyBadTokens <=> token = "good")
    BY ONLY <2>7 DEF BadTokens, PyBadTokens, PlainTokens, VectorTokens
  <2>9. PICK rec : rec = RecordOf(tsa, rs[i])
    OBVIOUS
  <2>10. rec.tsa = name /\ rec.token = token /\ rec.imprint = HashAsRead(rs[i])
    BY <1>3, <2>3, <2>4, <2>5, <2>7, <2>9
  <2> QED BY <2>1, <2>2, <2>6, <2>7, <2>8, <2>9, <2>10 DEF TokenValid, PyTokenValid
<1>6. Timestamped(rs, tsa) = Places(rs) /\ {i \in Places(rs) : Stamped(tsa, rs[i])} = Places(rs)
  BY <1>5 DEF Timestamped
<1>7. Places(rs) # {}
  <2>1. Len(rs) # 0
    BY <1>1, EmptySeq
  <2> QED BY <1>1, <2>1 DEF Places
<1>8. L3Status(rs, tsa) = l3
  BY <1>0, <1>5, <1>6, <1>7 DEF L3Status
<1>9. PyExpected(tsa, l3) = IF \E i \in Places(rs) : tokens[i] = "misread" THEN "FAIL" ELSE l3
  <2>1. Places(tsa) = Places(rs)
    BY <1>4 DEF Places
  <2> QED BY <1>3, <2>1 DEF PyExpected
<1>10. (\A i \in Places(rs) : tokens[i] = "good")
         <=> /\ \A i \in Places(rs) : tokens[i] \in PlainTokens
             /\ ~ \E i \in Places(rs) : tokens[i] = "misread"
  BY DEF PlainTokens
<1>11. PyL3Status(rs, tsa) = IF name = "digicert" /\ \A i \in Places(rs) : tokens[i] = "good" THEN "PASS" ELSE "FAIL"
  BY <1>5, <1>6, <1>7 DEF PyL3Status
<1> QED BY <1>0, <1>8, <1>9, <1>10, <1>11

LEMMA StampedAlike ==
  ASSUME NEW rs, Places(rs) # {}, NEW name \in {"digicert", "evilcorp-tsa"}, NEW token \in VectorTokens,
         NEW l3 \in {"PASS", "FAIL"}, l3 = "PASS" <=> name = "digicert" /\ token \in PlainTokens
  PROVE  StampedFor(rs, name, [i \in Places(rs) |-> token], l3)
BY DEF StampedFor

\* Drafts that no verifier has anything to say of.
Plain == {r \in Draft : HasReceiptId(r) /\ ~ r.degraded}

LEMMA PlainDrafts ==
  /\ Manifest \in Plain /\ HeadsChain(Manifest)
  /\ Action \in Plain /\ Closed \in Plain /\ Closed.type = "workflow_closed"
  /\ AllowedCall \in Plain /\ BlockedCall \in Plain /\ Call("STEP_UP", "no") \in Plain
  /\ Call("FAIL_OPEN", "yes") \in Plain /\ Call("ALLOW", "untracked") \in Plain
  /\ DeadCall("no") \in Plain /\ DeadCall("yes") \in Plain
<1>1. Manifest \in Plain /\ HeadsChain(Manifest) /\ Closed \in Plain /\ Closed.type = "workflow_closed"
  <2>1. Manifest \in Draft /\ Closed \in Draft
    BY FieldsAreDrafts DEF Manifest, Closed
  <2>2. Manifest.degraded = FALSE /\ Manifest.type = "workflow_manifest"
        /\ Manifest.seq = 0 /\ Manifest.prev = NullHash
    BY DEF Manifest, Fields
  <2>3. Closed.degraded = FALSE /\ Closed.type = "workflow_closed"
    BY DEF Closed, Fields
  <2> QED BY <2>1, <2>2, <2>3 DEF Plain, HasReceiptId, HeadsChain
<1>2. Action \in Plain
  <2>1. Action.degraded = FALSE /\ Action.type = "action_receipt"
    BY DEF Action, Fields
  <2> QED BY <2>1, ActionsAreDrafts DEF Plain, HasReceiptId
<1>3. ASSUME NEW decision, NEW called, Call(decision, called) \in Draft
      PROVE  Call(decision, called) \in Plain
  <2>1. Call(decision, called).degraded = FALSE /\ Call(decision, called).type = "action_receipt"
    BY DEF Call, Action, Fields
  <2> QED BY <1>3, <2>1 DEF Plain, HasReceiptId
<1>4. ASSUME NEW called \in {"yes", "no"} PROVE DeadCall(called) \in Plain
  <2>1. DeadCall(called).degraded = FALSE /\ DeadCall(called).type = "action_receipt"
    BY DEF DeadCall, Call, Action, Fields
  <2> QED BY <2>1, ActionsAreDrafts DEF Plain, HasReceiptId
<1>5. /\ Call("ALLOW", "yes") \in Plain /\ Call("BLOCK", "no") \in Plain
      /\ Call("STEP_UP", "no") \in Plain /\ Call("FAIL_OPEN", "yes") \in Plain
      /\ Call("ALLOW", "untracked") \in Plain
  BY <1>3, CallsAreDrafts
<1> QED BY <1>1, <1>2, <1>4, <1>5 DEF AllowedCall, BlockedCall

LEMMA PlainIsOpening ==
  ASSUME NEW drafts \in Seq(Plain), Len(drafts) > 0, drafts[1] = Manifest
  PROVE  /\ Opening(drafts)
         /\ \A i \in 1 .. Len(drafts) : HasReceiptId(drafts[i])
<1>1. \A r \in Plain : r \in Receipt /\ r.wf = 1 /\ r.edit = "none" /\ HasReceiptId(r)
  BY DEF Plain, Draft
<1>2. drafts \in Seq(Receipt)
  <2>1. Plain \subseteq Receipt
    BY <1>1
  <2> QED BY <2>1
<1>3. \A i \in 1 .. Len(drafts) : drafts[i] \in Plain
  BY ElementOfSeq
<1> QED BY <1>1, <1>2, <1>3, PlainDrafts DEF Opening

LEMMA PlainReads ==
  ASSUME NEW drafts \in Seq(Plain), Len(drafts) > 0, drafts[1] = Manifest,
         NEW rs, rs = ChainOf(drafts)
  PROVE  /\ Expecting(rs, << >>, "PASS", "PASS", "SKIPPED", {})
         /\ Places(rs) # {}
         /\ \A name, tokens, l3 : StampedFor(rs, name, tokens, l3) =>
              Expecting(rs, StampedAs(rs, name, tokens), "PASS", "PASS", l3, {})
<1>1. Opening(drafts) /\ \A i \in 1 .. Len(drafts) : HasReceiptId(drafts[i])
  BY PlainIsOpening
<1>2. ASSUME NEW i \in Places(rs) PROVE ~ rs[i].degraded /\ ~ IsPost(rs[i])
  <2>1. Alike(rs[i], drafts[i]) /\ i \in 1 .. Len(drafts)
    BY <1>1, OpeningIsChained DEF Places
  <2>2. drafts[i] \in Plain
    BY <2>1, ElementOfSeq
  <2> QED BY <2>1, <2>2 DEF Plain, Draft, Alike, IsPost
<1>3. Codes(DegradedState(rs) \cup MoneyActionTagMissing(rs)) = {}
  BY <1>2, NothingToWarnOf
<1>4. Expecting(rs, << >>, "PASS", "PASS", "SKIPPED", {})
  <2>1. /\ L3Status(rs, << >>) = "SKIPPED"
        /\ PyL3Status(rs, << >>) = PyExpected(<< >>, L3Status(rs, << >>))
    BY NoSidecarSkips
  <2>2. Expecting(rs, << >>, "PASS", "PASS", L3Status(rs, << >>),
                  Codes(DegradedState(rs) \cup MoneyActionTagMissing(rs)))
    BY <1>1, <2>1, ChainReads
  <2> QED BY <1>3, <2>1, <2>2
<1>5. ASSUME NEW name, NEW tokens, NEW l3, StampedFor(rs, name, tokens, l3)
      PROVE  Expecting(rs, StampedAs(rs, name, tokens), "PASS", "PASS", l3, {})
  <2>1. PICK tsa : tsa = StampedAs(rs, name, tokens)
    OBVIOUS
  <2>2. L3Status(rs, tsa) = l3 /\ PyL3Status(rs, tsa) = PyExpected(tsa, l3)
    BY <1>1, <1>5, <2>1, StampReads
  <2>3. Expecting(rs, tsa, "PASS", "PASS", L3Status(rs, tsa),
                  Codes(DegradedState(rs) \cup MoneyActionTagMissing(rs)))
    BY <1>1, <2>2, ChainReads
  <2> QED BY <1>3, <2>1, <2>2, <2>3
<1>6. Places(rs) # {}
  <2>1. rs \in Seq(Receipt) /\ Len(rs) \in Nat /\ rs # << >>
    BY <1>1, OpeningIsChained
  <2>2. Len(rs) # 0
    BY ONLY <2>1, EmptySeq
  <2>3. 1 \in 1 .. Len(rs)
    BY ONLY <2>1, <2>2
  <2> QED BY ONLY <2>3 DEF Places
<1> QED BY <1>4, <1>5, <1>6

LEMMA GoldenReads ==
  ASSUME NEW calls \in Seq(Plain), NEW rs, rs = GoldenChain(calls)
  PROVE  /\ Expecting(rs, << >>, "PASS", "PASS", "SKIPPED", {})
         /\ \A name, tokens, l3 : StampedFor(rs, name, tokens, l3) =>
              Expecting(rs, StampedAs(rs, name, tokens), "PASS", "PASS", l3, {})
         /\ \A ts \in Seq(Receipt) : Reordered(rs, ts) => ChainComplete(ts)
<1> DEFINE first == << Manifest >>
           last == << Closed >>
           drafts == first \o calls \o last
<1>1. /\ first \in Seq(Plain) /\ Len(first) = 1 /\ first[1] = Manifest
      /\ last \in Seq(Plain) /\ Len(last) = 1 /\ last[1] = Closed
  BY PlainDrafts
<1> HIDE DEF first, last
<1>2. /\ first \o calls \in Seq(Plain) /\ Len(first \o calls) = 1 + Len(calls)
      /\ (first \o calls)[1] = Manifest /\ Len(calls) \in Nat
  <2>1. /\ first \o calls \in Seq(Plain) /\ Len(first \o calls) = Len(first) + Len(calls)
        /\ \A i \in 1 .. Len(first) + Len(calls) :
             (first \o calls)[i] = IF i <= Len(first) THEN first[i] ELSE calls[i - Len(first)]
    BY <1>1, ConcatProperties
  <2>2. Len(calls) \in Nat /\ 1 \in 1 .. Len(first) + Len(calls)
    BY <1>1, LenProperties
  <2> QED BY <1>1, <2>1, <2>2
<1>3. /\ drafts \in Seq(Plain) /\ Len(drafts) = 2 + Len(calls)
      /\ drafts[1] = Manifest /\ drafts[2 + Len(calls)] = Closed
  <2> DEFINE head == first \o calls
  <2>1. /\ head \o last \in Seq(Plain) /\ Len(head \o last) = Len(head) + Len(last)
        /\ \A i \in 1 .. Len(head) + Len(last) :
             (head \o last)[i] = IF i <= Len(head) THEN head[i] ELSE last[i - Len(head)]
    BY <1>1, <1>2, ConcatProperties
  <2>2. Len(head) = 1 + Len(calls) /\ Len(head) + Len(last) = 2 + Len(calls)
    BY <1>1, <1>2
  <2>3. 1 \in 1 .. 2 + Len(calls) /\ 2 + Len(calls) \in 1 .. 2 + Len(calls)
    BY <1>2
  <2>4. (2 + Len(calls)) - (1 + Len(calls)) = 1 /\ ~ (2 + Len(calls) <= 1 + Len(calls)) /\ 1 <= 1 + Len(calls)
    BY <1>2
  <2> HIDE DEF head
  <2>5. (head \o last)[1] = head[1] /\ (head \o last)[2 + Len(calls)] = last[1]
    BY <2>1, <2>2, <2>3, <2>4
  <2> QED BY <1>1, <1>2, <2>1, <2>2, <2>5 DEF head
<1>4. rs = ChainOf(drafts)
  BY DEF GoldenChain, first, last
<1> HIDE DEF drafts
<1>5. Len(drafts) > 0 /\ 2 + Len(calls) \in 1 .. Len(drafts)
  BY <1>2, <1>3
<1>6. Expecting(rs, << >>, "PASS", "PASS", "SKIPPED", {})
  BY <1>3, <1>4, <1>5, PlainReads
<1>7. \A name, tokens, l3 : StampedFor(rs, name, tokens, l3) =>
        Expecting(rs, StampedAs(rs, name, tokens), "PASS", "PASS", l3, {})
  BY <1>3, <1>4, <1>5, PlainReads
<1>8. ASSUME NEW ts \in Seq(Receipt), Reordered(rs, ts) PROVE ChainComplete(ts)
  <2>1. Opening(drafts)
    BY <1>3, <1>5, PlainIsOpening
  <2>2. /\ rs \in Seq(Receipt) /\ Rising(rs) /\ rs # << >> /\ Len(rs) = Len(drafts)
        /\ \A i \in Places(rs) : Alike(rs[i], drafts[i])
    BY <1>4, <2>1, OpeningIsChained
  <2>3. Len(ts) = Len(rs) /\ Sorted(ts) = rs
    BY <1>8, <2>2, RisingIsRestored
  <2>4. ts # << >>
    BY <1>2, <1>3, <2>2, <2>3, EmptySeq
  <2>5. rs[Len(rs)].type = "workflow_closed"
    <3>1. Len(rs) \in Places(rs) /\ drafts[Len(rs)] = Closed
      BY <1>3, <1>5, <2>2 DEF Places
    <3> QED BY <2>2, <3>1, PlainDrafts DEF Alike
  <2> QED BY <2>3, <2>4, <2>5 DEF ChainComplete
<1> QED BY <1>6, <1>7, <1>8

LEMMA DegradedIsSaid ==
  ASSUME NEW rs, \A i \in Places(rs) : ~ IsPost(rs[i]),
         NEW k \in Places(rs), IsAction(rs[k]), rs[k].degraded
  PROVE  Codes(DegradedState(rs) \cup MoneyActionTagMissing(rs)) = {"DEGRADED_STATE"}
<1>1. MoneyActionTagMissing(rs) = {}
  BY DEF MoneyActionTagMissing
<1>2. Error(k, "DEGRADED_STATE") \in DegradedState(rs)
  BY DEF DegradedState
<1>3. \A w \in DegradedState(rs) : w.code = "DEGRADED_STATE"
  BY DEF DegradedState, Error
<1>4. "DEGRADED_STATE" \in Codes(DegradedState(rs) \cup MoneyActionTagMissing(rs))
  BY <1>2, <1>3 DEF Codes
<1>5. \A c \in Codes(DegradedState(rs) \cup MoneyActionTagMissing(rs)) : c = "DEGRADED_STATE"
  BY <1>1, <1>3 DEF Codes
<1> QED BY <1>4, <1>5

LEMMA DegradedReads == Expecting(Degraded, << >>, "PASS", "PASS", "SKIPPED", {"DEGRADED_STATE"})
<1> DEFINE call == [Action EXCEPT !.degraded = TRUE]
<1>1. /\ Manifest \in Draft /\ HeadsChain(Manifest) /\ Closed \in Draft /\ call \in Draft
      /\ IsAction(call) /\ call.degraded
  <2>1. call \in Draft
    BY ActionsAreDrafts
  <2>2. IsAction(call) /\ call.degraded
    BY DEF IsAction, Action, Fields
  <2> QED BY <2>1, <2>2, PlainDrafts DEF Plain
<1> HIDE DEF call
<1>2. PICK drafts : drafts = << Manifest, call, Closed >>
  OBVIOUS
<1>3. /\ drafts \in Seq(Draft) /\ Len(drafts) = 3
      /\ drafts[1] = Manifest /\ drafts[2] = call /\ drafts[3] = Closed
  BY <1>1, <1>2
<1>4. \A i \in 1 .. 3 : drafts[i] \in Draft
  BY <1>3, ElementOfSeq
<1>5. Opening(drafts)
  BY <1>1, <1>3, <1>4 DEF Opening, Draft
<1>6. PICK rs : rs = ChainOf(drafts)
  OBVIOUS
<1>7. Places(rs) = 1 .. 3 /\ \A i \in 1 .. 3 : Alike(rs[i], drafts[i])
  BY <1>3, <1>5, <1>6, OpeningIsChained DEF Places
<1>8. \A i \in Places(rs) : ~ IsPost(rs[i])
  BY <1>4, <1>7 DEF Alike, Draft, IsPost
<1>9. IsAction(rs[2]) /\ rs[2].degraded
  BY <1>1, <1>3, <1>7 DEF Alike, IsAction
<1>10. Codes(DegradedState(rs) \cup MoneyActionTagMissing(rs)) = {"DEGRADED_STATE"}
  <2>1. 2 \in Places(rs)
    BY <1>7
  <2> QED BY <1>8, <1>9, <2>1, DegradedIsSaid
<1>11. /\ L3Status(rs, << >>) = "SKIPPED"
       /\ PyL3Status(rs, << >>) = PyExpected(<< >>, L3Status(rs, << >>))
  BY NoSidecarSkips
<1>12. Expecting(rs, << >>, "PASS", "PASS", L3Status(rs, << >>),
                 Codes(DegradedState(rs) \cup MoneyActionTagMissing(rs)))
  BY <1>5, <1>6, <1>11, ChainReads
<1>13. Degraded = rs
  BY <1>2, <1>6 DEF Degraded, call
<1> QED BY <1>10, <1>11, <1>12, <1>13

LEMMA UntaggedIsSaid ==
  ASSUME NEW rs, \A i \in Places(rs) : ~ rs[i].degraded,
         NEW j \in Places(rs), IsPost(rs[j]),
         NEW k \in Places(rs), HasReceiptId(rs[k]), rs[k].id = rs[j].pre, ~ rs[k].money
  PROVE  Codes(DegradedState(rs) \cup MoneyActionTagMissing(rs)) = {"MONEY_ACTION_TAG_MISSING"}
<1>1. DegradedState(rs) = {}
  BY DEF DegradedState
<1>2. Error(j, "MONEY_ACTION_TAG_MISSING") \in MoneyActionTagMissing(rs)
  BY DEF MoneyActionTagMissing
<1>3. \A w \in MoneyActionTagMissing(rs) : w.code = "MONEY_ACTION_TAG_MISSING"
  BY DEF MoneyActionTagMissing, Error
<1>4. "MONEY_ACTION_TAG_MISSING" \in Codes(DegradedState(rs) \cup MoneyActionTagMissing(rs))
  BY <1>2, <1>3 DEF Codes
<1>5. \A c \in Codes(DegradedState(rs) \cup MoneyActionTagMissing(rs)) : c = "MONEY_ACTION_TAG_MISSING"
  BY <1>1, <1>3 DEF Codes
<1> QED BY <1>4, <1>5

LEMMA UntaggedReads ==
  Expecting(Untagged, << >>, "PASS", "PASS", "SKIPPED", {"MONEY_ACTION_TAG_MISSING"})
<1> DEFINE post == [Fields("post_receipt") EXCEPT !.pre = 2, !.outcome = "SUCCESS"]
<1>1. /\ Manifest \in Plain /\ HeadsChain(Manifest) /\ Action \in Plain
      /\ Action.money = FALSE
  BY PlainDrafts DEF Action, Fields
<1>2. post \in Receipt /\ post.wf = 1 /\ post.edit = "none" /\ ~ post.degraded /\ IsPost(post) /\ post.pre = 2
  BY DEF Fields, Receipt, IsPost, None, NullHash
<1> HIDE DEF post
<1>3. PICK drafts : drafts = << Manifest, Action, post >>
  OBVIOUS
<1>4. /\ \A r \in Plain : r \in Receipt /\ r.wf = 1 /\ r.edit = "none" /\ ~ r.degraded /\ HasReceiptId(r)
      /\ drafts[1] = Manifest /\ drafts[2] = Action /\ drafts[3] = post /\ Len(drafts) = 3
  BY <1>3 DEF Plain, Draft
<1>5. drafts \in Seq(Receipt)
  BY <1>1, <1>2, <1>3, <1>4
<1>6. \A i \in 1 .. 3 : drafts[i].wf = 1 /\ drafts[i].edit = "none" /\ ~ drafts[i].degraded
  <2>1. \A i \in 1 .. 3 : i = 1 \/ i = 2 \/ i = 3
    OBVIOUS
  <2> QED BY <1>1, <1>2, <1>4, <2>1
<1>7. Opening(drafts)
  BY <1>1, <1>4, <1>5, <1>6 DEF Opening
<1>8. PICK rs : rs = ChainOf(drafts)
  OBVIOUS
<1>9. Places(rs) = 1 .. 3 /\ \A i \in 1 .. 3 : Alike(rs[i], drafts[i]) /\ rs[i].id = i
  BY <1>4, <1>7, <1>8, OpeningIsChained DEF Places
<1>10. /\ \A i \in Places(rs) : ~ rs[i].degraded
       /\ 2 \in Places(rs) /\ 3 \in Places(rs)
       /\ IsPost(rs[3]) /\ rs[3].pre = 2 /\ HasReceiptId(rs[2]) /\ rs[2].id = 2 /\ ~ rs[2].money
  <2>1. Alike(rs[2], Action) /\ Alike(rs[3], post) /\ HasReceiptId(Action)
    BY <1>1, <1>4, <1>9
  <2>2. IsPost(rs[3]) /\ rs[3].pre = 2 /\ HasReceiptId(rs[2]) /\ ~ rs[2].money
    BY <1>1, <1>2, <2>1 DEF Alike, IsPost, HasReceiptId
  <2> QED BY <1>6, <1>9, <2>2 DEF Alike
<1>11. Codes(DegradedState(rs) \cup MoneyActionTagMissing(rs)) = {"MONEY_ACTION_TAG_MISSING"}
  BY <1>10, UntaggedIsSaid
<1>12. /\ L3Status(rs, << >>) = "SKIPPED"
       /\ PyL3Status(rs, << >>) = PyExpected(<< >>, L3Status(rs, << >>))
  BY NoSidecarSkips
<1>13. Expecting(rs, << >>, "PASS", "PASS", L3Status(rs, << >>),
                 Codes(DegradedState(rs) \cup MoneyActionTagMissing(rs)))
  BY <1>7, <1>8, <1>12, ChainReads
<1>14. Untagged = rs
  BY <1>3, <1>8 DEF Untagged, post
<1> QED BY <1>11, <1>12, <1>13, <1>14

\* A receipt by itself.
LEMMA AloneReads ==
  ASSUME NEW r \in Receipt, ~ r.degraded, ~ IsPost(r), r.id = 1, NEW l1, NEW l2,
         r.edit # "signed" <=> l1 = "PASS",
         HeadsChain(r) /\ r.edit # "version" <=> l2 = "PASS"
  PROVE  Expecting(<< r >>, << >>, l1, l2, "SKIPPED", {})
<1>1. PICK rs : rs = << r >>
  OBVIOUS
<1>2. rs \in Seq(Receipt) /\ Len(rs) = 1 /\ rs[1] = r /\ rs # << >>
  BY <1>1
<1>3. Places(rs) = {1}
  BY <1>2 DEF Places
<1>4. Rising(rs)
  BY <1>3 DEF Rising
<1>5. (\A i \in Places(rs) : SignatureValid(rs[i])) <=> l1 = "PASS"
  BY <1>2, <1>3 DEF SignatureValid
<1>6. /\ WorkflowErrors(rs) = {} /\ GapErrors(rs) = {} /\ HashErrors(rs) = {}
      /\ 2 .. Len(rs) = {}
  BY <1>2 DEF WorkflowErrors, GapErrors, HashErrors
<1>7. (\A i \in Places(rs) : RowPasses(SortedErrors(rs), i)) <=> l2 = "PASS"
  <2>1. SortedErrors(rs) = HeadErrors(rs) \cup VersionErrors(rs) \cup SignatureErrors(rs)
    BY <1>2, <1>6 DEF SortedErrors
  <2>2. /\ \A e \in SignatureErrors(rs) : e.code = "L1_INVALID"
        /\ \A e \in HeadErrors(rs) : e.index = 1 /\ e.code # "L1_INVALID"
        /\ \A e \in VersionErrors(rs) : e.index = 1 /\ e.code # "L1_INVALID"
    BY <1>2 DEF SignatureErrors, HeadErrors, VersionErrors, Error
  <2>3. (\A i \in Places(rs) : RowPasses(SortedErrors(rs), i)) <=> HeadErrors(rs) \cup VersionErrors(rs) = {}
    BY <1>3, <2>1, <2>2 DEF RowPasses
  <2>4. HeadErrors(rs) = {} <=> HeadsChain(r)
    BY <1>2 DEF HeadErrors, HeadsChain
  <2>5. VersionErrors(rs) = {} <=> r.edit # "version"
    BY <1>2 DEF VersionErrors
  <2> QED BY <2>3, <2>4, <2>5
<1>8. PyChained(rs) <=> l2 = "PASS"
  <2>1. PyChained(rs) <=> HeadsChain(r) /\ r.edit # "version"
    BY <1>2, <1>6 DEF PyChained
  <2> QED BY <2>1
<1>9. /\ L3Status(rs, << >>) = "SKIPPED"
      /\ PyL3Status(rs, << >>) = PyExpected(<< >>, L3Status(rs, << >>))
  BY NoSidecarSkips
<1>10. Codes(DegradedState(rs) \cup MoneyActionTagMissing(rs)) = {}
  BY <1>2, <1>3, NothingToWarnOf
<1>11. Expecting(rs, << >>, l1, l2, L3Status(rs, << >>),
                 Codes(DegradedState(rs) \cup MoneyActionTagMissing(rs)))
  BY <1>2, <1>4, <1>5, <1>7, <1>8, <1>9, RisingReads
<1> QED BY <1>1, <1>9, <1>10, <1>11

\* A manifest and an action that does not follow it.
LEMMA PairDrafts ==
  ASSUME NEW seq \in Nat, NEW prev \in Nat, NEW rs, rs = ManifestAnd(seq, prev)
  PROVE  /\ rs \in Seq(Receipt) /\ Len(rs) = 2 /\ rs # << >> /\ Places(rs) = {1, 2}
         /\ rs[1].id = 1 /\ rs[1].seq = 0 /\ rs[2].seq = seq /\ rs[2].prev = prev
         /\ \A i \in Places(rs) : rs[i].edit = "none" /\ ~ rs[i].degraded /\ ~ IsPost(rs[i])
<1>1. Manifest \in Plain /\ Action \in Plain
  BY PlainDrafts
<1>2. PICK a, m : a = Action /\ m = Manifest /\ a \in Plain /\ m \in Plain
  BY <1>1
<1> DEFINE p == [m EXCEPT !.id = 1]
           q == [a EXCEPT !.id = 2, !.seq = seq, !.prev = prev]
<1>3. /\ p \in Receipt /\ p.id = 1 /\ p.seq = 0 /\ p.edit = "none" /\ ~ p.degraded /\ ~ IsPost(p)
  BY <1>2 DEF Plain, Draft, Receipt, IsPost
<1>4. /\ q \in Receipt /\ q.seq = seq /\ q.prev = prev /\ q.edit = "none" /\ ~ q.degraded /\ ~ IsPost(q)
  <2>1. a \in Receipt /\ a.edit = "none" /\ ~ a.degraded /\ ~ IsPost(a)
    BY ONLY <1>2 DEF Plain, Draft
  <2>2. PICK b : b = [a EXCEPT !.id = 2]
    OBVIOUS
  <2>3. PICK c : c = [b EXCEPT !.seq = seq]
    OBVIOUS
  <2>4. PICK d : d = [c EXCEPT !.prev = prev]
    OBVIOUS
  <2>5. b \in Receipt /\ Alike(b, a)
    BY ONLY <2>1, <2>2, 2 \in Nat, Naming
  <2>6. c \in Receipt /\ Alike(c, b) /\ c.seq = seq
    BY ONLY <2>3, <2>5, seq \in Nat, Renumbering
  <2>7. d \in Receipt /\ Alike(d, c) /\ d.seq = seq /\ d.prev = prev
    BY ONLY <2>4, <2>6, prev \in Nat, Relinking
  <2>8. q = d
    BY ONLY <2>2, <2>3, <2>4
  <2>9. d.edit = "none" /\ ~ d.degraded /\ ~ IsPost(d)
    BY ONLY <2>1, <2>5, <2>6, <2>7 DEF Alike, IsPost
  <2> QED BY ONLY <2>7, <2>8, <2>9
<1>5. rs = << p, q >>
  BY <1>2 DEF ManifestAnd
<1> HIDE DEF p, q
<1>6. rs \in Seq(Receipt) /\ Len(rs) = 2 /\ rs[1] = p /\ rs[2] = q /\ rs # << >>
  BY <1>3, <1>4, <1>5
<1>7. Places(rs) = {1, 2}
  BY <1>6 DEF Places
<1> QED BY <1>3, <1>4, <1>6, <1>7

LEMMA PairReads ==
  ASSUME NEW seq \in Nat, NEW prev \in Nat, seq > 0, seq # 1 \/ prev # 1
  PROVE  Expecting(ManifestAnd(seq, prev), << >>, "PASS", "FAIL", "SKIPPED", {})
<1>1. PICK rs : rs = ManifestAnd(seq, prev)
  OBVIOUS
<1>2. /\ rs \in Seq(Receipt) /\ Len(rs) = 2 /\ rs # << >> /\ Places(rs) = {1, 2}
      /\ rs[1].id = 1 /\ rs[1].seq = 0 /\ rs[2].seq = seq /\ rs[2].prev = prev
      /\ \A i \in Places(rs) : rs[i].edit = "none" /\ ~ rs[i].degraded /\ ~ IsPost(rs[i])
  BY <1>1, PairDrafts
<1>3. Rising(rs)
  BY <1>2 DEF Rising
<1>4. \A i \in Places(rs) : SignatureValid(rs[i])
  BY <1>2 DEF SignatureValid
<1>5. 2 \in 2 .. Len(rs) /\ 2 - 1 = 1 /\ HashAsRead(rs[1]) = 1
  <2>1. 2 .. Len(rs) = {2}
    BY <1>2
  <2> QED BY <1>2, <2>1 DEF HashAsRead, Digest
<1>6. ~ RowPasses(SortedErrors(rs), 2)
  <2>1. CASE seq # 1
    <3>1. Error(2, "INCOMPLETE_CHAIN") \in GapErrors(rs)
      BY <1>2, <1>5, <2>1 DEF GapErrors
    <3> QED BY <1>2, <3>1 DEF SortedErrors, RowPasses, Error
  <2>2. CASE prev # 1
    <3>1. Error(2, "HASH_MISMATCH") \in HashErrors(rs)
      BY <1>2, <1>5, <2>2 DEF HashErrors
    <3> QED BY <1>2, <3>1 DEF SortedErrors, RowPasses, Error
  <2> QED BY <2>1, <2>2
<1>7. ~ PyChained(rs)
  <2>1. ~ PyFollows(rs[2], rs[2-1])
    BY <1>2, <1>5 DEF PyFollows
  <2> QED BY <1>5, <2>1 DEF PyChained
<1>8. /\ L3Status(rs, << >>) = "SKIPPED"
      /\ PyL3Status(rs, << >>) = PyExpected(<< >>, L3Status(rs, << >>))
  BY NoSidecarSkips
<1>9. Codes(DegradedState(rs) \cup MoneyActionTagMissing(rs)) = {}
  BY <1>2, NothingToWarnOf
<1>10. Expecting(rs, << >>, "PASS", "FAIL", L3Status(rs, << >>),
                 Codes(DegradedState(rs) \cup MoneyActionTagMissing(rs)))
  <2>1. (\A i \in Places(rs) : SignatureValid(rs[i])) <=> "PASS" = "PASS"
    BY <1>4
  <2>2. (\A i \in Places(rs) : RowPasses(SortedErrors(rs), i)) <=> "FAIL" = "PASS"
    BY <1>2, <1>6
  <2>3. PyChained(rs) <=> "FAIL" = "PASS"
    BY <1>7
  <2> QED BY <1>2, <1>3, <1>8, <2>1, <2>2, <2>3, RisingReads
<1> QED BY <1>1, <1>8, <1>9, <1>10

\* TV-12: both have number 0, so that the order of the lines counts.
LEMMA TwinReads ==
  Expecting(ManifestAnd(0, NullHash), << >>, "PASS", "FAIL", "SKIPPED", {})
<1>1. PICK rs : rs = ManifestAnd(0, NullHash)
  OBVIOUS
<1>2. /\ rs \in Seq(Receipt) /\ Len(rs) = 2 /\ Places(rs) = {1, 2}
      /\ rs[1].seq = 0 /\ rs[2].seq = 0
      /\ \A i \in Places(rs) : rs[i].edit = "none" /\ ~ rs[i].degraded /\ ~ IsPost(rs[i])
  BY <1>1, PairDrafts DEF NullHash
<1> SUFFICES ASSUME NEW ts \in Seq(Receipt), Reordered(rs, ts)
             PROVE  Reads(ts, << >>, "PASS", "FAIL", "SKIPPED", {})
  BY <1>1 DEF Expecting
<1>3. PICK f \in Bijection(Places(rs), Places(rs)) : \A i \in Places(rs) : ts[i] = rs[f[i]]
  BY DEF Reordered
<1>4. f \in [Places(rs) -> Places(rs)]
  BY DEF Bijection, Injection
<1>5. Len(ts) = 2 /\ Places(ts) = {1, 2}
  BY <1>2 DEF Reordered, Places
<1>6. \A i \in 1 .. 2 : ts[i].seq = 0 /\ ts[i].edit = "none" /\ ~ ts[i].degraded /\ ~ IsPost(ts[i])
  <2>1. \A i \in 1 .. 2 : i \in Places(rs)
    BY <1>2
  <2>2. \A i \in Places(rs) : rs[i].seq = 0
    BY <1>2
  <2> QED BY <1>2, <1>3, <1>4, <2>1, <2>2
<1>7. PICK s, p : s = Sorted(ts) /\ p = PySorted(ts)
  OBVIOUS
<1>8. /\ s \in Seq(Receipt) /\ Len(s) = 2
      /\ \A k \in 1 .. 2 : \E i \in 1 .. 2 : s[k] = ts[i]
  <2>1. /\ Sorted(ts) \in Seq(Receipt) /\ Len(Sorted(ts)) = Len(ts)
        /\ \A k \in 1 .. Len(ts) : \E i \in 1 .. Len(ts) :
             Rank(ts, i) = k /\ Sorted(ts)[k] = ts[i]
    BY Sorting, ReceiptNumbers
  <2> QED BY ONLY <1>5, <1>7, <2>1
<1>9. /\ p \in Seq(Receipt) /\ Len(p) = 2
      /\ \A k \in 1 .. 2 : \E i \in 1 .. 2 : p[k] = ts[i]
  <2>1. /\ PySorted(ts) \in Seq(Receipt) /\ Len(PySorted(ts)) = Len(ts)
        /\ \A k \in 1 .. Len(ts) : \E i \in 1 .. Len(ts) :
             PyRank(ts, i) = k /\ PySorted(ts)[k] = ts[i]
    BY PySorting, ReceiptNumbers
  <2> QED BY ONLY <1>5, <1>7, <2>1
<1>10. 1 \in 1 .. 2 /\ 2 \in 1 .. 2 /\ 2 \in 2 .. 2 /\ 2 - 1 = 1
  OBVIOUS
<1>11. s[1].seq = 0 /\ s[2].seq = 0 /\ p[1].seq = 0 /\ p[2].seq = 0
  BY <1>6, <1>8, <1>9, <1>10
<1>12. \A i \in Places(ts) : SignatureValid(ts[i])
  BY <1>5, <1>6, <1>10 DEF SignatureValid
<1>13. ~ L2Pass(ts, 2)
  <2>1. Error(2, "INCOMPLETE_CHAIN") \in GapErrors(s)
    BY <1>8, <1>10, <1>11 DEF GapErrors
  <2>2. s # << >>
    <3>1. s \in Seq(Receipt) /\ Len(s) = 2
      BY <1>8
    <3> QED BY ONLY <3>1, EmptySeq
  <2>3. Error(2, "INCOMPLETE_CHAIN") \in ChainErrors(ts)
    BY <1>7, <2>1, <2>2 DEF ChainErrors, SortedErrors
  <2> QED BY <2>3 DEF L2Pass, RowPasses, Error
<1>14. ~ PyL2(ts)
  <2>1. ~ PyFollows(p[2], p[2-1])
    BY <1>10, <1>11 DEF PyFollows
  <2> QED BY <1>7, <1>9, <1>10, <2>1 DEF PyL2
<1>15. Codes(ChainWarnings(ts)) = {}
  <2>1. \A i \in Places(s) : ~ s[i].degraded /\ ~ IsPost(s[i])
    BY <1>6, <1>8 DEF Places
  <2> QED BY <1>7, <2>1, NothingToWarnOf DEF ChainWarnings
<1>16. 2 \in Places(ts)
  BY <1>5
<1> QED BY <1>12, <1>13, <1>14, <1>15, <1>16, NoSidecarSkips DEF Reads, L1Pass, PyL1

\* The warnings that a vector is named for.
WarnedOf(id) ==
  CASE id = "TV-20" -> {"DEGRADED_STATE"}
    [] id = "TV-21" -> {"MONEY_ACTION_TAG_MISSING"}
    [] OTHER -> {}

VectorReads(v) == Expecting(v.receipts, v.tsa, v.l1, v.l2, v.l3, WarnedOf(v.id))

LEMMA VectorIsRead ==
  ASSUME NEW id, NEW rs, NEW tsa, NEW l1, NEW l2, NEW l3, NEW warned,
         Expecting(rs, tsa, l1, l2, l3, warned), warned = WarnedOf(id)
  PROVE  VectorReads(Vector(id, rs, tsa, l1, l2, l3))
<1>1. /\ Vector(id, rs, tsa, l1, l2, l3).id = id /\ Vector(id, rs, tsa, l1, l2, l3).receipts = rs
      /\ Vector(id, rs, tsa, l1, l2, l3).tsa = tsa /\ Vector(id, rs, tsa, l1, l2, l3).l1 = l1
      /\ Vector(id, rs, tsa, l1, l2, l3).l2 = l2 /\ Vector(id, rs, tsa, l1, l2, l3).l3 = l3
  BY DEF Vector
<1> QED BY <1>1 DEF VectorReads

TvNames ==
  {"TV-01", "TV-02", "TV-03", "TV-04", "TV-05", "TV-06", "TV-07", "TV-08", "TV-09", "TV-10",
   "TV-11", "TV-12", "TV-13", "TV-14", "TV-15", "TV-16", "TV-17", "TV-18", "TV-19"}

GvNames ==
  {"GV-01", "GV-02", "GV-03", "GV-04", "GV-05", "GV-06", "GV-07", "GV-08", "GV-09",
   "GV-10", "GV-11", "GV-12", "GV-13", "GV-14", "GV-15", "GV-16", "GV-17", "GV-18"}

LEMMA MostWarnOfNothing == \A id \in TvNames \cup GvNames : WarnedOf(id) = {}
BY DEF TvNames, GvNames, WarnedOf

\* Chains that pass, without a sidecar and with one.
LEMMA PassingReads ==
  /\ Expecting(BuildValidChain, << >>, "PASS", "PASS", "SKIPPED", {})
  /\ Expecting(ChainOf(<< Manifest >>), << >>, "PASS", "PASS", "SKIPPED", {})
  /\ Expecting(ChainOf(<< Manifest, Action, Action >>), << >>, "PASS", "PASS", "SKIPPED", {})
  /\ Expecting(ChainOf(<< Manifest, Manifest >>), << >>, "PASS", "PASS", "SKIPPED", {})
  /\ \A token \in PlainTokens :
       /\ Expecting(BuildValidChain, StampedBy(BuildValidChain, "digicert", token), "PASS", "PASS", "PASS", {})
       /\ Expecting(BuildValidChain, StampedBy(BuildValidChain, "evilcorp-tsa", token), "PASS", "PASS", "FAIL", {})
  /\ Expecting(BuildValidChain, StampedBy(BuildValidChain, "digicert", "md5"), "PASS", "PASS", "FAIL", {})
  /\ Expecting(BuildValidChain, StampedBy(BuildValidChain, "digicert", "early"), "PASS", "PASS", "FAIL", {})
<1>1. Manifest \in Plain /\ Action \in Plain /\ Closed \in Plain
  BY PlainDrafts
<1>2. ASSUME NEW a \in Plain, NEW b \in Plain, NEW c \in Plain
      PROVE  /\ << a >> \in Seq(Plain) /\ Len(<< a >>) = 1 /\ << a >>[1] = a
             /\ << a, b >> \in Seq(Plain) /\ Len(<< a, b >>) = 2 /\ << a, b >>[1] = a
             /\ << a, b, c >> \in Seq(Plain) /\ Len(<< a, b, c >>) = 3 /\ << a, b, c >>[1] = a
  OBVIOUS
<1>3. /\ Expecting(ChainOf(<< Manifest >>), << >>, "PASS", "PASS", "SKIPPED", {})
      /\ Expecting(ChainOf(<< Manifest, Manifest >>), << >>, "PASS", "PASS", "SKIPPED", {})
      /\ Expecting(ChainOf(<< Manifest, Action, Action >>), << >>, "PASS", "PASS", "SKIPPED", {})
  <2>1. ASSUME NEW drafts \in Seq(Plain), Len(drafts) > 0, drafts[1] = Manifest
        PROVE  Expecting(ChainOf(drafts), << >>, "PASS", "PASS", "SKIPPED", {})
    BY <2>1, PlainReads
  <2>2. PICK one, two, three : one = << Manifest >> /\ two = << Manifest, Manifest >>
                               /\ three = << Manifest, Action, Action >>
    OBVIOUS
  <2>3. /\ one \in Seq(Plain) /\ Len(one) > 0 /\ one[1] = Manifest
        /\ two \in Seq(Plain) /\ Len(two) > 0 /\ two[1] = Manifest
        /\ three \in Seq(Plain) /\ Len(three) > 0 /\ three[1] = Manifest
    BY <1>1, <1>2, <2>2
  <2>4. /\ Expecting(ChainOf(one), << >>, "PASS", "PASS", "SKIPPED", {})
        /\ Expecting(ChainOf(two), << >>, "PASS", "PASS", "SKIPPED", {})
        /\ Expecting(ChainOf(three), << >>, "PASS", "PASS", "SKIPPED", {})
    BY <2>1, <2>3
  <2> QED BY <2>2, <2>4
<1>4. PICK drafts : drafts = << Manifest, Action, Closed >>
  OBVIOUS
<1>5. drafts \in Seq(Plain) /\ Len(drafts) > 0 /\ drafts[1] = Manifest
  BY <1>1, <1>2, <1>4
<1>6. PICK rs : rs = ChainOf(drafts)
  OBVIOUS
<1>7. /\ Expecting(rs, << >>, "PASS", "PASS", "SKIPPED", {})
      /\ Places(rs) # {}
      /\ \A name, tokens, l3 : StampedFor(rs, name, tokens, l3) =>
           Expecting(rs, StampedAs(rs, name, tokens), "PASS", "PASS", l3, {})
  BY <1>5, <1>6, PlainReads
<1>8. BuildValidChain = rs
  BY <1>4, <1>6 DEF BuildValidChain
<1>9. ASSUME NEW name \in {"digicert", "evilcorp-tsa"}, NEW token \in VectorTokens,
             NEW l3 \in {"PASS", "FAIL"}, l3 = "PASS" <=> name = "digicert" /\ token \in PlainTokens
      PROVE  Expecting(rs, StampedBy(rs, name, token), "PASS", "PASS", l3, {})
  <2>1. StampedFor(rs, name, [i \in Places(rs) |-> token], l3)
    BY <1>7, <1>9, StampedAlike
  <2> QED BY <1>7, <2>1 DEF StampedBy
<1>10. /\ PlainTokens \subseteq VectorTokens /\ "md5" \in VectorTokens /\ "early" \in VectorTokens
       /\ "md5" \notin PlainTokens /\ "early" \notin PlainTokens
  BY DEF VectorTokens, PlainTokens
<1>11. ASSUME NEW token \in PlainTokens
       PROVE  /\ Expecting(rs, StampedBy(rs, "digicert", token), "PASS", "PASS", "PASS", {})
              /\ Expecting(rs, StampedBy(rs, "evilcorp-tsa", token), "PASS", "PASS", "FAIL", {})
  BY <1>9, <1>10
<1>12. /\ Expecting(rs, StampedBy(rs, "digicert", "md5"), "PASS", "PASS", "FAIL", {})
       /\ Expecting(rs, StampedBy(rs, "digicert", "early"), "PASS", "PASS", "FAIL", {})
  BY <1>9, <1>10
<1> QED BY <1>3, <1>7, <1>8, <1>11, <1>12, Zenon

\* Receipts and pairs of receipts that something is wrong with.
LEMMA FailingReads ==
  /\ Expecting(Alone([Manifest EXCEPT !.edit = "signed"]), << >>, "FAIL", "PASS", "SKIPPED", {})
  /\ Expecting(Alone([Manifest EXCEPT !.prev = WrongHash]), << >>, "PASS", "FAIL", "SKIPPED", {})
  /\ Expecting(Alone(Action), << >>, "PASS", "FAIL", "SKIPPED", {})
  /\ Expecting(Alone([Manifest EXCEPT !.edit = "version"]), << >>, "PASS", "FAIL", "SKIPPED", {})
  /\ Expecting(ManifestAnd(2, 1), << >>, "PASS", "FAIL", "SKIPPED", {})
  /\ Expecting(ManifestAnd(1, WrongHash), << >>, "PASS", "FAIL", "SKIPPED", {})
  /\ Expecting(ManifestAnd(0, NullHash), << >>, "PASS", "FAIL", "SKIPPED", {})
<1>1. PICK m, a : m = Manifest /\ a = Action /\ m \in Plain /\ a \in Plain /\ HeadsChain(m) /\ IsAction(a)
  <2>1. IsAction(Action)
    BY DEF IsAction, Action, Fields
  <2> QED BY <2>1, PlainDrafts
<1>0. /\ m \in Receipt /\ ~ m.degraded /\ ~ IsPost(m) /\ m.edit = "none" /\ HeadsChain(m)
      /\ a \in Receipt /\ ~ a.degraded /\ ~ IsPost(a) /\ a.edit = "none" /\ IsAction(a)
  BY ONLY <1>1 DEF Plain, Draft
<1>2. Expecting(Alone([m EXCEPT !.edit = "signed"]), << >>, "FAIL", "PASS", "SKIPPED", {})
  <2> DEFINE b == [m EXCEPT !.edit = "signed"]
             r == [b EXCEPT !.id = 1]
  <2>0. /\ b \in Receipt /\ ~ b.degraded /\ ~ IsPost(b) /\ b.edit = "signed" /\ HeadsChain(b)
    BY ONLY <1>0, Editing DEF IsPost, HeadsChain
  <2> HIDE DEF b
  <2>1. /\ r \in Receipt /\ ~ r.degraded /\ ~ IsPost(r) /\ r.id = 1 /\ r.edit = "signed" /\ HeadsChain(r)
    BY ONLY <2>0, 1 \in Nat, Naming DEF Alike, IsPost, HeadsChain
  <2> HIDE DEF r
  <2>2. Expecting(<< r >>, << >>, "FAIL", "PASS", "SKIPPED", {})
    BY <2>1, AloneReads
  <2> QED BY <2>2 DEF b, r, Alone
<1>3. Expecting(Alone([m EXCEPT !.prev = WrongHash]), << >>, "PASS", "FAIL", "SKIPPED", {})
  <2> DEFINE b == [m EXCEPT !.prev = WrongHash]
             r == [b EXCEPT !.id = 1]
  <2>0. b \in Receipt /\ Alike(b, m) /\ b.prev = 99
    <3>1. WrongHash = 99 /\ WrongHash \in Nat
      BY DEF WrongHash
    <3> QED BY ONLY <1>0, <3>1, Relinking
  <2> HIDE DEF b
  <2>1. r \in Receipt /\ Alike(r, b) /\ r.prev = 99 /\ r.id = 1
    BY ONLY <2>0, 1 \in Nat, Naming
  <2> HIDE DEF r
  <2>2. ~ r.degraded /\ ~ IsPost(r) /\ r.edit = "none" /\ ~ HeadsChain(r)
    BY ONLY <1>0, <2>0, <2>1 DEF Alike, IsPost, HeadsChain, NullHash
  <2>3. Expecting(<< r >>, << >>, "PASS", "FAIL", "SKIPPED", {})
    BY <2>1, <2>2, AloneReads
  <2> QED BY <2>3 DEF b, r, Alone
<1>4. Expecting(Alone(a), << >>, "PASS", "FAIL", "SKIPPED", {})
  <2> DEFINE r == [a EXCEPT !.id = 1]
  <2>1. /\ r \in Receipt /\ ~ r.degraded /\ ~ IsPost(r) /\ r.id = 1 /\ r.edit = "none" /\ ~ HeadsChain(r)
    BY ONLY <1>0, 1 \in Nat, Naming DEF Alike, IsPost, IsAction, HeadsChain
  <2> HIDE DEF r
  <2>2. Expecting(<< r >>, << >>, "PASS", "FAIL", "SKIPPED", {})
    BY <2>1, AloneReads
  <2> QED BY <2>2 DEF r, Alone
<1>5. Expecting(Alone([m EXCEPT !.edit = "version"]), << >>, "PASS", "FAIL", "SKIPPED", {})
  <2> DEFINE b == [m EXCEPT !.edit = "version"]
             r == [b EXCEPT !.id = 1]
  <2>0. b \in Receipt /\ ~ b.degraded /\ ~ IsPost(b) /\ b.edit = "version"
    BY ONLY <1>0, Editing DEF IsPost
  <2> HIDE DEF b
  <2>1. /\ r \in Receipt /\ ~ r.degraded /\ ~ IsPost(r) /\ r.id = 1 /\ r.edit = "version"
    BY ONLY <2>0, 1 \in Nat, Naming DEF Alike, IsPost
  <2> HIDE DEF r
  <2>2. Expecting(<< r >>, << >>, "PASS", "FAIL", "SKIPPED", {})
    BY <2>1, AloneReads
  <2> QED BY <2>2 DEF b, r, Alone
<1>6. /\ Expecting(ManifestAnd(2, 1), << >>, "PASS", "FAIL", "SKIPPED", {})
      /\ Expecting(ManifestAnd(1, WrongHash), << >>, "PASS", "FAIL", "SKIPPED", {})
  BY PairReads DEF WrongHash
<1> QED BY <1>1, <1>2, <1>3, <1>4, <1>5, <1>6, TwinReads

LEMMA ChainVectorsAreRead == \A v \in ChainVectors : VectorReads(v) /\ v.id \in TvNames
<1>1. ASSUME NEW id \in TvNames, NEW rs, NEW tsa, NEW l1, NEW l2, NEW l3, Expecting(rs, tsa, l1, l2, l3, {})
      PROVE  VectorReads(Vector(id, rs, tsa, l1, l2, l3)) /\ Vector(id, rs, tsa, l1, l2, l3).id \in TvNames
  <2>1. Vector(id, rs, tsa, l1, l2, l3).id = id
    BY DEF Vector
  <2> QED BY <1>1, <2>1, VectorIsRead, MostWarnOfNothing
<1>2. /\ "TV-01" \in TvNames /\ "TV-02" \in TvNames /\ "TV-03" \in TvNames /\ "TV-04" \in TvNames
      /\ "TV-05" \in TvNames /\ "TV-06" \in TvNames /\ "TV-07" \in TvNames /\ "TV-08" \in TvNames
      /\ "TV-09" \in TvNames /\ "TV-10" \in TvNames /\ "TV-11" \in TvNames /\ "TV-12" \in TvNames
  BY DEF TvNames
<1> HIDE DEF TvNames
<1> QED BY <1>1, <1>2, PassingReads, FailingReads DEF ChainVectors

LEMMA TimestampVectorsAreRead == \A v \in TimestampVectors : VectorReads(v)
<1>1. ASSUME NEW id \in TvNames, NEW rs, NEW tsa, NEW l1, NEW l2, NEW l3, Expecting(rs, tsa, l1, l2, l3, {})
      PROVE  VectorReads(Vector(id, rs, tsa, l1, l2, l3))
  BY <1>1, VectorIsRead, MostWarnOfNothing
<1>2. /\ "TV-13" \in TvNames /\ "TV-14" \in TvNames /\ "TV-15" \in TvNames /\ "TV-16" \in TvNames
      /\ "TV-17" \in TvNames /\ "TV-18" \in TvNames /\ "TV-19" \in TvNames
  BY DEF TvNames
<1>3. VectorReads(Vector("TV-20", Degraded, << >>, "PASS", "PASS", "SKIPPED"))
  <2>1. {"DEGRADED_STATE"} = WarnedOf("TV-20")
    BY DEF WarnedOf
  <2> QED BY <2>1, DegradedReads, VectorIsRead
<1>4. VectorReads(Vector("TV-21", Untagged, << >>, "PASS", "PASS", "SKIPPED"))
  <2>1. {"MONEY_ACTION_TAG_MISSING"} = WarnedOf("TV-21")
    BY DEF WarnedOf
  <2> QED BY <2>1, UntaggedReads, VectorIsRead
<1> HIDE DEF TvNames
<1>5. ASSUME NEW token \in PlainTokens
      PROVE  VectorReads(TV13(token)) /\ VectorReads(TV14(token)) /\ VectorReads(TV16(token))
  <2>1. /\ Expecting(BuildValidChain, StampedBy(BuildValidChain, "digicert", token), "PASS", "PASS", "PASS", {})
        /\ Expecting(BuildValidChain, StampedBy(BuildValidChain, "evilcorp-tsa", token), "PASS", "PASS", "FAIL", {})
    BY PassingReads
  <2> QED BY ONLY <1>1, <1>2, <2>1 DEF TV13, TV14, TV16
<1>6. \A token \in PlainTokens : VectorReads(TV13(token)) /\ VectorReads(TV14(token)) /\ VectorReads(TV16(token))
  BY <1>5
<1>7. /\ VectorReads(Vector("TV-15", Alone(Action), << >>, "PASS", "FAIL", "SKIPPED"))
      /\ VectorReads(Vector("TV-17", BuildValidChain, StampedBy(BuildValidChain, "digicert", "md5"), "PASS", "PASS", "FAIL"))
      /\ VectorReads(Vector("TV-18", BuildValidChain, StampedBy(BuildValidChain, "digicert", "early"), "PASS", "PASS", "FAIL"))
      /\ VectorReads(Vector("TV-19", Alone([Manifest EXCEPT !.edit = "version"]), << >>, "PASS", "FAIL", "SKIPPED"))
  BY <1>1, <1>2, PassingReads, FailingReads
<1> QED BY ONLY <1>3, <1>4, <1>6, <1>7 DEF TimestampVectors

\* A golden vector reads as it says, and its chain is complete.
GoldenHolds(v) ==
  /\ VectorReads(v)
  /\ \A ts \in Seq(Receipt) : Reordered(v.receipts, ts) => ChainComplete(ts)

LEMMA GoldenVectorsHold == \A v \in GoldenVectors : GoldenHolds(v)
<1>1. ASSUME NEW id \in GvNames, NEW calls \in Seq(Plain) PROVE GoldenHolds(Golden(id, calls))
  <2>1. PICK rs : rs = GoldenChain(calls)
    OBVIOUS
  <2>2. /\ Expecting(rs, << >>, "PASS", "PASS", "SKIPPED", {})
        /\ \A ts \in Seq(Receipt) : Reordered(rs, ts) => ChainComplete(ts)
    BY <2>1, GoldenReads
  <2>3. Golden(id, calls) = Vector(id, rs, << >>, "PASS", "PASS", "SKIPPED")
    BY <2>1 DEF Golden
  <2>4. VectorReads(Golden(id, calls))
    BY <2>2, <2>3, VectorIsRead, MostWarnOfNothing
  <2>5. Golden(id, calls).receipts = rs
    BY <2>3 DEF Vector
  <2> QED BY <2>2, <2>4, <2>5 DEF GoldenHolds
<1>2. ASSUME NEW tokens \in [1 .. 3 -> PlainTokens] PROVE GoldenHolds(GV17(tokens))
  <2>1. PICK rs : rs = GV17Chain
    OBVIOUS
  <2>2. << AllowedCall >> \in Seq(Plain)
    BY PlainDrafts
  <2>3. /\ \A name, ts, l3 : StampedFor(rs, name, ts, l3) =>
             Expecting(rs, StampedAs(rs, name, ts), "PASS", "PASS", l3, {})
        /\ \A ts \in Seq(Receipt) : Reordered(rs, ts) => ChainComplete(ts)
    BY <2>1, <2>2, GoldenReads DEF GV17Chain
  <2>4. StampedFor(rs, "digicert", tokens, "PASS")
    <3>1. Places(rs) = 1 .. 3
      BY <2>1, GV17Length DEF Places
    <3>2. PlainTokens \subseteq VectorTokens
      BY DEF VectorTokens
    <3> QED BY <3>1, <3>2 DEF StampedFor
  <2>5. PICK tsa : tsa = StampedAs(rs, "digicert", tokens)
    OBVIOUS
  <2>6. Expecting(rs, tsa, "PASS", "PASS", "PASS", {})
    BY <2>3, <2>4, <2>5
  <2>7. GV17(tokens) = Vector("GV-17", rs, tsa, "PASS", "PASS", "PASS")
    BY <2>1, <2>5 DEF GV17
  <2>8. VectorReads(GV17(tokens))
    <3>1. "GV-17" \in GvNames
      BY DEF GvNames
    <3> QED BY <2>6, <2>7, <3>1, VectorIsRead, MostWarnOfNothing
  <2>9. GV17(tokens).receipts = rs
    BY <2>7 DEF Vector
  <2> QED BY <2>3, <2>8, <2>9 DEF GoldenHolds
<1>3. /\ "GV-01" \in GvNames /\ "GV-02" \in GvNames /\ "GV-03" \in GvNames /\ "GV-04" \in GvNames
      /\ "GV-05" \in GvNames /\ "GV-06" \in GvNames /\ "GV-07" \in GvNames /\ "GV-08" \in GvNames
      /\ "GV-09" \in GvNames /\ "GV-10" \in GvNames /\ "GV-11" \in GvNames /\ "GV-12" \in GvNames
      /\ "GV-13" \in GvNames /\ "GV-14" \in GvNames /\ "GV-15" \in GvNames /\ "GV-16" \in GvNames
      /\ "GV-18" \in GvNames
  BY DEF GvNames
<1>4. ASSUME NEW a \in Plain, NEW b \in Plain, NEW c \in Plain
      PROVE  /\ << >> \in Seq(Plain) /\ << a >> \in Seq(Plain)
             /\ << a, b >> \in Seq(Plain) /\ << a, b, c >> \in Seq(Plain)
  OBVIOUS
<1>5. /\ << >> \in Seq(Plain)
      /\ << AllowedCall >> \in Seq(Plain) /\ << BlockedCall >> \in Seq(Plain)
      /\ << Call("STEP_UP", "no") >> \in Seq(Plain) /\ << Call("FAIL_OPEN", "yes") >> \in Seq(Plain)
      /\ << AllowedCall, DeadCall("no") >> \in Seq(Plain) /\ << DeadCall("yes") >> \in Seq(Plain)
      /\ << Call("ALLOW", "untracked") >> \in Seq(Plain)
      /\ << AllowedCall, AllowedCall, AllowedCall >> \in Seq(Plain)
  BY ONLY <1>4, PlainDrafts
<1> HIDE DEF GvNames
<1>6. /\ GoldenHolds(GV01) /\ GoldenHolds(GV02) /\ GoldenHolds(GV03) /\ GoldenHolds(GV04)
      /\ GoldenHolds(GV05) /\ GoldenHolds(GV06) /\ GoldenHolds(GV07) /\ GoldenHolds(GV08)
      /\ GoldenHolds(GV09)
  BY ONLY <1>1, <1>3, <1>5 DEF GV01, GV02, GV03, GV04, GV05, GV06, GV07, GV08, GV09
<1>7. /\ GoldenHolds(GV10) /\ GoldenHolds(GV11) /\ GoldenHolds(GV12) /\ GoldenHolds(GV13)
      /\ GoldenHolds(GV14) /\ GoldenHolds(GV15) /\ GoldenHolds(GV16) /\ GoldenHolds(GV18)
  BY ONLY <1>1, <1>3, <1>5 DEF GV10, GV11, GV12, GV13, GV14, GV15, GV16, GV18
<1> QED BY ONLY <1>2, <1>6, <1>7 DEF GoldenVectors

\* Every published vector gives what it expects, in any order of its lines,
\* from both verifiers, but for the genTime that Python misreads: TV-01 to TV-21
\* of generate-test-vectors.ts and GV-01 to GV-18 of generate-golden-vectors.ts
\* against verifySignature, verifyChain, verifyTimestamps and python-verifier,
\* whose L3 fails TV-13, TV-16 and GV-17 if it misreads one of their tokens.
THEOREM VectorsHold == EvidenceSpec => []VectorsAsExpected
<1>1. ASSUME EvidenceInv, vector # NoVector
      PROVE  /\ Reads(evidence, sidecar, vector.l1, vector.l2, vector.l3, WarnedOf(vector.id))
             /\ vector \in GoldenVectors => ChainComplete(evidence)
  <2>1. /\ vector \in Vectors /\ sidecar = vector.tsa
        /\ evidence \in Seq(Receipt) /\ Reordered(vector.receipts, evidence)
    BY <1>1 DEF EvidenceInv, EvidenceTypeOK
  <2>2. VectorReads(vector)
    BY <2>1, ChainVectorsAreRead, TimestampVectorsAreRead, GoldenVectorsHold DEF Vectors, GoldenHolds
  <2>3. vector \in GoldenVectors => ChainComplete(evidence)
    BY <2>1, GoldenVectorsHold DEF GoldenHolds
  <2> QED BY <2>1, <2>2, <2>3 DEF VectorReads, Expecting
<1>2. EvidenceInv => VectorsAsExpected
  BY <1>1, Zenon DEF VectorsAsExpected, Reads, WarnedOf, Codes
<1> QED BY <1>2, EvidenceInvariant, PTL

=============================================================================
