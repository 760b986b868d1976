-------------------------- MODULE ReceiptFileProofs --------------------------
(***************************************************************************)
(* Proofs about module ReceiptFile: for any number of processes, receipts, *)
(* short writes and things that happen to the copy.                        *)
(***************************************************************************)
EXTENDS ReceiptFile, ChainVerifierProofs

Chain == Seq(ReceiptKind) \ {<< >>}

\* FileTypeOK, and that `sent` is a sequence of chains.
FileTypes ==
  /\ sent \in Seq(Chain) /\ (up => sent # << >>)
  /\ lines \in Seq(ReceiptKind)
  /\ rest \in {Nothing, Fragment} \cup {Whole(r) : r \in ReceiptKind}
  /\ up \in BOOLEAN
  /\ copy = NoCopy \/ copy \in Seq(ReceiptKind)
  /\ nextId \in Nat \ {0} /\ short \in Nat /\ damage \in Nat

Sessions == 1 .. Len(sent)

\* A session's receipts are numbered and linked, and name its manifest; only
\* the last may close the workflow.
SessionChained(chain) ==
  /\ HeadsChain(chain[1])
  /\ \A k \in 1 .. Len(chain) :
       /\ chain[k].seq = k - 1 /\ chain[k].wf = chain[1].id /\ chain[k].edit = "none"
       /\ chain[k].type = "workflow_closed" => k = Len(chain)
  /\ \A k \in 2 .. Len(chain) : chain[k].prev = Digest(chain[k-1])

\* No two sessions have one manifest.
SessionsApart ==
  /\ \A s \in Sessions : SessionChained(sent[s]) /\ sent[s][1].id < nextId
  /\ \A s, t \in Sessions : sent[s][1].id = sent[t][1].id => s = t

\* The receipts that were handed to the writer, as they are.
Issued == UNION {{sent[s][k] : k \in 1 .. Len(sent[s])} : s \in Sessions}

\* What is in the file was issued, and so was what is in the copy, but for its
\* stamps, if no signed field of it was edited.
OnlyIssued ==
  /\ \A i \in 1 .. Len(lines) : lines[i] \in Issued
  /\ rest.kind = "whole" => rest.receipt \in Issued
  /\ copy # NoCopy =>
       \A i \in 1 .. Len(copy) : copy[i].edit # "signed" => [copy[i] EXCEPT !.edit = "none"] \in Issued

Rising(rs) == \A i, j \in 1 .. Len(rs) : i < j => rs[i].seq < rs[j].seq

\* The file of one session has its receipts in their order.
FileRises ==
  /\ sent = << >> => lines = << >> /\ rest = Nothing
  /\ Len(sent) = 1 => Rising(ReadReceipts)

\* As long as no write was short without notice, it has all of them, or the
\* process died while it wrote the last.
FileCurrent ==
  Len(sent) = 1 /\ short = 0 =>
    \/ lines = sent[1] /\ rest = Nothing
    \/ ~ up /\ Append(lines, PrevReceipt) = sent[1]
         /\ rest \in {Nothing, Fragment, Whole(PrevReceipt)}

-----------------------------------------------------------------------------
(* What a step does to the file *)

\* Writes without its disjunctions: the line is appended, or it is glued to a
\* rest and lost, or a part of it becomes the rest.
LEMMA WritesCases ==
  ASSUME NEW r, Writes(r)
  PROVE  \/ /\ rest = Nothing /\ lines' = Append(lines, r) /\ rest' = Nothing
            /\ up' = TRUE /\ short' = short
         \/ /\ rest # Nothing /\ lines' = lines /\ rest' = Nothing
            /\ up' = TRUE /\ short' = short
         \/ /\ lines' = lines
            /\ rest' = Fragment \/ (rest = Nothing /\ rest' = Whole(r))
            /\ \/ up' = TRUE /\ short' = short + 1
               \/ up' = FALSE /\ short' = short
<1>1. CASE up' = TRUE /\ WriteLine(r)
  BY <1>1 DEF WriteLine
<1>2. CASE up' = TRUE /\ WriteShort(r)
  BY <1>2 DEF WriteShort, WritePart
<1>3. CASE up' = FALSE /\ WritePart(r) /\ UNCHANGED short
  BY <1>3 DEF WritePart
<1> QED BY <1>1, <1>2, <1>3 DEF Writes

\* Start and Emit in one form: the receipt r is handed to the writer, at the
\* head of a new session or behind the last receipt of the present one.
Begins(r) ==
  /\ sent' = Append(sent, <<r>>) /\ ~ up
  /\ HeadsChain(r) /\ r.wf = r.id /\ r.id = nextId

Continues(r) ==
  /\ sent # << >> /\ Sends(r) /\ up
  /\ r.wf = PrevReceipt.wf /\ r.seq = PrevReceipt.seq + 1 /\ r.prev = Digest(PrevReceipt)
  /\ PrevReceipt.type # "workflow_closed"

Hands(r) ==
  /\ r \in ReceiptKind /\ r.edit = "none" /\ Writes(r)
  /\ nextId' = nextId + 1 /\ copy' = copy /\ damage' = damage
  /\ Begins(r) \/ Continues(r)

LEMMA PrevIsReceipt ==
  ASSUME FileTypes, sent # << >>
  PROVE  /\ Len(sent) \in Nat \ {0} /\ Current \in Chain
         /\ Len(Current) \in Nat \ {0} /\ PrevReceipt \in ReceiptKind
<1>1. Len(sent) \in Nat \ {0}
  BY EmptySeq DEF FileTypes
<1>2. Current \in Chain
  BY <1>1, ElementOfSeq DEF FileTypes, Current
<1>3. Len(Current) \in Nat \ {0}
  BY <1>2, EmptySeq DEF Chain
<1>4. PrevReceipt \in ReceiptKind
  BY <1>2, <1>3, ElementOfSeq DEF Chain, PrevReceipt
<1> QED BY <1>1, <1>2, <1>3, <1>4

LEMMA StartHands ==
  ASSUME FileTypes, Start
  PROVE  \E r \in ReceiptKind : Hands(r) /\ copy = NoCopy
<1> DEFINE r == FileReceipt("workflow_manifest", nextId)
<1>1. r \in ReceiptKind /\ r.edit = "none" /\ HeadsChain(r) /\ r.wf = r.id /\ r.id = nextId
  BY DEF FileReceipt, ReceiptKind, FileTypes, HeadsChain, NullHash
<1>2. /\ sent' = Append(sent, <<r>>) /\ Writes(r) /\ ~ up /\ copy = NoCopy
      /\ nextId' = nextId + 1 /\ copy' = copy /\ damage' = damage
  BY DEF Start
<1> HIDE DEF r
<1> QED BY <1>1, <1>2 DEF Hands, Begins

LEMMA EmitHands ==
  ASSUME FileTypes, NEW type \in {"action_receipt", "workflow_closed"}, Emit(type)
  PROVE  \E r \in ReceiptKind : Hands(r) /\ copy = NoCopy
<1> DEFINE r == NextReceipt(type)
           p == PrevReceipt
<1>1. sent # << >>
  BY DEF Emit, FileTypes
<1>2. p \in ReceiptKind
  BY <1>1, PrevIsReceipt
<1>3. /\ r \in ReceiptKind /\ r.edit = "none"
      /\ r.wf = p.wf /\ r.seq = p.seq + 1 /\ r.prev = Digest(p)
  <2> DEFINE u == FileReceipt(type, p.wf)
             v == [u EXCEPT !.prev = p.id]
  <2>1. u \in ReceiptKind /\ u.wf = p.wf /\ u.edit = "none"
    BY <1>2 DEF FileReceipt, NullHash, ReceiptKind, FileTypes
  <2>2. r = [v EXCEPT !.seq = p.seq + 1]
    BY DEF NextReceipt, ChainReceipt, Digest
  <2> HIDE DEF u, r, p
  <2>3. v \in ReceiptKind /\ v.wf = u.wf /\ v.edit = u.edit /\ v.prev = p.id
    BY <1>2, <2>1 DEF ReceiptKind
  <2> HIDE DEF v
  <2> QED BY <1>2, <2>1, <2>2, <2>3 DEF ReceiptKind, Digest
<1>4. /\ Sends(r) /\ Writes(r) /\ up /\ copy = NoCopy /\ p.type # "workflow_closed"
      /\ nextId' = nextId + 1 /\ copy' = copy /\ damage' = damage
  BY DEF Emit
<1> HIDE DEF r, p
<1> QED BY <1>1, <1>3, <1>4 DEF Hands, Continues, p

\* What may become of the lines of the copy: they are kept, edited in a signed
\* field, or stamped.
LEMMA DamageCases ==
  ASSUME FileTypes, Damage, copy \in Seq(ReceiptKind)
  PROVE  /\ copy' \in Seq(ReceiptKind)
         /\ \A i \in 1 .. Len(copy') : \E j \in 1 .. Len(copy) :
              \/ copy'[i] = copy[j]
              \/ copy'[i].edit = "signed"
              \/ copy[j].edit = "none" /\ copy'[i] = [copy[j] EXCEPT !.edit = "unsigned"]
         /\ damage' = damage + 1
         /\ UNCHANGED <<sent, lines, rest, up, nextId, short>>
<1> DEFINE n == Len(copy)
<1>1. n \in Nat /\ \A i \in 1 .. n : copy[i] \in ReceiptKind
  BY LenProperties, ElementOfSeq
<1>2. PICK i \in 1 .. n :
        \/ Lose(i)
        \/ \E j \in 1 .. n : Reorder(i, j)
        \/ Repeat(i)
        \/ \E seq \in 0 .. MaxReceipts - 1 : EditSigned(i, seq)
        \/ EditUnsigned(i)
  BY DEF Damage
<1>3. damage' = damage + 1 /\ UNCHANGED <<sent, lines, rest, up, nextId, short>>
  BY <1>2 DEF Lose, Reorder, Repeat, EditSigned, EditUnsigned, Happens
<1>4. CASE Lose(i)
  <2>1. copy' = RemoveAt(copy, i)
    BY <1>4 DEF Lose, Happens
  <2>2. /\ copy' \in Seq(ReceiptKind) /\ Len(copy') = n - 1
        /\ \A k \in 1 .. n - 1 : copy'[k] = copy[IF k < i THEN k ELSE k + 1]
    <3> DEFINE a == SubSeq(copy, 1, i - 1)
               b == SubSeq(copy, i + 1, n)
    <3>1. a \in Seq(ReceiptKind) /\ Len(a) = i - 1 /\ \A k \in 1 .. i - 1 : a[k] = copy[k]
      <4>1. \A k \in 1 .. i - 1 : copy[k] \in ReceiptKind
        BY <1>1
      <4>2. /\ a \in Seq(ReceiptKind) /\ Len(a) = IF 1 <= i - 1 THEN (i - 1) - 1 + 1 ELSE 0
            /\ \A k \in 1 .. (i - 1) - 1 + 1 : a[k] = copy[1 + k - 1]
        BY <1>1, <4>1, SubSeqProperties
      <4> HIDE DEF a
      <4> QED BY <1>1, <4>2
    <3>2. b \in Seq(ReceiptKind) /\ Len(b) = n - i /\ \A k \in 1 .. n - i : b[k] = copy[i + k]
      <4>1. \A k \in i + 1 .. n : copy[k] \in ReceiptKind
        BY <1>1
      <4>2. /\ b \in Seq(ReceiptKind) /\ Len(b) = IF i + 1 <= n THEN n - (i + 1) + 1 ELSE 0
            /\ \A k \in 1 .. n - (i + 1) + 1 : b[k] = copy[(i + 1) + k - 1]
        BY <1>1, <4>1, SubSeqProperties
      <4> HIDE DEF b
      <4> QED BY <1>1, <4>2
    <3>3. copy' = a \o b
      BY <2>1 DEF RemoveAt
    <3> HIDE DEF a, b
    <3>4. /\ copy' \in Seq(ReceiptKind) /\ Len(copy') = Len(a) + Len(b)
          /\ \A k \in 1 .. Len(a) + Len(b) :
               copy'[k] = IF k <= Len(a) THEN a[k] ELSE b[k - Len(a)]
      BY <3>1, <3>2, <3>3, ConcatProperties
    <3>5. Len(a) + Len(b) = n - 1
      BY <1>1, <3>1, <3>2
    <3>6. ASSUME NEW k \in 1 .. n - 1 PROVE copy'[k] = copy[IF k < i THEN k ELSE k + 1]
      <4>1. CASE k < i
        BY <1>1, <3>1, <3>4, <3>5, <4>1
      <4>2. CASE ~ (k < i)
        <5>1. k - Len(a) \in 1 .. n - i /\ i + (k - Len(a)) = k + 1 /\ ~ (k <= Len(a))
          BY <1>1, <3>1, <4>2
        <5>2. copy'[k] = b[k - Len(a)]
          BY <3>4, <3>5, <5>1
        <5> QED BY <3>2, <4>2, <5>1, <5>2
      <4> QED BY <4>1, <4>2
    <3> QED BY <3>4, <3>5, <3>6
  <2>3. \A k \in 1 .. Len(copy') : \E j \in 1 .. n : copy'[k] = copy[j]
    BY <1>1, <2>2
  <2> QED BY <1>3, <2>2, <2>3
<1>5. CASE \E j \in 1 .. n : Reorder(i, j)
  <2>1. PICK j \in 1 .. n : copy' = [copy EXCEPT ![i] = copy[j], ![j] = copy[i]]
    BY <1>5 DEF Reorder, Happens
  <2>2. copy' \in Seq(ReceiptKind) /\ Len(copy') = n
    BY <1>1, <2>1, ExceptSeq
  <2>3. \A k \in 1 .. n : \E m \in 1 .. n : copy'[k] = copy[m]
    BY <1>1, <2>1
  <2> QED BY <1>3, <2>2, <2>3
<1>6. CASE Repeat(i)
  <2>1. copy' = Append(copy, copy[i])
    BY <1>6 DEF Repeat, Happens
  <2>2. /\ copy' \in Seq(ReceiptKind) /\ Len(copy') = n + 1
        /\ \A k \in 1 .. n : copy'[k] = copy[k]
        /\ copy'[n + 1] = copy[i]
    BY <1>1, <2>1, AppendProperties
  <2>3. \A k \in 1 .. Len(copy') : \E j \in 1 .. n : copy'[k] = copy[j]
    BY <1>1, <2>2
  <2> QED BY <1>3, <2>2, <2>3
<1>7. CASE \E seq \in 0 .. MaxReceipts - 1 : EditSigned(i, seq)
  <2>1. PICK seq \in 0 .. MaxReceipts - 1 :
          copy' = [copy EXCEPT ![i] = [@ EXCEPT !.edit = "signed", !.seq = seq]]
    BY <1>7 DEF EditSigned, Happens
  <2> DEFINE e == [copy[i] EXCEPT !.edit = "signed", !.seq = seq]
  <2>2. e \in ReceiptKind /\ e.edit = "signed"
    <3>1. copy[i] \in ReceiptKind
      BY <1>1
    <3>2. seq \in Nat
      OBVIOUS
    <3> QED BY <3>1, <3>2 DEF ReceiptKind
  <2>3. copy' = [copy EXCEPT ![i] = e]
    BY <2>1
  <2> HIDE DEF e
  <2>4. /\ copy' \in Seq(ReceiptKind) /\ Len(copy') = n
        /\ \A k \in 1 .. n : copy'[k] = IF k = i THEN e ELSE copy[k]
    BY <2>2, <2>3, ExceptSeq
  <2>5. \A k \in 1 .. n : copy'[k] = copy[k] \/ copy'[k].edit = "signed"
    BY <2>2, <2>4
  <2> QED BY <1>3, <2>4, <2>5
<1>8. CASE EditUnsigned(i)
  <2> DEFINE e == [copy[i] EXCEPT !.edit = "unsigned"]
  <2>1. copy[i].edit = "none" /\ copy' = [copy EXCEPT ![i] = e]
    BY <1>8 DEF EditUnsigned, Happens
  <2>2. e \in ReceiptKind
    BY <1>1 DEF ReceiptKind
  <2> HIDE DEF e
  <2>3. /\ copy' \in Seq(ReceiptKind) /\ Len(copy') = n
        /\ \A k \in 1 .. n : copy'[k] = IF k = i THEN e ELSE copy[k]
    BY <2>1, <2>2, ExceptSeq
  <2>4. \A k \in 1 .. n :
          copy'[k] = copy[k] \/ (copy[k].edit = "none" /\ copy'[k] = [copy[k] EXCEPT !.edit = "unsigned"])
    BY <2>1, <2>3 DEF e
  <2> QED BY <1>3, <2>3, <2>4
<1> QED BY <1>2, <1>4, <1>5, <1>6, <1>7, <1>8

\* What becomes of the sessions.
LEMMA BeginsSent ==
  ASSUME FileTypes, NEW r \in ReceiptKind, Begins(r)
  PROVE  /\ sent' \in Seq(Chain) /\ sent' # << >> /\ Len(sent') = Len(sent) + 1
         /\ \A s \in Sessions : sent'[s] = sent[s]
         /\ sent'[Len(sent) + 1] = <<r>>
<1>1. <<r>> \in Chain
  BY DEF Chain
<1>2. sent \in Seq(Chain) /\ sent' = Append(sent, <<r>>)
  BY DEF FileTypes, Begins
<1> QED BY <1>1, <1>2, AppendProperties DEF Sessions

LEMMA ContinuesSent ==
  ASSUME FileTypes, NEW r \in ReceiptKind, Continues(r)
  PROVE  /\ sent' \in Seq(Chain) /\ sent' # << >> /\ Len(sent') = Len(sent)
         /\ Len(sent) \in Sessions
         /\ \A s \in Sessions : s # Len(sent) => sent'[s] = sent[s]
         /\ sent'[Len(sent)] = Append(Current, r)
<1> DEFINE n == Len(sent)
           c == Append(Current, r)
<1>1. sent \in Seq(Chain) /\ n \in Nat \ {0} /\ Current \in Chain
  BY PrevIsReceipt DEF FileTypes, Continues
<1>2. c \in Chain
  BY <1>1, AppendProperties DEF Chain
<1>3. sent' = [sent EXCEPT ![n] = c]
  BY DEF Continues, Sends, Current
<1>4. n \in 1 .. n
  BY <1>1
<1> HIDE DEF c
<1>5. /\ sent' \in Seq(Chain) /\ Len(sent') = n
      /\ \A s \in 1 .. n : sent'[s] = IF s = n THEN c ELSE sent[s]
  BY <1>1, <1>2, <1>3, <1>4, ExceptSeq
<1>6. sent'[n] = c /\ \A s \in 1 .. n : s # n => sent'[s] = sent[s]
  BY <1>4, <1>5
<1>7. sent' # << >>
  BY <1>1, <1>5
<1> QED BY <1>4, <1>5, <1>6, <1>7 DEF Sessions, c

LEMMA ReadIsReceipts ==
  ASSUME FileTypes
  PROVE  /\ ReadReceipts \in Seq(ReceiptKind)
         /\ \A i \in 1 .. Len(ReadReceipts) :
              \/ i \in 1 .. Len(lines) /\ ReadReceipts[i] = lines[i]
              \/ i = Len(lines) + 1 /\ rest.kind = "whole" /\ ReadReceipts[i] = rest.receipt
<1>1. CASE rest.kind = "whole"
  <2>1. rest.receipt \in ReceiptKind
    BY <1>1 DEF FileTypes, Nothing, Fragment, Whole
  <2>2. lines \in Seq(ReceiptKind) /\ ReadReceipts = Append(lines, rest.receipt)
    BY <1>1 DEF FileTypes, ReadReceipts
  <2> QED BY <1>1, <2>1, <2>2, AppendProperties, LenProperties
<1>2. CASE rest.kind # "whole"
  BY <1>2 DEF FileTypes, ReadReceipts
<1> QED BY <1>1, <1>2

\* Stop and Repair in one form: the process is down, a fragment may be cut off.
Rests ==
  /\ up' = FALSE /\ (rest' = rest \/ (rest = Fragment /\ rest' = Nothing))
  /\ UNCHANGED <<sent, lines, copy, nextId, short, damage>>

\* Every step is one of five.
LEMMA StepCases ==
  ASSUME FileTypes, [FileNext]_fileVars
  PROVE  \/ \E r \in ReceiptKind : Hands(r) /\ copy = NoCopy
         \/ Rests
         \/ Export
         \/ Damage
         \/ UNCHANGED fileVars
<1>1. CASE Start
  BY <1>1, StartHands
<1>2. CASE \E type \in {"action_receipt", "workflow_closed"} : Emit(type)
  BY <1>2, EmitHands
<1>3. CASE Stop
  BY <1>3 DEF Stop, Rests
<1>4. CASE Repair
  BY <1>4 DEF Repair, Rests, FileTypes
<1> QED BY <1>1, <1>2, <1>3, <1>4 DEF FileNext, Write

-----------------------------------------------------------------------------
(* Types *)

LEMMA FileTypesInit == FileInit => FileTypes
<1>1. << >> \in Seq(Chain) /\ << >> \in Seq(ReceiptKind)
  OBVIOUS
<1>2. rest = Nothing => rest \in {Nothing, Fragment} \cup {Whole(r) : r \in ReceiptKind}
  OBVIOUS
<1>3. up = FALSE => up \in BOOLEAN /\ (up => sent # << >>)
  OBVIOUS
<1>4. 1 \in Nat \ {0} /\ 0 \in Nat
  OBVIOUS
<1> QED BY <1>1, <1>2, <1>3, <1>4, Zenon DEF FileInit, FileTypes

LEMMA FileTypesNext ==
  ASSUME FileTypes, [FileNext]_fileVars
  PROVE  FileTypes'
<1>1. CASE \E r \in ReceiptKind : Hands(r) /\ copy = NoCopy
  <2>1. PICK r \in ReceiptKind : Hands(r)
    BY <1>1
  <2>2. sent' \in Seq(Chain) /\ sent' # << >>
    BY <2>1, BeginsSent, ContinuesSent DEF Hands
  <2>3. /\ lines' \in Seq(ReceiptKind) /\ up' \in BOOLEAN /\ short' \in Nat
        /\ rest' \in {Nothing, Fragment} \cup {Whole(x) : x \in ReceiptKind}
    <3>1. Writes(r)
      BY <2>1 DEF Hands
    <3>2. Append(lines, r) \in Seq(ReceiptKind)
      BY AppendProperties DEF FileTypes
    <3>3. lines \in Seq(ReceiptKind) /\ short \in Nat
      BY DEF FileTypes
    <3>4. lines' \in {lines, Append(lines, r)} /\ rest' \in {Nothing, Fragment, Whole(r)}
          /\ up' \in BOOLEAN /\ short' \in {short, short + 1}
      BY <3>1, WritesCases
    <3> QED BY <3>2, <3>3, <3>4
  <2> QED BY <2>1, <2>2, <2>3 DEF Hands, FileTypes
<1>2. CASE Rests
  BY <1>2 DEF Rests, FileTypes
<1>3. CASE Export
  <2>1. ReadReceipts \in Seq(ReceiptKind)
    BY ReadIsReceipts
  <2> QED BY <1>3, <2>1 DEF Export, FileTypes
<1>4. CASE Damage
  <2>1. copy \in Seq(ReceiptKind)
    BY <1>4 DEF Damage, FileTypes
  <2>2. copy' \in Seq(ReceiptKind) /\ damage' = damage + 1
          /\ UNCHANGED <<sent, lines, rest, up, nextId, short>>
    BY <1>4, <2>1, DamageCases
  <2> QED BY <2>2 DEF FileTypes
<1>5. CASE UNCHANGED fileVars
  BY <1>5 DEF fileVars, FileTypes
<1> QED BY <1>1, <1>2, <1>3, <1>4, <1>5, StepCases

LEMMA TypesMeanTypeOK ==
  ASSUME FileTypes
  PROVE  FileTypeOK
<1>1. \A s \in 1 .. Len(sent) : sent[s] \in Seq(ReceiptKind) /\ sent[s] # << >>
  BY ElementOfSeq DEF FileTypes, Chain
<1>2. rest \in {Nothing, Fragment} \/ (rest = Whole(rest.receipt) /\ rest.receipt \in ReceiptKind)
  BY DEF FileTypes, Whole
<1> QED BY <1>1, <1>2 DEF FileTypes, FileTypeOK

\* Every variable of the receipt file keeps its type: nothing but receipts gets
\* into the file and out of it.
THEOREM FileTypeCorrect == FileSpec => []FileTypeOK
<1>1. FileInit => FileTypes
  BY FileTypesInit
<1>2. FileTypes /\ [FileNext]_fileVars => FileTypes'
  BY FileTypesNext
<1>3. FileTypes => FileTypeOK
  BY TypesMeanTypeOK
<1> QED BY <1>1, <1>2, <1>3, PTL DEF FileSpec

-----------------------------------------------------------------------------
(* The sessions are chains *)

LEMMA SessionsApartInit == FileInit => SessionsApart
  BY DEF FileInit, SessionsApart, Sessions

LEMMA ChainBegun ==
  ASSUME NEW r, HeadsChain(r), r.wf = r.id, r.edit = "none"
  PROVE  SessionChained(<<r>>)
BY DEF SessionChained, HeadsChain

LEMMA ChainContinued ==
  ASSUME NEW c \in Chain, SessionChained(c), NEW r \in ReceiptKind, r.edit = "none",
         r.wf = c[Len(c)].wf, r.seq = c[Len(c)].seq + 1, r.prev = Digest(c[Len(c)]),
         c[Len(c)].type # "workflow_closed"
  PROVE  SessionChained(Append(c, r)) /\ Append(c, r)[1] = c[1]
<1> DEFINE n == Len(c)
           d == Append(c, r)
<1>1. n \in Nat \ {0} /\ n \in 1 .. n /\ 1 \in 1 .. n
  BY EmptySeq DEF Chain
<1>2. Len(d) = n + 1 /\ d[n + 1] = r /\ \A k \in 1 .. n : d[k] = c[k]
  BY AppendProperties DEF Chain
<1> HIDE DEF d
<1>3. d[1] = c[1]
  BY <1>1, <1>2
<1>4. r.seq = n /\ r.wf = c[1].id
  BY <1>1 DEF SessionChained
<1>5. ASSUME NEW k \in 1 .. n + 1
      PROVE  /\ d[k].seq = k - 1 /\ d[k].wf = d[1].id /\ d[k].edit = "none"
             /\ d[k].type = "workflow_closed" => k = n + 1
  <2>1. CASE k \in 1 .. n
    <3>1. /\ c[k].seq = k - 1 /\ c[k].wf = c[1].id /\ c[k].edit = "none"
          /\ c[k].type = "workflow_closed" => k = n
      BY <2>1 DEF SessionChained
    <3> QED BY <1>2, <1>3, <2>1, <3>1
  <2>2. CASE k = n + 1
    BY <1>1, <1>2, <1>3, <1>4, <2>2
  <2> QED BY <1>1, <2>1, <2>2
<1>6. ASSUME NEW k \in 2 .. n + 1 PROVE d[k].prev = Digest(d[k-1])
  <2>1. CASE k \in 2 .. n
    <3>1. k \in 1 .. n /\ k - 1 \in 1 .. n
      BY <1>1, <2>1
    <3> QED BY <1>2, <2>1, <3>1 DEF SessionChained
  <2>2. CASE k = n + 1
    <3>1. k - 1 = n
      BY <1>1, <2>2
    <3> QED BY <1>1, <1>2, <2>2, <3>1
  <2> QED BY <1>1, <2>1, <2>2
<1>7. HeadsChain(d[1])
  BY <1>3 DEF SessionChained
<1> QED BY <1>2, <1>3, <1>5, <1>6, <1>7 DEF SessionChained, d

LEMMA SessionsApartNext ==
  ASSUME FileTypes, SessionsApart, [FileNext]_fileVars
  PROVE  SessionsApart'
<1> DEFINE n == Len(sent)
<1>1. n \in Nat /\ nextId \in Nat /\ \A s \in Sessions : sent[s] \in Chain
  BY ElementOfSeq DEF FileTypes, Sessions
<1>2. \A s \in Sessions : sent[s][1].id \in Nat
  <2> SUFFICES ASSUME NEW s \in Sessions PROVE sent[s][1].id \in Nat
    OBVIOUS
  <2>1. sent[s] \in Seq(ReceiptKind) /\ 1 \in 1 .. Len(sent[s])
    BY <1>1, EmptySeq DEF Chain
  <2>2. sent[s][1] \in ReceiptKind
    BY <2>1, ElementOfSeq
  <2> QED BY <2>2 DEF ReceiptKind
<1>3. CASE \E r \in ReceiptKind : Hands(r)
  <2>1. PICK r \in ReceiptKind : Hands(r)
    BY <1>3
  <2>2. nextId' = nextId + 1 /\ r.edit = "none"
    BY <2>1 DEF Hands
  <2>3. CASE Begins(r)
    <3>1. /\ Len(sent') = n + 1 /\ sent'[n + 1] = <<r>>
          /\ \A s \in Sessions : sent'[s] = sent[s]
      BY <2>3, BeginsSent
    <3>2. r.id = nextId /\ SessionChained(<<r>>)
      BY <2>2, <2>3, ChainBegun DEF Begins
    <3>3. \A s \in 1 .. n + 1 : s \in Sessions \/ s = n + 1
      BY <1>1 DEF Sessions
    <3>4. \A s \in 1 .. n + 1 : SessionChained(sent'[s]) /\ sent'[s][1].id < nextId'
      <4>1. SessionChained(sent'[n + 1]) /\ sent'[n + 1][1].id < nextId'
        BY <1>1, <2>2, <3>1, <3>2
      <4>2. ASSUME NEW s \in Sessions PROVE SessionChained(sent'[s]) /\ sent'[s][1].id < nextId'
        <5>1. sent'[s] = sent[s] /\ sent[s][1].id < nextId /\ SessionChained(sent[s])
          BY <3>1 DEF SessionsApart
        <5>2. sent[s][1].id \in Nat
          BY <1>2
        <5> QED BY ONLY <1>1, <2>2, <5>1, <5>2
      <4> QED BY ONLY <3>3, <4>1, <4>2
    <3>5. \A s, t \in 1 .. n + 1 : sent'[s][1].id = sent'[t][1].id => s = t
      <4>1. sent'[n + 1][1].id = nextId
        BY <3>1, <3>2
      <4>2. \A s \in Sessions : sent'[s][1].id \in Nat /\ sent'[s][1].id < nextId
        <5>1. \A s \in Sessions : sent[s][1].id < nextId
          BY DEF SessionsApart
        <5> QED BY ONLY <1>2, <3>1, <5>1
      <4>3. \A s, t \in Sessions : sent'[s][1].id = sent'[t][1].id => s = t
        <5>1. \A s, t \in Sessions : sent[s][1].id = sent[t][1].id => s = t
          BY DEF SessionsApart
        <5> QED BY ONLY <3>1, <5>1
      <4>4. \A s \in Sessions : sent'[s][1].id # sent'[n + 1][1].id
        BY ONLY <1>1, <4>1, <4>2
      <4> QED BY ONLY <3>3, <4>3, <4>4
    <3> QED BY <3>1, <3>4, <3>5 DEF SessionsApart, Sessions
  <2>4. CASE Continues(r)
    <3>1. /\ Len(sent') = n /\ n \in Sessions /\ sent'[n] = Append(Current, r)
          /\ \A s \in Sessions : s # n => sent'[s] = sent[s]
      BY <2>4, ContinuesSent
    <3>2. SessionChained(sent'[n]) /\ sent'[n][1] = sent[n][1]
      <4>1. Current = sent[n] /\ Current \in Chain /\ SessionChained(Current)
        BY <1>1, <3>1 DEF Current, SessionsApart
      <4>2. /\ r.wf = Current[Len(Current)].wf /\ r.seq = Current[Len(Current)].seq + 1
            /\ r.prev = Digest(Current[Len(Current)])
            /\ Current[Len(Current)].type # "workflow_closed"
        BY <2>4 DEF Continues, PrevReceipt
      <4> QED BY <2>2, <3>1, <4>1, <4>2, ChainContinued
    <3>3. \A s \in Sessions : SessionChained(sent'[s]) /\ sent'[s][1] = sent[s][1]
      BY <3>1, <3>2 DEF SessionsApart
    <3>4. \A s \in Sessions : sent'[s][1].id < nextId'
      BY <1>1, <1>2, <2>2, <3>3 DEF SessionsApart
    <3> QED BY <3>1, <3>3, <3>4 DEF SessionsApart, Sessions
  <2> QED BY <2>1, <2>3, <2>4 DEF Hands
<1>4. CASE UNCHANGED <<sent, nextId>>
  BY <1>4 DEF SessionsApart, Sessions
<1>5. CASE Damage
  BY <1>4, <1>5 DEF Damage, Lose, Reorder, Repeat, EditSigned, EditUnsigned, Happens
<1> QED BY <1>3, <1>4, <1>5, StepCases DEF Rests, Export, fileVars

-----------------------------------------------------------------------------
(* Nothing but what was issued *)

LEMMA OnlyIssuedInit == FileInit => OnlyIssued
  BY DEF FileInit, OnlyIssued, Nothing

\* What was issued stays issued, and what is handed to the writer is.
LEMMA IssuedGrows ==
  ASSUME FileTypes, NEW r \in ReceiptKind, Hands(r)
  PROVE  r \in Issued' /\ Issued \subseteq Issued'
<1> DEFINE n == Len(sent)
<1>1. n \in Nat /\ \A s \in Sessions : sent[s] \in Chain
  BY ElementOfSeq DEF FileTypes, Sessions
<1>2. CASE Begins(r)
  <2>1. /\ Len(sent') = n + 1 /\ sent'[n + 1] = <<r>>
        /\ \A s \in Sessions : sent'[s] = sent[s]
    BY <1>2, BeginsSent
  <2>2. r \in Issued'
    <3>1. n + 1 \in 1 .. Len(sent') /\ 1 \in 1 .. Len(sent'[n + 1]) /\ sent'[n + 1][1] = r
      BY <1>1, <2>1
    <3> QED BY <3>1 DEF Issued, Sessions
  <2>3. ASSUME NEW x \in Issued PROVE x \in Issued'
    <3>1. PICK s \in Sessions : \E k \in 1 .. Len(sent[s]) : x = sent[s][k]
      BY DEF Issued
    <3>2. PICK k \in 1 .. Len(sent[s]) : x = sent[s][k]
      BY <3>1
    <3>3. s \in 1 .. Len(sent') /\ sent'[s] = sent[s]
      BY <1>1, <2>1 DEF Sessions
    <3>4. k \in 1 .. Len(sent'[s]) /\ x = sent'[s][k]
      BY ONLY <3>2, <3>3, k \in 1 .. Len(sent[s])
    <3> QED BY ONLY <3>3, <3>4 DEF Issued, Sessions
  <2> QED BY <2>2, <2>3
<1>3. CASE Continues(r)
  <2>1. /\ Len(sent') = n /\ n \in Sessions /\ sent'[n] = Append(Current, r)
        /\ \A s \in Sessions : s # n => sent'[s] = sent[s]
    BY <1>3, ContinuesSent
  <2>2. Current = sent[n] /\ Current \in Seq(ReceiptKind)
    BY <1>1, <2>1 DEF Current, Chain
  <2>3. /\ Len(sent'[n]) = Len(Current) + 1 /\ Len(Current) \in Nat
        /\ sent'[n][Len(Current) + 1] = r
        /\ \A k \in 1 .. Len(Current) : sent'[n][k] = Current[k]
    BY <2>1, <2>2, AppendProperties
  <2>4. r \in Issued'
    <3>1. n \in 1 .. Len(sent') /\ Len(Current) + 1 \in 1 .. Len(sent'[n])
      BY <2>1, <2>3 DEF Sessions
    <3> QED BY <2>3, <3>1 DEF Issued, Sessions
  <2>5. ASSUME NEW x \in Issued PROVE x \in Issued'
    <3>0. PICK s \in Sessions : \E k \in 1 .. Len(sent[s]) : x = sent[s][k]
      BY DEF Issued
    <3>1. PICK k \in 1 .. Len(sent[s]) : x = sent[s][k]
      BY <3>0
    <3>2. k \in 1 .. Len(sent'[s]) /\ sent'[s][k] = sent[s][k]
      <4>1. CASE s # n
        <5>1. sent'[s] = sent[s]
          BY <2>1, <4>1
        <5> QED BY <5>1
      <4>2. CASE s = n
        <5>1. k \in 1 .. Len(Current)
          BY <2>2, <4>2
        <5>2. k \in 1 .. Len(sent'[n]) /\ sent'[n][k] = Current[k]
          BY ONLY <2>3, <5>1
        <5> QED BY <2>2, <4>2, <5>2
      <4> QED BY <4>1, <4>2
    <3>3. s \in Sessions' /\ x = sent'[s][k]
      BY <2>1, <3>1, <3>2 DEF Sessions
    <3>4. x \in {sent'[s][j] : j \in 1 .. Len(sent'[s])}
      BY ONLY <3>2, <3>3
    <3> QED BY ONLY <3>3, <3>4 DEF Issued
  <2> QED BY <2>4, <2>5
<1> QED BY <1>2, <1>3 DEF Hands

LEMMA IssuedUnedited ==
  ASSUME FileTypes, SessionsApart, NEW r \in Issued
  PROVE  r \in ReceiptKind /\ r.edit = "none" /\ [r EXCEPT !.edit = "none"] = r
<1>0. PICK s \in Sessions : \E k \in 1 .. Len(sent[s]) : r = sent[s][k]
  BY DEF Issued
<1>1. PICK k \in 1 .. Len(sent[s]) : r = sent[s][k]
  BY <1>0
<1>2. sent[s] \in Seq(ReceiptKind)
  BY ElementOfSeq DEF FileTypes, Chain, Sessions
<1>3. r \in ReceiptKind
  BY <1>1, <1>2, ElementOfSeq
<1>4. r.edit = "none"
  BY <1>1 DEF SessionsApart, SessionChained
<1> QED BY <1>3, <1>4 DEF ReceiptKind

LEMMA OnlyIssuedNext ==
  ASSUME FileTypes, SessionsApart, OnlyIssued, [FileNext]_fileVars
  PROVE  OnlyIssued'
<1>1. lines \in Seq(ReceiptKind) /\ Len(lines) \in Nat
  BY DEF FileTypes
<1>2. CASE \E r \in ReceiptKind : Hands(r) /\ copy = NoCopy
  <2>1. PICK r \in ReceiptKind : Hands(r) /\ copy = NoCopy
    BY <1>2
  <2>2. r \in Issued' /\ Issued \subseteq Issued'
    BY <2>1, IssuedGrows
  <2>3. copy' = copy /\ Writes(r)
    BY <2>1 DEF Hands
  <2>4. lines' = lines \/ lines' = Append(lines, r)
    BY <2>3, WritesCases
  <2>5. \A i \in 1 .. Len(lines') : lines'[i] \in Issued'
    <3>1. CASE lines' = lines
      BY <2>2, <3>1 DEF OnlyIssued
    <3>2. CASE lines' = Append(lines, r)
      <4>1. /\ Len(lines') = Len(lines) + 1 /\ lines'[Len(lines) + 1] = r
            /\ \A i \in 1 .. Len(lines) : lines'[i] = lines[i]
        BY <1>1, <3>2, AppendProperties
      <4>2. \A i \in 1 .. Len(lines) + 1 : i \in 1 .. Len(lines) \/ i = Len(lines) + 1
        BY <1>1
      <4> QED BY <2>2, <4>1, <4>2 DEF OnlyIssued
    <3> QED BY <2>4, <3>1, <3>2
  <2>6. rest'.kind = "whole" => rest'.receipt \in Issued'
    <3>1. rest' \in {Nothing, Fragment} \/ rest' = Whole(r)
      BY <2>3, WritesCases
    <3> QED BY <2>2, <3>1 DEF Nothing, Fragment, Whole
  <2> QED BY <2>1, <2>3, <2>5, <2>6 DEF OnlyIssued
<1>3. CASE Rests
  <2>1. Issued' = Issued
    BY <1>3 DEF Rests, Issued, Sessions
  <2> QED BY <1>3, <2>1 DEF Rests, OnlyIssued, Nothing
<1>4. CASE Export
  <2>1. Issued' = Issued
    BY <1>4 DEF Export, Issued, Sessions
  <2>2. ASSUME NEW i \in 1 .. Len(ReadReceipts)
        PROVE  [ReadReceipts[i] EXCEPT !.edit = "none"] \in Issued
    <3>1. ReadReceipts[i] \in Issued
      BY ReadIsReceipts DEF OnlyIssued
    <3> QED BY <3>1, IssuedUnedited
  <2> QED BY <1>4, <2>1, <2>2 DEF Export, OnlyIssued
<1>5. CASE Damage
  <2>1. copy # NoCopy /\ copy \in Seq(ReceiptKind)
    BY <1>5 DEF Damage, FileTypes
  <2>2. /\ UNCHANGED <<sent, lines, rest>> /\ copy' \in Seq(ReceiptKind)
        /\ \A i \in 1 .. Len(copy') : \E j \in 1 .. Len(copy) :
             \/ copy'[i] = copy[j]
             \/ copy'[i].edit = "signed"
             \/ copy[j].edit = "none" /\ copy'[i] = [copy[j] EXCEPT !.edit = "unsigned"]
    BY <1>5, <2>1, DamageCases
  <2>3. Issued' = Issued
    BY <2>2 DEF Issued, Sessions
  <2>4. ASSUME NEW i \in 1 .. Len(copy'), copy'[i].edit # "signed"
        PROVE  [copy'[i] EXCEPT !.edit = "none"] \in Issued
    <3>1. PICK j \in 1 .. Len(copy) :
             \/ copy'[i] = copy[j]
             \/ copy[j].edit = "none" /\ copy'[i] = [copy[j] EXCEPT !.edit = "unsigned"]
      BY <2>2, <2>4
    <3>2. copy[j] \in ReceiptKind
      BY <2>1, ElementOfSeq
    <3>3. copy[j].edit # "signed" /\ [copy'[i] EXCEPT !.edit = "none"] = [copy[j] EXCEPT !.edit = "none"]
      BY <2>4, <3>1, <3>2 DEF ReceiptKind
    <3> QED BY <2>1, <3>3 DEF OnlyIssued
  <2> QED BY <2>2, <2>3, <2>4 DEF OnlyIssued
<1>6. CASE UNCHANGED fileVars
  BY <1>6 DEF fileVars, OnlyIssued, Issued, Sessions
<1> QED BY <1>2, <1>3, <1>4, <1>5, <1>6, StepCases

-----------------------------------------------------------------------------
(* The verdict on a copy *)

FileInv == FileTypes /\ SessionsApart /\ OnlyIssued

LEMMA FileInvariant == FileSpec => []FileInv
<1>1. FileInit => FileInv
  BY FileTypesInit, SessionsApartInit, OnlyIssuedInit DEF FileInv
<1>2. FileInv /\ [FileNext]_fileVars => FileInv'
  BY FileTypesNext, SessionsApartNext, OnlyIssuedNext DEF FileInv
<1> QED BY <1>1, <1>2, PTL DEF FileSpec

\* What a verifier is given is receipts, and what was not edited in a signed
\* field was issued.
LEMMA EvidenceIssued ==
  ASSUME FileInv
  PROVE  /\ Evidence \in Seq(ReceiptKind)
         /\ \A i \in 1 .. Len(Evidence) :
              Evidence[i].edit # "signed" => [Evidence[i] EXCEPT !.edit = "none"] \in Issued
<1>1. CASE copy = NoCopy
  <2>1. ReadReceipts \in Seq(ReceiptKind)
    BY ReadIsReceipts DEF FileInv
  <2>2. ASSUME NEW i \in 1 .. Len(ReadReceipts)
        PROVE  [ReadReceipts[i] EXCEPT !.edit = "none"] \in Issued
    <3>1. ReadReceipts[i] \in Issued
      BY ReadIsReceipts DEF FileInv, OnlyIssued
    <3> QED BY <3>1, IssuedUnedited DEF FileInv
  <2> QED BY <1>1, <2>1, <2>2 DEF Evidence
<1>2. CASE copy # NoCopy
  BY <1>2 DEF Evidence, FileInv, FileTypes, OnlyIssued
<1> QED BY <1>1, <1>2

\* The types the lemmas on sorting and chaining ask for.
LEMMA KindIsNumbered ==
  \A r \in ReceiptKind : r.seq \in Int /\ r.id \in Int
BY DEF ReceiptKind

\* A receipt of a session is told from the others by its workflow and number.
LEMMA IssuedPlace ==
  ASSUME FileTypes, SessionsApart, NEW s \in Sessions, NEW x \in Issued, x.wf = sent[s][1].id
  PROVE  x.seq + 1 \in 1 .. Len(sent[s]) /\ x = sent[s][x.seq + 1]
<1>1. PICK t \in Sessions : \E k \in 1 .. Len(sent[t]) : x = sent[t][k]
  BY DEF Issued
<1>2. PICK k \in 1 .. Len(sent[t]) : x = sent[t][k]
  BY <1>1
<1>3. x.wf = sent[t][1].id /\ x.seq = k - 1
  BY <1>2 DEF SessionsApart, SessionChained
<1>4. t = s
  BY <1>3 DEF SessionsApart
<1>5. Len(sent[t]) \in Nat
  BY ElementOfSeq DEF FileTypes, Chain, Sessions
<1>6. x.seq + 1 = k
  BY <1>3, <1>5
<1> QED BY <1>2, <1>4, <1>6

\* A chain that verifies: the receipts that were not edited are, by workflow and
\* number, those of one session from its manifest on, for the workflow is the
\* manifest's and the number the place; and only the last can be stamped,
\* because the next one would name another hash.
LEMMA ValidMeansPrefix ==
  ASSUME FileInv, Evidence # << >>, ChainValid(Evidence)
  PROVE  \E s \in Sessions : IsPrefixOf(Evidence, s)
<1> DEFINE rs == Evidence
           c == Sorted(rs)
           n == Len(rs)
           plain == [k \in 1 .. n |-> [c[k] EXCEPT !.edit = "none"]]
<1>1. rs \in Seq(ReceiptKind)
  BY EvidenceIssued
<1>2. c \in Seq(ReceiptKind) /\ Len(c) = n /\ n \in Nat /\ n > 0
  BY <1>1, KindIsNumbered, Sorting, EmptySeq
<1>3. \A k \in 1 .. n : c[k] \in ReceiptKind
  BY <1>2, ElementOfSeq
<1>4. Chained(c)
  <2>1. c # << >>
    BY <1>2
  <2> QED BY <2>1, NoErrorMeansChained DEF ChainValid, ChainErrors
<1>5. /\ \A k \in 1 .. n : c[k].seq = k - 1
      /\ \A i \in 1 .. n : SignatureValid(rs[i])
  BY <1>1, <1>4, KindIsNumbered, NumbersDiffer
<1>6. \A k \in 1 .. n : plain[k] \in Issued
  <2> SUFFICES ASSUME NEW k \in 1 .. n PROVE plain[k] \in Issued
    OBVIOUS
  <2>1. \A m \in 1 .. n : \E i \in 1 .. n : c[m] = rs[i]
    BY <1>1, KindIsNumbered, Sorting
  <2>2. PICK i \in 1 .. n : c[k] = rs[i]
    BY <2>1
  <2>3. c[k].edit # "signed"
    BY <1>5, <2>2 DEF SignatureValid
  <2> QED BY <2>2, <2>3, EvidenceIssued
<1>7. \A k \in 1 .. n : plain[k].wf = c[k].wf /\ plain[k].seq = k - 1 /\ plain[k].type = c[k].type
  BY <1>3, <1>5 DEF ReceiptKind
<1> HIDE DEF plain
<1>8. \A k \in 1 .. n : plain[k].wf = plain[1].wf
  BY <1>2, <1>4, <1>7 DEF Chained
<1>9. 1 \in 1 .. n
  BY <1>2
<1>10. PICK s \in Sessions : \E k \in 1 .. Len(sent[s]) : plain[1] = sent[s][k]
  BY <1>6, <1>9 DEF Issued
<1>11. plain[1].wf = sent[s][1].id
  BY <1>10 DEF FileInv, SessionsApart, SessionChained
<1>12. \A k \in 1 .. n : k \in 1 .. Len(sent[s]) /\ plain[k] = sent[s][k]
  <2> SUFFICES ASSUME NEW k \in 1 .. n PROVE k \in 1 .. Len(sent[s]) /\ plain[k] = sent[s][k]
    OBVIOUS
  <2>1. plain[k] \in Issued /\ plain[k].wf = sent[s][1].id
    BY <1>6, <1>8, <1>11
  <2>2. /\ plain[k].seq + 1 \in 1 .. Len(sent[s])
        /\ plain[k] = sent[s][plain[k].seq + 1]
    BY <2>1, IssuedPlace DEF FileInv
  <2>3. plain[k].seq + 1 = k
    BY <1>2, <1>7
  <2> QED BY <2>2, <2>3
<1>13. ASSUME NEW k \in 1 .. n, c[k].edit # "none" PROVE k = n
  <2>1. SUFFICES ASSUME k # n PROVE FALSE
    OBVIOUS
  <2>2. k + 1 \in 2 .. n /\ k + 1 \in 1 .. n /\ (k + 1) - 1 = k
    BY <1>2, <2>1
  <2>3. c[k + 1].prev = HashAsRead(c[k])
    BY <1>2, <1>4, <2>2 DEF Chained
  <2>4. HashAsRead(c[k]) = 0 - c[k].id
    BY <1>2, <1>3, <1>4, <1>13 DEF HashAsRead, Digest, Chained, ReceiptKind
  <2>5. c[k + 1].prev \in Nat /\ c[k].id \in Nat \ {0}
    BY <1>3, <2>2 DEF ReceiptKind
  <2> QED BY <2>3, <2>4, <2>5
<1>14. n <= Len(sent[s])
  <2>1. n \in 1 .. n
    BY <1>2
  <2> QED BY <1>12, <2>1
<1>15. IsPrefixOf(rs, s)
  <2>1. \A k \in 1 .. n : [c[k] EXCEPT !.edit = "none"] = sent[s][k] /\ (c[k].edit = "none" \/ k = n)
    BY <1>12, <1>13 DEF plain
  <2> QED BY <1>5, <1>14, <2>1 DEF IsPrefixOf
<1> QED BY <1>15

\* What verifyChain calls valid is the beginning of what one session emitted,
\* for files and copies of any length, whatever happened to them.
THEOREM ValidChainsArePrefixes == FileSpec => []ValidIsPrefix
<1>1. FileInv => ValidIsPrefix
  BY ValidMeansPrefix DEF ValidIsPrefix, Sessions
<1> QED BY <1>1, FileInvariant, PTL

\* verifyReceipts passes a copy exactly when verifyChain finds no error in it,
\* although its table is looked up by another index than the errors carry.
THEOREM TableAgreesWithChain == FileSpec => []OverallPassIsChainValid
<1>1. FileInv => OverallPassIsChainValid
  BY EvidenceIssued, KindIsNumbered, PassMeansValid DEF OverallPassIsChainValid
<1> QED BY <1>1, FileInvariant, PTL

\* Library, command and Python verifier pass the same evidence, for any number
\* of receipts and anything that happened to them.
THEOREM OneVerdict == FileSpec => []VerifiersAgree
<1>1. FileInv => VerifiersAgree
  <2> SUFFICES ASSUME FileInv, Evidence # << >>
               PROVE  /\ PyPass(Evidence) <=> OverallPass(Evidence)
                      /\ BinVerify(Evidence) = 0 <=> OverallPass(Evidence)
    BY DEF VerifiersAgree
  <2>1. Evidence \in Seq(ReceiptKind)
    BY EvidenceIssued
  <2>2. OverallPass(Evidence) <=> ChainValid(Evidence)
    BY <2>1, KindIsNumbered, PassMeansValid
  <2>3. PyPass(Evidence) <=> ChainValid(Evidence)
    BY <2>1, KindIsNumbered, PythonPassesAlike
  <2>4. BinVerify(Evidence) = 0 <=> ChainValid(Evidence)
    BY DEF BinVerify
  <2> QED BY <2>2, <2>3, <2>4
<1> QED BY <1>1, FileInvariant, PTL

\* Exit code 0 is given for whole sessions only, up to their workflow_closed.
THEOREM CleanExitIsWholeSession == FileSpec => []ExitZeroIsWholeSession
<1>1. FileInv => ExitZeroIsWholeSession
  <2> SUFFICES ASSUME FileInv, NEW stale \in BOOLEAN, RunVerify(Evidence, stale) = 0
               PROVE  \E s \in Sessions : IsPrefixOf(Evidence, s) /\ Len(Evidence) = Len(sent[s])
    BY DEF ExitZeroIsWholeSession, Sessions
  <2> DEFINE n == Len(Evidence)
             last == Sorted(Evidence)[n]
  <2>1. Evidence # << >> /\ OverallPass(Evidence) /\ last.type = "workflow_closed"
    BY DEF RunVerify, ExitCode, ChainComplete
  <2>2. Evidence \in Seq(ReceiptKind) /\ n \in Nat \ {0}
    BY <2>1, EvidenceIssued, EmptySeq
  <2>3. ChainValid(Evidence)
    BY <2>1, <2>2, KindIsNumbered, PassMeansValid
  <2>4. PICK s \in Sessions : IsPrefixOf(Evidence, s)
    BY <2>1, <2>3, ValidMeansPrefix
  <2>5. n \in 1 .. Len(sent[s]) /\ [last EXCEPT !.edit = "none"] = sent[s][n]
    <3>1. Len(sent[s]) \in Nat
      BY ElementOfSeq DEF FileInv, FileTypes, Chain, Sessions
    <3>2. n \in 1 .. n
      BY <2>2
    <3>3. /\ n <= Len(sent[s])
          /\ \A k \in 1 .. n : [Sorted(Evidence)[k] EXCEPT !.edit = "none"] = sent[s][k]
      BY <2>4 DEF IsPrefixOf
    <3>4. [last EXCEPT !.edit = "none"] = sent[s][n]
      BY <3>2, <3>3
    <3> HIDE DEF n, last
    <3>5. n \in 1 .. Len(sent[s])
      BY <2>2, <3>1, <3>3
    <3> QED BY <3>4, <3>5
  <2>6. last \in ReceiptKind
    <3>1. Sorted(Evidence) \in Seq(ReceiptKind) /\ Len(Sorted(Evidence)) = n
      BY <2>2, KindIsNumbered, Sorting
    <3> QED BY <2>2, <3>1, ElementOfSeq
  <2>7. sent[s][n].type = "workflow_closed"
    <3>1. [last EXCEPT !.edit = "none"].type = last.type
      BY <2>6 DEF ReceiptKind
    <3> QED BY <2>1, <2>5, <3>1
  <2>8. n = Len(sent[s])
    BY <2>5, <2>7 DEF FileInv, SessionsApart, SessionChained
  <2> QED BY <2>4, <2>8
<1> QED BY <1>1, FileInvariant, PTL

-----------------------------------------------------------------------------
(* The order of the lines *)

\* What can be read of the file after a receipt was handed to the writer: the
\* lines as they were, and perhaps the receipt behind them.
LEMMA HandsReads ==
  ASSUME FileTypes, NEW r \in ReceiptKind, Hands(r)
  PROVE  \/ ReadReceipts' = lines
         \/ rest = Nothing /\ ReadReceipts' = Append(lines, r)
<1>1. Writes(r)
  BY DEF Hands
<1>2. \/ rest = Nothing /\ lines' = Append(lines, r) /\ rest' = Nothing
      \/ lines' = lines /\ rest' \in {Nothing, Fragment}
      \/ lines' = lines /\ rest = Nothing /\ rest' = Whole(r)
  BY <1>1, WritesCases
<1> QED BY <1>2 DEF ReadReceipts, Nothing, Fragment, Whole

LEMMA RisingLines ==
  ASSUME FileTypes, Rising(ReadReceipts)
  PROVE  Rising(lines)
<1>1. CASE rest.kind = "whole"
  <2>1. lines \in Seq(ReceiptKind) /\ rest.receipt \in ReceiptKind
    BY <1>1 DEF FileTypes, Nothing, Fragment, Whole
  <2>2. ReadReceipts = Append(lines, rest.receipt)
    BY <1>1 DEF ReadReceipts
  <2>3. /\ Len(lines) \in Nat /\ Len(ReadReceipts) = Len(lines) + 1
        /\ \A i \in 1 .. Len(lines) : ReadReceipts[i] = lines[i]
    BY <2>1, <2>2, AppendProperties, LenProperties
  <2>4. \A i \in 1 .. Len(lines) : i \in 1 .. Len(ReadReceipts)
    BY <2>3
  <2> QED BY <2>3, <2>4 DEF Rising
<1>2. CASE rest.kind # "whole"
  BY <1>2 DEF ReadReceipts
<1> QED BY <1>1, <1>2

\* A receipt with a higher number than all others goes behind them.
LEMMA RisingAppend ==
  ASSUME NEW rs \in Seq(ReceiptKind), NEW r \in ReceiptKind, Rising(rs),
         \A i \in 1 .. Len(rs) : rs[i].seq < r.seq
  PROVE  Rising(Append(rs, r))
<1> DEFINE n == Len(rs)
           ts == Append(rs, r)
<1>1. n \in Nat /\ Len(ts) = n + 1 /\ ts[n + 1] = r /\ \A i \in 1 .. n : ts[i] = rs[i]
  BY AppendProperties, LenProperties
<1> HIDE DEF ts
<1>2. ASSUME NEW i \in 1 .. n + 1, NEW j \in 1 .. n + 1, i < j
      PROVE  ts[i].seq < ts[j].seq
  <2>1. i \in 1 .. n /\ ts[i] = rs[i]
    BY <1>1, <1>2
  <2>2. CASE j \in 1 .. n
    BY <1>1, <1>2, <2>1, <2>2 DEF Rising
  <2>3. CASE j = n + 1
    BY <1>1, <2>1, <2>3
  <2> QED BY <1>1, <2>2, <2>3
<1> QED BY <1>1, <1>2 DEF Rising, ts

\* While there is one session, what was issued is its chain, and is numbered
\* below the receipt that continues it.
LEMMA OneSession ==
  ASSUME FileTypes, SessionsApart, Len(sent) = 1
  PROVE  /\ Current = sent[1] /\ sent[1] \in Chain /\ Len(sent[1]) \in Nat \ {0}
         /\ PrevReceipt = sent[1][Len(sent[1])] /\ PrevReceipt.seq = Len(sent[1]) - 1
         /\ \A x \in Issued : /\ x.seq \in Nat /\ x.seq + 1 \in 1 .. Len(sent[1])
                              /\ x = sent[1][x.seq + 1]
<1>1. 1 \in Sessions /\ sent # << >>
  BY DEF Sessions
<1>2. Current = sent[1] /\ sent[1] \in Chain /\ Len(sent[1]) \in Nat \ {0}
  BY <1>1, PrevIsReceipt DEF Current
<1>3. PrevReceipt = sent[1][Len(sent[1])] /\ PrevReceipt.seq = Len(sent[1]) - 1
  <2>1. Len(sent[1]) \in 1 .. Len(sent[1])
    BY <1>2
  <2> QED BY <1>1, <1>2, <2>1 DEF PrevReceipt, SessionsApart, SessionChained
<1>4. ASSUME NEW x \in Issued
      PROVE  x.seq \in Nat /\ x.seq + 1 \in 1 .. Len(sent[1]) /\ x = sent[1][x.seq + 1]
  <2>1. PICK s \in Sessions : \E k \in 1 .. Len(sent[s]) : x = sent[s][k]
    BY DEF Issued
  <2>2. s = 1
    BY <2>1 DEF Sessions
  <2>3. x.wf = sent[1][1].id
    BY <1>1, <2>1, <2>2 DEF SessionsApart, SessionChained
  <2>4. x.seq \in Nat
    BY IssuedUnedited DEF ReceiptKind
  <2> QED BY <1>1, <2>3, <2>4, IssuedPlace
<1> QED BY <1>2, <1>3, <1>4

LEMMA FileRisesInit == FileInit => FileRises
  BY DEF FileInit, FileRises

LEMMA FileRisesNext ==
  ASSUME FileTypes, SessionsApart, OnlyIssued, FileRises, [FileNext]_fileVars
  PROVE  FileRises'
<1>1. lines \in Seq(ReceiptKind) /\ Len(lines) \in Nat /\ Len(sent) \in Nat
  BY DEF FileTypes
<1>2. CASE \E r \in ReceiptKind : Hands(r) /\ copy = NoCopy
  <2>1. PICK r \in ReceiptKind : Hands(r)
    BY <1>2
  <2>2. sent' # << >>
    BY <2>1, BeginsSent, ContinuesSent DEF Hands
  <2>3. ASSUME Len(sent') = 1 PROVE Rising(lines) /\ Rising(Append(lines, r))
    <3>1. CASE Begins(r)
      <4>1. lines = << >>
        BY <1>1, <2>3, <3>1, BeginsSent, EmptySeq DEF FileTypes, FileRises
      <4>2. Rising(lines)
        BY <4>1 DEF Rising
      <4>3. \A i \in 1 .. Len(lines) : lines[i].seq < r.seq
        BY <4>1
      <4> QED BY <1>1, <4>2, <4>3, RisingAppend
    <3>2. CASE Continues(r)
      <4>1. Len(sent) = 1
        BY <2>3, <3>2, ContinuesSent
      <4>2. Rising(lines)
        BY <4>1, RisingLines DEF FileRises
      <4>3. r.seq = Len(sent[1]) /\ Len(sent[1]) \in Nat
        BY <3>2, <4>1, OneSession DEF Continues
      <4>4. \A i \in 1 .. Len(lines) : lines[i].seq < r.seq
        BY <4>1, <4>3, OneSession DEF OnlyIssued
      <4> QED BY <1>1, <4>2, <4>4, RisingAppend
    <3> QED BY <2>1, <3>1, <3>2 DEF Hands
  <2>4. Len(sent') = 1 => Rising(lines) /\ Rising(Append(lines, r))
    BY <2>3
  <2>5. ReadReceipts' = lines \/ ReadReceipts' = Append(lines, r)
    BY <2>1, HandsReads
  <2> QED BY <2>2, <2>4, <2>5 DEF FileRises, Rising
<1>3. CASE Rests
  <2>1. ReadReceipts' = ReadReceipts
    BY <1>3 DEF Rests, ReadReceipts, Nothing, Fragment
  <2> QED BY <1>3, <2>1 DEF Rests, FileRises, Rising, Nothing, Fragment
<1>4. CASE UNCHANGED <<sent, lines, rest>>
  BY <1>4 DEF FileRises, Rising, ReadReceipts
<1>5. CASE Damage
  BY <1>4, <1>5 DEF Damage, Lose, Reorder, Repeat, EditSigned, EditUnsigned, Happens
<1> QED BY <1>2, <1>3, <1>4, <1>5, StepCases DEF Export, fileVars

LEMMA FileCurrentInit == FileInit => FileCurrent
  BY DEF FileInit, FileCurrent

LEMMA FileCurrentNext ==
  ASSUME FileTypes, FileRises, FileCurrent, [FileNext]_fileVars
  PROVE  FileCurrent'
<1>1. lines \in Seq(ReceiptKind) /\ Len(sent) \in Nat /\ short \in Nat
  BY DEF FileTypes
<1>2. CASE \E r \in ReceiptKind : Hands(r) /\ copy = NoCopy
  <2> SUFFICES ASSUME Len(sent') = 1, short' = 0
               PROVE  \/ lines' = sent'[1] /\ rest' = Nothing
                      \/ /\ ~ up' /\ Append(lines', PrevReceipt') = sent'[1]
                         /\ rest' \in {Nothing, Fragment, Whole(PrevReceipt')}
    BY DEF FileCurrent
  <2>1. PICK r \in ReceiptKind : Hands(r)
    BY <1>2
  <2>2. Writes(r)
    BY <2>1 DEF Hands
  <2>3. short = 0 /\ short' # short + 1
    <3>1. short' = short \/ short' = short + 1
      BY <2>2, WritesCases
    <3> QED BY <1>1, <3>1
  <2>4. rest = Nothing /\ sent'[1] = Append(lines, r)
    <3>1. CASE Begins(r)
      <4>1. sent = << >> /\ Len(sent) + 1 = 1
        BY <1>1, <3>1, BeginsSent, EmptySeq DEF FileTypes
      <4>2. lines = << >> /\ rest = Nothing
        BY <4>1 DEF FileRises
      <4>3. sent'[1] = <<r>>
        BY <3>1, <4>1, BeginsSent
      <4> QED BY <4>2, <4>3
    <3>2. CASE Continues(r)
      <4>1. Len(sent) = 1 /\ sent'[1] = Append(sent[1], r)
        BY <3>2, ContinuesSent DEF Current
      <4>2. up
        BY <3>2 DEF Continues
      <4> QED BY <2>3, <4>1, <4>2 DEF FileCurrent
    <3> QED BY <2>1, <3>1, <3>2 DEF Hands
  <2>5. PrevReceipt' = r
    <3>1. PrevReceipt' = sent'[1][Len(sent'[1])]
      BY DEF PrevReceipt, Current
    <3>2. Len(sent'[1]) = Len(lines) + 1 /\ sent'[1][Len(lines) + 1] = r
      BY <1>1, <2>4, AppendProperties
    <3> QED BY <3>1, <3>2
  <2>6. \/ lines' = Append(lines, r) /\ rest' = Nothing
        \/ lines' = lines /\ rest' \in {Fragment, Whole(r)} /\ up' = FALSE
    BY <2>2, <2>3, <2>4, WritesCases
  <2> QED BY <2>4, <2>5, <2>6
<1>3. CASE Rests
  <2>1. up' = FALSE /\ rest' \in {rest, Nothing} /\ sent' = sent /\ lines' = lines /\ short' = short
    BY <1>3 DEF Rests
  <2>2. PrevReceipt' = PrevReceipt
    BY <2>1 DEF PrevReceipt, Current
  <2> QED BY <2>1, <2>2 DEF FileCurrent
<1>4. CASE UNCHANGED <<sent, lines, rest, up, short>>
  <2>1. PrevReceipt' = PrevReceipt
    BY <1>4 DEF PrevReceipt, Current
  <2> QED BY <1>4, <2>1 DEF FileCurrent
<1>5. CASE Damage
  BY <1>4, <1>5 DEF Damage, Lose, Reorder, Repeat, EditSigned, EditUnsigned, Happens
<1> QED BY <1>2, <1>3, <1>4, <1>5, StepCases DEF Export, fileVars

LEMMA FileOrderInvariant == FileSpec => [](FileInv /\ FileRises /\ FileCurrent)
<1>1. FileInit => FileRises /\ FileCurrent
  BY FileRisesInit, FileCurrentInit
<1>2. FileInv /\ FileRises /\ FileCurrent /\ [FileNext]_fileVars => (FileRises /\ FileCurrent)'
  BY FileRisesNext, FileCurrentNext DEF FileInv
<1> QED BY <1>1, <1>2, FileInvariant, PTL DEF FileSpec

\* What can be read of the file of one session: receipts of its chain, in
\* sorted order as they are.
LEMMA OneSessionRead ==
  ASSUME FileInv, FileRises, Len(sent) = 1
  PROVE  /\ ReadReceipts \in Seq(ReceiptKind) /\ Len(ReadReceipts) \in Nat
         /\ Rising(ReadReceipts) /\ Sorted(ReadReceipts) = ReadReceipts
         /\ \A i \in 1 .. Len(ReadReceipts) :
              /\ ReadReceipts[i] \in Issued
              /\ ReadReceipts[i].seq \in Nat /\ ReadReceipts[i].seq + 1 \in 1 .. Len(sent[1])
              /\ ReadReceipts[i] = sent[1][ReadReceipts[i].seq + 1]
<1> DEFINE rs == ReadReceipts
<1>1. rs \in Seq(ReceiptKind) /\ Len(rs) \in Nat
  BY ReadIsReceipts, LenProperties DEF FileInv
<1>2. Rising(rs)
  BY DEF FileRises
<1>3. Sorted(rs) = rs
  BY <1>1, <1>2, KindIsNumbered, SortedStays DEF Rising
<1>4. \A i \in 1 .. Len(rs) : rs[i] \in Issued
  BY ReadIsReceipts DEF FileInv, OnlyIssued
<1>5. \A i \in 1 .. Len(rs) :
        rs[i].seq \in Nat /\ rs[i].seq + 1 \in 1 .. Len(sent[1]) /\ rs[i] = sent[1][rs[i].seq + 1]
  BY <1>4, OneSession DEF FileInv
<1> QED BY <1>1, <1>2, <1>3, <1>4, <1>5

\* Where the numbers rise, a receipt that is not numbered next to the one
\* before it has lost its predecessor.
LEMMA JumpMeansLoss ==
  ASSUME NEW rs \in Seq(ReceiptKind), Rising(rs), NEW j \in 2 .. Len(rs),
         rs[j].seq # rs[j-1].seq + 1
  PROVE  rs[j].seq > 0 /\ \A i \in 1 .. Len(rs) : rs[i].seq # rs[j].seq - 1
<1>1. \A i \in 1 .. Len(rs) : rs[i].seq \in Nat
  <2>1. \A i \in 1 .. Len(rs) : rs[i] \in ReceiptKind
    BY ElementOfSeq
  <2> QED BY <2>1 DEF ReceiptKind
<1>2. Len(rs) \in Nat /\ j \in 1 .. Len(rs) /\ j - 1 \in 1 .. Len(rs) /\ j - 1 < j
  BY LenProperties
<1>3. rs[j-1].seq + 1 < rs[j].seq
  BY <1>1, <1>2 DEF Rising
<1>4. ASSUME NEW i \in 1 .. Len(rs) PROVE rs[i].seq # rs[j].seq - 1
  <2>1. CASE i < j - 1
    <3>1. rs[i].seq < rs[j-1].seq
      BY <1>2, <2>1 DEF Rising
    <3> QED BY <1>1, <1>2, <1>3, <3>1
  <2>2. CASE i = j - 1
    BY <1>1, <1>2, <1>3, <2>2
  <2>3. CASE i = j
    BY <1>1, <1>2, <2>3
  <2>4. CASE j < i
    <3>1. rs[j].seq < rs[i].seq
      BY <1>2, <2>4 DEF Rising
    <3> QED BY <1>1, <1>2, <3>1
  <2> QED BY <1>2, <2>1, <2>2, <2>3, <2>4
<1> QED BY <1>1, <1>2, <1>3, <1>4

\* Every error verifyChain reports in the file of one session is at a receipt
\* whose predecessor is missing: not one receipt is blamed for the loss of
\* another, however many lines were lost and wherever.
THEOREM LossIsShownInPlace == FileSpec => []LossIsLocalised
<1>1. FileInv /\ FileRises => LossIsLocalised
  <2> SUFFICES ASSUME FileInv, FileRises, Len(sent) = 1, copy = NoCopy,
                      NEW e \in ChainErrors(ReadReceipts)
               PROVE  LET r == Sorted(ReadReceipts)[e.index]
                      IN  r.seq > 0 /\ \A i \in 1 .. Len(ReadReceipts) : ReadReceipts[i].seq # r.seq - 1
    BY DEF LossIsLocalised
  <2> DEFINE rs == ReadReceipts
             c == sent[1]
             Lost(k) == rs[k].seq > 0 /\ \A i \in 1 .. Len(rs) : rs[i].seq # rs[k].seq - 1
  <2>1. /\ rs \in Seq(ReceiptKind) /\ Len(rs) \in Nat /\ Rising(rs) /\ Sorted(rs) = rs
        /\ \A i \in 1 .. Len(rs) :
             rs[i].seq \in Nat /\ rs[i].seq + 1 \in 1 .. Len(c) /\ rs[i] = c[rs[i].seq + 1]
    BY OneSessionRead
  <2>2. SessionChained(c)
    BY DEF FileInv, SessionsApart, Sessions
  <2>3. rs # << >> /\ e \in HeadErrors(rs) \cup WorkflowErrors(rs) \cup VersionErrors(rs)
                            \cup SignatureErrors(rs) \cup GapErrors(rs) \cup HashErrors(rs)
    BY <2>1 DEF ChainErrors, SortedErrors
  <2>4. 1 \in 1 .. Len(rs)
    BY <2>1, <2>3, EmptySeq
  <2>5. \A i \in 1 .. Len(rs) : rs[i].edit = "none" /\ rs[i].wf = c[1].id
    BY <2>1, <2>2 DEF SessionChained
  <2> HIDE DEF rs, c
  <2>6. CASE e \in HeadErrors(rs)
    <3>1. e.index = 1 /\ ~ HeadsChain(rs[1])
      BY <2>6 DEF HeadErrors, Error, HeadsChain
    <3>2. rs[1].seq # 0
      <4>1. rs[1].seq = 0 => rs[1].seq + 1 = 1
        BY <2>1
      <4> QED BY <2>1, <2>2, <2>4, <3>1, <4>1 DEF SessionChained
    <3>3. \A i \in 1 .. Len(rs) : rs[1].seq <= rs[i].seq
      BY <2>1, <2>4 DEF Rising
    <3> QED BY <2>1, <2>4, <3>1, <3>2, <3>3 DEF rs
  <2>7. CASE e \in GapErrors(rs)
    <3>1. e.index \in 2 .. Len(rs) /\ rs[e.index].seq # rs[e.index - 1].seq + 1
      BY <2>7 DEF GapErrors, Error
    <3>2. Lost(e.index)
      BY <2>1, <3>1, JumpMeansLoss
    <3> QED BY <2>1, <3>2 DEF rs
  <2>8. CASE e \in HashErrors(rs)
    <3>1. e.index \in 2 .. Len(rs) /\ rs[e.index].prev # HashAsRead(rs[e.index - 1])
      BY <2>8 DEF HashErrors, Error
    <3>2. /\ e.index \in 1 .. Len(rs) /\ e.index - 1 \in 1 .. Len(rs)
      BY <2>1, <3>1
    <3>3. HashAsRead(rs[e.index - 1]) = Digest(rs[e.index - 1])
      BY <2>5, <3>2 DEF HashAsRead
    <3>4. rs[e.index].seq # rs[e.index - 1].seq + 1
      <4>1. SUFFICES ASSUME rs[e.index].seq = rs[e.index - 1].seq + 1 PROVE FALSE
        OBVIOUS
      <4> DEFINE k == rs[e.index].seq + 1
      <4>2. k \in 2 .. Len(c) /\ rs[e.index] = c[k] /\ rs[e.index - 1] = c[k - 1]
        <5>1. /\ rs[e.index].seq + 1 \in 1 .. Len(c) /\ rs[e.index] = c[rs[e.index].seq + 1]
              /\ rs[e.index - 1].seq \in Nat /\ rs[e.index - 1] = c[rs[e.index - 1].seq + 1]
          BY <2>1, <3>2
        <5>2. k - 1 = rs[e.index - 1].seq + 1 /\ k \in 2 .. Len(c)
          BY ONLY <4>1, <5>1
        <5> QED BY <5>1, <5>2
      <4> HIDE DEF k
      <4>3. c[k].prev = Digest(c[k - 1])
        BY <2>2, <4>2 DEF SessionChained
      <4> QED BY <3>1, <3>3, <4>2, <4>3
    <3>5. Lost(e.index)
      BY <2>1, <3>1, <3>4, JumpMeansLoss
    <3> QED BY <2>1, <3>5 DEF rs
  <2>9. e \notin WorkflowErrors(rs) /\ e \notin VersionErrors(rs) /\ e \notin SignatureErrors(rs)
    <3>1. e \notin WorkflowErrors(rs)
      <4>1. \A j \in 2 .. Len(rs) : j \in 1 .. Len(rs)
        BY <2>1
      <4> QED BY <2>4, <2>5, <4>1 DEF WorkflowErrors
    <3>2. e \notin VersionErrors(rs)
      BY <2>5 DEF VersionErrors
    <3>3. e \notin SignatureErrors(rs)
      BY <2>5 DEF SignatureErrors, SignatureValid
    <3> QED BY <3>1, <3>2, <3>3
  <2> QED BY <2>3, <2>6, <2>7, <2>8, <2>9
<1> QED BY <1>1, FileOrderInvariant, PTL

\* A process that dies costs the receipt it was writing and no other, and what
\* it left verifies, for sessions of any length and wherever it died.
THEOREM CrashCostsTheLast == FileSpec => []CrashCostsOneReceipt
<1>1. FileInv /\ FileRises /\ FileCurrent => CrashCostsOneReceipt
  <2> SUFFICES ASSUME FileInv, FileRises, FileCurrent, Len(sent) = 1, short = 0
               PROVE  ChainValid(ReadReceipts) /\ Len(ReadReceipts) >= Len(sent[1]) - 1
    BY DEF CrashCostsOneReceipt
  <2> DEFINE rs == ReadReceipts
             c == sent[1]
  <2>1. rs \in Seq(ReceiptKind) /\ Len(rs) \in Nat /\ Sorted(rs) = rs
    BY OneSessionRead
  <2>2. c \in Chain /\ Len(c) \in Nat \ {0} /\ SessionChained(c)
    BY OneSession DEF FileInv, SessionsApart, Sessions
  <2>3. rs = c \/ Append(rs, PrevReceipt) = c
    <3>1. CASE lines = c /\ rest = Nothing
      BY <3>1 DEF ReadReceipts, Nothing
    <3>2. CASE Append(lines, PrevReceipt) = c /\ rest \in {Nothing, Fragment}
      BY <3>2 DEF ReadReceipts, Nothing, Fragment
    <3>3. CASE Append(lines, PrevReceipt) = c /\ rest = Whole(PrevReceipt)
      BY <3>3 DEF ReadReceipts, Whole
    <3> QED BY <3>1, <3>2, <3>3 DEF FileCurrent
  <2> HIDE DEF rs, c
  <2>4. Len(rs) >= Len(c) - 1 /\ Len(rs) <= Len(c) /\ \A k \in 1 .. Len(rs) : rs[k] = c[k]
    <3>1. CASE rs = c
      BY <2>1, <3>1
    <3>2. CASE Append(rs, PrevReceipt) = c
      <4>1. PrevReceipt \in ReceiptKind
        BY PrevIsReceipt DEF FileInv
      <4>2. Len(c) = Len(rs) + 1 /\ \A k \in 1 .. Len(rs) : c[k] = rs[k]
        BY <2>1, <3>2, <4>1, AppendProperties
      <4> QED BY <2>1, <4>2
    <3> QED BY <2>3, <3>1, <3>2
  <2>5. SortedErrors(rs) = {}
    <3>1. CASE rs = << >>
      BY <3>1 DEF SortedErrors
    <3>2. CASE rs # << >>
      <4>1. Len(rs) > 0 /\ 1 \in 1 .. Len(rs)
        BY <2>1, <3>2, EmptySeq
      <4>2. \A k \in 1 .. Len(rs) :
              /\ k \in 1 .. Len(c) /\ rs[k].seq = k - 1 /\ rs[k].wf = c[1].id
              /\ rs[k].edit = "none" /\ HashAsRead(rs[k]) = Digest(rs[k])
        BY <2>1, <2>2, <2>4 DEF SessionChained, HashAsRead
      <4>3. HeadsChain(rs[1])
        BY <2>2, <2>4, <4>1 DEF SessionChained
      <4>4. \A k \in 2 .. Len(rs) : /\ rs[k].wf = rs[1].wf /\ rs[k].seq = rs[k-1].seq + 1
                                    /\ rs[k].prev = HashAsRead(rs[k-1])
        <5> SUFFICES ASSUME NEW k \in 2 .. Len(rs)
                     PROVE  /\ rs[k].wf = rs[1].wf /\ rs[k].seq = rs[k-1].seq + 1
                            /\ rs[k].prev = HashAsRead(rs[k-1])
          OBVIOUS
        <5>1. k \in 1 .. Len(rs) /\ k - 1 \in 1 .. Len(rs) /\ k \in 2 .. Len(c)
          BY <2>1, <2>2, <2>4
        <5>2. c[k].prev = Digest(c[k-1])
          BY <2>2, <5>1 DEF SessionChained
        <5>3. rs[k].seq = k - 1 /\ rs[k-1].seq = (k - 1) - 1
          BY <4>2, <5>1
        <5> QED BY <2>1, <2>4, <4>1, <4>2, <5>1, <5>2, <5>3
      <4>5. Chained(rs)
        BY <4>2, <4>3, <4>4 DEF Chained, SignatureValid
      <4> QED BY <3>2, <4>5, NoErrorMeansChained
    <3> QED BY <3>1, <3>2
  <2> QED BY <2>1, <2>4, <2>5 DEF ChainValid, ChainErrors, rs, c
<1> QED BY <1>1, FileOrderInvariant, PTL

\* Exchanging two lines of a copy changes nothing of what verifyChain reports,
\* whatever else was done to the copy, if all its numbers differ.
THEOREM OrderIsHandled == FileSpec => OutOfOrderIsHandled
<1>1. ASSUME FileInv, copy # NoCopy, NEW i \in 1 .. Len(copy), NEW j \in 1 .. Len(copy), Reorder(i, j),
             IsInjective([k \in 1 .. Len(copy) |-> copy[k].seq])
      PROVE  ChainErrors(copy') = ChainErrors(copy)
  <2> DEFINE n == Len(copy)
             move == [k \in 1 .. n |-> IF k = i THEN j ELSE IF k = j THEN i ELSE k]
  <2>1. copy \in Seq(ReceiptKind) /\ n \in Nat /\ \A k \in 1 .. n : copy[k] \in ReceiptKind
    BY <1>1, ElementOfSeq, LenProperties DEF FileInv, FileTypes
  <2>2. copy' = [copy EXCEPT ![i] = copy[j], ![j] = copy[i]] /\ i < j
    BY <1>1 DEF Reorder, Happens
  <2>3. copy' \in Seq(ReceiptKind) /\ Len(copy') = n
    BY <1>1, <2>1, <2>2, ExceptSeq
  <2>4. \A k \in 1 .. n : copy'[k] = copy[move[k]]
    BY <1>1, <2>1, <2>2
  <2>5. move \in Bijection(1 .. n, 1 .. n)
    <3>1. move \in [1 .. n -> 1 .. n]
      BY <1>1
    <3>2. \A k \in 1 .. n : move[k] \in 1 .. n /\ move[move[k]] = k
      BY <1>1
    <3> HIDE DEF move
    <3>3. \A k, m \in 1 .. n : move[k] = move[m] => k = m
      BY <3>2
    <3>4. \A k \in 1 .. n : \E m \in 1 .. n : move[m] = k
      BY <3>2
    <3> QED BY <3>1, <3>3, <3>4 DEF Bijection, Injection, Surjection, IsInjective
  <2>6. \A k, m \in 1 .. n : copy[k].seq = copy[m].seq => k = m
    BY <1>1 DEF IsInjective
  <2> HIDE DEF move
  <2>7. Sorted(copy') = Sorted(copy)
    BY <2>1, <2>3, <2>4, <2>5, <2>6, KindIsNumbered, SortedPermuted
  <2> QED BY <2>7 DEF ChainErrors
<1>2. FileInv =>
        [copy # NoCopy /\ (\E i, j \in 1 .. Len(copy) : Reorder(i, j))
           /\ IsInjective([i \in 1 .. Len(copy) |-> copy[i].seq])
         => ChainErrors(copy') = ChainErrors(copy)]_copy
  BY <1>1
<1> QED BY <1>2, FileInvariant, PTL DEF OutOfOrderIsHandled

=============================================================================
