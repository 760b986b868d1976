----------------------------- MODULE ReceiptFile -----------------------------
(***************************************************************************)
(* A receipt file on disk, from the process that appends to it to the      *)
(* auditor who verifies a copy.                                            *)
(*                                                                         *)
(* The writer appends one JSON line per receipt with one writeSync whose   *)
(* result it ignores, so a write may be short without notice, and the      *)
(* process may die in the middle of one.  What is written next is glued to *)
(* the unterminated rest.  readReceiptsFile skips a line that is no JSON,  *)
(* so a glued line is read as if it were not there; `lines` holds only     *)
(* those that parse.  A process that starts again with the same file       *)
(* appends a second workflow to it.                                        *)
(***************************************************************************)
EXTENDS PythonVerifier, SequencesExt

CONSTANTS
  MaxReceipts,  \* bound: receipts written, by all processes together
  MaxSessions,  \* bound: processes that use the file, one after the other
  MaxShort,     \* bound: short writes that go unnoticed
  MaxDamage,    \* bound: things that happen to the auditor's copy
  NoCopy        \* the auditor has no copy yet

ASSUME FileBounds ==
  /\ MaxReceipts \in Nat /\ MaxSessions \in Nat
  /\ MaxShort \in Nat /\ MaxDamage \in Nat

VARIABLES
  sent,    \* for every session, the receipts it handed to the writer
  lines,   \* the terminated lines of the file that parse, as receipts
  rest,    \* what follows the last newline: nothing, a fragment, a receipt
  up,      \* a process has the file open
  copy,    \* the receipts of the auditor's copy, once there is one
  nextId,  \* source of fresh ids
  short,   \* number of short writes
  damage   \* number of things that happened to the copy

fileVars == <<sent, lines, rest, up, copy, nextId, short, damage>>

-----------------------------------------------------------------------------
Nothing  == [kind |-> "nothing"]
Fragment == [kind |-> "fragment"]
Whole(r) == [kind |-> "whole", receipt |-> r]

FileReceipt(type, wf) ==
  [id |-> nextId, wf |-> wf, type |-> type, seq |-> 0, prev |-> NullHash, edit |-> "none"]

\* The session that has, or had last, the file open, and its prevReceipt.
Current     == sent[Len(sent)]
PrevReceipt == Current[Len(Current)]

\* readReceiptsFile
ReadReceipts == IF rest.kind = "whole" THEN Append(lines, rest.receipt) ELSE lines

\* Mutant: the reader hands on what does not parse.
WriteLine_Unskipped(r) ==
  /\ lines' = Append(lines, IF rest = Nothing THEN r ELSE rest)
  /\ rest' = Nothing
  /\ UNCHANGED short

\* writeSync wrote the whole line.
WriteLine(r) ==
  /\ lines' = IF rest = Nothing THEN Append(lines, r) ELSE lines
  /\ rest' = Nothing
  /\ UNCHANGED short

\* writeSync wrote a part of it: perhaps all but the newline.
WritePart(r) ==
  /\ rest' \in {Fragment} \cup {Whole(x) : x \in {y \in {r} : rest = Nothing}}
  /\ UNCHANGED lines

WriteShort(r) == short < MaxShort /\ short' = short + 1 /\ WritePart(r)

\* The process writes a line, and lives on or dies in the middle of it.
Writes(r) ==
  \/ up' = TRUE /\ (WriteLine(r) \/ WriteShort(r))
  \/ up' = FALSE /\ WritePart(r) /\ UNCHANGED short

\* Opening the file and writing the manifest.  (Once the auditor has a copy,
\* it no longer matters what becomes of the file.)
Start ==
  /\ ~up /\ copy = NoCopy
  /\ Len(sent) < MaxSessions /\ nextId <= MaxReceipts
  /\ LET r == FileReceipt("workflow_manifest", nextId)
     IN  sent' = Append(sent, <<r>>) /\ Writes(r)
  /\ nextId' = nextId + 1
  /\ UNCHANGED <<copy, damage>>

\* Mutant: the receipt is numbered but not linked.
NextReceipt_Unlinked(type) ==
  [FileReceipt(type, PrevReceipt.wf) EXCEPT !.seq = PrevReceipt.seq + 1]

\* The next receipt of the session, unless it wrote workflow_closed.
NextReceipt(type) ==
  ChainReceipt(FileReceipt(type, PrevReceipt.wf), PrevReceipt)

\* prevReceipt is now r.
Sends(r) == sent' = [sent EXCEPT ![Len(sent)] = Append(@, r)]

Emit(type) ==
  /\ up /\ copy = NoCopy
  /\ nextId <= MaxReceipts /\ PrevReceipt.type # "workflow_closed"
  /\ LET r == NextReceipt(type) IN Sends(r) /\ Writes(r)
  /\ nextId' = nextId + 1
  /\ UNCHANGED <<copy, damage>>

\* The process ends, or dies between two writes.
Stop ==
  /\ up /\ copy = NoCopy
  /\ up' = FALSE
  /\ UNCHANGED <<sent, lines, rest, copy, nextId, short, damage>>

\* docs/guides/runbook.md, scenario 4: the final line is cut off if it does
\* not parse.
Repair ==
  /\ ~up /\ copy = NoCopy
  /\ rest = Fragment
  /\ rest' = Nothing
  /\ UNCHANGED <<sent, lines, up, copy, nextId, short, damage>>

-----------------------------------------------------------------------------
\* The auditor takes a copy, at any time.
Export ==
  /\ copy = NoCopy /\ sent # <<>>
  /\ copy' = ReadReceipts
  /\ UNCHANGED <<sent, lines, rest, up, nextId, short, damage>>

Happens(rs) ==
  /\ damage < MaxDamage
  /\ damage' = damage + 1
  /\ copy' = rs
  /\ UNCHANGED <<sent, lines, rest, up, nextId, short>>

\* A line of the copy gets lost.
Lose(i) == Happens(RemoveAt(copy, i))

\* Two lines change places.
Reorder(i, j) == i < j /\ Happens([copy EXCEPT ![i] = copy[j], ![j] = copy[i]])

\* A line occurs again at the end (two exports were concatenated).
Repeat(i) == Happens(Append(copy, copy[i]))

\* A signed field is edited; the sequence number is one of them.
EditSigned(i, seq) == Happens([copy EXCEPT ![i] = [@ EXCEPT !.edit = "signed", !.seq = seq]])

\* rfc3161_token or tsa_id is filled in after signing.
EditUnsigned(i) ==
  copy[i].edit = "none" /\ Happens([copy EXCEPT ![i] = [@ EXCEPT !.edit = "unsigned"]])

Damage ==
  /\ copy # NoCopy
  /\ \E i \in 1..Len(copy) :
       \/ Lose(i)
       \/ \E j \in 1..Len(copy) : Reorder(i, j)
       \/ Repeat(i)
       \/ \E seq \in 0..MaxReceipts - 1 : EditSigned(i, seq)
       \/ EditUnsigned(i)

FileInit ==
  /\ sent = <<>> /\ lines = <<>> /\ rest = Nothing
  /\ up = FALSE /\ copy = NoCopy /\ nextId = 1 /\ short = 0 /\ damage = 0

Write ==
  \/ Start
  \/ \E type \in {"action_receipt", "workflow_closed"} : Emit(type)
  \/ Stop
  \/ Repair

FileNext == Write \/ Export \/ Damage

FileSpec == FileInit /\ [][FileNext]_fileVars

-----------------------------------------------------------------------------
\* ------------------------------ properties ------------------------------

\* What a verifier is given: the copy or, before there is one, the file.
Evidence == IF copy = NoCopy THEN ReadReceipts ELSE copy

ReceiptKind ==
  [id : Nat \ {0}, wf : Nat \ {0},
   type : {"workflow_manifest", "action_receipt", "workflow_closed"},
   seq : Nat, prev : Nat, edit : {"none", "signed", "unsigned"}]

\* Every variable holds a value of its kind.
FileTypeOK ==
  /\ \A s \in 1..Len(sent) : sent[s] \in Seq(ReceiptKind) /\ sent[s] # <<>>
  /\ lines \in Seq(ReceiptKind)
  /\ rest \in {Nothing, Fragment} \/ (rest = Whole(rest.receipt) /\ rest.receipt \in ReceiptKind)
  /\ up \in BOOLEAN
  /\ copy = NoCopy \/ copy \in Seq(ReceiptKind)
  /\ nextId \in Nat \ {0} /\ short \in Nat /\ damage \in Nat

\* The receipts rs, in sorted order, are the first ones session s sent, as it
\* signed them; the last may have been stamped since.
IsPrefixOf(rs, s) ==
  /\ Len(rs) <= Len(sent[s])
  /\ \A k \in 1..Len(rs) :
       LET r == Sorted(rs)[k]
       IN  [r EXCEPT !.edit = "none"] = sent[s][k] /\ (r.edit = "none" \/ k = Len(rs))
  /\ \A k \in 1..Len(rs) : SignatureValid(rs[k])

\* What verifyChain calls valid is the beginning of what one session emitted:
\* nothing lost but at the end, nothing added, exchanged or edited, whatever
\* happened to the file and to the copy.
ValidIsPrefix ==
  Evidence # <<>> /\ ChainValid(Evidence) => \E s \in 1..Len(sent) : IsPrefixOf(Evidence, s)

\* "Exit 0: chain complete" (var-core-v1.0.md:196): then the copy holds
\* every receipt of a session, up to its workflow_closed, however old its
\* timestamps are.
ExitZeroIsWholeSession ==
  (\E stale \in BOOLEAN : RunVerify(Evidence, stale) = 0) =>
    \E s \in 1..Len(sent) : IsPrefixOf(Evidence, s) /\ Len(Evidence) = Len(sent[s])

\* The table of per-receipt results, whose rows are attributed by index, has
\* a failing row exactly when verifyChain found an error.
OverallPassIsChainValid == OverallPass(Evidence) <=> ChainValid(Evidence)

\* The verdict does not depend on which verifier gives it: `nonsudo verify`,
\* the library's verify and python-verifier, which sorts by other keys, stops
\* at the first error and has its own hashing, pass the same evidence.
VerifiersAgree ==
  Evidence # <<>> =>
    /\ PyPass(Evidence) <=> OverallPass(Evidence)
    /\ BinVerify(Evidence) = 0 <=> OverallPass(Evidence)

\* A process that dies costs one receipt at most, and what is left verifies
\* ("the chain ... through the last written receipt"): without a write that
\* was short and unnoticed, the file of one session is its emitted chain or
\* lacks the last receipt of it.
CrashCostsOneReceipt ==
  Len(sent) = 1 /\ short = 0 /\ copy = NoCopy =>
    /\ ChainValid(ReadReceipts)
    /\ Len(ReadReceipts) >= Len(sent[1]) - 1

\* Loss is reported where it is: in a file that only lost lines, every error
\* of verifyChain is at a receipt whose predecessor is missing.
LossIsLocalised ==
  Len(sent) = 1 /\ copy = NoCopy =>
    \A e \in ChainErrors(ReadReceipts) :
      LET r == Sorted(ReadReceipts)[e.index]
      IN  r.seq > 0 /\ \A i \in 1..Len(ReadReceipts) : ReadReceipts[i].seq # r.seq - 1

\* "Sort by sequence_number to handle out-of-order NDJSON files"
\* (receipts/src/index.ts:483): as long as no two receipts have the same
\* number, exchanging lines changes nothing of what verifyChain reports.
OutOfOrderIsHandled ==
  [][copy # NoCopy /\ (\E i, j \in 1..Len(copy) : Reorder(i, j))
       /\ IsInjective([i \in 1..Len(copy) |-> copy[i].seq])
     => ChainErrors(copy') = ChainErrors(copy)]_copy

=============================================================================
