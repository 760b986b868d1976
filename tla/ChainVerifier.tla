---------------------------- MODULE ChainVerifier ----------------------------
(***************************************************************************)
(* packages/receipts verifyChain and, on top of it, `nonsudo verify`: the  *)
(* table of per-receipt results, the overall verdict and the exit code.    *)
(*                                                                         *)
(* A receipt read from a file may have been edited since it was signed:    *)
(*   edit   "none"; "signed", a field the signature covers was changed     *)
(*          (record type, spec version, numbering, anything); "unsigned",  *)
(*          one it does not cover (rfc3161_token, tsa_id); "version", none *)
(*          of these, but it was signed with an unknown spec_version.      *)
(* Its other fields are those of module Receipts.  The errors are a set of *)
(* [index, code] records, the index being the place in sorted order.       *)
(***************************************************************************)
EXTENDS Receipts, FiniteSets

\* SHA-256 over the complete receipt as read.  The previous-receipt hashes in
\* the file are digests of receipts as they were signed, so all that matters
\* of an edited receipt is that its digest is none of these.
HashAsRead(r) == IF r.edit \in {"none", "version"} THEN Digest(r) ELSE 0 - Digest(r)

\* verifySignature: the signing payload still is what was signed.
SignatureValid(r) == r.edit # "signed"

-----------------------------------------------------------------------------
Places(rs) == 1..Len(rs)

\* sort by sequence_number; Array.prototype.sort is stable.
Precedes(rs, i, j) ==
  rs[i].seq < rs[j].seq \/ (rs[i].seq = rs[j].seq /\ i < j)

\* The place of line i of rs in sorted order.
Rank(rs, i) == Cardinality({j \in Places(rs) : Precedes(rs, j, i)}) + 1

Sorted(rs) == [k \in Places(rs) |-> rs[CHOOSE i \in Places(rs) : Rank(rs, i) = k]]

Error(i, code) == [index |-> i, code |-> code]

HeadErrors(s) ==
  {e \in {Error(1, "MISSING_MANIFEST")} : s[1].type # "workflow_manifest"} \cup
  {e \in {Error(1, "SEQUENCE_ERROR")} : s[1].seq # 0} \cup
  {e \in {Error(1, "NULL_HASH_EXPECTED")} : s[1].prev # NullHash}

WorkflowErrors(s) ==
  {Error(i, "WORKFLOW_ID_MISMATCH") : i \in {j \in 2..Len(s) : s[j].wf # s[1].wf}}

\* Mutant: the loop begins behind the first receipt.
VersionErrors_FromSecond(s) ==
  {Error(i, "UNKNOWN_SPEC_VERSION") : i \in {j \in 2..Len(s) : s[j].edit = "version"}}

\* spec_version must be var/1.0.
VersionErrors(s) ==
  {Error(i, "UNKNOWN_SPEC_VERSION") : i \in {j \in 1..Len(s) : s[j].edit = "version"}}

SignatureErrors(s) ==
  {Error(i, "L1_INVALID") : i \in {j \in 1..Len(s) : ~SignatureValid(s[j])}}

\* Mutant: the number is compared with the place in the chain.
GapErrors_ByPlace(s) ==
  {Error(i, "INCOMPLETE_CHAIN") : i \in {j \in 2..Len(s) : s[j].seq # j - 1}}

GapErrors(s) ==
  {Error(i, "INCOMPLETE_CHAIN") : i \in {j \in 2..Len(s) : s[j].seq # s[j-1].seq + 1}}

\* Mutant: only the payload the signature covers is hashed.
HashErrors_SignedFieldsOnly(s) ==
  {Error(i, "HASH_MISMATCH") :
     i \in {j \in 2..Len(s) :
              s[j].prev # IF s[j-1].edit = "signed" THEN HashAsRead(s[j-1]) ELSE Digest(s[j-1])}}

HashErrors(s) ==
  {Error(i, "HASH_MISMATCH") : i \in {j \in 2..Len(s) : s[j].prev # HashAsRead(s[j-1])}}

\* verifyChain, the errors; no receipt, no error.
SortedErrors(s) ==
  IF s = <<>> THEN {}
  ELSE HeadErrors(s) \cup WorkflowErrors(s) \cup VersionErrors(s)
       \cup SignatureErrors(s) \cup GapErrors(s) \cup HashErrors(s)

ChainErrors(rs) == SortedErrors(Sorted(rs))

ChainValid(rs) == ChainErrors(rs) = {}

\* complete: the last receipt in sorted order is workflow_closed.
ChainComplete(rs) == rs # <<>> /\ Sorted(rs)[Len(rs)].type = "workflow_closed"

-----------------------------------------------------------------------------
\* verifyReceipts: l2ByIndex is keyed by the place in sorted order and looked
\* up by the place in the file.  L1 results are by the place in the file.
L1Pass(rs, i) == SignatureValid(rs[i])

\* Mutant: index 0 is taken for "no index".
RowPasses_IndexZeroIgnored(errors, i) ==
  \A e \in errors : e.code = "L1_INVALID" \/ e.index = 1 \/ e.index # i

RowPasses(errors, i) == \A e \in errors : e.code = "L1_INVALID" \/ e.index # i

L2Pass(rs, i) == RowPasses(ChainErrors(rs), i)

\* With no timestamp sidecar and no money action, L3 is SKIPPED and L4 is N/A.
OverallPass(rs) ==
  LET errors == ChainErrors(rs)
  IN  \A i \in Places(rs) : L1Pass(rs, i) /\ RowPasses(errors, i)

\* Mutant: an open chain is not told from a closed one.
ExitCode_OpenIsZero(rs) == IF OverallPass(rs) THEN 0 ELSE 1

\* computeVerifyExitCode
ExitCode(rs) ==
  IF ~OverallPass(rs) THEN 1 ELSE IF ~ChainComplete(rs) THEN 2 ELSE 0

\* runVerify: an empty file is a failure; a timestamp of the sidecar older
\* than --require-timestamps asks for decides the exit code on its own.
RunVerify(rs, stale) ==
  IF rs = <<>> THEN 1 ELSE IF stale THEN 2 ELSE ExitCode(rs)

\* bin/nonsudo.js verify, the command the package installs: L1 and L2 by
\* verifyChain alone.
BinVerify(rs) == IF rs # <<>> /\ ChainValid(rs) THEN 0 ELSE 1

=============================================================================
