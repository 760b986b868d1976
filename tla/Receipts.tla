------------------------------ MODULE Receipts ------------------------------
(***************************************************************************)
(* The receipt, as packages/receipts sees it: what signing and chaining do *)
(* to it.  A receipt is a record of the fields the properties tell apart:  *)
(*   id     receipt_id, a ULID: no two receipts share one                  *)
(*   wf     workflow_id, written here as the id of the workflow's manifest *)
(*   type   record_type                                                    *)
(*   seq    sequence_number                                                *)
(*   prev   prev_receipt_hash                                              *)
(*   dead   queue_status = "DEAD_LETTER"                                   *)
(*   named  tool_name and params_canonical_hash are those of the tool run, *)
(*          rather than the "unknown" / {} fallback                        *)
(*   before, after   state_version_before and state_version_after          *)
(*   call   the handler call that caused it (what tool_name, the argument  *)
(*          hash and the time of a real receipt stand for)                 *)
(*   enq    the sequence_number of prevReceipt when the receipt was asked  *)
(*          for; not a field of the receipt, kept to state what the        *)
(*          contract says of the version "at enqueue time"                 *)
(***************************************************************************)
EXTENDS Integers, Sequences

\* SHA-256 over the canonical form of the complete signed receipt.  A signed
\* receipt is never changed by the code and its id is unique, so two receipts
\* have equal digests exactly when their ids are equal.
Digest(r) == r.id

\* prev_receipt_hash = null
NullHash == 0

\* A place where a receipt may be but none is (a promise not yet resolved).
NoReceipt == [id |-> 0]

\* chainReceipt: link an unsigned receipt to the previous signed one.
ChainReceipt(unsigned, previous) ==
  [unsigned EXCEPT !.prev = Digest(previous), !.seq = previous.seq + 1]

\* What verifyChain demands of a manifest at the head of a chain.
HeadsChain(r) == r.type = "workflow_manifest" /\ r.seq = 0 /\ r.prev = NullHash

\* What verifyChain demands of a receipt that follows another.
Links(r, previous) ==
  r.wf = previous.wf /\ r.seq = previous.seq + 1 /\ r.prev = Digest(previous)

=============================================================================
