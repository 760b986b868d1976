---------------------------- MODULE PythonVerifier ----------------------------
(***************************************************************************)
(* python-verifier, the second implementation of the verifier: the L1 and  *)
(* L2 tiers of nonsudo_verify, which stop at the first receipt that fails. *)
(* Receipts are those of module ChainVerifier.                             *)
(***************************************************************************)
EXTENDS ChainVerifier

\* sort_receipts_by_sequence: by number, then by receipt_id; stable.  Ids are
\* ULIDs, their order is the order of issue.
PyPrecedes(rs, i, j) ==
  \/ rs[i].seq < rs[j].seq
  \/ rs[i].seq = rs[j].seq /\ rs[i].id < rs[j].id
  \/ rs[i].seq = rs[j].seq /\ rs[i].id = rs[j].id /\ i < j

PySorted(rs) ==
  [k \in Places(rs) |->
     rs[CHOOSE i \in Places(rs) :
          Cardinality({j \in Places(rs) : PyPrecedes(rs, j, i)}) = k - 1]]

\* _l1
PyL1(rs) == \A i \in Places(rs) : SignatureValid(rs[i])

\* Mutant: the hash is over the signing payload, not over the full receipt.
PyFollows_SigningPayload(r, previous) ==
  r.wf = previous.wf /\ r.seq = previous.seq + 1 /\ r.prev = Digest(previous)

\* _l2, a receipt and the one before it.  Here workflow_id is compared with
\* the first receipt's; along a chain without error it is the same.
PyFollows(r, previous) ==
  r.wf = previous.wf /\ r.seq = previous.seq + 1 /\ r.prev = HashAsRead(previous)

\* _l2
PyL2(rs) ==
  LET s == PySorted(rs)
  IN  /\ s # <<>> => HeadsChain(s[1])
      /\ \A i \in 1..Len(s) : s[i].edit # "version"
      /\ \A i \in 2..Len(s) : PyFollows(s[i], s[i-1])

\* verify_chain, without a timestamp sidecar and without a money action.
PyPass(rs) == PyL1(rs) /\ PyL2(rs)

=============================================================================
