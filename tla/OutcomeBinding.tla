---------------------------- MODULE OutcomeBinding ----------------------------
(***************************************************************************)
(* The upper tiers of both verifiers and the enforcement report: L3, RFC   *)
(* 3161 timestamps in a sidecar file; L4, outcome binding of money         *)
(* actions; the D1/D2 warnings; the exit codes of `nonsudo verify`; what   *)
(* `nonsudo report` makes of a chain.                                      *)
(*                                                                         *)
(* A receipt has the fields of module ChainVerifier and                    *)
(*   decision, money, dead   of an action_receipt (dead: DEAD_LETTER)      *)
(*   called    upstream_call_initiated: "yes", "no", "untracked"           *)
(*   degraded  billable_reason = "DEGRADED_SESSION"                        *)
(*   pre       pre_receipt_id of a post_receipt                            *)
(*   outcome   its terminal_outcome                                        *)
(*   dedupe    its tool_name, idempotency_key and account_context, or None *)
(*             if it has no key                                            *)
(* A sidecar record is [id, tsa, token, imprint]: the receipt it is about, *)
(* who signed it, what is wrong with the token if anything, and the digest *)
(* that was sent to be stamped.  Records that are no JSON are not there:   *)
(* loadTsaSidecar skips them.                                              *)
(***************************************************************************)
EXTENDS PythonVerifier, SequencesExt

None == "none"

\* A receipt of a workflow before it is chained, with no field of its type set.
Fields(type) ==
  [id |-> 0, wf |-> 1, type |-> type, seq |-> 0, prev |-> NullHash, edit |-> "none",
   decision |-> None, money |-> FALSE, dead |-> FALSE, called |-> "untracked",
   degraded |-> FALSE, pre |-> 0, outcome |-> None, dedupe |-> None]

Accepting == {"digicert", "sectigo", "globalsign"}

\* Tokens that are refused: no DER; PKIStatus not granted (such a response has
\* no token); granted but empty; another hash than SHA-256; genTime before
\* issued_at.  Python hands genTime, digits without a separator, to
\* datetime.fromisoformat, which takes another time or an error from it: a
\* "misread" token is good but fails there, an "early_misread" one is early
\* but passes.
BadTokens   == {"garbage", "rejected", "empty", "md5", "early", "early_misread"}
PyBadTokens == {"garbage", "rejected", "empty", "md5", "early", "misread"}

IsAction(r) == r.type = "action_receipt"
IsPost(r)   == r.type = "post_receipt"

\* The types whose primary id is called receipt_id.
HasReceiptId(r) == r.type \in {"workflow_manifest", "action_receipt", "workflow_closed"}

IdsOf(rs, Test(_)) == {rs[i].id : i \in {j \in Places(rs) : Test(rs[j])}}

-----------------------------------------------------------------------------
\* verifyChain's warnings, which do not make a chain invalid.
DegradedState(s) ==
  {Error(i, "DEGRADED_STATE") : i \in {j \in Places(s) : IsAction(s[j]) /\ s[j].degraded}}

MoneyActionTagMissing(s) ==
  {Error(i, "MONEY_ACTION_TAG_MISSING") : i \in {j \in Places(s) :
     IsPost(s[j]) /\ \E k \in Places(s) :
       HasReceiptId(s[k]) /\ s[k].id = s[j].pre /\ ~s[k].money}}

ChainWarnings(rs) == DegradedState(Sorted(rs)) \cup MoneyActionTagMissing(Sorted(rs))

-----------------------------------------------------------------------------
\* A Map built from the records: the last record of a receipt counts.
RecordsOf(tsa, id) == {k \in 1..Len(tsa) : tsa[k].id = id}
Stamped(tsa, r)    == RecordsOf(tsa, r.id) # {}

RecordOf(tsa, r)   == tsa[Max(RecordsOf(tsa, r.id))]

\* Mutant: the digest is not compared.
TokenValid_NoImprint(r, rec) == rec.tsa \in Accepting /\ rec.token \notin BadTokens

\* The checks of verifyL3, one record against its receipt.
TokenValid(r, rec) ==
  /\ rec.tsa \in Accepting
  /\ rec.token \notin BadTokens
  /\ rec.imprint = HashAsRead(r)

\* verifyL3 looks records up by receipt_id: other types are skipped.
Timestamped(rs, tsa) == {i \in Places(rs) : HasReceiptId(rs[i]) /\ Stamped(tsa, rs[i])}

L3Status(rs, tsa) ==
  IF Timestamped(rs, tsa) = {} THEN "SKIPPED"
  ELSE IF \A i \in Timestamped(rs, tsa) : TokenValid(rs[i], RecordOf(tsa, rs[i]))
  THEN "PASS" ELSE "FAIL"

\* verify_tsa_record of Python.
PyTokenValid(r, rec) ==
  /\ rec.tsa \in Accepting
  /\ rec.token \notin PyBadTokens
  /\ rec.imprint = HashAsRead(r)

\* _l3 of Python: by primary id of any type.
PyL3Status(rs, tsa) ==
  LET checked == {i \in Places(rs) : Stamped(tsa, rs[i])}
  IN  IF checked = {} THEN "SKIPPED"
      ELSE IF \A i \in checked : PyTokenValid(rs[i], RecordOf(tsa, rs[i])) THEN "PASS" ELSE "FAIL"

-----------------------------------------------------------------------------
MoneyAllowed(r) == IsAction(r) /\ r.money /\ r.decision = "ALLOW"

ResolvedIds(rs) == {rs[i].pre : i \in {j \in Places(rs) : IsPost(rs[j])}}

\* Mutant: in one pass, so that a post_receipt must come behind its action.
MissingPost_OnePass(rs) ==
  {rs[i].id : i \in {j \in Places(rs) : MoneyAllowed(rs[j]) /\
     \A k \in j..Len(rs) : ~IsPost(rs[k]) \/ rs[k].pre # rs[j].id}}

\* MISSING_POST_RECEIPT
MissingPost(rs) == IdsOf(rs, MoneyAllowed) \ ResolvedIds(rs)

\* DUPLICATE_IDEMPOTENCY_KEY
KeySuccess(r) == IsPost(r) /\ r.outcome = "SUCCESS" /\ r.dedupe # None

DuplicateKeys(rs) ==
  {i \in Places(rs) : KeySuccess(rs[i]) /\
     \E j \in 1..i-1 : KeySuccess(rs[j]) /\ rs[j].dedupe = rs[i].dedupe}

\* BUDGET_WARNING, BUDGET_CAP_ENFORCED
BudgetWarnings(rs) == {i \in Places(rs) : rs[i].type = "budget_warning"}

\* verifyL4
L4Status(rs) ==
  IF MissingPost(rs) # {} THEN "FAIL"
  ELSE IF DuplicateKeys(rs) \cup BudgetWarnings(rs) # {} THEN "WARN"
  ELSE IF IdsOf(rs, MoneyAllowed) = {} THEN "N/A"
  ELSE "PASS"

\* _l4 of Python: it has no duplicates and does not count warnings.
PyL4Status(rs) ==
  IF IdsOf(rs, MoneyAllowed) = {} THEN "N/A"
  ELSE IF MissingPost(rs) # {} THEN "FAIL" ELSE "PASS"

-----------------------------------------------------------------------------
\* verifyReceipts, overallPass
AllTiersPass(rs, tsa) ==
  OverallPass(rs) /\ L3Status(rs, tsa) # "FAIL" /\ L4Status(rs) # "FAIL"

\* Mutant: WARN is looked at before the chain's end.
VerifyExitCode_WarnFirst(rs, tsa, requireTimestamps) ==
  IF ~AllTiersPass(rs, tsa) \/ (requireTimestamps /\ L3Status(rs, tsa) = "SKIPPED") THEN 1
  ELSE IF L4Status(rs) = "WARN" THEN 3
  ELSE 0

\* computeVerifyExitCode: SKIPPED fails if timestamps are required.
VerifyExitCode(rs, tsa, requireTimestamps) ==
  IF ~AllTiersPass(rs, tsa) \/ (requireTimestamps /\ L3Status(rs, tsa) = "SKIPPED") THEN 1
  ELSE IF ~ChainComplete(rs) THEN 2
  ELSE IF L4Status(rs) = "WARN" THEN 3
  ELSE 0

\* Mutant: what is neither PASS nor N/A is a failure.
BinVerifyFull_WarnFails(rs, tsa) ==
  IF BinVerify(rs) = 1 \/ L3Status(rs, tsa) = "FAIL" \/ L4Status(rs) \notin {"PASS", "N/A"}
  THEN 1 ELSE 0

\* bin/nonsudo.js verify --full
BinVerifyFull(rs, tsa) ==
  IF BinVerify(rs) = 1 \/ L3Status(rs, tsa) \notin {"PASS", "SKIPPED"} \/ L4Status(rs) = "FAIL"
  THEN 1 ELSE 0

\* verify_chain of Python with a key that is resolved.
PyVerdict(rs, tsa) ==
  IF rs # <<>> /\ (~PyPass(rs) \/ PyL3Status(rs, tsa) = "FAIL" \/ PyL4Status(rs) = "FAIL")
  THEN "FAIL" ELSE "PASS"

-----------------------------------------------------------------------------
\* report.ts: the money actions an approval and a success followed.
SuccessIds(rs) ==
  {rs[i].pre : i \in {j \in Places(rs) : IsPost(rs[j]) /\ rs[j].outcome = "SUCCESS"}}

Approved(rs, r) == r.decision = "STEP_UP" /\ r.id \in SuccessIds(rs)

Executed(rs, r) == r.decision = "ALLOW" \/ Approved(rs, r)

\* Mutant: the success of a STEP_UP is not looked for.
UpstreamNotCalled_StepUp(rs, r) ==
  r.called = "no" \/ r.dead \/ r.decision \in {"BLOCK", "FAIL_CLOSED", "STEP_UP"}

UpstreamNotCalled(rs, r) ==
  \/ r.called = "no" \/ r.dead
  \/ r.decision \in {"BLOCK", "FAIL_CLOSED"}
  \/ r.decision = "STEP_UP" /\ ~Approved(rs, r)

MoneyActions(rs) == {i \in Places(rs) : IsAction(rs[i]) /\ rs[i].money}

\* The receipts whose amounts make up "processed" and "prevented by
\* enforcement".
Processed(rs) == {i \in MoneyActions(rs) : Executed(rs, rs[i])}
Protected(rs) == {i \in MoneyActions(rs) : UpstreamNotCalled(rs, rs[i])}

=============================================================================
