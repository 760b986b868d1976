---------------------------- MODULE SigningPayload ----------------------------
(***************************************************************************)
(* What a signature covers.  Three tables of the repository must tell the  *)
(* same story for every record type: the fields types.ts declares, the     *)
(* fields buildSigningPayload signs, and the fields build_signing_payload  *)
(* of the Python verifier signs.  They are written down three times here   *)
(* as they are there.                                                      *)
(*                                                                         *)
(* A receipt is a function from the names of its fields to their values.   *)
(* All values are "given" when it is created, and may be "other" later;    *)
(* record_type and queue_status have their values, for they select the     *)
(* table.  A receipt is created, signed, and then edited.                  *)
(*                                                                         *)
(* Module SignatureProofs compares the three tables for every record type, *)
(* for receipts of any content and any number of edits.                    *)
(***************************************************************************)
EXTENDS Naturals, FiniteSets

CONSTANT MaxEdits  \* bound: edits after signing

ASSUME EditsBound == MaxEdits \in Nat

VARIABLES
  receipt,  \* as it is now
  signed,   \* as it was when it was signed
  edits     \* number of edits

payloadVars == <<receipt, signed, edits>>

Unsigned == <<>>

RecordTypes ==
  {"workflow_manifest", "action_receipt", "workflow_closed", "post_receipt",
   "recovery_event", "budget_warning", "reservation_expired", "approval_receipt"}

TypeOf(r) == IF "record_type" \in DOMAIN r THEN r["record_type"] ELSE "none"
IsDead(r) == "queue_status" \in DOMAIN r /\ r["queue_status"] = "DEAD_LETTER"

-----------------------------------------------------------------------------
\* types.ts: what each record type declares.

Mandate == {"agent_class_id", "mandate_id", "mandate_version", "chain_sequence"}

Stamp == {"rfc3161_token", "tsa_id"}

BaseReceiptFields ==
  {"receipt_id", "record_type", "spec_version", "workflow_id", "workflow_id_source",
   "agent_id", "issued_at", "prev_receipt_hash", "sequence_number",
   "policy_bundle_hash"} \cup Stamp \cup Mandate

\* The part the four types with an id of their own have in common.
EventFields ==
  {"record_type", "spec_version", "workflow_id", "agent_id", "sequence_number",
   "prev_receipt_hash", "policy_bundle_hash", "issued_at"} \cup Stamp \cup Mandate

ActionOptional ==
  {"upstream_call_initiated", "money_action", "amount_minor_units", "billable",
   "billable_reason", "pending_approval_id"}
ActionReceiptFields ==
  BaseReceiptFields \cup ActionOptional \cup
  {"tool_name", "params_canonical_hash", "decision", "decision_reason",
   "decision_order", "queue_status", "queue_timeout_ms", "blast_radius",
   "reversible", "state_version_before", "state_version_after", "response_hash"}
DeadLetterActionReceiptFields == ActionReceiptFields \cup {"failure_reason", "fallback_policy"}

ManifestOptional ==
  {"declared_tools_fetch_failed", "mode", "taxonomy_status", "money_action_overrides"}
WorkflowManifestFields ==
  BaseReceiptFields \cup ManifestOptional \cup
  {"initiator_id", "workflow_owner", "session_budget", "declared_tools",
   "capability_manifest_hash", "parent_workflow_id", "framework_ref"}

WorkflowClosedFields ==
  BaseReceiptFields \cup
  {"total_calls", "total_blocked", "total_spend", "session_duration_ms", "close_reason"}

PostReceiptFields ==
  EventFields \cup
  {"post_receipt_id", "pre_receipt_id", "tool_name", "terminal_outcome",
   "upstream_response_digest", "projection_id", "projection_hash", "idempotency_key",
   "tool_call_correlation_id", "execution_start_ms", "execution_end_ms",
   "degraded_reason", "billable", "billable_reason", "account_context"}

RecoveryEventFields ==
  EventFields \cup
  {"recovery_event_id", "recovered_open_pres_count", "index_status", "recovery_method",
   "scan_window_minutes", "scan_receipts_examined"}

BudgetWarningFields ==
  EventFields \cup
  {"budget_warning_id", "tool_name", "spent", "reserved", "cap", "threshold_pct"}

ReservationExpiredFields ==
  EventFields \cup
  {"reservation_expired_id", "pre_receipt_id", "amount_released", "currency", "reason"}

ApprovalReceiptFields ==
  BaseReceiptFields \cup
  {"action_receipt_id", "approval_receipt_id", "tool_name", "approval_outcome",
   "approver", "approval_dir", "wait_duration_ms"}

DeclaredOf(type, dead) ==
  CASE type = "workflow_manifest"   -> WorkflowManifestFields
    [] type = "action_receipt"      -> IF dead THEN DeadLetterActionReceiptFields
                                               ELSE ActionReceiptFields
    [] type = "post_receipt"        -> PostReceiptFields
    [] type = "recovery_event"      -> RecoveryEventFields
    [] type = "budget_warning"      -> BudgetWarningFields
    [] type = "reservation_expired" -> ReservationExpiredFields
    [] type = "approval_receipt"    -> ApprovalReceiptFields
    [] OTHER                        -> WorkflowClosedFields

Optional == Mandate \cup ActionOptional \cup ManifestOptional

\* billable and billable_reason are optional in an action receipt only.
OptionalIn(type) == IF type = "post_receipt" THEN Mandate ELSE Optional

-----------------------------------------------------------------------------
\* packages/receipts/src/index.ts: the tables of buildSigningPayload.

BASE_SIGNED_FIELDS ==
  {"receipt_id", "record_type", "spec_version", "workflow_id", "workflow_id_source",
   "agent_id", "issued_at", "prev_receipt_hash", "sequence_number", "policy_bundle_hash",
   "agent_class_id", "mandate_id", "mandate_version", "chain_sequence"}

\* Mutant: the mandate fields are added to the first table only.
EVENT_SIGNED_FIELDS_NoMandate ==
  {"record_type", "spec_version", "workflow_id", "agent_id", "sequence_number",
   "prev_receipt_hash", "policy_bundle_hash", "issued_at"}

\* The part the four tables that do not use the first one have in common.
EVENT_SIGNED_FIELDS ==
  {"record_type", "spec_version", "workflow_id", "agent_id", "sequence_number",
   "prev_receipt_hash", "policy_bundle_hash", "issued_at",
   "agent_class_id", "mandate_id", "mandate_version", "chain_sequence"}

ACTION_RECEIPT_SIGNED_FIELDS ==
  BASE_SIGNED_FIELDS \cup
  {"tool_name", "params_canonical_hash", "decision", "decision_reason",
   "decision_order", "queue_status", "queue_timeout_ms", "blast_radius", "reversible",
   "state_version_before", "state_version_after", "response_hash",
   "upstream_call_initiated", "money_action", "amount_minor_units", "billable",
   "billable_reason", "pending_approval_id"}

APPROVAL_RECEIPT_SIGNED_FIELDS ==
  BASE_SIGNED_FIELDS \cup
  {"action_receipt_id", "approval_receipt_id", "tool_name", "approval_outcome",
   "approver", "approval_dir", "wait_duration_ms"}

DEAD_LETTER_EXTRA_FIELDS == {"failure_reason", "fallback_policy"}

WORKFLOW_MANIFEST_SIGNED_FIELDS ==
  BASE_SIGNED_FIELDS \cup
  {"initiator_id", "workflow_owner", "session_budget", "declared_tools",
   "capability_manifest_hash", "parent_workflow_id", "framework_ref",
   "declared_tools_fetch_failed", "mode", "taxonomy_status", "money_action_overrides"}

POST_RECEIPT_SIGNED_FIELDS ==
  EVENT_SIGNED_FIELDS \cup
  {"post_receipt_id", "pre_receipt_id", "tool_name", "terminal_outcome",
   "upstream_response_digest", "projection_id", "projection_hash", "idempotency_key",
   "tool_call_correlation_id", "execution_start_ms", "execution_end_ms",
   "degraded_reason", "billable", "billable_reason", "account_context"}

RECOVERY_EVENT_SIGNED_FIELDS ==
  EVENT_SIGNED_FIELDS \cup
  {"recovery_event_id", "recovered_open_pres_count", "index_status", "recovery_method",
   "scan_window_minutes", "scan_receipts_examined"}

BUDGET_WARNING_SIGNED_FIELDS ==
  EVENT_SIGNED_FIELDS \cup
  {"budget_warning_id", "tool_name", "spent", "reserved", "cap", "threshold_pct"}

RESERVATION_EXPIRED_SIGNED_FIELDS ==
  EVENT_SIGNED_FIELDS \cup
  {"reservation_expired_id", "pre_receipt_id", "amount_released", "currency", "reason"}

WORKFLOW_CLOSED_SIGNED_FIELDS ==
  BASE_SIGNED_FIELDS \cup
  {"total_calls", "total_blocked", "total_spend", "session_duration_ms", "close_reason"}

SignedFields(type, dead) ==
  CASE type = "workflow_manifest"   -> WORKFLOW_MANIFEST_SIGNED_FIELDS
    [] type = "action_receipt"      -> ACTION_RECEIPT_SIGNED_FIELDS \cup
                                       IF dead THEN DEAD_LETTER_EXTRA_FIELDS ELSE {}
    [] type = "post_receipt"        -> POST_RECEIPT_SIGNED_FIELDS
    [] type = "recovery_event"      -> RECOVERY_EVENT_SIGNED_FIELDS
    [] type = "budget_warning"      -> BUDGET_WARNING_SIGNED_FIELDS
    [] type = "reservation_expired" -> RESERVATION_EXPIRED_SIGNED_FIELDS
    [] type = "approval_receipt"    -> APPROVAL_RECEIPT_SIGNED_FIELDS
    [] OTHER                        -> WORKFLOW_CLOSED_SIGNED_FIELDS

Payload(r, fields) == [k \in DOMAIN r \cap fields |-> r[k]]

BuildSigningPayload(r) == Payload(r, SignedFields(TypeOf(r), IsDead(r)))

\* verifySignature: the payload is the one that was signed.
VerifySignature(r, s) == BuildSigningPayload(r) = BuildSigningPayload(s)

-----------------------------------------------------------------------------
\* python-verifier/nonsudo_verify/crypto.py: the tables of
\* build_signing_payload, most of which are those above without the fields
\* that were added later.

PY_BASE_SIGNED_FIELDS ==
  {"receipt_id", "record_type", "spec_version", "workflow_id", "workflow_id_source",
   "agent_id", "issued_at", "prev_receipt_hash", "sequence_number", "policy_bundle_hash"}

PY_EVENT_SIGNED_FIELDS ==
  {"record_type", "spec_version", "workflow_id", "agent_id", "sequence_number",
   "prev_receipt_hash", "policy_bundle_hash", "issued_at"}

PY_ACTION_RECEIPT_SIGNED_FIELDS ==
  PY_BASE_SIGNED_FIELDS \cup
  {"tool_name", "params_canonical_hash", "decision", "decision_reason",
   "decision_order", "queue_status", "queue_timeout_ms", "blast_radius", "reversible",
   "state_version_before", "state_version_after", "response_hash",
   "upstream_call_initiated", "money_action", "amount_minor_units", "billable",
   "billable_reason"}

PY_WORKFLOW_MANIFEST_SIGNED_FIELDS ==
  PY_BASE_SIGNED_FIELDS \cup
  {"initiator_id", "workflow_owner", "session_budget", "declared_tools",
   "capability_manifest_hash", "parent_workflow_id", "framework_ref",
   "declared_tools_fetch_failed", "mode", "taxonomy_status", "money_action_overrides"}

PY_POST_RECEIPT_SIGNED_FIELDS ==
  PY_EVENT_SIGNED_FIELDS \cup
  {"post_receipt_id", "pre_receipt_id", "tool_name", "terminal_outcome",
   "upstream_response_digest", "projection_id", "projection_hash", "idempotency_key",
   "tool_call_correlation_id", "execution_start_ms", "execution_end_ms",
   "degraded_reason", "billable", "billable_reason", "account_context"}

PY_RECOVERY_EVENT_SIGNED_FIELDS ==
  PY_EVENT_SIGNED_FIELDS \cup
  {"recovery_event_id", "recovered_open_pres_count", "index_status", "recovery_method",
   "scan_window_minutes", "scan_receipts_examined"}

PY_BUDGET_WARNING_SIGNED_FIELDS ==
  PY_EVENT_SIGNED_FIELDS \cup
  {"budget_warning_id", "tool_name", "spent", "reserved", "cap", "threshold_pct"}

PY_RESERVATION_EXPIRED_SIGNED_FIELDS ==
  PY_EVENT_SIGNED_FIELDS \cup
  {"reservation_expired_id", "pre_receipt_id", "amount_released", "currency", "reason"}

PY_WORKFLOW_CLOSED_SIGNED_FIELDS ==
  PY_BASE_SIGNED_FIELDS \cup
  {"total_calls", "total_blocked", "total_spend", "session_duration_ms", "close_reason"}

PY_DEAD_LETTER_EXTRA_FIELDS == {"failure_reason", "fallback_policy"}

\* Mutant: the two fields are not added.
PyExtraFields_None(dead) == {}

PyExtraFields(dead) == IF dead THEN PY_DEAD_LETTER_EXTRA_FIELDS ELSE {}

PySignedFields(type, dead) ==
  CASE type = "workflow_manifest"   -> PY_WORKFLOW_MANIFEST_SIGNED_FIELDS
    [] type = "action_receipt"      -> PY_ACTION_RECEIPT_SIGNED_FIELDS \cup PyExtraFields(dead)
    [] type = "post_receipt"        -> PY_POST_RECEIPT_SIGNED_FIELDS
    [] type = "recovery_event"      -> PY_RECOVERY_EVENT_SIGNED_FIELDS
    [] type = "budget_warning"      -> PY_BUDGET_WARNING_SIGNED_FIELDS
    [] type = "reservation_expired" -> PY_RESERVATION_EXPIRED_SIGNED_FIELDS
    [] OTHER                        -> PY_WORKFLOW_CLOSED_SIGNED_FIELDS

build_signing_payload(r) == Payload(r, PySignedFields(TypeOf(r), IsDead(r)))

\* verify_signature: the signature is over the payload TypeScript built.
PyVerifySignature(r, s) == build_signing_payload(r) = BuildSigningPayload(s)

-----------------------------------------------------------------------------
AllFields == UNION {DeclaredOf(t, d) : t \in RecordTypes, d \in BOOLEAN}

Values(field) ==
  CASE field = "record_type"  -> RecordTypes \cup {"none"}
    [] field = "queue_status" -> {"COMPLETED", "DEAD_LETTER"}
    [] OTHER                  -> {"given", "other"}

Created(type, status, fields) ==
  [k \in fields |-> CASE k = "record_type"  -> type
                      [] k = "queue_status" -> status
                      [] OTHER              -> "given"]

\* createReceipt of any type, with or without what is optional in it.
CreatedReceipts ==
  UNION {{Created(type, status, DeclaredOf(type, status = "DEAD_LETTER") \ without) :
            without \in {{}, Mandate, OptionalIn(type) \ Mandate, OptionalIn(type)}} :
         type \in RecordTypes, status \in {"COMPLETED", "DEAD_LETTER"}}

SignReceipt ==
  /\ signed = Unsigned
  /\ signed' = receipt
  /\ UNCHANGED <<receipt, edits>>

Edit(r) ==
  /\ signed # Unsigned /\ edits < MaxEdits
  /\ receipt' = r
  /\ edits' = edits + 1
  /\ UNCHANGED signed

\* A field is given a value, whether it was there or not.
Set(field, value) ==
  Edit([k \in DOMAIN receipt \cup {field} |-> IF k = field THEN value ELSE receipt[k]])

Drop(field) == Edit([k \in DOMAIN receipt \ {field} |-> receipt[k]])

PayloadInit == receipt \in CreatedReceipts /\ signed = Unsigned /\ edits = 0

PayloadNext ==
  \/ SignReceipt
  \/ \E field \in AllFields : \E value \in Values(field) : Set(field, value)
  \/ \E field \in DOMAIN receipt : Drop(field)

PayloadSpec == PayloadInit /\ [][PayloadNext]_payloadVars

-----------------------------------------------------------------------------
\* ------------------------------ properties ------------------------------

\* The part of a receipt its type declares, timestamp apart.
Declared(r) == Payload(r, DeclaredOf(TypeOf(r), IsDead(r)) \ Stamp)

\* "All other signed fields: must not be modified post-signing": a receipt
\* whose signature verifies says in every field its type declares, but for the
\* timestamp, what it said when it was signed; no field came or went, and it
\* was not made a receipt of another type.
SignatureCoversDeclared ==
  signed # Unsigned /\ VerifySignature(receipt, signed) => Declared(receipt) = Declared(signed)

\* What the Python tables do not know.
PyUnknown == Mandate \cup {"pending_approval_id"}

PyKnows(r) == TypeOf(r) # "approval_receipt" /\ DOMAIN r \cap PyUnknown = {}

\* The two implementations agree on signatures, before and after any edit, of
\* receipts without the fields and the type that were added to one only.
PythonAgreesOnKnown ==
  signed # Unsigned /\ PyKnows(receipt) /\ PyKnows(signed)
    => (PyVerifySignature(receipt, signed) <=> VerifySignature(receipt, signed))

\* "Signed field sets (must match packages/receipts/src/index.ts exactly)",
\* crypto.py:19: a signature that TypeScript accepts, Python accepts.
PythonAccepts ==
  signed # Unsigned /\ VerifySignature(receipt, signed) => PyVerifySignature(receipt, signed)

=============================================================================
