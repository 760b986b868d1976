--------------------------- MODULE SignatureProofs ---------------------------
(***************************************************************************)
(* Proofs about modules KeyResolver and SigningPayload: which key a        *)
(* signature is checked with, for any verifiers, ids, secret names and     *)
(* number of faults, and what a signature covers, for any field values.    *)
(***************************************************************************)
EXTENDS KeyResolver, SigningPayload, TLAPS

\* What the files, the server and the fetched documents hold for an id is its
\* key or one published under the same name.
Own(i, doc) ==
  doc \in Ids => doc = i \/ (doc \in PublishedIds /\ SecretName[doc] = SecretName[i])
Owned ==
  /\ \A i \in Ids : Own(i, cache[i]) /\ Own(i, local[i])
                      /\ Own(i, server[SecretName[i]])
  /\ \A v \in Verifiers : pc[v] # "done" => Own(asked[v], body[v])
  /\ \A v \in Verifiers : pc[v] \in {"open", "write"} <=> body[v] # "absent"

\* What is no key enters by a fault only.
Clean ==
  faults = 0 => /\ \A i \in Ids : server[SecretName[i]] # "junk"
                /\ \A v \in Verifiers : body[v] # "junk"

LEMMA SecretOfId ==
  /\ \A i \in Ids : SecretName[i] \in Secrets
  /\ \A s \in Secrets : \E i \in Ids : s = SecretName[i]
BY DEF Secrets

-----------------------------------------------------------------------------
(* Types *)

LEMMA TypeInit == Init => KeyTypeOK
BY KeyAssumption DEF Init, KeyTypeOK, Errors

LEMMA TypeStep ==
  ASSUME KeyTypeOK, NEW v \in Verifiers, Step(v)
  PROVE  KeyTypeOK'
<1> USE KeyAssumption, SecretOfId
    DEF KeyTypeOK, NoKeyDocs, Errors, files, Goto, Answer, Parse
<1>1. ASSUME NEW i \in Ids, NEW off \in BOOLEAN, Start(v, i, off) PROVE KeyTypeOK'
  BY <1>1 DEF Start
<1>2. ASSUME NEW i \in BadIds, Refuse(v, i) PROVE KeyTypeOK'
  BY <1>2 DEF Refuse
<1>3. CASE LookInCache(v)
  BY <1>3 DEF LookInCache
<1>4. CASE ReadCache(v)
  BY <1>4 DEF ReadCache
<1>5. CASE LookInKeys(v)
  BY <1>5 DEF LookInKeys
<1>6. CASE ReadLocal(v)
  BY <1>6 DEF ReadLocal, LocalJwk
<1>7. CASE Fetch(v)
  BY <1>7 DEF Fetch, Fetched, Serve
<1>8. CASE FetchFails(v)
  BY <1>8 DEF FetchFails
<1>9. CASE OpenCache(v)
  BY <1>9 DEF OpenCache
<1>10. CASE WriteCache(v)
  BY <1>10 DEF WriteCache
<1>11. CASE AnsweredByAnother(v)
  BY <1>11 DEF AnsweredByAnother, Fault
<1>12. CASE Crash(v)
  BY <1>12 DEF Crash, Fault
<1> HIDE DEF KeyTypeOK, NoKeyDocs, Errors, files, Goto, Answer, Parse
<1> QED BY <1>1, <1>2, <1>3, <1>4, <1>5, <1>6, <1>7, <1>8, <1>9, <1>10, <1>11, <1>12
        DEF Step

LEMMA TypeAround ==
  ASSUME KeyTypeOK, [Next]_vars, ~ \E v \in Verifiers : Step(v)
  PROVE  KeyTypeOK'
<1> USE KeyAssumption, SecretOfId DEF KeyTypeOK, files, run
<1>1. ASSUME NEW i \in LocalIds, CreateLocal(i) PROVE KeyTypeOK'
  BY <1>1 DEF CreateLocal
<1>2. ASSUME NEW i \in LocalIds, WriteLocal(i) PROVE KeyTypeOK'
  BY <1>2 DEF WriteLocal
<1>3. ASSUME NEW i \in LocalIds, CopyToCache(i) PROVE KeyTypeOK'
  BY <1>3 DEF CopyToCache
<1>4. ASSUME NEW i \in LocalIds, CopyUnfinished(i) PROVE KeyTypeOK'
  BY <1>4 DEF CopyUnfinished, Fault
<1>5. ASSUME NEW i \in PublishedIds, NEW doc \in {i, "malformed"}, Publish(i, doc)
      PROVE  KeyTypeOK'
  BY <1>5 DEF Publish
<1>6. ASSUME NEW i \in PublishedIds, PublishJunk(i) PROVE KeyTypeOK'
  BY <1>6 DEF PublishJunk, Fault
<1>7. CASE UNCHANGED vars
  BY <1>7 DEF vars
<1> HIDE DEF KeyTypeOK, files, run
<1> QED BY <1>1, <1>2, <1>3, <1>4, <1>5, <1>6, <1>7 DEF Next

LEMMA TypeInductive == KeyTypeOK /\ [Next]_vars => KeyTypeOK'
BY TypeStep, TypeAround

\* Every variable keeps its type (verify.ts 90-147).
THEOREM KeyTypeCorrect == Spec => []KeyTypeOK
BY TypeInit, TypeInductive, PTL DEF Spec

-----------------------------------------------------------------------------
(* The key is the id's, or an alias's *)

LEMMA OwnedInit == Init => Owned /\ KeyIsOwnOrAlias
BY KeyAssumption, SecretOfId
   DEF Init, Owned, Own, KeyIsOwnOrAlias, NoKeyDocs, Errors

LEMMA OwnedStep ==
  ASSUME KeyTypeOK, Owned, KeyIsOwnOrAlias, NEW v \in Verifiers, Step(v)
  PROVE  Owned' /\ KeyIsOwnOrAlias'
<1> USE KeyAssumption, SecretOfId
    DEF KeyTypeOK, Owned, Own, KeyIsOwnOrAlias, NoKeyDocs, Errors, files, Goto, Answer, Parse
<1>1. ASSUME NEW i \in Ids, NEW off \in BOOLEAN, Start(v, i, off)
      PROVE  Owned' /\ KeyIsOwnOrAlias'
  BY <1>1 DEF Start
<1>2. ASSUME NEW i \in BadIds, Refuse(v, i) PROVE Owned' /\ KeyIsOwnOrAlias'
  BY <1>2 DEF Refuse
<1>3. CASE LookInCache(v)
  BY <1>3 DEF LookInCache
<1>4. CASE ReadCache(v)
  BY <1>4 DEF ReadCache
<1>5. CASE LookInKeys(v)
  BY <1>5 DEF LookInKeys
<1>6. CASE ReadLocal(v)
  BY <1>6 DEF ReadLocal, LocalJwk
<1>7. CASE Fetch(v)
  BY <1>7 DEF Fetch, Fetched, Serve
<1>8. CASE FetchFails(v)
  BY <1>8 DEF FetchFails
<1>9. CASE OpenCache(v)
  BY <1>9 DEF OpenCache
<1>10. CASE WriteCache(v)
  BY <1>10 DEF WriteCache
<1>11. CASE AnsweredByAnother(v)
  BY <1>11 DEF AnsweredByAnother, Fault
<1>12. CASE Crash(v)
  BY <1>12 DEF Crash, Fault
<1> HIDE DEF KeyTypeOK, Owned, Own, KeyIsOwnOrAlias, NoKeyDocs, Errors, files, Goto, Answer, Parse
<1> QED BY <1>1, <1>2, <1>3, <1>4, <1>5, <1>6, <1>7, <1>8, <1>9, <1>10, <1>11, <1>12
        DEF Step

LEMMA OwnedAround ==
  ASSUME KeyTypeOK, Owned, KeyIsOwnOrAlias, [Next]_vars, ~ \E v \in Verifiers : Step(v)
  PROVE  Owned' /\ KeyIsOwnOrAlias'
<1> USE KeyAssumption, SecretOfId
    DEF KeyTypeOK, Owned, Own, KeyIsOwnOrAlias, NoKeyDocs, Errors, files, run
<1>1. ASSUME NEW i \in LocalIds, CreateLocal(i) PROVE Owned' /\ KeyIsOwnOrAlias'
  BY <1>1 DEF CreateLocal
<1>2. ASSUME NEW i \in LocalIds, WriteLocal(i) PROVE Owned' /\ KeyIsOwnOrAlias'
  BY <1>2 DEF WriteLocal
<1>3. ASSUME NEW i \in LocalIds, CopyToCache(i) PROVE Owned' /\ KeyIsOwnOrAlias'
  BY <1>3 DEF CopyToCache
<1>4. ASSUME NEW i \in LocalIds, CopyUnfinished(i) PROVE Owned' /\ KeyIsOwnOrAlias'
  BY <1>4 DEF CopyUnfinished
<1>5. ASSUME NEW i \in PublishedIds, NEW doc \in {i, "malformed"}, Publish(i, doc)
      PROVE  Owned' /\ KeyIsOwnOrAlias'
  BY <1>5 DEF Publish
<1>6. ASSUME NEW i \in PublishedIds, PublishJunk(i) PROVE Owned' /\ KeyIsOwnOrAlias'
  BY <1>6 DEF PublishJunk
<1>7. CASE UNCHANGED vars
  BY <1>7 DEF vars
<1> HIDE DEF KeyTypeOK, Owned, Own, KeyIsOwnOrAlias, NoKeyDocs, Errors, files, run
<1> QED BY <1>1, <1>2, <1>3, <1>4, <1>5, <1>6, <1>7 DEF Next

LEMMA OwnedInductive ==
  KeyTypeOK /\ Owned /\ KeyIsOwnOrAlias /\ [Next]_vars => Owned' /\ KeyIsOwnOrAlias'
BY OwnedStep, OwnedAround

\* The key a verifier goes on with is the key of the id it asked for, or was
\* published under an id with the same secret name, whatever interleaves and
\* fails (verify.ts 90-147).
THEOREM KeyIsOwn == Spec => []KeyIsOwnOrAlias
<1>1. Init => KeyTypeOK /\ Owned /\ KeyIsOwnOrAlias
  BY TypeInit, OwnedInit
<1>2. KeyTypeOK /\ Owned /\ KeyIsOwnOrAlias /\ [Next]_vars
        => (KeyTypeOK /\ Owned /\ KeyIsOwnOrAlias)'
  BY TypeInductive, OwnedInductive
<1> QED BY <1>1, <1>2, PTL DEF Spec

-----------------------------------------------------------------------------
(* What spoils the cache *)

LEMMA CleanInit == Init => Clean /\ SpoiltHasCause
BY KeyAssumption, SecretOfId
   DEF Init, Clean, SpoiltHasCause, NoKeyDocs

LEMMA CleanStep ==
  ASSUME KeyTypeOK, Owned, Clean, SpoiltHasCause, NEW v \in Verifiers, Step(v)
  PROVE  Clean' /\ SpoiltHasCause'
<1> USE KeyAssumption, SecretOfId
    DEF KeyTypeOK, Owned, Clean, SpoiltHasCause, NoKeyDocs, files, Goto, Answer, Parse
<1>1. ASSUME NEW i \in Ids, NEW off \in BOOLEAN, Start(v, i, off)
      PROVE  Clean' /\ SpoiltHasCause'
  BY <1>1 DEF Start
<1>2. ASSUME NEW i \in BadIds, Refuse(v, i) PROVE Clean' /\ SpoiltHasCause'
  BY <1>2 DEF Refuse
<1>3. CASE LookInCache(v)
  BY <1>3 DEF LookInCache
<1>4. CASE ReadCache(v)
  BY <1>4 DEF ReadCache
<1>5. CASE LookInKeys(v)
  BY <1>5 DEF LookInKeys
<1>6. CASE ReadLocal(v)
  BY <1>6 DEF ReadLocal, LocalJwk
<1>7. CASE Fetch(v)
  BY <1>7 DEF Fetch, Fetched, Serve
<1>8. CASE FetchFails(v)
  BY <1>8 DEF FetchFails
<1>9. CASE OpenCache(v)
  BY <1>9 DEF OpenCache
<1>10. CASE WriteCache(v)
  BY <1>10 DEF WriteCache
<1>11. CASE AnsweredByAnother(v)
  BY <1>11 DEF AnsweredByAnother, Fault
<1>12. CASE Crash(v)
  BY <1>12 DEF Crash, Fault
<1> HIDE DEF KeyTypeOK, Owned, Clean, SpoiltHasCause, NoKeyDocs, files, Goto, Answer, Parse
<1> QED BY <1>1, <1>2, <1>3, <1>4, <1>5, <1>6, <1>7, <1>8, <1>9, <1>10, <1>11, <1>12
        DEF Step

LEMMA CleanAround ==
  ASSUME KeyTypeOK, Owned, Clean, SpoiltHasCause, [Next]_vars, ~ \E v \in Verifiers : Step(v)
  PROVE  Clean' /\ SpoiltHasCause'
<1> USE KeyAssumption, SecretOfId
    DEF KeyTypeOK, Owned, Clean, SpoiltHasCause, NoKeyDocs, files, run
<1>1. ASSUME NEW i \in LocalIds, CreateLocal(i) PROVE Clean' /\ SpoiltHasCause'
  BY <1>1 DEF CreateLocal
<1>2. ASSUME NEW i \in LocalIds, WriteLocal(i) PROVE Clean' /\ SpoiltHasCause'
  BY <1>2 DEF WriteLocal
<1>3. ASSUME NEW i \in LocalIds, CopyToCache(i) PROVE Clean' /\ SpoiltHasCause'
  BY <1>3 DEF CopyToCache
<1>4. ASSUME NEW i \in LocalIds, CopyUnfinished(i) PROVE Clean' /\ SpoiltHasCause'
  BY <1>4 DEF CopyUnfinished, Fault
<1>5. ASSUME NEW i \in PublishedIds, NEW doc \in {i, "malformed"}, Publish(i, doc)
      PROVE  Clean' /\ SpoiltHasCause'
  BY <1>5 DEF Publish
<1>6. ASSUME NEW i \in PublishedIds, PublishJunk(i) PROVE Clean' /\ SpoiltHasCause'
  BY <1>6 DEF PublishJunk, Fault
<1>7. CASE UNCHANGED vars
  BY <1>7 DEF vars
<1> HIDE DEF KeyTypeOK, Owned, Clean, SpoiltHasCause, NoKeyDocs, files, run
<1> QED BY <1>1, <1>2, <1>3, <1>4, <1>5, <1>6, <1>7 DEF Next

LEMMA CleanInductive ==
  KeyTypeOK /\ Owned /\ Clean /\ SpoiltHasCause /\ [Next]_vars => Clean' /\ SpoiltHasCause'
BY CleanStep, CleanAround

\* A cache file that is no key was spoilt by something that went wrong, or is
\* being written (verify.ts 140-147).
THEOREM SpoiltByFault == Spec => []SpoiltHasCause
<1>1. Init => KeyTypeOK /\ Owned /\ KeyIsOwnOrAlias /\ Clean /\ SpoiltHasCause
  BY TypeInit, OwnedInit, CleanInit
<1>2. KeyTypeOK /\ Owned /\ KeyIsOwnOrAlias /\ Clean /\ SpoiltHasCause /\ [Next]_vars
        => (KeyTypeOK /\ Owned /\ KeyIsOwnOrAlias /\ Clean /\ SpoiltHasCause)'
  BY TypeInductive, OwnedInductive, CleanInductive
<1> QED BY <1>1, <1>2, PTL DEF Spec

\* Python gets the key that TypeScript gets without the network
\* (key_resolver.py 100-109).
THEOREM PythonResolves == Spec => []PythonResolvesToo
<1>1. KeyTypeOK => PythonResolvesToo
  BY KeyAssumption
     DEF KeyTypeOK, PythonResolvesToo, PyResolve, TsResolve, Parse, LocalJwk, NoKeyDocs, Errors
<1> QED BY <1>1, KeyTypeCorrect, PTL

-----------------------------------------------------------------------------
(* The fields a signature covers *)

\* What types.ts declares, timestamp apart, is what buildSigningPayload signs.
LEMMA DeclaredIsSigned ==
  ASSUME NEW type, NEW dead \in BOOLEAN
  PROVE  DeclaredOf(type, dead) \ Stamp = SignedFields(type, dead)
<1>1. BaseReceiptFields \ Stamp = BASE_SIGNED_FIELDS
  BY DEF BaseReceiptFields, Stamp, Mandate, BASE_SIGNED_FIELDS
<1>2. EventFields \ Stamp = EVENT_SIGNED_FIELDS
  BY DEF EventFields, Stamp, Mandate, EVENT_SIGNED_FIELDS
<1>3. WorkflowManifestFields \ Stamp = WORKFLOW_MANIFEST_SIGNED_FIELDS
  BY <1>1 DEF WorkflowManifestFields, ManifestOptional, Stamp, WORKFLOW_MANIFEST_SIGNED_FIELDS
<1>4. ActionReceiptFields \ Stamp = ACTION_RECEIPT_SIGNED_FIELDS
  BY <1>1 DEF ActionReceiptFields, ActionOptional, Stamp, ACTION_RECEIPT_SIGNED_FIELDS
<1>5. DeadLetterActionReceiptFields \ Stamp
        = ACTION_RECEIPT_SIGNED_FIELDS \cup DEAD_LETTER_EXTRA_FIELDS
  BY <1>4 DEF DeadLetterActionReceiptFields, DEAD_LETTER_EXTRA_FIELDS, Stamp
<1>6. PostReceiptFields \ Stamp = POST_RECEIPT_SIGNED_FIELDS
  BY <1>2 DEF PostReceiptFields, Stamp, POST_RECEIPT_SIGNED_FIELDS
<1>7. RecoveryEventFields \ Stamp = RECOVERY_EVENT_SIGNED_FIELDS
  BY <1>2 DEF RecoveryEventFields, Stamp, RECOVERY_EVENT_SIGNED_FIELDS
<1>8. BudgetWarningFields \ Stamp = BUDGET_WARNING_SIGNED_FIELDS
  BY <1>2 DEF BudgetWarningFields, Stamp, BUDGET_WARNING_SIGNED_FIELDS
<1>9. ReservationExpiredFields \ Stamp = RESERVATION_EXPIRED_SIGNED_FIELDS
  BY <1>2 DEF ReservationExpiredFields, Stamp, RESERVATION_EXPIRED_SIGNED_FIELDS
<1>10. ApprovalReceiptFields \ Stamp = APPROVAL_RECEIPT_SIGNED_FIELDS
  BY <1>1 DEF ApprovalReceiptFields, Stamp, APPROVAL_RECEIPT_SIGNED_FIELDS
<1>11. WorkflowClosedFields \ Stamp = WORKFLOW_CLOSED_SIGNED_FIELDS
  BY <1>1 DEF WorkflowClosedFields, Stamp, WORKFLOW_CLOSED_SIGNED_FIELDS
<1> QED
  BY <1>3, <1>4, <1>5, <1>6, <1>7, <1>8, <1>9, <1>10, <1>11 DEF DeclaredOf, SignedFields

LEMMA DeadIsBoolean == \A r : IsDead(r) \in BOOLEAN
BY DEF IsDead

\* A verified receipt says what was signed in every field its type declares:
\* whatever was edited after signReceipt, and however often.
THEOREM SignedIsCovered == PayloadSpec => []SignatureCoversDeclared
<1>1. SignatureCoversDeclared
  BY DeclaredIsSigned, DeadIsBoolean
  DEF SignatureCoversDeclared, VerifySignature, BuildSigningPayload, Declared
<1> QED
  BY <1>1, PTL

-----------------------------------------------------------------------------
\* The tables of the Python verifier are those of TypeScript without the
\* mandate fields, pending_approval_id and the approval receipt.
LEMMA PythonTables ==
  ASSUME NEW type, type # "approval_receipt", NEW dead \in BOOLEAN
  PROVE  PySignedFields(type, dead) = SignedFields(type, dead) \ PyUnknown
<1>1. PY_BASE_SIGNED_FIELDS = BASE_SIGNED_FIELDS \ PyUnknown
  BY DEF PY_BASE_SIGNED_FIELDS, BASE_SIGNED_FIELDS, PyUnknown, Mandate
<1>2. PY_EVENT_SIGNED_FIELDS = EVENT_SIGNED_FIELDS \ PyUnknown
  BY DEF PY_EVENT_SIGNED_FIELDS, EVENT_SIGNED_FIELDS, PyUnknown, Mandate
<1>3. PY_WORKFLOW_MANIFEST_SIGNED_FIELDS = WORKFLOW_MANIFEST_SIGNED_FIELDS \ PyUnknown
  BY <1>1 DEF PY_WORKFLOW_MANIFEST_SIGNED_FIELDS, WORKFLOW_MANIFEST_SIGNED_FIELDS, PyUnknown, Mandate
<1>4. PY_ACTION_RECEIPT_SIGNED_FIELDS = ACTION_RECEIPT_SIGNED_FIELDS \ PyUnknown
  BY <1>1 DEF PY_ACTION_RECEIPT_SIGNED_FIELDS, ACTION_RECEIPT_SIGNED_FIELDS, PyUnknown, Mandate
<1>5. PyExtraFields(dead) = (IF dead THEN DEAD_LETTER_EXTRA_FIELDS ELSE {}) \ PyUnknown
  BY DEF PyExtraFields, PY_DEAD_LETTER_EXTRA_FIELDS, DEAD_LETTER_EXTRA_FIELDS, PyUnknown, Mandate
<1>6. PY_POST_RECEIPT_SIGNED_FIELDS = POST_RECEIPT_SIGNED_FIELDS \ PyUnknown
  BY <1>2 DEF PY_POST_RECEIPT_SIGNED_FIELDS, POST_RECEIPT_SIGNED_FIELDS, PyUnknown, Mandate
<1>7. PY_RECOVERY_EVENT_SIGNED_FIELDS = RECOVERY_EVENT_SIGNED_FIELDS \ PyUnknown
  BY <1>2 DEF PY_RECOVERY_EVENT_SIGNED_FIELDS, RECOVERY_EVENT_SIGNED_FIELDS, PyUnknown, Mandate
<1>8. PY_BUDGET_WARNING_SIGNED_FIELDS = BUDGET_WARNING_SIGNED_FIELDS \ PyUnknown
  BY <1>2 DEF PY_BUDGET_WARNING_SIGNED_FIELDS, BUDGET_WARNING_SIGNED_FIELDS, PyUnknown, Mandate
<1>9. PY_RESERVATION_EXPIRED_SIGNED_FIELDS = RESERVATION_EXPIRED_SIGNED_FIELDS \ PyUnknown
  BY <1>2 DEF PY_RESERVATION_EXPIRED_SIGNED_FIELDS, RESERVATION_EXPIRED_SIGNED_FIELDS, PyUnknown, Mandate
<1>10. PY_WORKFLOW_CLOSED_SIGNED_FIELDS = WORKFLOW_CLOSED_SIGNED_FIELDS \ PyUnknown
  BY <1>1 DEF PY_WORKFLOW_CLOSED_SIGNED_FIELDS, WORKFLOW_CLOSED_SIGNED_FIELDS, PyUnknown, Mandate
<1> QED
  BY <1>3, <1>4, <1>5, <1>6, <1>7, <1>8, <1>9, <1>10 DEF PySignedFields, SignedFields

\* A receipt the Python verifier knows has one payload in both.
LEMMA OnePayload ==
  ASSUME NEW r, PyKnows(r)
  PROVE  build_signing_payload(r) = BuildSigningPayload(r)
<1>1. PySignedFields(TypeOf(r), IsDead(r)) = SignedFields(TypeOf(r), IsDead(r)) \ PyUnknown
  BY PythonTables, DeadIsBoolean DEF PyKnows
<1>2. DOMAIN r \cap PySignedFields(TypeOf(r), IsDead(r))
        = DOMAIN r \cap SignedFields(TypeOf(r), IsDead(r))
  BY <1>1 DEF PyKnows
<1> QED
  BY <1>2 DEF build_signing_payload, BuildSigningPayload, Payload

\* TypeScript and Python give the same answer about the signature of every
\* such receipt, before and after any edits.
THEOREM PythonAgrees == PayloadSpec => []PythonAgreesOnKnown
<1>1. PythonAgreesOnKnown
  BY OnePayload DEF PythonAgreesOnKnown, PyVerifySignature, VerifySignature
<1> QED
  BY <1>1, PTL

=============================================================================
