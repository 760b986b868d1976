------------------------------- MODULE Evidence -------------------------------
(***************************************************************************)
(* A money workflow, from the process that issues its receipts to the      *)
(* auditors who verify and report on them.                                 *)
(*                                                                         *)
(* The issuer records decisions on tool calls and, later, their outcomes,  *)
(* several for one call if it retries; a timestamping service may be sent  *)
(* the digest of any receipt and may answer with any token.  Then the      *)
(* evidence is lost in part, put in another order or edited.  A behaviour  *)
(* may also begin with a published test vector, whose lines only change    *)
(* their order.                                                            *)
(***************************************************************************)
EXTENDS ConformanceVectors

CONSTANTS
  MaxReceipts,  \* bound: receipts of the workflow
  MaxStamped,   \* bound: receipts of a workflow with a timestamp
  MaxStamps,    \* bound: sidecar records
  MaxDamage,    \* bound: things that happen to the evidence
  Answers,      \* the tokens a service may answer with: [tsa, token]
  Keys,         \* idempotency keys of outcomes
  NoVector      \* the behaviour is not one of a vector

ASSUME EvidenceBounds ==
  /\ MaxReceipts \in Nat /\ MaxStamped \in Nat /\ MaxStamps \in Nat /\ MaxDamage \in Nat
  /\ NoVector \notin Vectors

\* Who signs a token, one of them a service that is not accepted, and what is
\* wrong with it, if anything.
Services == Accepting \cup {"evilcorp-tsa"}
Tokens   == BadTokens \cup PyBadTokens \cup {"good"}

ASSUME AnswersAreTokens == Answers \subseteq [tsa : Services, token : Tokens]

VARIABLES
  sent,      \* the receipts of the workflow, as signed
  sidecar,   \* the records of the .tsa file
  evidence,  \* the receipts the auditors have
  damage,    \* number of things that happened to them
  vector     \* the vector the receipts are those of

evidenceVars == <<sent, sidecar, evidence, damage, vector>>

-----------------------------------------------------------------------------
\* What may be decided on a call.  A dead letter is FAIL_CLOSED; an upstream
\* call that a timeout gave up has been made; one that waits for an approval
\* has not, or is not recorded.
Decisions ==
  {Call(d, "untracked") : d \in {"ALLOW", "BLOCK", "STEP_UP", "FAIL_OPEN"}}
  \cup {Call("STEP_UP", "no")} \cup {DeadCall(c) : c \in {"yes", "no"}}

\* The drafts of calls: on money, or a call that is allowed and is not.
Calls == {Action} \cup {[d EXCEPT !.money = TRUE] : d \in Decisions}

Ended == sent # <<>> /\ Last(sent).type = "workflow_closed"

\* The next receipt of the workflow.
Records(draft) ==
  /\ vector = NoVector /\ damage = 0 /\ ~Ended
  /\ Len(sent) < IF sidecar = <<>> THEN MaxReceipts ELSE MaxStamped
  /\ LET r == ChainReceipt([draft EXCEPT !.id = Len(sent) + 1], Last(sent))
     IN  sent' = Append(sent, r) /\ evidence' = Append(evidence, r)
  /\ UNCHANGED <<sidecar, damage, vector>>

Decide == \E draft \in Calls : Records(draft)

\* The outcome of a money action that was allowed or waited for an approval,
\* never of one that was refused.
Resolve ==
  \E i \in MoneyActions(sent), outcome \in {"SUCCESS", "FAILED"}, key \in Keys \cup {None} :
    /\ sent[i].decision \in {"ALLOW", "STEP_UP"}
    /\ Records([Fields("post_receipt") EXCEPT
         !.pre = sent[i].id, !.outcome = outcome, !.dedupe = key])

Warn == Records(Fields("budget_warning"))

Close == Records(Closed)

\* A token over the digest of receipt i is filed for receipt j.
Stamp(i, j) ==
  /\ vector = NoVector /\ damage = 0
  /\ Len(sent) <= MaxStamped /\ Len(sidecar) < MaxStamps
  /\ \E a \in Answers :
       sidecar' = Append(sidecar,
         [id |-> sent[j].id, tsa |-> a.tsa, token |-> a.token, imprint |-> Digest(sent[i])])
  /\ UNCHANGED <<sent, evidence, damage, vector>>

-----------------------------------------------------------------------------
Happens(rs) ==
  /\ damage < MaxDamage
  /\ damage' = damage + 1
  /\ evidence' = rs
  /\ UNCHANGED <<sent, sidecar, vector>>

Reorder(i, j) == i < j /\ Happens([evidence EXCEPT ![i] = evidence[j], ![j] = evidence[i]])

Lose(i) == vector = NoVector /\ Happens(RemoveAt(evidence, i))

Edit(i, edit) ==
  vector = NoVector /\ evidence[i].edit = "none" /\ Happens([evidence EXCEPT ![i].edit = edit])

Issue == Decide \/ Resolve \/ Warn \/ Close

Timestamp == \E i, j \in Places(sent) : Stamp(i, j)

Damage ==
  \E i \in Places(evidence) :
    \/ \E j \in Places(evidence) : Reorder(i, j)
    \/ Lose(i)
    \/ \E edit \in {"signed", "unsigned"} : Edit(i, edit)

EvidenceInit ==
  /\ \/ vector = NoVector /\ sent = ChainOf(<<Manifest>>) /\ sidecar = <<>>
     \/ vector \in Vectors /\ sent = vector.receipts /\ sidecar = vector.tsa
  /\ evidence = sent /\ damage = 0

EvidenceNext == Issue \/ Timestamp \/ Damage

EvidenceSpec == EvidenceInit /\ [][EvidenceNext]_evidenceVars

-----------------------------------------------------------------------------
\* ------------------------------ properties ------------------------------

Receipt ==
  [id : Nat, wf : {1},
   type : {"workflow_manifest", "action_receipt", "post_receipt", "budget_warning", "workflow_closed"},
   seq : Nat, prev : Nat, edit : {"none", "signed", "unsigned", "version"},
   decision : {None, "ALLOW", "BLOCK", "STEP_UP", "FAIL_OPEN", "FAIL_CLOSED"},
   money : BOOLEAN, dead : BOOLEAN, called : {"yes", "no", "untracked"}, degraded : BOOLEAN,
   pre : Nat, outcome : {None, "SUCCESS", "FAILED"}, dedupe : Keys \cup {None}]

\* Every variable holds a value of its kind, and outcomes are those of actions.
EvidenceTypeOK ==
  /\ sent \in Seq(Receipt) /\ evidence \in Seq(Receipt) /\ damage \in Nat
  /\ sidecar \in Seq([id : Nat, tsa : Services, token : Tokens, imprint : Nat])
  /\ vector \in Vectors \cup {NoVector}
  /\ ResolvedIds(sent) \subseteq IdsOf(sent, IsAction)

\* The ids of the receipts of rs.
Ids(rs) == {rs[i].id : i \in Places(rs)}

\* `nonsudo verify` exits with 0 or 3 only if the evidence is all that the
\* workflow issued and every money action it allowed has an outcome, with 0
\* only if none succeeded twice under one key and no budget warning was given:
\* whatever was lost, edited or reordered, no anomaly of the workflow gets
\* away behind a clean exit.
CleanExitMeansAccounted ==
  LET code == VerifyExitCode(evidence, sidecar, FALSE)
  IN  code \in {0, 3} =>
        /\ Ids(evidence) = Ids(sent) /\ MissingPost(sent) = {}
        /\ code = 0 => DuplicateKeys(sent) = {} /\ BudgetWarnings(sent) = {}

\* With all tiers passed, a receipt whose timestamp was checked is the one
\* that was signed, in its unsigned fields too: for the last receipt of a chain
\* nothing else says so.
StampSealsReceipt ==
  AllTiersPass(evidence, sidecar) =>
    \A i \in Timestamped(evidence, sidecar) : evidence[i] \in Range(sent)

\* Every record is read alike by both verifiers: it is of a receipt with a
\* receipt_id, or of none, and Python's reading of genTime makes no difference.
ReadAlike(rs, tsa) ==
  \A k \in 1..Len(tsa) :
    /\ tsa[k].token \notin {"misread", "early_misread"}
    /\ \A i \in Places(rs) : rs[i].id = tsa[k].id => HasReceiptId(rs[i])

\* The three verdicts over all tiers are one wherever the sidecar is read
\* alike: verifyReceipts, `verify --full` of the installed command, and Python,
\* whose L4 knows neither duplicates nor warnings.
UpperTiersAgree ==
  evidence # <<>> =>
    LET pass == AllTiersPass(evidence, sidecar)
    IN  /\ BinVerifyFull(evidence, sidecar) = 0 <=> pass
        /\ ReadAlike(evidence, sidecar) => (PyVerdict(evidence, sidecar) = "PASS" <=> pass)

\* The report adds the amount of a money action to "processed" or to
\* "prevented", and to one of them only: to neither if the action was let
\* through because the policy failed open, to both if it was approved after its
\* receipt had said that the upstream was not called.
CountedOnce ==
  \A i \in MoneyActions(evidence) :
    LET r == evidence[i]
    IN  /\ i \notin Processed(evidence) \cup Protected(evidence) <=> r.decision = "FAIL_OPEN"
        /\ i \in Processed(evidence) \cap Protected(evidence)
             <=> Approved(evidence, r) /\ r.called = "no"

\* What Python says of timestamps that are expected to be l3: a sidecar with a
\* genTime that it misreads fails.
PyExpected(tsa, l3) == IF \E k \in Places(tsa) : tsa[k].token = "misread" THEN "FAIL" ELSE l3

\* A vector gives what it expects, in any order of its lines, from both
\* verifiers, but for the genTime that Python misreads in TV-13, TV-16 and
\* GV-17; TV-20 and TV-21 give the warning they are named for, and no other
\* vector gives one; the golden chains are complete.
VectorsAsExpected ==
  vector # NoVector =>
    /\ (\A i \in Places(evidence) : L1Pass(evidence, i)) <=> vector.l1 = "PASS"
    /\ (\A i \in Places(evidence) : L2Pass(evidence, i)) <=> vector.l2 = "PASS"
    /\ L3Status(evidence, sidecar) = vector.l3
    /\ PyL1(evidence) <=> vector.l1 = "PASS"
    /\ PyL2(evidence) <=> vector.l2 = "PASS"
    /\ PyL3Status(evidence, sidecar) = PyExpected(sidecar, vector.l3)
    /\ {w.code : w \in ChainWarnings(evidence)} =
         CASE vector.id = "TV-20" -> {"DEGRADED_STATE"}
           [] vector.id = "TV-21" -> {"MONEY_ACTION_TAG_MISSING"}
           [] OTHER -> {}
    /\ vector \in GoldenVectors => ChainComplete(evidence)

\* The order of the lines changes no verdict on timestamps and outcomes, and
\* no amount in the report.
OrderChangesNoVerdict ==
  [][(\E i, j \in Places(evidence) : Reorder(i, j)) =>
       /\ L3Status(evidence', sidecar') = L3Status(evidence, sidecar)
       /\ L4Status(evidence') = L4Status(evidence)
       /\ PyL4Status(evidence') = PyL4Status(evidence)
       /\ {evidence'[i].id : i \in Processed(evidence')} = {evidence[i].id : i \in Processed(evidence)}
       /\ {evidence'[i].id : i \in Protected(evidence')} = {evidence[i].id : i \in Protected(evidence)}]_evidence

\* "L3: RFC 3161 timestamp verification" of python-verifier, with "C2: genTime
\* >= issued_at" (timestamp.py:2, 77): a record that has nothing wrong, and
\* that verifyL3 accepts, is accepted.
PythonAcceptsGoodTokens ==
  \A i \in Places(evidence) :
    LET r == evidence[i]
    IN  Stamped(sidecar, r) /\ TokenValid(r, RecordOf(sidecar, r))
          => PyTokenValid(r, RecordOf(sidecar, r))

=============================================================================
