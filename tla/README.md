# varcore in TLA+

TLA+ modules for [nonsudo/varcore](../src/README.md): the program that turns the
tool calls of an AI agent into signed, hash-chained *receipts*, and the tools
that verify them. The modules are checked with TLC on small instances. The
safety properties of all of them are proved with TLAPS for every value of the
constants.

Paths below are relative to `src/`.

## 1. The system

| Part | State it keeps | Operations | Talks to |
|---|---|---|---|
| **receipts** (`packages/receipts`) | none | `createReceipt`, `signReceipt`, `chainReceipt`, `verifySignature`, `verifyChain`, `loadTsaSidecar`, `verifyL3`, `verifyL4` | called by everything else |
| **LangChain adapter** (`packages/adapter-langchain`) | `_session` / `_sessionInit`; `_pendingActions`, `_emitQueue`, `prevReceipt`; the writer's descriptor | `handleToolStart`, `handleToolEnd`, `handleToolError`, `close` | LangChain's callbacks above, a receipt file below |
| **OpenAI adapter** (`packages/adapter-openai`) | none (the caller keeps the previous receipt) | `createActionReceipt` | receipts |
| **receipt file** | NDJSON lines, the last perhaps torn | append, restart, repair (runbook), read | written by adapters, read by every tool |
| **nonsudo verify** (`packages/nonsudo/src/commands/verify.ts`, `bin/nonsudo.js`) | key cache on disk | `resolvePublicKey`, `verifyReceipts`, `computeVerifyExitCode`, `runVerify`; the installed command | receipts, the file, a key server |
| **python-verifier** | none | `_l1` ... `_l4`, `verify_chain`, key resolution | the file |
| **nonsudo watch** | offset into the file | seed, change event, directory event | the file while it grows |
| **nonsudo report, test** | none between calls | amounts; replay, velocity simulation | the file, a policy |
| **nonsudo health, query, keys, schemas, init** | none between calls | read, print | the file |
| **policy engine** (`packages/policy`) | none | `loadPolicy`, `mergePackRules`, `evaluatePolicy`, `evaluateParams` | YAML policy, schema packs |
| **observe proxy** (`packages/nonsudo/src/observe`) | call counter, log sequence, SSE clients | `handleProxy`, `/events`, `shutdown`, `ensureKeypair` | an upstream MCP server, a log file |
| **store** (`packages/store`) | SQLite tables | ingest, query | the file |
| **core** | none | canonical hash, ids, logging | everything |
| **schema server** (`schema-server`) | keys, as secrets of its environment | serve documents and keys | verifiers |
| **test vector generators** (`scripts`) | none | write the conformance vectors | verifiers |

What is hard about it:

* **Interleaving.** The handler's methods are asynchronous; LangChain runs tools
  in parallel. `signReceipt` is awaited between reading and
  advancing `prevReceipt`. The session is created lazily under a shared promise.
  `close()` may come while work is queued.
* **Failure half way.** The key may be missing, hashing may throw, the disk may
  fail between signing and writing, a write may be short, the process may die
  in one and be started again on the same file.
* **Evidence that changed.** Verification is about files to which something
  happened: lines lost, swapped, repeated, edited. The verdict is computed three
  times (library, CLI table, Python), with different sorting and indexing.
* **Ordering and repetition.** Events heard twice, errors after dead letters,
  lines out of order, a file that grows while it is read (`watch`).
* **Judgement from afar.** A policy is edited after a call was decided, and the
  replay has a hash of the arguments only; the report infers from several
  receipts whether money moved; packs of rules written apart from the
  operator's are merged into them, and the first rule that applies decides.
* **Shared files and endless waits.** Verifiers share a permanent key cache with
  each other and with the proxy's key directory; requests and dashboards of the
  observe proxy may stay open for ever.

What makes each part correct: the *emitter* keeps one unforked chain and tells
every caller the truth about its receipt; the *file* loses at most the receipt
in flight; a *verifier* passes only what one session emitted, from its
beginning, and all verifiers agree; *watch* shows every line once; *L3/L4* and
*report* say of timestamps and money what the receipts say; the *policy engine*
decides by the first rule that applies, after the merge its comment describes,
and lets no payment slip between the guards of a pack, but a charge that leaves
its amount out; *nonsudo test* finds no
drift only where there is none; a *key* that is used is one of its id, or of an id
that the server takes for the same; the
*observe log* tells what callers got.

## 2. The modules

```
SigningPayload ------- what a signature covers, in TypeScript and in Python

KeyResolver ---------- resolvePublicKey beside other verifiers and the proxy
  +- MCKeyResolver     (TLC)

SignatureProofs ------ of KeyResolver and SigningPayload (TLAPS)

Watch ---------------- nonsudo watch beside a writer
  +- WatchProofs                               (TLAPS)

Receipts ------------- what a receipt is; Digest, ChainReceipt, HeadsChain, Links
  |                                            AuditTrail (abstract specification)
  +- WorkflowSession --- the LangChain adapter      ^  refinement: Trail
  |    +- MCWorkflowSession            (TLC)        |
  |    +- WorkflowSessionProofs        (TLAPS)
  +- ChainVerifier ----- verifyChain, verifyReceipts, exit codes
       +- PythonVerifier  _l1, _l2 of python-verifier
            +- ChainVerifierProofs     lemmas about sorting and chains (TLAPS)
            +- ReceiptFile  the file and the auditor's copy, verified by all three
            |    +- MCReceiptFile      (TLC)
            |    +- ReceiptFileProofs  (TLAPS; uses ChainVerifierProofs)
            +- OutcomeBinding  L3, L4, warnings, exit codes, report; Python's too
                 +- ConformanceVectors  the published test vectors
                      +- Evidence  a money workflow, its sidecar, and what happens to both
                           +- MCEvidence    (TLC)
                           +- EvidenceProofs (TLAPS; uses ChainVerifierProofs)

Policy --------------- evaluateParams, evaluatePolicy, mergePackRules
  +- SchemaPacks ----- the payment packs, loadPolicy
       +- PolicyReplay  a workflow under a policy that is edited, nonsudo test
            +- MCPolicyReplay          (TLC)
            +- PolicyProofs            (TLAPS; uses ChainVerifierProofs)

ObserveProxy --------- nonsudo observe
  +- ObserveProxyProofs (TLAPS)
```

### WorkflowSession: the receipt emitter

| Variable | Code |
|---|---|
| `calls` | the promise of every handler call (`idle`, `waiting` for the session, `queued`, ..., settled) |
| `session` | `_session`, `_sessionInit` (handler.ts:33-34) |
| `pending` | keys of `_pendingActions` (session.ts:67) |
| `queue` | `_emitQueue` (session.ts:68): a promise chain, so a sequence of jobs; `close()` awaits it and is an element of it |
| `prev`, `file`, `fdOpen` | `prevReceipt`, the lines of the file, the writer's descriptor |
| `nextId`, `faults`, `closes` | source of ULIDs, and the two bounds |

An action is what runs between two awaits.

| Action | Code |
|---|---|
| `Call` | a handler method up to `await this.getSession()` |
| `CreateSucceeds`, `CreateFails` | `WorkflowSession.create` and the `.then` / `.catch` of `getSession` |
| `StartPends`, `StartDeadLetters` | the rest of `handleToolStart`, arguments parsed or not |
| `EndFinalizes`, `EndThrows`, `EndSkips` | `finalizeActionReceipt`: queued; `computeContentEntropyHash` throws; nothing pending |
| `ErrorDeadLetters` | the rest of `handleToolError` |
| `EmitChains` / `EmitThrows` | a job begins: build and chain, or `canonicalHash` throws |
| `EmitAppends` / `EmitFails` / `EmitRefused` | after `await signReceipt`: written, failed, or the descriptor is closed |
| `Close`, `CloseWriter` | `close()` up to and after `await this._emitQueue` |

`CallAllowed` is LangChain's side: an end or an error comes after every delivery
of the run's start was settled, and a run has one of the two; a tool may deliver
each event once or twice (`Copies`). Nothing else is assumed of the caller.

Digests are modelled by ids: the code never changes a signed receipt, and ULIDs
are unique. A receipt carries two fields the code does not have, `call` and
`enq`: they tell the properties whose receipt it is and what the version was
when it was asked for.

### AuditTrail: what the emitter promises

A trail to which opened requests are appended, each once, until it is sealed; a
request is answered by an entry or refused. `WorkflowSession` implements it with
handler calls for requests, the file without its manifest for the trail, and the
closed descriptor for the seal (`ImplementsTrail`).

### SigningPayload: what a signature covers

Three tables must tell one story for each of the eight record types: the fields
`types.ts` declares (`DeclaredOf`), the fields `buildSigningPayload` signs
(`SignedFields`) and the fields `build_signing_payload` of the Python verifier
signs (`PySignedFields`). They are written down three times here because they
are in the source, and comparing them is the point. A receipt is a function from
field names to values. It is created, signed, and then edited: any field
set to another value or dropped, any known field added, `record_type` and
`queue_status` (which select the table) included. Ed25519 is reduced to "the
payload is the one that was signed".

### ChainVerifier and PythonVerifier

Pure operators. `ChainErrors` is the set of `[index, code]` of `verifyChain`,
over the receipts in sorted order; `L1Pass`, `L2Pass`, `OverallPass` are the rows of
`verifyReceipts`, with its two ways to count (place in sorted order, place in
the file); `ExitCode`, `RunVerify`, `BinVerify` the exit codes. `PySorted`,
`PyL2`, `PyPass` are the Python tiers with their own sort key. A receipt's
`edit` says whether it was changed after signing and whether the signature
covers the change: every signed field matters only in that, except
`sequence_number`, whose edited value decides the sorting; that "signed" means every
declared field is what `SigningPayload` shows. `PythonVerifier` speaks of receipts
whose payload is the same in both languages; the others are the finding of
`python_payload`. Indexes are 1-based
here, 0-based in the code.

### ReceiptFile: from the writer to the auditor

| Variable | Stands for |
|---|---|
| `sent` | per session, what it handed to the writer: the chain it believes in |
| `lines`, `rest` | terminated lines that parse; what follows the last newline |
| `up` | a process has the file open |
| `copy` | the auditor's copy, once taken |
| `short`, `damage`, `nextId` | bounds and ids |

`Start` and `Emit` write one line with one `writeSync`: whole, short and
unnoticed (the result is ignored, writer.ts:18), or cut by the death of the
process. A line written after an unterminated one is glued to it, does not parse
and is skipped by `readReceiptsFile`. `Start` on an existing file appends a
second manifest (session.ts:109). `Repair` is the runbook's scenario 4.
`Export` and `Damage` are the environment: the copy is taken at any time, then
lines are lost, exchanged, repeated, changed. No component in this repository
writes `workflow_closed`; the session may end with one because the verifiers
treat it and the documents describe it. `readReceiptsFile` skips a line that does
not parse where the Python loader raises: `VerifiersAgree` compares the verdicts on
the receipts that were read.

### Watch: the file while it grows

| Variable | Code |
|---|---|
| `exists`, `content`, `line`, `part` | the file, as pieces `[line, part]` (parts 1 and 2 are the JSON text, 3 the newline), and how far the writer is |
| `at` | where `runWatch` is: before the seed, before `statSync`, before it registers with the file or the directory, waiting, stopped |
| `offset` | `fileOffset` |
| `shown`, `summary` | what was printed |
| `event` | a change event waits in the event loop |
| `torn`, `raced` | history: a line was not written in one piece; the file grew between a read and the question for its size |

An action is what happens between two system calls of the watcher: `Seed` and
`Measure` are `readFileSync` (75) and `statSync` (85), `Choose` the last
`existsSync` (139), `Register` and `RegisterDir` the two `fs.watch`, `DirEvent` and
`MeasureDir` the two halves of the directory's callback, `FileEvent` is
`handleNewContent`, `Interrupt` Ctrl+C. `FileEvent` is one action although it makes
several calls: it reads up to the size it asked for, so growth after that
question is an event of its own. The writer puts a line down whole or in parts
(a write that crosses a page becomes visible bit by bit), or dies and leaves a
line that the next one is glued to.

### OutcomeBinding, ConformanceVectors, Evidence: the upper tiers

`OutcomeBinding` has the pure functions: `L3Status` over receipts and sidecar
records (a later record of a receipt replaces an earlier one, `RecordOf`),
`L4Status`, the D1/D2 warnings of `verifyChain` (`ChainWarnings`), `VerifyExitCode`,
`BinVerifyFull` of the installed command, `PyL3Status`, `PyL4Status` and
`PyVerdict` of Python, and the two sums of `nonsudo report` as the sets of receipts
they run over (`Processed`, `Protected`). A token is one of the kinds `verifyL3` tells
apart (`BadTokens`), since decoding DER is not what the properties are about;
Python has a set of its own because it reads `genTime` with a parser for another
format.

`ConformanceVectors` builds what `scripts/generate-test-vectors.ts` and
`generate-golden-vectors.ts` build, receipt by receipt, with the verdicts they
expect of each tier. A token made without a fault has `issued_at` for `genTime`, which
Python may misread: before 3.11 it refuses every one, later by the digits. So TV-13, TV-14
and TV-16 are there with tokens it reads and with tokens it misreads, and GV-17, whose
receipts are issued while the generator runs, with every mixture of the two.

`Evidence` composes these. Its state is `sent` (the receipts as issued),
`sidecar`, `evidence` (what the auditors have), `damage` (how many things
happened to it) and `vector` (the vector the behaviour started from, if any).
`Decide`, `Resolve`, `Warn` and `Close` are the issuer, which is not in this
repository: it decides on calls, records outcomes of money actions that were
not refused, several if it retries. `Stamp` is a timestamping service that may
answer with any token, filed for any receipt. `Reorder`, `Lose` and `Edit`
happen afterwards. A behaviour that starts with a vector only reorders its lines.

### Policy, SchemaPacks, PolicyReplay

`Policy` is `evaluateParams` (`EvaluateCondition` gives `pass`, `fail` or
`type_error`, as in the code), `evaluatePolicy` (guards on hosts, paths and
models, then the first rule that says something, then the default) and
`mergePackRules`. An argument is a typed value with as much of its content as the
conditions look at: a number, a text's class, a URL's scheme and host, a path's
directories. `SchemaPacks` has the rules of the payment packs, in their order,
and `loadPolicy`. `PolicyReplay` has the policy `file` in force, the `receipts` of a
workflow, a `clock`, and an operator who edits the file (`EditPolicy`); a call is decided
under the file as it is, or dead-lettered by a velocity limit. `RunTest` and
`RunCounterfactualSimulation` are `nonsudo test` on that workflow. A receipt of the
model keeps the arguments and the policy, which the code's has not: `RunTest` does
not look at them, the properties do.

Lists of rules are walked by functions over the places of the list (`MergePackRules`,
`RunCounterfactualSimulation`); `Those(seq, places)` is the code's `filter`.
`FilesAssumption` is what the schema check of a policy file and its parser guarantee, that
rules, schemas and limits are lists, and limits and the numbers in windows integers;
`CallsAssumption`, that the arguments of a call are an object of values.
`VelocityAsDocumented` says two things: what the limits refuse, the simulation
refuses, for every file; and it refuses nothing else if the file is `Readable` (no
window in hours or days, which the code takes for no window at all, and no two
limits with one counter). The limits
of `MoneyWithinLimits` (`WithinLimits`) are written from the tool's side: for each kind of payment
what an allowed one has. `Enforced` is whether the file names a pack with limits on it.
The two charges of the stripe pack are the exception among the payments: their rules compare
an amount and a currency, and neither asks whether they are there. `WithinLimits` says of a
charge that an amount it names is a number up to 50000, and for `stripe_charge` that a currency
it names is listed; that an amount may be missing is a finding.

### KeyResolver

| Variable | Code |
|---|---|
| `cache`, `local`, `server` | the files of `~/.nonsudo/key-cache` and `~/.nonsudo/keys`, the secrets of the key server |
| `pc`, `asked`, `offline`, `body`, `result` | per verifier: where `resolvePublicKey` is, for which id, `--offline`, what was fetched, what it returned or threw |
| `faults` | bound |

An action is one system call: `existsSync`, `readFileSync`, the fetch, and the two
halves of `writeFileSync`, which truncates before it writes. Around it the proxy
writes key files, owners copy them by hand and publish, something else answers
for the server, processes die. A document is the key of an id, or one of the
kinds `Parse` refuses. `TsResolve` and `PyResolve` are both resolutions without the
network, over the same files.

### ObserveProxy

| Variable | Code |
|---|---|
| `up` | the process: running, stopping (`server.close` called, timer set), exited |
| `state` | per request: new, waiting for the upstream, answered with its answer or with 502 |
| `book` | what `handleProxy` keeps: the log, the last number, `totalCalls`, what each listener was sent |
| `joined` | per listener of `/events`: the length of the log when it joined |
| `faults` | appends and terminal lines that fail (bound) |

`handleProxy` has one await that matters, so a request is two actions: `Call`, and
everything behind the upstream's answer: `UpstreamAnswers`, `UpstreamFails`,
`AnswerNotRecorded` (the log or the terminal fails after the answer came, and the catch
records once more). A catch that fails in its turn is an unhandled rejection and
ends the process (`Settle`).

## 3. The runs

| Run | Instance | Shows |
|---|---|---|
| `emit_session` (pass) | 2 runs, one heard twice, one malformed; 2 faults; 1 close; 79,048 states | type; one unforked chain; `prevReceipt` is the last line; callers are told the truth; a run is attested once; versions give order; `close()` loses nothing queued; refinement of `AuditTrail`; a failure stays with the calls it happened to; every call settles |
| `receipt_file` (pass) | 5 receipts, 2 processes, 1 short write, 2 changes to the copy; 469,580 states | what verifies is a prefix of one session's chain; exit 0 means a whole session; table, library and Python agree; a death costs one receipt; loss is reported where it is |
| `watch` (pass) | 4 lines, whole or in parts, the third closing; 21,083 states | what is printed is printed once and in order; nothing is lost but by a line seen in parts or by growth between a read and the size; what is appended while it listens is shown |
| `signing_payload` (pass) | 8 types, 4 choices of optional fields, 2 edits; 379,536 states | a receipt that verifies says what was signed; Python agrees where it knows the fields |
| `evidence` (pass) | 5 receipts, 3 of them if one has a timestamp, 1 record, 1 change; 39 vectors, 4 of them in variants; 485,301 states | a clean exit accounts for all receipts, outcomes and warnings; a timestamp seals the unsigned fields; three verdicts over all tiers are one; the report counts each amount once; the vectors give what they expect from both verifiers, but for a `genTime` that Python misreads; order of lines matters nowhere |
| `policy` (pass) | 10 policy files, 2 calls in chains of 3 over 2 seconds, probes of the argument shapes each pack tells apart, 1 edit; 83,012 states | packs and operator rules merge as documented; payments that pass are within the packs' limits, charges as far as they name an amount and a currency; exit 0 of `nonsudo test` means no drift; the velocity simulation refuses what the limits refuse |
| `keys` (pass) | 2 verifiers, 3 ids of which 2 share a secret name, 1 fault; 2,120,587 states | a key is one of its id, or published for an id with the same secret name; only a fault or a write in progress spoils the cache; Python gets the key TypeScript gets |
| `observe` (pass) | 3 requests, 2 listeners, 2 failures; 132,398 states | the log tells what callers got; listeners see the log; shutdown ends |
| `lost_receipt` (violation) | 1 run, 1 fault | a run whose start failed leaves no trace |
| `python_payload` (violation) | 8 types, no edit | Python rejects a receipt with mandate fields nobody touched |
| `python_l3` (violation) | 2 receipts, 1 record; or a vector | Python refuses a good token, that of TV-13 for one |
| `key_cache` (violation) | 1 verifier, 1 fault | a document that is no key, answered by another host with status 200, is cached for ever |

A violation run states what a document of the repository says; `PROJECT.json`
quotes the line under "findings", with further disagreements that were met while
modelling and need no run: they are read off the definitions.

`ExitZeroIsWholeSession` of `receipt_file` is stated for both answers to whether a
timestamp is stale. `CountedOnce`, `LogTellsCalls`, `KeyIsOwnOrAlias`,
`MoneyWithinLimits` and `VectorsAsExpected` name the exceptions the code makes; each is a
finding.

**Why the bounds are enough.** *emit_session*: a fork needs two jobs, a
duplicate one run heard twice, a skipped receipt one fault, and their
interaction (a fault under the creation and another in the queue, a close with
work before and behind it) two runs, two faults and one close: all are reached.
*receipt_file*: five receipts admit two sessions of two or three lines, so that
two lines have the same number and a gap can be between lines, at the head or
at the tail; two changes admit a repair of one by the other (swap and delete,
edit and stamp). *watch*: the watcher reads the file twice before it has an
offset it keeps; four lines put one before the seed, one into each gap between
read and size or registration, and one behind the closing line. *signing_payload*:
one edit may select another table, the second may use it. *evidence*: two
outcomes of one action and their order need manifest, action, two outcomes and
the end, five receipts; a record of the wrong receipt needs two, and a third
behind it; a record that replaces another is rare enough to be left to
`RecordOf`. *policy*: an edge of every guard has a value on both sides of it;
three calls in three seconds fall into the same and into neighbouring windows
of one, two and sixty seconds, and use up limits of one and two; the files
between them have every way in which a tool is claimed. *keys*: what
can spoil a file takes two processes on it; two ids with one secret and one
without are all the kinds of id there are. *observe*: two requests that overlap
a third, two failures for the catch that fails too. Deadlock checking is off in all runs: the agent may stop
calling tools, and a bounded environment runs out of faults.

**Fairness.** `ObserveProxy`: weak fairness of the timer of five seconds and of the
callback of `server.close`, used for `ShutdownEnds`; nothing is assumed of the
upstream, which may never answer, nor of listeners, who may never leave. `Watch`: weak fairness of the watcher's steps (they are synchronous,
and an event that was raised is delivered), used for `AppendedIsShown`; none of the
writer or of Ctrl+C. `FairSpec` of `WorkflowSession`, used for `CallsSettle` only:
weak fairness of the creation of the session, of the resumption of handler calls, and of the head of
the emit queue: a promise settles (the file operations are synchronous, signing
is computation) and the event loop runs what is ready. No fairness for
LangChain's calls, nor for `close()`. Faults may be chosen forever within their
bound; liveness holds because a failed step settles its caller too.

## 4. What is proved

All theorems hold for every value of the constants that the named assumptions
of the modules allow. `WorkflowSessionProofs` holds for any set of
runs, any malformed ones, any deliveries of one or two copies, any number of
faults and closes, under the assumptions named in `WorkflowSession` that give
the constants their types; `ReceiptFileProofs` for files of any length, any number
of processes, torn writes and changes to the copy; `WatchProofs` for any number of
lines, written whole or in parts; `EvidenceProofs` for workflows and sidecars of any
length and any number of changes; `PolicyProofs` for any policy files (operator rules of any
number and order, packs in any order, any limits), any calls with any arguments, and
workflows and edits of any number. One assumption is there for the prover alone:
`AnswersAreTokens` gives the answers of a timestamp service as members of a named set,
because its provers know nothing of the set of all strings.

| Theorem | Says |
|---|---|
| `TypeCorrect` | `Spec => []TypeOK` |
| `FileIsChained` | `Spec => []ChainLinked` |
| `PrevIsAlwaysLast` | `Spec => []PrevIsLastLine` |
| `VersionsOrderReceipts` | `Spec => []VersionsGiveOrder` |
| `WrittenOnce` | `Spec => []WrittenExactlyOnce` |
| `RunAttestedOnce` | `Spec => []AttestedOnce` |
| `CloseKeepsQueued` | `Spec => CloseLosesNothingQueued` |
| `FailuresAreLocal` | `Spec => FailuresStayLocal` (an action property) |
| `EmitterImplementsTrail` | `Spec => ImplementsTrail` (initial state and every step) |
| `SignedIsCovered` | `PayloadSpec => []SignatureCoversDeclared` |
| `PythonAgrees` | `PayloadSpec => []PythonAgreesOnKnown` |
| `KeyTypeCorrect` | `Spec => []KeyTypeOK` of `KeyResolver` |
| `KeyIsOwn` | `Spec => []KeyIsOwnOrAlias` |
| `SpoiltByFault` | `Spec => []SpoiltHasCause` |
| `PythonResolves` | `Spec => []PythonResolvesToo` |
| `ObserveTypeCorrect` | `Spec => []ObserveTypeOK` of `ObserveProxy` |
| `LogIsTrue` | `Spec => []LogTellsCalls` |
| `ListenersFollowLog` | `Spec => []EventsFollowLog` |
| `FileTypeCorrect` | `FileSpec => []FileTypeOK` |
| `ValidChainsArePrefixes` | `FileSpec => []ValidIsPrefix` |
| `CleanExitIsWholeSession` | `FileSpec => []ExitZeroIsWholeSession` |
| `TableAgreesWithChain` | `FileSpec => []OverallPassIsChainValid` |
| `OneVerdict` | `FileSpec => []VerifiersAgree` |
| `CrashCostsTheLast` | `FileSpec => []CrashCostsOneReceipt` |
| `LossIsShownInPlace` | `FileSpec => []LossIsLocalised` |
| `OrderIsHandled` | `FileSpec => OutOfOrderIsHandled` (an action property, proved and not run) |
| `WatchTypeCorrect` | `WatchSpec => []WatchTypeOK` |
| `PrintsOnceInOrder` | `WatchSpec => []ShownOnceInOrder` |
| `LossIsTearOrRace` | `WatchSpec => []LossNeedsTearOrRace` |
| `EvidenceTypeCorrect` | `EvidenceSpec => []EvidenceTypeOK` |
| `CleanExitIsAccounted` | `EvidenceSpec => []CleanExitMeansAccounted` |
| `StampIsSeal` | `EvidenceSpec => []StampSealsReceipt` |
| `TiersAgree` | `EvidenceSpec => []UpperTiersAgree` |
| `MoneyCountedOnce` | `EvidenceSpec => []CountedOnce` |
| `VectorsHold` | `EvidenceSpec => []VectorsAsExpected` |
| `OrderIsImmaterial` | `EvidenceSpec => OrderChangesNoVerdict` (an action property) |
| `ReceiptsAsDecided` | `ReplaySpec => []ReplayInv` |
| `CleanReplayIsNoDrift` | `ReplaySpec => []CleanReplayMeansNoDrift` |
| `VelocityDocumented` | `ReplaySpec => []VelocityAsDocumented` |
| `MergeDocumented` | `ReplaySpec => []MergeAsDocumented` |
| `PaymentsWithinLimits` | `ReplaySpec => []MoneyWithinLimits` |

**The chain.** `ChainLinked` alone is not inductive: that an appended draft
links to the last line rests on when it was drafted. The invariant adds that
`prevReceipt` is the last line, that only the head of the queue has a draft,
that the draft is the one `ChainReceipt` makes from the *present* `prevReceipt`
(nothing can move `prevReceipt` between `EmitChains` and `EmitAppends`, because
only the head of the queue writes), that there is no job before the session is
live, and that every line's number is its place. `VersionsGiveOrder` follows
from the last part: a receipt's versions are determined by its number, and
numbers grow along the file.

**Once.** `WrittenExactlyOnce` needs the queue: a call has a job exactly while
it is `queued` or `late`, no two jobs have the same call, and a call in the file
has none (`QueueInv`, `WrittenInv`). `AttestedOnce` needs more, for it relates
two *different* calls of a run: a run is pending only while none of its ends or
errors was served, a job under the run's name removes it from `pending`, and
LangChain's order (`CallAllowed`) keeps the run's starts settled by then, so
that nothing makes it pending again (`OrderInv`, `PlaceInv`, `SideInv`).

**Close.** A `queued` call's job precedes every close marker, and the
descriptor is open while there is one (`CloseInv`): so the job is served before
`CloseWriter`. The same invariant shows the step to be one of `AuditTrail`: a
record is written only while the trail is not sealed.

**Failures.** `FailuresStayLocal` is a property of single steps: a failed creation
rejects those who wait for it and goes back to no session, and every other
failure settles one call. With liveness it says that no call is rejected, and none waits,
for what failed earlier.

**Signatures.** `SignedIsCovered` and `PythonAgrees` rest on no induction: the
tables are compared once for every type (`DeclaredIsSigned`, `PythonTables`), which
makes the declared part of a receipt its payload, and the two payloads one. They
hold for every content and any number of edits.

**Keys.** That a key is one of its id, or of a published id with the same secret name, is an invariant of every place a key
can be: the cache, the key directory, the secrets and the document a
verifier has just fetched; the answer is taken from one of them. That a spoilt file
has a cause needs, besides, that before the first fault no secret and no fetched
document is junk, and that a proxy's unfinished key file is only ever copied by one. `PythonResolves`
is a comparison of two operators, lifted to every state.

**The proxy.** `LogIsTrue` and `ListenersFollowLog` rest on one invariant: the
numbers of the log are at most `book.number` and rise, the entries of a request are
where its state says, a listener joined within the log. Each action appends at
most two entries, for one request: a lemma says what `Record` does to a book of
which this holds, another what the catch adds to it.

**The verifiers.** `ChainVerifierProofs` has no state. Its lemmas say that `Rank` is a
bijection of the places of a list (a sort loses nothing and repeats nothing: `Ranking`,
`Sorting`); that receipts whose numbers rise are left as they are, and any
reordering of them is put back (`SortedStays`, `SortedPermuted`); that the stable sort of
TypeScript and that of Python agree when numbers differ (`PySortsAlike`); that no error in
sorted order means number = place - 1 and a link to the receipt before
(`NoErrorMeansChained`, `NumberIsPlace`). The last is an induction over the place in the
chain; it is done with the least counterexample (`LeastNumber`, `PlaceInduction`), since an
induction theorem with an operator for a parameter is out of the prover's reach.
The table of `verifyReceipts` reports an error at an index of the *sorted* chain, and a
row fails at its place in the *file*; that every error index is a place is what makes "all rows
pass" and "the chain is valid" the same (`ErrorHasPlace`, `PassMeansValid`).

**The file.** `ValidIsPrefix` says that what verifies is the beginning of one session, and
nothing about types or about the present file implies it. The strengthening is
about what was ever issued: the chain of each session is linked from its
manifest on, and no two sessions have one manifest, so that a workflow id and a number
name one receipt (`SessionsApart`); what is in the file, in a process or in the copy was issued, but for its
edits (`OnlyIssued`). With it the argument is: all receipts of a valid chain have one workflow id and
their places for numbers, so each is *the* issued receipt of its place, unless its
unsigned fields were changed; and only the last can have been, because the next one names the hash
of the receipt before it. `CrashCostsOneReceipt` and `LossIsLocalised` are about one session
and need its order in the file: `FileRises` (what is read rises in number) and `FileCurrent` (as long as no
write was short without notice, the file holds the whole session, or lacks only the receipt
that its process died writing).

**Watch.** Pieces of lines carry the key of their line; keys rise along the file
(`PiecesRise`). What was printed began before the place `Seen` up to which the watcher read, each once
(`ShownRises`); a line is printed where it begins, so that the next read,
which starts at the offset, cannot print it again. For `LossNeedsTearOrRace`: as long as no
read met a line in parts and no growth fell between a read and the `stat` behind it, the offset is at the
end of a line (`WholeLines`) and all that began before it was printed (`NothingLost`). The listener for the
file's appearance and the one for its growth meet in the same lemmas (`ReadsOn`,
`ReadsAll`, `PrintsMore`, `PrintsAll`), because both print what a read returns.

**The upper tiers.** `EvidenceInv` says, of a workflow, that its receipts have their places
for ids and the place before for numbers, that only the last closes it, and that what the
auditors hold was issued but for its edits; of a vector, that the evidence is a reordering (a
bijection) of it. A clean exit then accounts for everything: the chain is complete, so it has the receipt that
closes the workflow, whose number is the length, so it has them all (`CompleteIsAll`); verdicts on
outcomes depend on signed fields only, so they carry over from the evidence to what was sent
(`SameReceipts`). A stamp seals because the imprint names an issued receipt with its unsigned
fields. `OrderIsImmaterial` rests on `OutcomesMoved`, `AmountsMoved` and `StampsMoved`: every
verdict and amount is defined over the set of receipts, or over a choice that a bijection keeps.
`CountedOnce` needs that a decision and the fate of its call agree (`Decided`).

**The vectors.** `VectorsHold` quantifies over all orders of a vector's lines. Where numbers rise, both
verifiers restore the order, and it is enough to read the chain as generated (`RisingReads`); that a generated
chain reads well is shown for any drafts that begin with a manifest (`ChainReads`,
`StampReads`, `GoldenReads`; `PyExpected` is what Python makes of a misread `genTime`). The recursion of `ChainOf` is replaced by what it computes: a
receipt behind the first has its place for an id and the id before its own for a hash (`ChainIsLinked`). The
other vectors are a receipt alone or a pair that does not link; in TV-12 both have number 0, and both
orders are read (`TwinReads`).

**The policy.** `ReplayInv` is all that the workflow contributes: every receipt is of a
call, names a policy that loads, and has the decision of that policy, or is dead-lettered. The
work is in what the lists of rules decide.
A function over the places of a list is known to the prover only by its equation; `Recursion` gives it that
equation, and `CountInduction` its values: `ThoseAre`, `MergeIs` and `Simulation` say once what the code's
loops compute. From there a list of rules is known by its `Ruling`, the
verdict of the first rule that decides, and by how that
carries over concatenation, filtering and merging (`RulingJoined`, `RulingOfThose`, `MergedQuietly`,
`MergedFirst`): that is `MergeDocumented`.

For `PaymentsWithinLimits`, `PackFirst` makes an allowed payment one that the packs themselves
allow or on which they are silent, and
`FromPack` takes that to the pack that sets the limits: other packs may only
refuse more. Then each guard is read backwards (`SilentUnlisted`, `SilentDigits`, `SilentOver`, ...): a guard
that was silent says what the argument is *not*, and the guards of a pack together leave only values
within the limits. A number among the digits of a string, a missing field (but in charges), a
value of another type: each has a guard of its own, or makes one fail to apply,
which blocks.

`CleanReplayIsNoDrift` compares two evaluations, with the arguments and
without: without rules with params and without guards they look at the same fields (`ReplayAgrees`).
`VelocityDocumented` is an induction over the receipts: the keys that the simulation has stored are those of the
calls it did not refuse (`Counters`), and a key is counted as often as a call of its window
uses its limit (`WindowsAreBuckets`: two times are in one window exactly if they have one
quotient).

**Only model-checked**: `CallsSettle`, `AppendedIsShown` and `ShutdownEnds`, since liveness
under fairness is out of the prover's reach. Every other property that a passing run
checks is a theorem.

## 5. What is not modelled

The cryptography (signatures are unforgeable and hashes injective here), JSON
and canonicalisation (except that hashing may throw), DER, logging, formatting and
the text of the report; the SQLite store, whose operations are single
statements or transactions; commands that read a file and print; the packs for tools
that do not pay, which are lists of the same rules; the policy hash; the
schema server's constant documents; the dashboard page, the key pair and the
config file of the observe proxy. The `nonsudo conform` command is not modelled; what it
compares is a finding. `receipt_file` has no
timestamp sidecar and no money action, which `evidence` has; where `runVerify`
consults the sidecar for the age of a timestamp, the answer is a parameter. The
Python loader, which raises where `readReceiptsFile` skips a line, is left out of the
comparison. Two sessions whose
descriptors the operating system may hand out again (`writer.ts:24`) are not
modelled yet; nor is a file that is truncated or deleted while it is watched.
Everything under "not_modelled" in `PROJECT.json` has its reason
there.

## 6. Plan

1. Two sessions in one process and the descriptor table.
2. A sidecar that is appended to while `receipt_file` is written and copied, so that
   loss and repair meet timestamps too.
