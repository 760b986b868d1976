--------------------------- MODULE WorkflowSession ---------------------------
(***************************************************************************)
(* packages/adapter-langchain: a NonSudoCallbackHandler, the               *)
(* WorkflowSession it creates lazily, and the SimpleReceiptWriter below    *)
(* it.  LangChain calls the handler for the start and for the end or the   *)
(* error of every tool run: once, or twice (`Copies`) for a tool that has  *)
(* the handler registered on itself as well as on the agent.  The calls    *)
(* are asynchronous functions of one event loop, so an action below is     *)
(* what runs between two awaits.                                           *)
(*                                                                         *)
(* The promise chain _emitQueue is the sequence `queue`: its head is the   *)
(* work whose promise is pending, the others wait for it.  session.close() *)
(* awaits the chain as it stands and then closes the file, so it is an     *)
(* element of the sequence too.                                            *)
(***************************************************************************)
EXTENDS Receipts, FiniteSets

CONSTANTS
  Runs,       \* tool runs (LangChain run ids)
  Malformed,  \* those of them whose argument text is not JSON
  Copies,     \* Copies[r]: how often the events of run r reach the handler
  MaxFaults,  \* bound: failures of the key file, of the disk, of hashing
  MaxCloses   \* bound: calls of handler.close() that find a session

ASSUME RunsAssumption == Malformed \subseteq Runs
ASSUME CopiesAssumption == Copies \in [Runs -> {1, 2}]
ASSUME BoundsAssumption == MaxFaults \in Nat /\ MaxCloses \in Nat

Events == {"start", "end", "error"}
Calls  == {c \in [run : Runs, event : Events, copy : {1, 2}] : c.copy <= Copies[c.run]}

\* The life of one handler call:
\*   idle      not made yet
\*   waiting   awaits getSession()
\*   queued    its receipt is in the emit queue
\*   late      the same, but asked for after close()
\*   pended    resolved: the action was put aside, nothing to write (start)
\*   written   resolved: its receipt was appended
\*   skipped   resolved with null: no pending action for the run
\*   rejected  the promise was rejected by a fault; LangChain swallows that
\*   badfd     rejected because the file was closed already
Unsettled == {"waiting", "queued", "late"}
Settled   == {"pended", "written", "skipped", "rejected", "badfd"}
Statuses  == {"idle"} \cup Unsettled \cup Settled

VARIABLES
  calls,    \* status of every handler call
  session,  \* _session / _sessionInit: "none", "creating" or "live"
  pending,  \* keys of _pendingActions
  queue,    \* _emitQueue: jobs and close markers, first in first out
  prev,     \* prevReceipt
  file,     \* the lines of the receipt file
  fdOpen,   \* the writer's descriptor is open
  nextId,   \* source of fresh ULIDs
  faults,   \* number of faults so far
  closes    \* number of close() calls so far

vars == <<calls, session, pending, queue, prev, file, fdOpen, nextId, faults,
          closes>>

-----------------------------------------------------------------------------
\* A job of the queue.  `draft` is the chained receipt while signReceipt is
\* awaited; `named` says that the tool's name and arguments are known.
Job(c, dead, named) ==
  [close |-> FALSE, call |-> c, dead |-> dead, named |-> named,
   enq |-> prev.seq, draft |-> NoReceipt]

CloseMarker == [close |-> TRUE]

\* Mutant: the state version is read when the job is queued.
Unsigned_VersionAtEnqueue(j) ==
  [id |-> nextId, wf |-> prev.wf, type |-> "action_receipt", seq |-> 0,
   prev |-> NullHash, dead |-> j.dead, named |-> j.named,
   before |-> j.enq, after |-> IF j.dead THEN j.enq ELSE j.enq + 1,
   call |-> j.call, enq |-> j.enq]

\* The receipt of job j, before it is chained: state_version_before is the
\* sequence number of prevReceipt, read when the job runs; the version
\* advances for an action that was allowed and not for a dead letter.
Unsigned(j) ==
  [id |-> nextId, wf |-> prev.wf, type |-> "action_receipt", seq |-> 0,
   prev |-> NullHash, dead |-> j.dead, named |-> j.named,
   before |-> prev.seq, after |-> IF j.dead THEN prev.seq ELSE prev.seq + 1,
   call |-> j.call, enq |-> j.enq]

\* workflow_manifest: sequence number 0, no predecessor, its own workflow.
\* Its call fields are those of no call; `NoCall` keeps the record uniform.
NoCall == [run |-> "none", event |-> "none", copy |-> 0]
Manifest(id) ==
  [id |-> id, wf |-> id, type |-> "workflow_manifest", seq |-> 0,
   prev |-> NullHash, dead |-> FALSE, named |-> FALSE, before |-> 0,
   after |-> 0, call |-> NoCall, enq |-> 0]

Settle(c, status) == calls' = [calls EXCEPT ![c] = status]

\* Mutant: without the promise chain a job reads prevReceipt when it is asked for.
Enqueue_Unserialised(j) ==
  queue' = Append(queue, [j EXCEPT !.draft = ChainReceipt(Unsigned(j), prev)])

\* emitActionReceipt / emitDeadLetter: chain the work behind the queue.
Enqueue(j) == queue' = Append(queue, j)

\* What a call that waits for its receipt is called: asked for before or
\* after the first close().
Waiting == IF closes = 0 THEN "queued" ELSE "late"

\* The disk, the key file or the hash may fail, a bounded number of times.
Fault == faults < MaxFaults /\ faults' = faults + 1

-----------------------------------------------------------------------------
\* LangChain settles every delivery of a run's start before it delivers the
\* run's end or error, and a run has one of the two.
CallAllowed(c) ==
  /\ calls[c] = "idle"
  /\ c.event # "start" =>
       /\ \A d \in Calls : d.run = c.run /\ d.event = "start" => calls[d] \in Settled
       /\ \A d \in Calls : d.run = c.run /\ d.event \notin {"start", c.event}
                             => calls[d] = "idle"

\* handleToolStart / handleToolEnd / handleToolError up to their first await:
\* getSession() starts the creation of the session unless it exists or is
\* under way, in which case its promise is shared.
Call(c) ==
  /\ CallAllowed(c)
  /\ Settle(c, "waiting")
  /\ session' = IF session = "none" THEN "creating" ELSE session
  /\ UNCHANGED <<pending, queue, prev, file, fdOpen, nextId, faults, closes>>

\* WorkflowSession.create: the manifest is signed and appended.
CreateSucceeds ==
  /\ session = "creating"
  /\ session' = "live"
  /\ prev' = Manifest(nextId)
  /\ file' = Append(file, prev')
  /\ fdOpen' = TRUE
  /\ nextId' = nextId + 1
  /\ UNCHANGED <<calls, pending, queue, faults, closes>>

\* Mutant: the rejected promise of the creation is kept, and every later call
\* is given it: its rejection is thrown again at once.
CreateFails_KeepsPromise ==
  /\ calls' = [c \in Calls |-> IF calls[c] = "waiting" THEN "rejected" ELSE calls[c]]
  /\ session' = "failed"
  /\ \/ session = "creating" /\ Fault
     \/ session = "failed" /\ calls' # calls /\ UNCHANGED faults
  /\ UNCHANGED <<pending, queue, prev, file, fdOpen, nextId, closes>>

\* WorkflowSession.create throws (no key, a bad key, no file): every call that
\* waits for the shared promise is rejected, and the promise is forgotten so
\* that the next call tries again.
CreateFails ==
  /\ session = "creating"
  /\ Fault
  /\ session' = "none"
  /\ calls' = [c \in Calls |-> IF calls[c] = "waiting" THEN "rejected" ELSE calls[c]]
  /\ UNCHANGED <<pending, queue, prev, file, fdOpen, nextId, closes>>

\* A call resumes once the session is there.
Resumes(c, event) == c.event = event /\ calls[c] = "waiting" /\ session = "live"

\* handleToolStart with arguments that parse: pendActionReceipt.
StartPends(c) ==
  /\ Resumes(c, "start")
  /\ c.run \notin Malformed
  /\ pending' = pending \cup {c.run}
  /\ Settle(c, "pended")
  /\ UNCHANGED <<session, queue, prev, file, fdOpen, nextId, faults, closes>>

\* handleToolStart with arguments that do not parse: a dead letter, at once,
\* under the tool's name and with {} for arguments.
StartDeadLetters(c) ==
  /\ Resumes(c, "start")
  /\ c.run \in Malformed
  /\ Enqueue(Job(c, TRUE, TRUE))
  /\ Settle(c, Waiting)
  /\ UNCHANGED <<session, pending, prev, file, fdOpen, nextId, faults, closes>>

\* Mutant: get without delete.
TakePending_Keeps(c) == pending' = pending

\* takePendingAction: remove and return.
TakePending(c) == pending' = pending \ {c.run}

\* handleToolEnd -> finalizeActionReceipt, the action was pending.
EndFinalizes(c) ==
  /\ Resumes(c, "end")
  /\ c.run \in pending
  /\ TakePending(c)
  /\ Enqueue(Job(c, FALSE, TRUE))
  /\ Settle(c, Waiting)
  /\ UNCHANGED <<session, prev, file, fdOpen, nextId, faults, closes>>

\* The same, but the tool's output is JSON that cannot be hashed:
\* computeContentEntropyHash throws after the pending action was taken.
EndThrows(c) ==
  /\ Resumes(c, "end")
  /\ c.run \in pending
  /\ Fault
  /\ TakePending(c)
  /\ Settle(c, "rejected")
  /\ UNCHANGED <<session, queue, prev, file, fdOpen, nextId, closes>>

\* handleToolEnd, nothing pending: "receipt skipped".
EndSkips(c) ==
  /\ Resumes(c, "end")
  /\ c.run \notin pending
  /\ Settle(c, "skipped")
  /\ UNCHANGED <<session, pending, queue, prev, file, fdOpen, nextId, faults, closes>>

\* handleToolError: a dead letter with the pending name and arguments, or with
\* "unknown" and {}.
ErrorDeadLetters(c) ==
  /\ Resumes(c, "error")
  /\ TakePending(c)
  /\ Enqueue(Job(c, TRUE, c.run \in pending))
  /\ Settle(c, Waiting)
  /\ UNCHANGED <<session, prev, file, fdOpen, nextId, faults, closes>>

-----------------------------------------------------------------------------
\* The head of the queue, when it is a job not yet begun / being signed.
Begins    == queue # <<>> /\ ~Head(queue).close /\ Head(queue).draft = NoReceipt
\* Mutant: signReceipt is not awaited.
IsSigning_NotAwaited == queue # <<>> /\ ~Head(queue).close

IsSigning == queue # <<>> /\ ~Head(queue).close /\ Head(queue).draft # NoReceipt

\* The synchronous part of _doEmitActionReceipt and _doEmitDeadLetter: build
\* the receipt, chain it to prevReceipt, call signReceipt.
EmitChains ==
  /\ Begins
  /\ queue' = [queue EXCEPT ![1].draft = ChainReceipt(Unsigned(queue[1]), prev)]
  /\ nextId' = nextId + 1
  /\ UNCHANGED <<calls, session, pending, prev, file, fdOpen, faults, closes>>

\* The arguments parsed to a value that canonicalize refuses (1e999 becomes
\* Infinity) and canonicalHash throws: the job's promise is rejected, the next
\* work of the queue runs all the same.  {} is never refused.
EmitThrows ==
  /\ Begins
  /\ Head(queue).named /\ Head(queue).call.event # "start"
  /\ Fault
  /\ queue' = Tail(queue)
  /\ Settle(Head(queue).call, "rejected")
  /\ UNCHANGED <<session, pending, prev, file, fdOpen, nextId, closes>>

\* Mutant: the writer opens its file again when it finds it closed.
EmitAppends_Reopens ==
  /\ IsSigning
  /\ file' = Append(file, Head(queue).draft)
  /\ prev' = Head(queue).draft
  /\ queue' = Tail(queue)
  /\ Settle(Head(queue).call, "written")
  /\ UNCHANGED <<session, pending, fdOpen, nextId, faults, closes>>

\* signReceipt resolved: append the line, advance prevReceipt.
EmitAppends ==
  /\ IsSigning
  /\ fdOpen
  /\ file' = Append(file, Head(queue).draft)
  /\ prev' = Head(queue).draft
  /\ queue' = Tail(queue)
  /\ Settle(Head(queue).call, "written")
  /\ UNCHANGED <<session, pending, fdOpen, nextId, faults, closes>>

\* Mutant: prevReceipt is advanced before the line is written.
EmitFails_Advances ==
  /\ IsSigning
  /\ Fault
  /\ prev' = Head(queue).draft
  /\ queue' = Tail(queue)
  /\ Settle(Head(queue).call, "rejected")
  /\ UNCHANGED <<session, pending, file, fdOpen, nextId, closes>>

\* Mutant: the caller holds a promise that the work resolves and, as the tail
\* of the chain catches what it throws, nobody rejects.
EmitFails_NotTold ==
  /\ IsSigning
  /\ Fault
  /\ queue' = Tail(queue)
  /\ UNCHANGED <<calls, session, pending, prev, file, fdOpen, nextId, closes>>

\* Signing or writing fails: prevReceipt stays.
EmitFails ==
  /\ IsSigning
  /\ Fault
  /\ queue' = Tail(queue)
  /\ Settle(Head(queue).call, "rejected")
  /\ UNCHANGED <<session, pending, prev, file, fdOpen, nextId, closes>>

\* Mutant: the writer swallows the error, as its close() does.
EmitRefused_Swallowed ==
  /\ IsSigning
  /\ ~fdOpen
  /\ queue' = Tail(queue)
  /\ Settle(Head(queue).call, "written")
  /\ UNCHANGED <<session, pending, prev, file, fdOpen, nextId, faults, closes>>

\* The descriptor was closed meanwhile: writeSync throws EBADF.
EmitRefused ==
  /\ IsSigning
  /\ ~fdOpen
  /\ queue' = Tail(queue)
  /\ Settle(Head(queue).call, "badfd")
  /\ UNCHANGED <<session, pending, prev, file, fdOpen, nextId, faults, closes>>

\* Mutant: close() does not await the queue.
Close_AtOnce ==
  /\ session = "live"
  /\ closes < MaxCloses
  /\ closes' = closes + 1
  /\ fdOpen' = FALSE
  /\ UNCHANGED <<calls, session, pending, queue, prev, file, nextId, faults>>

\* handler.close() -> session.close(): await the queue as it stands.  Without a
\* session it returns at once, even while one is being created.
Close ==
  /\ session = "live"
  /\ closes < MaxCloses
  /\ closes' = closes + 1
  /\ queue' = Append(queue, CloseMarker)
  /\ UNCHANGED <<calls, session, pending, prev, file, fdOpen, nextId, faults>>

\* ... and then close the writer (fsync and close, errors ignored).
CloseWriter ==
  /\ queue # <<>>
  /\ Head(queue).close
  /\ fdOpen' = FALSE
  /\ queue' = Tail(queue)
  /\ UNCHANGED <<calls, session, pending, prev, file, nextId, faults, closes>>

-----------------------------------------------------------------------------
Init ==
  /\ calls = [c \in Calls |-> "idle"]
  /\ session = "none"
  /\ pending = {}
  /\ queue = <<>>
  /\ prev = NoReceipt
  /\ file = <<>>
  /\ fdOpen = FALSE
  /\ nextId = 1
  /\ faults = 0
  /\ closes = 0

Create == CreateSucceeds \/ CreateFails

Resume(c) ==
  \/ StartPends(c)
  \/ StartDeadLetters(c)
  \/ EndFinalizes(c)
  \/ EndThrows(c)
  \/ EndSkips(c)
  \/ ErrorDeadLetters(c)

Drain ==
  \/ EmitChains
  \/ EmitThrows
  \/ EmitAppends
  \/ EmitFails
  \/ EmitRefused
  \/ CloseWriter

Next ==
  \/ \E c \in Calls : Call(c)
  \/ Create
  \/ \E c \in Calls : Resume(c)
  \/ Drain
  \/ Close

Spec == Init /\ [][Next]_vars

\* A promise that can settle does, and the continuations behind it run: the
\* event loop does not stop while one of them can run.  Nothing is assumed of LangChain (Call)
\* or of the application (Close).
Fairness ==
  /\ WF_vars(Create)
  /\ WF_vars(\E c \in Calls : Resume(c))
  /\ WF_vars(Drain)

FairSpec == Spec /\ Fairness

-----------------------------------------------------------------------------
\* ------------------------------ properties ------------------------------

ReceiptType ==
  [id : Nat \ {0}, wf : Nat, type : {"workflow_manifest", "action_receipt"},
   seq : Nat, prev : Nat, dead : BOOLEAN, named : BOOLEAN, before : Nat,
   after : Nat, call : Calls \cup {NoCall}, enq : Nat]

JobType ==
  [close : {FALSE}, call : Calls, dead : BOOLEAN, named : BOOLEAN,
   enq : Nat, draft : ReceiptType \cup {NoReceipt}]

\* Every variable holds a value of its kind.
TypeOK ==
  /\ calls \in [Calls -> Statuses]
  /\ session \in {"none", "creating", "live"}
  /\ pending \in SUBSET Runs
  /\ queue \in Seq(JobType \cup {CloseMarker})
  /\ prev \in ReceiptType \cup {NoReceipt}
  /\ file \in Seq(ReceiptType)
  /\ fdOpen \in BOOLEAN
  /\ nextId \in Nat \ {0}
  /\ faults \in Nat
  /\ closes \in Nat

\* However calls interleave and fail, the file is one chain in the sense of
\* verifyChain: a manifest, then receipts of the same workflow, each numbered
\* and hashed after the line before it.  This is what the class comment of
\* WorkflowSession promises of the emit queue.
ChainLinked ==
  /\ file # <<>> => HeadsChain(file[1])
  /\ \A i \in 2..Len(file) : Links(file[i], file[i-1])

\* prevReceipt, which the next receipt will be chained to, is the last line of
\* the file: no failure between signing and writing moves one without the other.
PrevIsLastLine == session = "live" => file # <<>> /\ prev = file[Len(file)]

\* A handler call is told that its receipt was written exactly when the file
\* has it, and no call is written twice.
WrittenExactlyOnce ==
  /\ \A c \in Calls :
       calls[c] = "written" <=> \E i \in 1..Len(file) : file[i].call = c
  /\ \A i, j \in 1..Len(file) : file[i].call = file[j].call => i = j

\* A tool run is attested once under its own name, by a result or by a dead
\* letter, even when its end is delivered again: takePendingAction removes
\* what it returns.  (A malformed start is a dead letter per delivery.)
AttestedOnce ==
  \A i, j \in 2..Len(file) :
    /\ file[i].named /\ file[j].named
    /\ file[i].call.run = file[j].call.run
    /\ file[i].call.event # "start"
    => i = j

\* "if receipt A has state_version_after=N and receipt B has
\* state_version_before=N, causal order is provable from the receipts alone"
\* (docs/reference/contract.md:65): B then comes after A in the file.
VersionsGiveOrder ==
  \A i, j \in 2..Len(file) :
    file[i].after = file[j].before /\ i # j => i < j

\* close() waits for the work queued before it: only a call that came after
\* close() can find the descriptor closed.
CloseLosesNothingQueued ==
  [][\A c \in Calls : calls[c] = "queued" => calls'[c] # "badfd"]_vars

\* A failure stays where it happened.  The creation of a session that fails
\* rejects the calls that wait for it, any other failure the one call it is
\* about; no call is rejected for what failed before it was made or was run: a
\* rejected creation is forgotten (handler.ts:52, not "re-throwing the same
\* stale rejected promise forever") and the emit queue goes on behind a
\* rejected job.
FailuresStayLocal ==
  [][\A c \in Calls : calls[c] # "rejected" /\ calls'[c] = "rejected" =>
       /\ faults' = faults + 1
       /\ \/ session = "creating" /\ calls[c] = "waiting"
          \/ \A d \in Calls \ {c} : calls'[d] = calls[d]]_vars

\* Every handler call that was made is settled in the end, whatever failed
\* before it or under it: the caller of a job that fails is told, and no call
\* is left waiting for a session or for its turn in the queue.
CallsSettle == \A c \in Calls : calls[c] \in Unsettled ~> calls[c] \in Settled

\* The emitter implements the audit trail: the requests are the handler
\* calls, the trail is the file without its manifest.
Trail == INSTANCE AuditTrail WITH
  Requests <- Calls,
  trail    <- [i \in 1..(Len(file) - 1) |-> file[i+1].call],
  answer   <- [c \in Calls |->
                 IF calls[c] = "idle" THEN "none"
                 ELSE IF calls[c] \in Unsettled THEN "open"
                 ELSE IF calls[c] = "written" THEN "recorded" ELSE "refused"],
  sealed   <- session = "live" /\ ~fdOpen

\* Every step of the emitter is a step of the audit trail or leaves it alone.
ImplementsTrail == Trail!TrailSpec

\* "Every tool call an agent makes produces a tamper-evident, independently
\* verifiable receipt" (README.md:11-13): a run whose end was reported to the
\* handler, and for which the handler resolved, has a line in the file.
EndedRunHasReceipt ==
  \A c \in Calls :
    c.event = "end" /\ calls[c] \in {"written", "skipped"} =>
      \E i \in 1..Len(file) : file[i].call.run = c.run

=============================================================================
